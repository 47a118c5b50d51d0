SPECIFICATION Spec
CONSTANTS
  j1 = j1
  j2 = j2
  d1 = d1
  d2 = d2
  w1 = w1
  w2 = w2
  adm1 = adm1
  adm2 = adm2
  t1 = t1
  t2 = t2
  None = None
  Jobs <- OneJob
  Docs <- OneDoc
  Direct <- Nobody
  Workers <- OneWorker
  Admins <- OneAdmin
  Tenants <- TwoTenants
  TenantOf <- SameTenant
  Faults <- NoFaults
  Legacy = TRUE
INVARIANT ActiveIsSearchable
CHECK_DEADLOCK FALSE
