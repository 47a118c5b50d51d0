SPECIFICATION Spec
CONSTANTS
  j1 = j1
  j2 = j2
  d1 = d1
  d2 = d2
  w1 = w1
  w2 = w2
  adm1 = adm1
  adm2 = adm2
  t1 = t1
  t2 = t2
  None = None
  Jobs <- TwoJobs
  Docs <- TwoDocs
  Direct <- Second
  Workers <- OneWorker
  Admins <- OneAdmin
  Tenants <- TwoTenants
  TenantOf <- OneEach
  Faults <- AllFaults
  Legacy = FALSE
INVARIANT TypeOK
INVARIANT CompletedIsListed
INVARIANT OneDocumentPerJob
INVARIANT ActiveIsSearchable
INVARIANT OnlyOwnTenantDeletes
PROPERTY FollowsLife
CHECK_DEADLOCK FALSE
