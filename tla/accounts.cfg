SPECIFICATION FairSpec
CONSTANTS
  p1 = p1
  p2 = p2
  r1 = r1
  r2 = r2
  demo = demo
  ann = ann
  dflt = dflt
  acme = acme
  None = None
  Processes <- TwoProcesses
  Requests <- TwoRequests
  Names <- TwoNames
  Demo = demo
  Tenants <- TwoTenants
  Default = dflt
  Roles = {"admin", "user"}
  Modes = {"all", "none"}
  MaxFaults = 1
INVARIANT TypeOK
INVARIANT OpenForBusiness
INVARIANT ConfirmedIsLetIn
INVARIANT NobodyIsStranded
INVARIANT ChangesAccounted
PROPERTY ProcessesStart
CHECK_DEADLOCK FALSE
