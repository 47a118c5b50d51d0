SPECIFICATION Spec
CONSTANTS
  c1 = c1
  c2 = c2
  d1 = d1
  d2 = d2
  Calls <- OneCall
  Docs <- OneDoc
  React = TRUE
  MaxAttempts = 2
  RequireApproval = TRUE
  OutputPolicy = TRUE
  Failures = FALSE
  Changes <- AllChanges
INVARIANT AlwaysIsHonoured
CHECK_DEADLOCK FALSE
