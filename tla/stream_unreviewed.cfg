SPECIFICATION Spec
CONSTANTS
  c1 = c1
  Calls <- OneCall
  React = TRUE
  MaxAttempts = 2
  RequireApproval = TRUE
  OutputPolicy = TRUE
  Failures = FALSE
  Leaves = FALSE
INVARIANT ReviewedBeforeShown
CHECK_DEADLOCK FALSE
