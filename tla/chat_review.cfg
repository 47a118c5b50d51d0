SPECIFICATION OneKindSpec
CONSTANTS
  c1 = c1
  c2 = c2
  d1 = d1
  d2 = d2
  Calls <- OneCall
  Docs <- TwoDocs
  React = TRUE
  MaxAttempts = 2
  RequireApproval = TRUE
  OutputPolicy = TRUE
  Failures = TRUE
  Changes <- AllChanges
INVARIANT TypeOK
INVARIANT DecisionInForce
INVARIANT RepliesAreBacked
PROPERTY SourcesHaveTheirSay
PROPERTY KeepsToPath
PROPERTY CallsEnd
CHECK_DEADLOCK FALSE
