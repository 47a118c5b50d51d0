SPECIFICATION SpecAll
CONSTANTS
  s1 = s1
  s2 = s2
  r1 = r1
  r2 = r2
  c1 = c1
  a2 = a2
  None = None
  Approvals <- Requests
  Sessions <- TwoSessions
  Reviewers <- TwoReviewers
  CanReview <- SharedAndOwn
  Mortal <- OneDies
  OneAtATime <- OtherRequest
  Calls <- OneCall
  React = TRUE
  MaxAttempts = 2
  RequireApproval = TRUE
  OutputPolicy = TRUE
  Failures = TRUE
  Leaves = TRUE
INVARIANT DecidedTogether
INVARIANT ReleaseJustified
INVARIANT AuditTruthful
INVARIANT NoDecisionUnlogged
INVARIANT StreamTypeOK
INVARIANT AnnouncedIsFiled
INVARIANT ToldIsBacked
PROPERTY OnlyRacersOverride
PROPERTY KeepsPromise
PROPERTY NeverPendingAgain
PROPERTY KeepsToPath
PROPERTY StreamsEnd
CHECK_DEADLOCK FALSE
