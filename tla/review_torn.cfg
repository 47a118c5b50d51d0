SPECIFICATION Spec
CONSTANTS
  s1 = s1
  s2 = s2
  r1 = r1
  r2 = r2
  a1 = a1
  None = None
  Approvals <- OneRequest
  Sessions <- TwoSessions
  Reviewers <- TwoReviewers
  CanReview <- SharedByTwo
  Mortal <- NoneDies
  OneAtATime <- NoneAtATime
INVARIANT FinalOnlyWhenApproved
CHECK_DEADLOCK FALSE
