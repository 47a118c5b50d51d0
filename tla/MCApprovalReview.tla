-------------------------- MODULE MCApprovalReview --------------------------
\* Instances of ApprovalReview for model checking.
EXTENDS ApprovalReview

CONSTANTS s1, s2, r1, r2, a1

TwoSessions == {s1, s2}
TwoReviewers == {r1, r2}
OneRequest == {a1}

\* Every reviewer may decide the one request.
SharedByTwo == [r \in TwoReviewers |-> OneRequest]

NoneDies == {}
NoneAtATime == {}
=============================================================================
