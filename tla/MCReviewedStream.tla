-------------------------- MODULE MCReviewedStream --------------------------
\* Instances of ReviewedStream for model checking.
EXTENDS ReviewedStream, TLC

CONSTANTS s1, s2, r1, r2, c1, a2

OneCall == {c1}
Requests == {c1, a2}
TwoReviewers == {r1, r2}
TwoSessions == {s1, s2}
OneDies == {s1}

\* Both reviewers may decide the request of the stream, in calls that overlap; the other
\* request comes to one reviewer, in one call at a time.
SharedAndOwn == r1 :> {c1} @@ r2 :> {c1, a2}
OtherRequest == {a2}
=============================================================================
