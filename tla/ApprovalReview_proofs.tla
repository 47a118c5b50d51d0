------------------------ MODULE ApprovalReview_proofs ------------------------
(***************************************************************************)
(* Proofs about ApprovalReview for any requests, reviewers and threads.    *)
(* Safe is inductive; its parts that no run names say what a thread in the *)
(* middle of decide() may rely on.  Kept is the stronger invariant of the  *)
(* requests about which no calls overlap; it carries the refinement of     *)
(* SingleDecision.                                                         *)
(***************************************************************************)
EXTENDS ApprovalReview, TLAPS

\* A thread that loaded a decided row still finds it decided when it commits.
LoadedStays ==
  \A s \in Sessions : pc[s] = "loaded" /\ loaded[s].status \in Verdicts
                        => row[target[s]].status \in Verdicts

\* A request some thread committed to is decided.
CommittedIsDecided == \A c \in commits : row[c.approval].status \in Verdicts

\* A thread about to decide has not decided that request before.
FreshCall ==
  \A s \in Sessions : pc[s] \in {"checked", "loaded"} =>
    \A c \in commits : ~(c.thread = s /\ c.approval = target[s])

\* A thread serves one call after the other, and the second is refused: two decisions on
\* a request, of one reviewer or of two, come from two threads.
OncePerThread ==
  \A c, d \in commits : c.approval = d.approval /\ c.thread = d.thread => c = d

\* The status of a decided row is one that was committed.
StatusCommitted ==
  \A a \in Approvals : row[a].status \in Verdicts =>
    \E c \in commits : c.approval = a /\ c.verdict = row[a].status

\* A thread past its commit has it on record, and refreshed a committed status.
PastCommit ==
  \A s \in Sessions :
    /\ pc[s] \in {"committed", "refreshed"} =>
         [approval |-> target[s], thread |-> s, by |-> caller[s], verdict |-> verdict[s]] \in commits
    /\ pc[s] = "refreshed" =>
         \E c \in commits : c.approval = target[s] /\ c.verdict = seen[s]

Safe == /\ TypeOK
        /\ PendingIsBlank
        /\ LoadedStays
        /\ CommittedIsDecided
        /\ FreshCall
        /\ StatusCommitted
        /\ PastCommit
        /\ ReleaseJustified
        /\ AuditTruthful
        /\ OncePerThread

\* Where calls do not overlap, there is one at most, nobody else touches the row between
\* its check and its audit entry, and only an approved row carries an answer.
Kept == /\ \A s, t \in Sessions :
             s # t /\ pc[s] # "idle" /\ pc[t] # "idle" /\ target[s] \in OneAtATime => target[s] # target[t]
        /\ \A s \in Sessions : target[s] \in OneAtATime =>
             /\ pc[s] = "checked" => row[target[s]].status = "pending"
             /\ pc[s] = "loaded" => /\ row[target[s]].status = "pending"
                                    /\ loaded[s] = row[target[s]]
             /\ pc[s] = "refreshed" => row[target[s]].status = seen[s]
        /\ \A a \in OneAtATime : row[a].final => row[a].status = "approved"

-----------------------------------------------------------------------------
\* Types are preserved by every step of the endpoint and of the chat workflow.
LEMMA TypeStep == TypeOK /\ [Next]_vars => TypeOK'
<1> SUFFICES ASSUME TypeOK, [Next]_vars PROVE TypeOK'
    OBVIOUS
<1> USE NoneAssumption, CanReviewAssumption
        DEF TypeOK, Row, NoRow, Statuses, Verdicts, Decision, Entry
<1>1. CASE \E a \in Approvals : CreateApproval(a)
  BY <1>1 DEF CreateApproval
<1>2. CASE Arrive
  BY <1>2 DEF Arrive, Check
<1>3. ASSUME NEW s \in Sessions, Load(s) PROVE TypeOK'
  BY <1>3 DEF Load
<1>4. ASSUME NEW s \in Sessions, Commit(s) PROVE TypeOK'
  <2>1. target[s] \in Approvals /\ verdict[s] \in Verdicts
    BY <1>4 DEF Commit
  <2>2. Flush(row[target[s]], loaded[s], Decided(s)) \in Row
    BY <2>1 DEF Flush, Decided
  <2>3. row' \in [Approvals -> Row]
    BY <1>4, <2>2 DEF Commit
  <2>4. commits' \subseteq Decision
    BY <1>4, <2>1 DEF Commit
  <2> QED BY <1>4, <2>3, <2>4 DEF Commit
<1>5. ASSUME NEW s \in Sessions, Refresh(s) PROVE TypeOK'
  BY <1>5 DEF Refresh
<1>6. ASSUME NEW s \in Sessions, LogDecision(s) PROVE TypeOK'
  <2>1. audit' \subseteq Entry
    BY <1>6 DEF LogDecision
  <2> QED BY <1>6, <2>1 DEF LogDecision, Return
<1>7. ASSUME NEW s \in Sessions, Abort(s) PROVE TypeOK'
  BY <1>7 DEF Abort, Return
<1>8. CASE UNCHANGED vars
  BY <1>8 DEF vars
<1> QED BY <1>1, <1>2, <1>3, <1>4, <1>5, <1>6, <1>7, <1>8 DEF Next, Arrive, Step

\* Every value the tables and threads hold has its declared shape (TypeOK).
THEOREM TypeCorrect == Spec => []TypeOK
<1>1. Init => TypeOK
  BY CanReviewAssumption
  DEF Init, TypeOK, Row, NoRow, Statuses, Verdicts, Decision, Entry
<1> QED BY <1>1, TypeStep, PTL DEF Spec

-----------------------------------------------------------------------------
\* The committing thread leaves a decided row, justified by what it recorded.
LEMMA CommitStep ==
  ASSUME Safe, NEW s \in Sessions, Commit(s)
  PROVE  Safe'
<1> DEFINE a == target[s]
           d == [approval |-> a, thread |-> s, by |-> caller[s], verdict |-> verdict[s]]
<1>0. TypeOK /\ TypeOK'
  BY TypeStep DEF Safe, Next, Step
<1>1. /\ a \in CanReview[caller[s]] /\ a \in Approvals
      /\ verdict[s] \in Verdicts
      /\ row[a] \in Row /\ loaded[s] \in Row
  BY <1>0, CanReviewAssumption DEF Commit, TypeOK
<1>2. /\ row' = [row EXCEPT ![a] = Flush(row[a], loaded[s], Decided(s))]
      /\ commits' = commits \cup {d}
      /\ pc[s] = "loaded" /\ pc' = [pc EXCEPT ![s] = "committed"]
      /\ UNCHANGED <<caller, target, verdict, loaded, seen, audit>>
  BY DEF Commit
<1>d. d \in commits' /\ d.approval = a /\ d.by = caller[s] /\ d.verdict = verdict[s]
  BY <1>2
<1>3. \A b \in Approvals : b # a => row'[b] = row[b]
  BY <1>0, <1>2 DEF TypeOK
<1>4. /\ row'[a].status = IF verdict[s] = loaded[s].status THEN row[a].status ELSE verdict[s]
      /\ row'[a].final => verdict[s] = "approved" \/ row[a].final
  BY <1>0, <1>1, <1>2 DEF Flush, Decided, TypeOK, Row
<1>5. row'[a].status \in Verdicts
  <2>1. CASE verdict[s] = loaded[s].status
    BY <2>1, <1>1, <1>2, <1>4 DEF Safe, LoadedStays
  <2>2. CASE verdict[s] # loaded[s].status
    BY <2>2, <1>1, <1>4
  <2> QED BY <2>1, <2>2
<1>6. PendingIsBlank'
  BY <1>3, <1>5 DEF Safe, PendingIsBlank, Verdicts
<1>7. LoadedStays'
  BY <1>0, <1>2, <1>3, <1>5 DEF Safe, LoadedStays, TypeOK
<1>8. CommittedIsDecided'
  BY <1>0, <1>2, <1>3, <1>5 DEF Safe, CommittedIsDecided, TypeOK, Decision
<1>9. FreshCall'
  BY <1>0, <1>2 DEF Safe, FreshCall, TypeOK
<1>10. StatusCommitted'
  <2>1. \E c \in commits' : c.approval = a /\ c.verdict = row'[a].status
    <3>1. CASE verdict[s] # loaded[s].status
      BY <3>1, <1>4, <1>d
    <3>2. CASE verdict[s] = loaded[s].status
      BY <3>2, <1>1, <1>2, <1>4, <1>5 DEF Safe, StatusCommitted
    <3> QED BY <3>1, <3>2
  <2> QED BY <2>1, <1>2, <1>3 DEF Safe, StatusCommitted
<1>11. PastCommit'
  BY <1>0, <1>2 DEF Safe, PastCommit, TypeOK
<1>12. ReleaseJustified'
  <2>1. row'[a].final => \E c \in commits' : c.approval = a /\ c.verdict = "approved" /\ a \in CanReview[c.by]
    <3>1. CASE row[a].final
      BY <3>1, <1>1, <1>2 DEF Safe, ReleaseJustified
    <3>2. CASE row'[a].final /\ verdict[s] = "approved"
      BY <3>2, <1>1, <1>d
    <3> QED BY <3>1, <3>2, <1>4
  <2> QED BY <2>1, <1>2, <1>3 DEF Safe, ReleaseJustified
<1>13. AuditTruthful'
  BY <1>2 DEF Safe, AuditTruthful
<1>14. OncePerThread'
  BY <1>0, <1>2 DEF Safe, OncePerThread, FreshCall, TypeOK
<1> QED
  BY <1>0, <1>6, <1>7, <1>8, <1>9, <1>10, <1>11, <1>12, <1>13, <1>14 DEF Safe

\* The remaining steps commit nothing; each part of Safe that mentions what they
\* write follows from its guard.
LEMMA SafeStep == Safe /\ [Next]_vars => Safe'
<1> SUFFICES ASSUME Safe, [Next]_vars PROVE Safe'
    OBVIOUS
<1>0. TypeOK /\ TypeOK'
  BY TypeStep DEF Safe
<1>1. ASSUME NEW a \in Approvals, CreateApproval(a) PROVE Safe'
  <2>1. /\ \A b \in Approvals : b # a => row'[b] = row[b]
        /\ row'[a].status = "pending" /\ row'[a].final = row[a].final /\ row'[a].by = row[a].by
        /\ row[a].status = "absent"
        /\ UNCHANGED <<pc, caller, target, verdict, loaded, seen, audit, commits>>
    BY <1>0, <1>1 DEF CreateApproval, TypeOK, Row
  <2>2. PendingIsBlank' /\ StatusCommitted' /\ ReleaseJustified'
    BY <2>1 DEF Safe, PendingIsBlank, StatusCommitted, ReleaseJustified, Verdicts
  <2>3. \A b \in Approvals : row[b].status \in Verdicts => row'[b].status \in Verdicts
    BY <2>1 DEF Verdicts
  <2>4. LoadedStays'
    BY <2>1, <2>3, <1>0, CanReviewAssumption DEF Safe, LoadedStays, TypeOK
  <2>5. CommittedIsDecided'
    BY <2>1, <2>3, <1>0 DEF Safe, CommittedIsDecided, TypeOK, Decision
  <2>6. FreshCall' /\ PastCommit' /\ AuditTruthful' /\ OncePerThread'
    BY <2>1 DEF Safe, FreshCall, PastCommit, AuditTruthful, OncePerThread
  <2> QED BY <1>0, <2>2, <2>4, <2>5, <2>6 DEF Safe
<1>2. ASSUME NEW s \in Sessions, NEW r \in Reviewers, NEW a \in Approvals, NEW v \in Verdicts,
             Check(s, r, a, v)
      PROVE  Safe'
  <2>1. UNCHANGED <<row, loaded, seen, audit, commits>>
    BY <1>2 DEF Check
  <2>2. FreshCall'
    BY <1>0, <1>2 DEF Check, Safe, FreshCall, CommittedIsDecided, TypeOK, Verdicts
  <2>3. LoadedStays' /\ PastCommit'
    BY <1>0, <1>2 DEF Check, Safe, LoadedStays, PastCommit, TypeOK
  <2>4. PendingIsBlank' /\ CommittedIsDecided' /\ StatusCommitted' /\ ReleaseJustified'
        /\ AuditTruthful' /\ OncePerThread'
    BY <2>1 DEF Safe, PendingIsBlank, CommittedIsDecided, StatusCommitted,
                ReleaseJustified, AuditTruthful, OncePerThread
  <2> QED BY <1>0, <2>2, <2>3, <2>4 DEF Safe
<1>3. ASSUME NEW s \in Sessions, Load(s) PROVE Safe'
  <2>1. UNCHANGED <<row, caller, target, verdict, seen, audit, commits>>
    BY <1>3 DEF Load
  <2>2. LoadedStays' /\ FreshCall' /\ PastCommit'
    BY <1>0, <1>3 DEF Load, Safe, LoadedStays, FreshCall, PastCommit, TypeOK
  <2>3. PendingIsBlank' /\ CommittedIsDecided' /\ StatusCommitted' /\ ReleaseJustified'
        /\ AuditTruthful' /\ OncePerThread'
    BY <2>1 DEF Safe, PendingIsBlank, CommittedIsDecided, StatusCommitted,
                ReleaseJustified, AuditTruthful, OncePerThread
  <2> QED BY <1>0, <2>2, <2>3 DEF Safe
<1>4. ASSUME NEW s \in Sessions, Commit(s) PROVE Safe'
  BY <1>4, CommitStep
<1>5. ASSUME NEW s \in Sessions, Refresh(s) PROVE Safe'
  <2>1. UNCHANGED <<row, caller, target, verdict, loaded, audit, commits>>
    BY <1>5 DEF Refresh
  <2>2. \E c \in commits : c.approval = target[s] /\ c.verdict = row[target[s]].status
    <3>1. [approval |-> target[s], thread |-> s, by |-> caller[s], verdict |-> verdict[s]] \in commits
      BY <1>5 DEF Refresh, Safe, PastCommit
    <3>2. target[s] \in Approvals /\ row[target[s]].status \in Verdicts
      BY <3>1, <1>0 DEF Safe, CommittedIsDecided, TypeOK, Decision
    <3> QED BY <3>2 DEF Safe, StatusCommitted
  <2>3. PastCommit'
    BY <1>0, <1>5, <2>2 DEF Refresh, Safe, PastCommit, TypeOK
  <2>4. LoadedStays' /\ FreshCall'
    BY <1>0, <1>5 DEF Refresh, Safe, LoadedStays, FreshCall, TypeOK
  <2>5. PendingIsBlank' /\ CommittedIsDecided' /\ StatusCommitted' /\ ReleaseJustified'
        /\ AuditTruthful' /\ OncePerThread'
    BY <2>1 DEF Safe, PendingIsBlank, CommittedIsDecided, StatusCommitted,
                ReleaseJustified, AuditTruthful, OncePerThread
  <2> QED BY <1>0, <2>3, <2>4, <2>5 DEF Safe
<1>6. ASSUME NEW s \in Sessions, LogDecision(s) PROVE Safe'
  <2>1. UNCHANGED <<row, commits>>
    BY <1>6 DEF LogDecision
  <2>2. AuditTruthful'
    <3> DEFINE n == [approval |-> target[s], thread |-> s, by |-> caller[s],
                     verdict |-> verdict[s], outcome |-> seen[s]]
    <3>1. audit' = audit \cup {n} /\ pc[s] = "refreshed"
      BY <1>6 DEF LogDecision
    <3>2. /\ [approval |-> n.approval, thread |-> n.thread, by |-> n.by, verdict |-> n.verdict] \in commits
          /\ \E c \in commits : c.approval = n.approval /\ c.verdict = n.outcome
      BY <3>1 DEF Safe, PastCommit
    <3> HIDE DEF n
    <3> QED BY <3>1, <3>2, <2>1 DEF Safe, AuditTruthful
  <2>3. LoadedStays' /\ FreshCall' /\ PastCommit'
    BY <1>0, <1>6 DEF LogDecision, Return, Safe, LoadedStays, FreshCall, PastCommit, TypeOK
  <2>4. PendingIsBlank' /\ CommittedIsDecided' /\ StatusCommitted' /\ ReleaseJustified'
        /\ OncePerThread'
    BY <2>1 DEF Safe, PendingIsBlank, CommittedIsDecided, StatusCommitted,
                ReleaseJustified, OncePerThread
  <2> QED BY <1>0, <2>2, <2>3, <2>4 DEF Safe
<1>7. ASSUME NEW s \in Sessions, Abort(s) PROVE Safe'
  <2>1. UNCHANGED <<row, audit, commits>>
    BY <1>7 DEF Abort
  <2>2. LoadedStays' /\ FreshCall' /\ PastCommit'
    BY <1>0, <1>7 DEF Abort, Return, Safe, LoadedStays, FreshCall, PastCommit, TypeOK
  <2>3. PendingIsBlank' /\ CommittedIsDecided' /\ StatusCommitted' /\ ReleaseJustified'
        /\ AuditTruthful' /\ OncePerThread'
    BY <2>1 DEF Safe, PendingIsBlank, CommittedIsDecided, StatusCommitted,
                ReleaseJustified, AuditTruthful, OncePerThread
  <2> QED BY <1>0, <2>2, <2>3 DEF Safe
<1>8. CASE UNCHANGED vars
  BY <1>0, <1>8 DEF vars, Safe, PendingIsBlank, LoadedStays, CommittedIsDecided, FreshCall,
     StatusCommitted, PastCommit, ReleaseJustified, AuditTruthful, OncePerThread
<1> QED BY <1>1, <1>2, <1>3, <1>4, <1>5, <1>6, <1>7, <1>8 DEF Next, Arrive, Step

\* The inductive invariant holds in every reachable state.
LEMMA SafeInit == Init => Safe
<1>1. Init => TypeOK
  BY CanReviewAssumption
  DEF Init, TypeOK, Row, NoRow, Statuses, Verdicts, Decision, Entry
<1> QED BY <1>1 DEF Init, NoRow, Verdicts, Safe, PendingIsBlank, LoadedStays,
           CommittedIsDecided, FreshCall, StatusCommitted, PastCommit, ReleaseJustified,
           AuditTruthful, OncePerThread

LEMMA SafeInvariant == Spec => []Safe
<1> QED BY SafeInit, SafeStep, PTL DEF Spec

\* No interleaving and no crash releases an answer that nobody with access approved.
THEOREM ReleasesAreJustified == Spec => []ReleaseJustified
<1>1. Safe => ReleaseJustified
  BY DEF Safe
<1> QED BY <1>1, SafeInvariant, PTL

\* The audit trail reports committed decisions and chosen outcomes only.
THEOREM AuditIsTruthful == Spec => []AuditTruthful
<1>1. Safe => AuditTruthful
  BY DEF Safe
<1> QED BY <1>1, SafeInvariant, PTL

-----------------------------------------------------------------------------
\* A step at a request with a committed decision: it is not pending, so no call is let in;
\* its row is written by a commit, after which that call is no longer deciding.
LEMMA OverrideStep ==
  ASSUME Safe, [Next]_vars, NEW c \in commits
  PROVE  /\ Deciding(c.approval)' \subseteq Deciding(c.approval)
         /\ row'[c.approval] # row[c.approval] => Deciding(c.approval)' # Deciding(c.approval)
<1> DEFINE a == c.approval
<1>0. TypeOK /\ a \in Approvals /\ row[a].status \in Verdicts
  BY DEF Safe, TypeOK, CommittedIsDecided, Decision
<1>1. ASSUME NEW b \in Approvals, CreateApproval(b)
      PROVE  Deciding(a)' = Deciding(a) /\ row'[a] = row[a]
  BY <1>0, <1>1 DEF CreateApproval, Deciding, TypeOK, Verdicts
<1>2. ASSUME NEW s \in Sessions, NEW r \in Reviewers, NEW b \in Approvals, NEW v \in Verdicts,
             Check(s, r, b, v)
      PROVE  Deciding(a)' \subseteq Deciding(a) /\ row'[a] = row[a]
  BY <1>0, <1>2 DEF Check, Deciding, TypeOK, Verdicts
<1>3. ASSUME NEW s \in Sessions, Load(s) PROVE Deciding(a)' \subseteq Deciding(a) /\ row'[a] = row[a]
  BY <1>0, <1>3 DEF Load, Deciding, TypeOK
<1>4. ASSUME NEW s \in Sessions, Commit(s)
      PROVE  /\ Deciding(a)' \subseteq Deciding(a)
             /\ row'[a] # row[a] => s \in Deciding(a) /\ s \notin Deciding(a)'
  <2>1. /\ pc[s] = "loaded" /\ pc' = [pc EXCEPT ![s] = "committed"] /\ target' = target
        /\ row' = [row EXCEPT ![target[s]] = Flush(row[target[s]], loaded[s], Decided(s))]
    BY <1>4 DEF Commit
  <2>2. \A t \in Sessions : pc'[t] \in {"checked", "loaded"} => t # s /\ pc'[t] = pc[t]
    BY <1>0, <2>1 DEF TypeOK
  <2>3. row'[a] # row[a] => target[s] = a
    BY <1>0, <2>1 DEF TypeOK
  <2> QED
    BY <2>1, <2>2, <2>3 DEF Deciding
<1>5. ASSUME NEW s \in Sessions, Refresh(s) \/ LogDecision(s) \/ Abort(s)
      PROVE  Deciding(a)' \subseteq Deciding(a) /\ row'[a] = row[a]
  BY <1>0, <1>5 DEF Refresh, LogDecision, Abort, Return, Deciding, TypeOK
<1>6. CASE UNCHANGED vars
  BY <1>6 DEF vars, Deciding
<1> QED
  BY <1>1, <1>2, <1>3, <1>4, <1>5, <1>6 DEF Next, Arrive, Step

\* Of any number of calls of any number of reviewers only those that passed the check
\* before the first decision may override it, each of them once (decide()).
THEOREM DecisionsBecomeFinal == Spec => OnlyRacersOverride
<1>1. Safe /\ [Next]_vars =>
        [\A c \in commits :
           /\ Deciding(c.approval)' \subseteq Deciding(c.approval)
           /\ row'[c.approval] # row[c.approval] => Deciding(c.approval)' # Deciding(c.approval)]_vars
  BY OverrideStep
<1> QED BY <1>1, SafeInvariant, PTL DEF Spec, OnlyRacersOverride

-----------------------------------------------------------------------------
\* What a thread loaded of a request was whole when it loaded it, and is out of date only
\* as long as reviewers agree on what follows.
LoadedWhole ==
  \A s \in Sessions : pc[s] = "loaded" =>
    /\ loaded[s].status \notin Verdicts => ~loaded[s].final /\ loaded[s].by = None
    /\ loaded[s].status \in Verdicts /\ Undisputed(target[s]) => Agrees(target[s], loaded[s])

Whole == LoadedWhole /\ \A a \in Approvals :
           row[a].status \in Verdicts /\ Undisputed(a) => Agrees(a, row[a])

\* Decisions are added only: what is undisputed was so before, and what agreed still does.
LEMMA AgreementGrows ==
  ASSUME commits \subseteq commits', NEW a, NEW r
  PROVE  /\ Undisputed(a)' => Undisputed(a)
         /\ Agrees(a, r) => Agrees(a, r)'
  BY DEF Undisputed, Agrees

\* The UPDATE of one thread: if the row had been decided when it was loaded, an agreeing
\* verdict changes the reviewer at most; if it was pending then, it sets all that differs.
LEMMA CommitKeepsWhole ==
  ASSUME Safe, Whole, NEW s \in Sessions, Commit(s)
  PROVE  Whole'
<1>0. TypeOK /\ TypeOK'
  BY TypeStep DEF Safe, Next, Step
<1>a. PICK a \in Approvals : a = target[s]
  BY <1>0, CanReviewAssumption DEF Commit, TypeOK
<1>v. PICK v \in Verdicts : v = verdict[s]
  BY <1>0 DEF Commit, TypeOK
<1> DEFINE d == [approval |-> a, thread |-> s, by |-> caller[s], verdict |-> v]
<1>1. row[a] \in Row /\ loaded[s] \in Row
  BY <1>0 DEF TypeOK
<1>2. /\ row' = [row EXCEPT ![a] = Flush(row[a], loaded[s], Decided(s))]
      /\ commits' = commits \cup {d}
      /\ pc[s] = "loaded" /\ pc' = [pc EXCEPT ![s] = "committed"]
      /\ UNCHANGED <<caller, target, verdict, loaded, seen, audit>>
  BY <1>a, <1>v DEF Commit
<1>3. /\ d \in commits' /\ commits \subseteq commits'
      /\ d.approval = a /\ d.verdict = v /\ d.by = caller[s]
  BY <1>2
<1>4. \A b \in Approvals : b # a => row'[b] = row[b]
  BY <1>0, <1>2 DEF TypeOK
<1>5. /\ row'[a].status = IF v = loaded[s].status THEN row[a].status ELSE v
      /\ row'[a].final = IF (v = "approved") = loaded[s].final THEN row[a].final ELSE v = "approved"
      /\ row'[a].by = IF caller[s] = loaded[s].by THEN row[a].by ELSE caller[s]
  BY <1>0, <1>1, <1>2, <1>v DEF Flush, Decided, TypeOK, Row
<1>6. \A t \in Sessions : pc'[t] = "loaded" => t # s /\ pc[t] = "loaded"
  BY <1>0, <1>2 DEF TypeOK
<1>7. LoadedWhole'
  BY <1>2, <1>3, <1>6, AgreementGrows DEF Whole, LoadedWhole
<1>8. ASSUME Undisputed(a)' PROVE Agrees(a, row[a])'
  <2>1. \A c \in commits' : c.approval = a => c.verdict = v
    BY <1>3, <1>8 DEF Undisputed
  <2>2. Undisputed(a)
    BY <1>3, <1>8 DEF Undisputed
  <2>3. row[a].status \in Verdicts => row[a].status = v /\ Agrees(a, row[a])
    <3>1. ASSUME row[a].status \in Verdicts PROVE \E c \in commits : c.approval = a /\ c.verdict = row[a].status
      BY <1>1, <3>1 DEF Safe, StatusCommitted
    <3> QED
      BY <1>1, <1>3, <2>1, <2>2, <3>1 DEF Whole
  <2>4. row[a].status \notin Verdicts => ~row[a].final
    BY <1>1 DEF Safe, PendingIsBlank, Row, Statuses
  <2>5. CASE loaded[s].status \notin Verdicts
    <3>1. ~loaded[s].final /\ loaded[s].by = None /\ caller[s] # None
      BY <1>0, <1>2, <2>5, NoneAssumption DEF Whole, LoadedWhole, TypeOK
    <3>2. row'[a].status = v /\ row'[a].by = caller[s]
      BY <1>1, <1>5, <2>5, <3>1
    <3>3. row'[a].final = (v = "approved")
      <4>1. CASE v = "approved"
        <5>1. loaded[s].final = FALSE /\ (v = "approved") = TRUE
          BY <1>1, <3>1, <4>1 DEF Row
        <5> QED
          BY <1>5, <5>1
      <4>2. CASE v # "approved"
        <5>1. row'[a].final = row[a].final
          <6>1. loaded[s].final = FALSE /\ (v = "approved") = FALSE
            BY <1>1, <3>1, <4>2 DEF Row
          <6> QED
            BY <1>5, <6>1
        <5>2. row[a].final = FALSE /\ (v = "approved") = FALSE
          BY <1>1, <2>3, <2>4, <4>2 DEF Agrees, Row
        <5> QED
          BY <5>1, <5>2
      <4> QED
        BY <4>1, <4>2
    <3> QED
      BY <1>3, <3>2, <3>3 DEF Agrees
  <2>6. CASE loaded[s].status \in Verdicts
    <3>1. Agrees(a, loaded[s])
      BY <1>2, <1>a, <2>2, <2>6 DEF Whole, LoadedWhole
    <3>2. loaded[s].status = v
      BY <1>3, <2>1, <3>1 DEF Agrees
    <3>3. row[a].status \in Verdicts
      BY <1>2, <1>a, <2>6 DEF Safe, LoadedStays
    <3>4. row'[a].status = v /\ row'[a].final = (v = "approved")
      <4>1. row[a].status = v /\ row[a].final = (v = "approved")
        BY <2>3, <3>3 DEF Agrees
      <4>2. row'[a].status = row[a].status
        BY <1>5, <3>2
      <4>3. row'[a].final = row[a].final \/ row'[a].final = (v = "approved")
        BY <1>5
      <4> QED
        BY <4>1, <4>2, <4>3
    <3>5. row'[a].by \in {caller[s], row[a].by}
      BY <1>5
    <3>6. \E c \in commits' : c.approval = a /\ c.verdict = v /\ c.by = row'[a].by
      BY <1>3, <2>3, <3>3, <3>5 DEF Agrees
    <3> QED
      BY <3>4, <3>6 DEF Agrees
  <2> QED
    BY <2>5, <2>6
<1>9. \A b \in Approvals : row'[b].status \in Verdicts /\ Undisputed(b)' => Agrees(b, row[b])'
  BY <1>3, <1>4, <1>8, AgreementGrows DEF Whole
<1> QED
  BY <1>7, <1>9 DEF Whole

\* The other steps decide nothing; a thread loads a row as it is.
LEMMA WholeStep == Safe /\ Whole /\ [Next]_vars => Whole'
<1> SUFFICES ASSUME Safe, Whole, [Next]_vars PROVE Whole'
  OBVIOUS
<1>0. TypeOK
  BY DEF Safe
<1>1. ASSUME NEW s \in Sessions, Commit(s) PROVE Whole'
  BY <1>1, CommitKeepsWhole
<1>2. ASSUME NEW a \in Approvals, CreateApproval(a) PROVE Whole'
  <2>1. /\ UNCHANGED <<pc, target, loaded, commits>>
        /\ row'[a].status = "pending" /\ \A b \in Approvals : b # a => row'[b] = row[b]
    BY <1>0, <1>2 DEF CreateApproval, TypeOK, Row
  <2> QED
    BY <2>1 DEF Whole, LoadedWhole, Undisputed, Agrees, Verdicts
<1>3. ASSUME NEW s \in Sessions, Load(s) PROVE Whole'
  <2>1. /\ UNCHANGED <<row, target, commits>> /\ loaded'[s] = row[target[s]]
        /\ target[s] \in Approvals
        /\ \A t \in Sessions : t # s => loaded'[t] = loaded[t] /\ pc'[t] = pc[t]
    BY <1>0, <1>3, CanReviewAssumption DEF Load, TypeOK
  <2>2. row[target[s]].status \notin Verdicts => row[target[s]].status \in {"absent", "pending"}
    BY <1>0, <2>1 DEF TypeOK, Row, Statuses
  <2> QED
    BY <2>1, <2>2 DEF Safe, PendingIsBlank, Whole, LoadedWhole, Undisputed, Agrees
<1>4. ASSUME NEW s \in Sessions, NEW r \in Reviewers, NEW a \in Approvals, NEW v \in Verdicts,
             Check(s, r, a, v) PROVE Whole'
  <2>1. /\ UNCHANGED <<row, loaded, commits>>
        /\ \A t \in Sessions : pc'[t] = "loaded" => pc[t] = "loaded" /\ target'[t] = target[t]
    BY <1>0, <1>4 DEF Check, TypeOK
  <2> QED
    BY <2>1 DEF Whole, LoadedWhole, Undisputed, Agrees
<1>5. ASSUME NEW s \in Sessions, Refresh(s) \/ LogDecision(s) \/ Abort(s) PROVE Whole'
  <2>1. /\ UNCHANGED <<row, commits>>
        /\ \A t \in Sessions : pc'[t] = "loaded" => pc[t] = "loaded" /\ target'[t] = target[t] /\ loaded'[t] = loaded[t]
    BY <1>0, <1>5 DEF Refresh, LogDecision, Abort, Return, TypeOK
  <2> QED
    BY <2>1 DEF Whole, LoadedWhole, Undisputed, Agrees
<1>6. CASE UNCHANGED vars
  BY <1>6 DEF vars, Whole, LoadedWhole, Undisputed, Agrees
<1> QED
  BY <1>1, <1>2, <1>3, <1>4, <1>5, <1>6 DEF Next, Arrive, Step

LEMMA WholeInvariant == Spec => []Whole
<1>1. Init => Whole
  BY DEF Init, NoRow, Verdicts, Whole, LoadedWhole
<1> QED
  BY <1>1, SafeInvariant, WholeStep, PTL DEF Spec

\* A row carries a reviewer and an answer only once it is decided, and as long as nobody
\* disagrees it is decided as a whole, however the column-wise UPDATEs of any number of
\* threads interleave and whoever of them dies (update_approval()).
THEOREM RowsAreDecidedWhole == Spec => []DecidedTogether
<1>1. Safe /\ Whole => DecidedTogether
  BY DEF Safe, Whole, DecidedTogether
<1> QED BY <1>1, SafeInvariant, WholeInvariant, PTL

\* The torn rows of review_torn have one cause only: a request that is not approved keeps
\* an answer where two calls, the approving one's user with access, committed different
\* verdicts from two threads; both may be of one reviewer.
TornIsDisputed ==
  \A a \in Approvals : row[a].final /\ row[a].status # "approved" =>
    \E c, d \in commits : /\ c.approval = a /\ c.verdict = "approved" /\ a \in CanReview[c.by]
                          /\ d.approval = a /\ d.verdict = "rejected" /\ c.thread # d.thread

THEOREM TornRowsAreDisputed == Spec => []TornIsDisputed
<1>1. ASSUME Safe, NEW a \in Approvals, row[a].final, row[a].status # "approved"
      PROVE  \E c, d \in commits : /\ c.approval = a /\ c.verdict = "approved" /\ a \in CanReview[c.by]
                                   /\ d.approval = a /\ d.verdict = "rejected" /\ c.thread # d.thread
  <2>1. PICK c \in commits : c.approval = a /\ c.verdict = "approved" /\ a \in CanReview[c.by]
    BY <1>1 DEF Safe, ReleaseJustified
  <2>2. row[a].status = "rejected"
    BY <1>1 DEF Safe, TypeOK, Row, Statuses, Verdicts, PendingIsBlank
  <2>3. PICK d \in commits : d.approval = a /\ d.verdict = "rejected"
    BY <1>1, <2>2 DEF Safe, StatusCommitted, Verdicts
  <2>4. c.thread # d.thread
    BY <1>1, <2>1, <2>3 DEF Safe, OncePerThread
  <2> QED
    BY <2>1, <2>3, <2>4
<1>2. Safe => TornIsDisputed
  BY <1>1 DEF TornIsDisputed
<1> QED
  BY <1>2, SafeInvariant, PTL

-----------------------------------------------------------------------------
\* What a thread commits when nobody touched its row since it was loaded.
LEMMA UndisturbedCommit ==
  ASSUME Safe, Kept, NEW s \in Sessions, Commit(s), target[s] \in OneAtATime
  PROVE  /\ row[target[s]].status = "pending" /\ ~row[target[s]].final
         /\ row' = [row EXCEPT ![target[s]] = Decided(s)]
<1>1. /\ target[s] \in Approvals /\ verdict[s] \in Verdicts /\ caller[s] \in Reviewers
      /\ row[target[s]] \in Row
  BY CanReviewAssumption DEF Commit, Safe, TypeOK
<1>2. /\ row[target[s]].status = "pending" /\ loaded[s] = row[target[s]]
      /\ row[target[s]].final = FALSE /\ row[target[s]].by = None
  BY <1>1 DEF Commit, Kept, Safe, PendingIsBlank, Row
<1>3. Flush(row[target[s]], loaded[s], Decided(s)) = Decided(s)
  <2>1. Decided(s).by # None
    BY <1>1, NoneAssumption DEF Decided
  <2> QED BY <1>1, <1>2, <2>1 DEF Flush, Decided, Verdicts
<1> QED BY <1>1, <1>2, <1>3 DEF Commit

\* Every step keeps what ties the calls about a request of OneAtATime to the promise.
LEMMA KeptStep ==
  ASSUME Safe, Kept, [Next]_vars
  PROVE  Kept'
<1>0. TypeOK /\ TypeOK'
  BY TypeStep DEF Safe
<1>s. OneAtATime \subseteq Approvals
  BY OneAtATimeAssumption
<1>1. ASSUME NEW a \in Approvals, CreateApproval(a) PROVE Kept'
  <2>1. /\ \A b \in Approvals : b # a => row'[b] = row[b]
        /\ row'[a].status = "pending" /\ row'[a].final = row[a].final
        /\ row[a].status = "absent" /\ ~row[a].final
        /\ UNCHANGED <<pc, target, loaded, seen>>
    BY <1>0, <1>1 DEF CreateApproval, TypeOK, Row, Safe, PendingIsBlank
  <2>2. \A s \in Sessions : pc[s] = "refreshed" => row[target[s]].status # "absent"
    BY DEF Safe, PastCommit, CommittedIsDecided, Verdicts
  <2> QED BY <1>0, <1>s, <2>1, <2>2, CanReviewAssumption DEF Kept, TypeOK
<1>2. ASSUME NEW s \in Sessions, NEW r \in Reviewers, NEW a \in Approvals, NEW v \in Verdicts,
             a \in OneAtATime => \A t \in Sessions : pc[t] # "idle" => target[t] # a,
             Check(s, r, a, v)
      PROVE  Kept'
  BY <1>0, <1>2 DEF Check, Kept, TypeOK
<1>3. ASSUME NEW s \in Sessions, Load(s) PROVE Kept'
  BY <1>0, <1>3 DEF Load, Kept, TypeOK
<1>4. ASSUME NEW s \in Sessions, Commit(s) PROVE Kept'
  <2>1. /\ target[s] \in Approvals
        /\ row' = [row EXCEPT ![target[s]] = Flush(row[target[s]], loaded[s], Decided(s))]
        /\ pc[s] = "loaded" /\ pc' = [pc EXCEPT ![s] = "committed"]
        /\ UNCHANGED <<target, loaded, seen>>
    BY <1>0, <1>4, CanReviewAssumption DEF Commit, TypeOK
  <2>2. \A t \in Sessions : t # s /\ pc[t] # "idle" /\ target[t] \in OneAtATime => target[t] # target[s]
    BY <2>1 DEF Kept
  <2>3. \A b \in Approvals : b # target[s] => row'[b] = row[b]
    BY <1>0, <2>1 DEF TypeOK
  <2>4. \A t \in Sessions : t # s /\ pc[t] # "idle" /\ target[t] \in OneAtATime => row'[target[t]] = row[target[t]]
    BY <1>s, <2>2, <2>3
  <2>5. \A b \in OneAtATime : row'[b].final => row'[b].status = "approved"
    <3>1. CASE target[s] \notin OneAtATime
      BY <3>1, <1>s, <2>3 DEF Kept
    <3>2. CASE target[s] \in OneAtATime
      <4>1. row'[target[s]] = Decided(s)
        BY <1>0, <1>4, <2>1, <3>2, UndisturbedCommit DEF TypeOK
      <4>2. Decided(s).final => Decided(s).status = "approved"
        BY DEF Decided
      <4> QED BY <1>s, <2>3, <4>1, <4>2 DEF Kept
    <3> QED BY <3>1, <3>2
  <2> QED BY <1>0, <2>1, <2>4, <2>5 DEF Kept, TypeOK
<1>5. ASSUME NEW s \in Sessions, Refresh(s) PROVE Kept'
  BY <1>0, <1>5 DEF Refresh, Kept, TypeOK
<1>6. ASSUME NEW s \in Sessions, LogDecision(s) PROVE Kept'
  BY <1>0, <1>6 DEF LogDecision, Return, Kept, TypeOK
<1>7. ASSUME NEW s \in Sessions, Abort(s) PROVE Kept'
  BY <1>0, <1>7 DEF Abort, Return, Kept, TypeOK
<1>8. CASE UNCHANGED vars
  BY <1>8 DEF vars, Kept
<1> QED BY <1>1, <1>2, <1>3, <1>4, <1>5, <1>6, <1>7, <1>8 DEF Next, Arrive, Step

\* Each step of the endpoint is a step of SingleDecision or leaves it unchanged.
LEMMA PromiseStep ==
  ASSUME Safe, Kept, [Next]_vars
  PROVE  [Promise!Next]_(Promise!vars)
<1>0. TypeOK
  BY DEF Safe
<1>s. OneAtATime \subseteq Approvals
  BY OneAtATimeAssumption
<1> USE DEF Promise!vars
<1>1. ASSUME NEW a \in OneAtATime, CreateApproval(a) PROVE Promise!Submit(a)
  <2>0. \A b \in Approvals : row'[b].status = IF b = a THEN "pending" ELSE row[b].status
    BY <1>0, <1>1, <1>s DEF CreateApproval, TypeOK, Row
  <2>1. [b \in OneAtATime |-> row'[b].status]
          = [[b \in OneAtATime |-> row[b].status] EXCEPT ![a] = "pending"]
    BY <2>0, <1>s
  <2>2. {b \in OneAtATime : row'[b].final} = {b \in OneAtATime : row[b].final}
    BY <1>0, <1>1, <1>s DEF CreateApproval, TypeOK, Row
  <2> QED BY <1>1, <2>1, <2>2 DEF CreateApproval, Promise!Submit
<1>2. ASSUME NEW s \in Sessions, Commit(s), NEW a \in OneAtATime, a = target[s], NEW v, v = verdict[s]
      PROVE  Promise!Decide(a, v)
  <2>1. /\ row[a].status = "pending" /\ ~row[a].final
        /\ row' = [row EXCEPT ![a] = Decided(s)]
    BY <1>2, UndisturbedCommit
  <2>2. [b \in OneAtATime |-> row'[b].status]
          = [[b \in OneAtATime |-> row[b].status] EXCEPT ![a] = v]
    BY <1>0, <1>2, <1>s, <2>1 DEF Decided, TypeOK
  <2>3. {b \in OneAtATime : row'[b].final}
          = IF v = "approved" THEN {b \in OneAtATime : row[b].final} \cup {a}
            ELSE {b \in OneAtATime : row[b].final}
    BY <1>0, <1>2, <1>s, <2>1 DEF Decided, TypeOK
  <2>4. audit' = audit
    BY <1>2 DEF Commit
  <2> QED BY <1>2, <2>1, <2>2, <2>3, <2>4 DEF Promise!Decide
<1>3. ASSUME NEW s \in Sessions, LogDecision(s), NEW a \in OneAtATime, a = target[s]
      PROVE  Promise!Record(a)
  <2> DEFINE n == [approval |-> target[s], thread |-> s, by |-> caller[s],
                   verdict |-> verdict[s], outcome |-> seen[s]]
             own(log) == {x \in log : x.approval \in OneAtATime}
  <2>1. audit' = audit \cup {n} /\ row' = row /\ pc[s] = "refreshed"
    BY <1>3 DEF LogDecision
  <2>2. /\ row[a].status = seen[s]
        /\ row[a].status \in Verdicts
    <3>1. [approval |-> a, thread |-> s, by |-> caller[s], verdict |-> verdict[s]] \in commits
      BY <2>1, <1>3 DEF Safe, PastCommit
    <3>2. row[a].status \in Verdicts
      BY <3>1 DEF Safe, CommittedIsDecided
    <3>3. row[a].status = seen[s]
      BY <2>1, <1>3 DEF Kept
    <3> QED BY <3>2, <3>3
  <2>3. n.approval = a /\ n.outcome = seen[s]
    BY <1>3
  <2> HIDE DEF n
  <2>4. {<<e.approval, e.outcome>> : e \in own(audit')}
          = {<<e.approval, e.outcome>> : e \in own(audit)} \cup {<<a, seen[s]>>}
    BY <2>1, <2>3
  <2> QED BY <1>3, <2>1, <2>2, <2>4 DEF Promise!Record, Promise!Verdicts, Verdicts
<1>4. ASSUME UNCHANGED <<row, audit>> PROVE UNCHANGED Promise!vars
  BY <1>4
<1>5. ASSUME NEW a \in Approvals, CreateApproval(a)
      PROVE  Promise!Next \/ UNCHANGED Promise!vars
  <2>1. CASE a \in OneAtATime
    BY <1>1, <1>5, <2>1 DEF Promise!Next
  <2>2. CASE a \notin OneAtATime
    BY <1>0, <1>5, <1>s, <2>2 DEF CreateApproval, TypeOK
  <2> QED BY <2>1, <2>2
<1>6. ASSUME NEW s \in Sessions, Step(s) \/ Abort(s)
      PROVE  Promise!Next \/ UNCHANGED Promise!vars
  <2>1. pc[s] # "idle" => target[s] \in Approvals /\ verdict[s] \in Promise!Verdicts
    BY <1>0, CanReviewAssumption DEF TypeOK, Promise!Verdicts, Verdicts
  <2>2. CASE Commit(s) /\ target[s] \in OneAtATime
    <3>1. PICK a \in OneAtATime, v \in Promise!Verdicts : a = target[s] /\ v = verdict[s]
      BY <2>1, <2>2 DEF Commit
    <3>2. Promise!Decide(a, v)
      BY <1>2, <2>2, <3>1
    <3> QED BY <3>2 DEF Promise!Next
  <2>3. CASE Commit(s) /\ target[s] \notin OneAtATime
    <3>1. \A b \in OneAtATime : row'[b] = row[b]
      BY <1>0, <1>s, <2>1, <2>3 DEF Commit, TypeOK
    <3> QED BY <2>3, <3>1 DEF Commit
  <2>4. CASE LogDecision(s) /\ target[s] \in OneAtATime
    <3>1. PICK a \in OneAtATime : a = target[s]
      BY <2>4
    <3>2. Promise!Record(a)
      BY <1>3, <2>4, <3>1
    <3> QED BY <3>2 DEF Promise!Next
  <2>5. CASE LogDecision(s) /\ target[s] \notin OneAtATime
    <3>1. {x \in audit' : x.approval \in OneAtATime} = {x \in audit : x.approval \in OneAtATime}
      BY <2>5 DEF LogDecision
    <3>2. row' = row
      BY <2>5 DEF LogDecision
    <3> QED BY <3>1, <3>2
  <2>6. CASE Load(s) \/ Refresh(s) \/ Abort(s)
    BY <1>4, <2>6 DEF Load, Refresh, Abort
  <2> QED BY <1>6, <2>2, <2>3, <2>4, <2>5, <2>6 DEF Step
<1>7. CASE Arrive
  BY <1>4, <1>7 DEF Arrive, Check
<1>8. CASE UNCHANGED vars
  BY <1>4, <1>8 DEF vars
<1> QED BY <1>5, <1>6, <1>7, <1>8 DEF Next

\* However threads interleave and crash, a request about which no calls overlap
\* gets one verdict, its release and a matching audit entry.
THEOREM CallsKeepPromise == Spec => KeepsPromise
<1>1. Init => Kept /\ Promise!Init
  <2>1. Init => [a \in OneAtATime |-> row[a].status] = [a \in OneAtATime |-> "absent"]
    BY OneAtATimeAssumption DEF Init, NoRow
  <2>2. Init => {a \in OneAtATime : row[a].final} = {}
    BY OneAtATimeAssumption DEF Init, NoRow
  <2>3. Init => {<<e.approval, e.outcome>> : e \in {x \in audit : x.approval \in OneAtATime}} = {}
    BY DEF Init
  <2>4. Init => Kept
    BY OneAtATimeAssumption DEF Init, NoRow, Kept
  <2> QED BY <2>1, <2>2, <2>3, <2>4 DEF Promise!Init
<1>2. Safe /\ Kept /\ [Next]_vars => Kept' /\ [Promise!Next]_(Promise!vars)
  BY KeptStep, PromiseStep
<1> QED BY <1>1, <1>2, SafeInvariant, PTL DEF Spec, KeepsPromise, Promise!Spec

-----------------------------------------------------------------------------
\* What a thread does to the decisions and entries on record: it adds to both, adds a
\* decision only when it goes on to refresh, and stops owing one only by logging it.
LEMMA LoggedStep ==
  ASSUME Safe, NoDecisionUnlogged, [Next]_vars
  PROVE  NoDecisionUnlogged'
<1>0. TypeOK
  BY DEF Safe
<1>1. ASSUME UNCHANGED commits, audit \subseteq audit',
             \A s \in Sessions : pc[s] \in {"committed", "refreshed"} =>
               pc'[s] \in {"committed", "refreshed"} /\ target'[s] = target[s]
      PROVE  NoDecisionUnlogged'
  <2>1. \A c \in commits : c.thread \in Sessions
    BY <1>0 DEF TypeOK, Decision
  <2> QED BY <1>1, <2>1 DEF NoDecisionUnlogged
<1>2. CASE \E a \in Approvals : CreateApproval(a)
  BY <1>1, <1>2 DEF CreateApproval
<1>3. CASE Arrive
  BY <1>0, <1>1, <1>3 DEF Arrive, Check, TypeOK
<1>4. ASSUME NEW s \in Sessions, Load(s) PROVE NoDecisionUnlogged'
  BY <1>0, <1>1, <1>4 DEF Load, TypeOK
<1>5. ASSUME NEW s \in Sessions, Commit(s) PROVE NoDecisionUnlogged'
  <2>1. /\ pc' = [pc EXCEPT ![s] = "committed"] /\ pc[s] = "loaded"
        /\ commits' = commits \cup {[approval |-> target[s], thread |-> s, by |-> caller[s], verdict |-> verdict[s]]}
        /\ UNCHANGED <<target, audit>>
    BY <1>5 DEF Commit
  <2> QED BY <1>0, <2>1 DEF NoDecisionUnlogged, TypeOK, Decision
<1>6. ASSUME NEW s \in Sessions, Refresh(s) PROVE NoDecisionUnlogged'
  BY <1>0, <1>1, <1>6 DEF Refresh, TypeOK
<1>7. ASSUME NEW s \in Sessions, LogDecision(s) PROVE NoDecisionUnlogged'
  <2> DEFINE n == [approval |-> target[s], thread |-> s, by |-> caller[s],
                   verdict |-> verdict[s], outcome |-> seen[s]]
  <2>1. /\ audit' = audit \cup {n} /\ commits' = commits
        /\ pc[s] = "refreshed"
        /\ \A t \in Sessions : t # s => pc'[t] = pc[t] /\ target'[t] = target[t]
    BY <1>0, <1>7 DEF LogDecision, Return, TypeOK
  <2>2. n.approval = target[s] /\ n.thread = s /\ n.by = caller[s] /\ n.verdict = verdict[s]
    OBVIOUS
  <2>3. \A c \in commits : c.thread = s /\ c.approval = target[s] => c.by = caller[s] /\ c.verdict = verdict[s]
    <3>1. [approval |-> target[s], thread |-> s, by |-> caller[s], verdict |-> verdict[s]] \in commits
      BY <2>1 DEF Safe, PastCommit
    <3> QED BY <3>1 DEF Safe, OncePerThread
  <2> HIDE DEF n
  <2>4. \A c \in commits : c.thread \in Sessions
    BY <1>0 DEF TypeOK, Decision
  <2> QED BY <2>1, <2>2, <2>3, <2>4 DEF NoDecisionUnlogged
<1>8. ASSUME NEW s \in Sessions, Abort(s) PROVE NoDecisionUnlogged'
  <2>1. /\ s \in Mortal /\ UNCHANGED <<commits, audit>>
        /\ \A t \in Sessions : t # s => pc'[t] = pc[t] /\ target'[t] = target[t]
    BY <1>0, <1>8 DEF Abort, Return, TypeOK
  <2>2. \A c \in commits : c.thread \in Sessions
    BY <1>0 DEF TypeOK, Decision
  <2> QED BY <2>1, <2>2 DEF NoDecisionUnlogged
<1>9. CASE UNCHANGED vars
  BY <1>1, <1>9 DEF vars
<1> QED BY <1>2, <1>3, <1>4, <1>5, <1>6, <1>7, <1>8, <1>9 DEF Next, Arrive, Step

\* Whoever else decides or dies, a decision of a thread that lives on is in the audit
\* trail or about to be.
THEOREM DecisionsAreLogged == Spec => []NoDecisionUnlogged
<1>1. Init => NoDecisionUnlogged
  BY DEF Init, NoDecisionUnlogged
<1> QED BY <1>1, LoggedStep, SafeInvariant, PTL DEF Spec
=============================================================================
