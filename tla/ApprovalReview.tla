--------------------------- MODULE ApprovalReview ---------------------------
(***************************************************************************)
(* The human review of draft answers: the approvals table, the decision    *)
(* endpoint run by concurrent request threads, and the audit trail.        *)
(*                                                                         *)
(* POST /approvals/{id}/decision is four database transactions: a SELECT   *)
(* that checks the row is pending, the load and the UPDATE of              *)
(* update_approval, the refresh after its commit, and the audit INSERT.    *)
(* Any other thread may run between two of them, and the thread may die    *)
(* between them.                                                           *)
(***************************************************************************)
CONSTANTS Approvals,   \* approval requests
          Reviewers,   \* administrators and auditors, by their usernames
          CanReview,   \* Reviewers -> the requests of the tenants they may access
          Sessions,    \* the server's request threads: each serves one call after the other,
                       \* of any reviewer, and one reviewer may have calls on several
          Mortal,      \* sessions whose thread may die or lose its database mid-request
          OneAtATime,  \* requests about which the reviewers send no overlapping calls
          None

ASSUME NoneAssumption == None \notin Reviewers \cup Approvals
ASSUME CanReviewAssumption == CanReview \in [Reviewers -> SUBSET Approvals]
ASSUME OneAtATimeAssumption == OneAtATime \subseteq Approvals
ASSUME MortalAssumption == Mortal \subseteq Sessions

VARIABLES row,       \* approvals table
          pc,        \* where each session's decide() call stands
          caller,    \* the reviewer whose call it is
          target,    \* the request it decides
          verdict,   \* payload.approved
          loaded,    \* the ORM object update_approval loaded, as it was loaded
          seen,      \* the status db.refresh returned
          audit,     \* approval_decision entries of audit_logs
          commits    \* observer: every decision UPDATE that was committed

vars == <<row, pc, caller, target, verdict, loaded, seen, audit, commits>>

Verdicts == {"approved", "rejected"}
Statuses == {"absent", "pending"} \cup Verdicts
\* final: final_answer holds the draft (it is NULL otherwise). by: decision_by.
Row == [status : Statuses, final : BOOLEAN, by : Reviewers \cup {None}]
NoRow == [status |-> "absent", final |-> FALSE, by |-> None]
\* thread: where the call ran; it tells two calls of one reviewer apart.
Decision == [approval : Approvals, thread : Sessions, by : Reviewers, verdict : Verdicts]
Entry == [approval : Approvals, thread : Sessions, by : Reviewers, verdict : Verdicts, outcome : Statuses]

\* Types, and a call in progress keeps a request its tenants allow and a verdict.
TypeOK == /\ row \in [Approvals -> Row]
          /\ pc \in [Sessions -> {"idle", "checked", "loaded", "committed", "refreshed"}]
          /\ caller \in [Sessions -> Reviewers \cup {None}]
          /\ target \in [Sessions -> Approvals \cup {None}]
          /\ verdict \in [Sessions -> Verdicts \cup {None}]
          /\ loaded \in [Sessions -> Row]
          /\ seen \in [Sessions -> Statuses]
          /\ audit \subseteq Entry
          /\ commits \subseteq Decision
          /\ \A s \in Sessions : pc[s] # "idle" =>
               caller[s] \in Reviewers /\ target[s] \in CanReview[caller[s]] /\ verdict[s] \in Verdicts

Init == /\ row = [a \in Approvals |-> NoRow]
        /\ pc = [s \in Sessions |-> "idle"]
        /\ caller = [s \in Sessions |-> None]
        /\ target = [s \in Sessions |-> None]
        /\ verdict = [s \in Sessions |-> None]
        /\ loaded = [s \in Sessions |-> NoRow]
        /\ seen = [s \in Sessions |-> "absent"]
        /\ audit = {}
        /\ commits = {}
-----------------------------------------------------------------------------
\* Mutant of Decided: the final answer is set whatever the verdict.
DecidedAlwaysFinal(s) == [status |-> verdict[s], final |-> TRUE, by |-> caller[s]]
\* What update_approval assigns to the loaded object.
Decided(s) == [status |-> verdict[s], final |-> verdict[s] = "approved", by |-> caller[s]]

\* Mutant of Flush: the status assignment is forgotten.
FlushNoStatus(now, old, new) ==
  [status |-> now.status,
   final  |-> IF new.final = old.final THEN now.final ELSE new.final,
   by     |-> IF new.by = old.by THEN now.by ELSE new.by]

\* The session's UPDATE statement carries only the columns whose assigned value
\* differs from the loaded one; the others keep what the row holds now.
Flush(now, old, new) ==
  [status |-> IF new.status = old.status THEN now.status ELSE new.status,
   final  |-> IF new.final = old.final THEN now.final ELSE new.final,
   by     |-> IF new.by = old.by THEN now.by ELSE new.by]

\* The thread's local variables are gone when the call ends.
Return(s) == /\ pc' = [pc EXCEPT ![s] = "idle"]
             /\ caller' = [caller EXCEPT ![s] = None]
             /\ target' = [target EXCEPT ![s] = None]
             /\ verdict' = [verdict EXCEPT ![s] = None]
             /\ loaded' = [loaded EXCEPT ![s] = NoRow]
             /\ seen' = [seen EXCEPT ![s] = "absent"]

\* The chat workflow files a draft answer for review.
CreateApproval(a) ==
  /\ row[a].status = "absent"
  /\ row' = [row EXCEPT ![a].status = "pending"]
  /\ UNCHANGED <<pc, caller, target, verdict, loaded, seen, audit, commits>>

\* Mutant of Check: the status test is dropped.
CheckAnyStatus(s, r, a, v) ==
  /\ pc[s] = "idle"
  /\ a \in CanReview[r]
  /\ row[a].status # "absent"
  /\ pc' = [pc EXCEPT ![s] = "checked"]
  /\ caller' = [caller EXCEPT ![s] = r]
  /\ target' = [target EXCEPT ![s] = a]
  /\ verdict' = [verdict EXCEPT ![s] = v]
  /\ UNCHANGED <<row, loaded, seen, audit, commits>>

\* Mutant of Check: the tenant access test is dropped.
CheckAnyTenant(s, r, a, v) ==
  /\ pc[s] = "idle"
  /\ row[a].status = "pending"
  /\ pc' = [pc EXCEPT ![s] = "checked"]
  /\ caller' = [caller EXCEPT ![s] = r]
  /\ target' = [target EXCEPT ![s] = a]
  /\ verdict' = [verdict EXCEPT ![s] = v]
  /\ UNCHANGED <<row, loaded, seen, audit, commits>>

\* decide(): the row exists, its tenant is accessible and it is still pending
\* (otherwise 404, 403 or 400, and nothing changes).
Check(s, r, a, v) ==
  /\ pc[s] = "idle"
  /\ a \in CanReview[r]
  /\ row[a].status = "pending"
  /\ pc' = [pc EXCEPT ![s] = "checked"]
  /\ caller' = [caller EXCEPT ![s] = r]
  /\ target' = [target EXCEPT ![s] = a]
  /\ verdict' = [verdict EXCEPT ![s] = v]
  /\ UNCHANGED <<row, loaded, seen, audit, commits>>

\* decide_approval() re-reads the row for its draft, which never changes, and
\* update_approval() loads it; neither looks at its status.
Load(s) ==
  /\ pc[s] = "checked"
  /\ pc' = [pc EXCEPT ![s] = "loaded"]
  /\ loaded' = [loaded EXCEPT ![s] = row[target[s]]]
  /\ UNCHANGED <<row, caller, target, verdict, seen, audit, commits>>

Commit(s) ==
  /\ pc[s] = "loaded"
  /\ pc' = [pc EXCEPT ![s] = "committed"]
  /\ row' = [row EXCEPT ![target[s]] = Flush(row[target[s]], loaded[s], Decided(s))]
  /\ commits' = commits \cup {[approval |-> target[s], thread |-> s, by |-> caller[s],
                              verdict |-> verdict[s]]}
  /\ UNCHANGED <<caller, target, verdict, loaded, seen, audit>>

\* Mutant of Refresh: the entry is prepared before the update.
RefreshFirst(s) ==
  /\ pc[s] = "loaded"
  /\ pc' = [pc EXCEPT ![s] = "refreshed"]
  /\ seen' = [seen EXCEPT ![s] = verdict[s]]
  /\ UNCHANGED <<row, caller, target, verdict, loaded, audit, commits>>

\* db.refresh() is a new SELECT: it returns the row as it is by then.
Refresh(s) ==
  /\ pc[s] = "committed"
  /\ pc' = [pc EXCEPT ![s] = "refreshed"]
  /\ seen' = [seen EXCEPT ![s] = row[target[s]].status]
  /\ UNCHANGED <<row, caller, target, verdict, loaded, audit, commits>>

\* Mutant of LogDecision: a decision another call overrode is not logged.
LogOwnOutcome(s) ==
  /\ pc[s] = "refreshed"
  /\ audit' = IF seen[s] # verdict[s] THEN audit
              ELSE audit \cup {[approval |-> target[s], thread |-> s, by |-> caller[s],
                                verdict |-> verdict[s], outcome |-> seen[s]]}
  /\ Return(s)
  /\ UNCHANGED <<row, commits>>

LogDecision(s) ==
  /\ pc[s] = "refreshed"
  /\ audit' = audit \cup {[approval |-> target[s], thread |-> s, by |-> caller[s],
                           verdict |-> verdict[s], outcome |-> seen[s]]}
  /\ Return(s)
  /\ UNCHANGED <<row, commits>>

\* Mutant of Abort: on an exception the handler puts the request back.
AbortReopens(s) ==
  /\ s \in Mortal
  /\ pc[s] # "idle"
  /\ Return(s)
  /\ row' = [row EXCEPT ![target[s]].status = "pending"]
  /\ UNCHANGED <<audit, commits>>

\* An exception or the end of the process leaves what was committed so far.
Abort(s) ==
  /\ s \in Mortal
  /\ pc[s] # "idle"
  /\ Return(s)
  /\ UNCHANGED <<row, audit, commits>>

Step(s) == Load(s) \/ Commit(s) \/ Refresh(s) \/ LogDecision(s)

\* The callers: any reviewer, whatever other calls are in progress, if not about a
\* request of OneAtATime.
Arrive == \E s \in Sessions, r \in Reviewers, a \in Approvals, v \in Verdicts :
            /\ a \in OneAtATime => \A t \in Sessions : pc[t] # "idle" => target[t] # a
            /\ Check(s, r, a, v)

Next == \/ \E a \in Approvals : CreateApproval(a)
        \/ Arrive
        \/ \E s \in Sessions : Step(s) \/ Abort(s)

Spec == Init /\ [][Next]_vars

-----------------------------------------------------------------------------
\* A row that nobody has decided carries neither a reviewer nor an answer.
PendingIsBlank ==
  \A a \in Approvals :
    row[a].status \in {"absent", "pending"} => ~row[a].final /\ row[a].by = None

\* No two committed decisions on a request differ.
Undisputed(a) ==
  \A c, d \in commits : c.approval = a /\ d.approval = a => c.verdict = d.verdict

\* What a decided row says of request a belongs together: the answer is released with an
\* approval only, and the reviewer committed the very status.
Agrees(a, r) ==
  /\ r.final = (r.status = "approved")
  /\ \E c \in commits : c.approval = a /\ c.verdict = r.status /\ c.by = r.by

\* A row is decided as a whole, whichever column-wise UPDATEs interleave: while it is
\* pending it is blank, and as long as its reviewers agree, status, answer and reviewer of
\* a decided row belong together (update_approval). review_torn: not if they disagree.
DecidedTogether ==
  /\ PendingIsBlank
  /\ \A a \in Approvals : row[a].status \in Verdicts /\ Undisputed(a) => Agrees(a, row[a])

\* A final answer exists only where some reviewer who had access to the request
\* committed an approval, even if a rejection followed (decide, update_approval).
ReleaseJustified ==
  \A a \in Approvals : row[a].final =>
    \E c \in commits : c.approval = a /\ c.verdict = "approved" /\ a \in CanReview[c.by]

\* The audit trail never reports a decision that was not committed, nor an outcome
\* that no reviewer chose: log_event comes after the update and its refresh.
AuditTruthful ==
  \A e \in audit :
    /\ [approval |-> e.approval, thread |-> e.thread, by |-> e.by, verdict |-> e.verdict] \in commits
    /\ \E c \in commits : c.approval = e.approval /\ c.verdict = e.outcome

\* The calls that passed the pending check of request a and have yet to commit.
Deciding(a) == {s \in Sessions : pc[s] \in {"checked", "loaded"} /\ target[s] = a}

\* "Once approved or rejected, it cannot change" (decide()), as far as it goes: a request
\* with a committed decision accepts no further call, of the same reviewer or another, and
\* its row changes only by one of the calls that had passed the check before. Each of
\* them may override it once; when the last is through, the decision is final.
OnlyRacersOverride ==
  [][\A c \in commits :
       /\ Deciding(c.approval)' \subseteq Deciding(c.approval)
       /\ row'[c.approval] # row[c.approval] => Deciding(c.approval)' # Deciding(c.approval)]_vars

\* Every decision committed by a thread that lives on is in the audit trail, or its
\* thread is on the way to log it, whoever else decides or dies (decide()'s step 5).
NoDecisionUnlogged ==
  \A c \in commits : c.thread \notin Mortal =>
    \/ \E e \in audit : e.approval = c.approval /\ e.thread = c.thread /\ e.by = c.by /\ e.verdict = c.verdict
    \/ pc[c.thread] \in {"committed", "refreshed"} /\ target[c.thread] = c.approval

\* The draft becomes the final answer of approved requests only (decide()'s
\* steps 3 and 4). Column-wise UPDATEs of racing threads can break it.
FinalOnlyWhenApproved ==
  \A a \in Approvals : row[a].final => row[a].status = "approved"

\* For a request whose calls do not overlap, be they of one reviewer or several, the
\* endpoint keeps the promise of SingleDecision: one verdict, its release, and a matching
\* audit entry, whatever races on the other requests.
Promise == INSTANCE SingleDecision WITH
             Approvals <- OneAtATime,
             outcome   <- [a \in OneAtATime |-> row[a].status],
             released  <- {a \in OneAtATime : row[a].final},
             ledger    <- {<<e.approval, e.outcome>> : e \in {x \in audit : x.approval \in OneAtATime}}
KeepsPromise == Promise!Spec
=============================================================================
