--------------------------- MODULE SingleDecision ---------------------------
(***************************************************************************)
(* What the approval workflow promises, with no sessions, rows or threads: *)
(* every approval request gets at most one verdict, the draft answer is    *)
(* released exactly when that verdict is "approved", and the audit trail   *)
(* gains at most one entry per request, with the verdict that was taken.   *)
(***************************************************************************)
CONSTANTS Approvals

VARIABLES outcome,    \* Approvals -> "absent", "pending" or a verdict
          released,   \* the requests whose final answer is available
          ledger      \* the <<request, verdict>> pairs of the audit trail

vars == <<outcome, released, ledger>>

Verdicts == {"approved", "rejected"}

Init == /\ outcome = [a \in Approvals |-> "absent"]
        /\ released = {}
        /\ ledger = {}

Submit(a) == /\ outcome[a] = "absent"
             /\ outcome' = [outcome EXCEPT ![a] = "pending"]
             /\ UNCHANGED <<released, ledger>>

\* The verdict and the release of the draft are one step.
Decide(a, v) == /\ outcome[a] = "pending"
                /\ outcome' = [outcome EXCEPT ![a] = v]
                /\ released' = IF v = "approved" THEN released \cup {a} ELSE released
                /\ UNCHANGED ledger

Record(a) == /\ outcome[a] \in Verdicts
             /\ ledger' = ledger \cup {<<a, outcome[a]>>}
             /\ UNCHANGED <<outcome, released>>

Next == \E a \in Approvals :
          Submit(a) \/ Record(a) \/ \E v \in Verdicts : Decide(a, v)

Spec == Init /\ [][Next]_vars
=============================================================================
