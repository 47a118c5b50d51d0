----------------------------- MODULE AnswerPath -----------------------------
(***************************************************************************)
(* What POST /chat and POST /chat/stream, the two copies of the pipeline,  *)
(* promise of an answer: its text is settled once, after the output        *)
(* policy; that very text is filed for approval or not at all; what the    *)
(* user is told and what the audit trail says agree with what was filed;   *)
(* the trail gets one entry at most; and nothing follows the end, which    *)
(* may come at any point.                                                  *)
(***************************************************************************)
CONSTANTS Calls,
          OutputPolicy,   \* blocked texts are withheld
          Title           \* the audit actions: blocked, pending, completed

VARIABLES draft,   \* the settled text of each call
          filed,   \* the text filed for approval
          told,    \* what the user knows of the outcome
          trail,   \* the entries of the audit trail
          ended    \* the calls that are over

path == <<draft, filed, told, trail, ended>>

Texts == {"empty", "plain", "secret", "withheld"}

Init == /\ draft = [c \in Calls |-> "none"]
        /\ filed = [c \in Calls |-> "none"]
        /\ told = [c \in Calls |-> "nothing"]
        /\ trail = {}
        /\ ended = {}

Settle(c) == \E t \in Texts :
  /\ draft[c] = "none"
  /\ OutputPolicy => t # "secret"
  /\ draft' = [draft EXCEPT ![c] = t]
  /\ UNCHANGED <<filed, told, trail, ended>>

Outcome(c) == IF filed[c] # "none" THEN "pending" ELSE "completed"

\* The user is told once, with the step or after it.
MayTell(c) == told' = told \/ (told[c] = "nothing" /\ told' = [told EXCEPT ![c] = Outcome(c)'])

\* Nobody is told "completed" of an answer that is then filed.
File(c) ==
  /\ draft[c] \notin {"none", "withheld"} /\ filed[c] = "none" /\ told[c] = "nothing"
  /\ filed' = [filed EXCEPT ![c] = draft[c]]
  /\ MayTell(c)
  /\ ended' \in {ended, ended \cup {c}}
  /\ UNCHANGED <<draft, trail>>

Tell(c) ==
  /\ draft[c] # "none" /\ told[c] = "nothing"
  /\ told' = [told EXCEPT ![c] = Outcome(c)]
  /\ UNCHANGED <<draft, filed, trail, ended>>

\* A pending answer may be left out of its entry.
Entries(c) ==
  [call : {c},
   action : {Title[IF draft[c] = "withheld" THEN "blocked" ELSE Outcome(c)]},
   answer : {draft[c]} \cup (IF filed[c] # "none" THEN {"none"} ELSE {})]

Log(c) == \E e \in Entries(c) :
  /\ draft[c] # "none"
  /\ trail' = trail \cup {e}
  /\ MayTell(c)
  /\ ended' = ended \cup {c}
  /\ UNCHANGED <<draft, filed>>

End(c) ==
  /\ ended' = ended \cup {c}
  /\ UNCHANGED <<draft, filed, told, trail>>

Next == \E c \in Calls : /\ c \notin ended
                         /\ Settle(c) \/ File(c) \/ Tell(c) \/ Log(c) \/ End(c)

Spec == Init /\ [][Next]_path
=============================================================================
