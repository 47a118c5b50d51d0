--------------------------- MODULE ReviewedStream ---------------------------
(***************************************************************************)
(* The streaming endpoint and the review together: the approval request a  *)
(* stream files is the row that reviewers decide, and the user who was     *)
(* told of it asks for the result (GET /approvals/{id}/result).            *)
(***************************************************************************)
EXTENDS ApprovalReview, Naturals

CONSTANTS Calls,        \* the streams; the request a stream files goes by its name
          React, MaxAttempts, OutputPolicy, RequireApproval, Failures, Leaves

ASSUME CallsAssumption == Calls \subseteq Approvals
ASSUME StreamAssumption == /\ {React, OutputPolicy, RequireApproval, Failures, Leaves} \subseteq BOOLEAN
                           /\ MaxAttempts \in Nat \ {0}

VARIABLES place, attempt, found, text, events, answer, filed, entries,   \* of ChatStream
          told       \* what each user was last told of the own request

streams == <<place, attempt, found, text, events, answer, filed, entries>>
everything == <<vars, streams, told>>

Stream == INSTANCE ChatStream WITH pc <- place, audit <- entries

\* draft, answer: draft_answer and final_answer of the response.
NothingTold == [status |-> "absent", draft |-> "none", answer |-> "none"]
Told == [status : Statuses, draft : Stream!Texts, answer : Stream!Texts]

\* The types of the review, of the streams and of the polls.
StreamTypeOK == /\ TypeOK /\ Stream!TypeOK
                /\ told \in [Calls -> Told]

InitAll == /\ Init
           /\ Stream!Init
           /\ told = [c \in Calls |-> NothingTold]
-----------------------------------------------------------------------------
\* create_approval_request() inserts the row, and its draft.
Filing(c) == IF filed'[c] = filed[c] THEN UNCHANGED vars ELSE CreateApproval(c)

\* The generator goes on.
Advance(c) == Stream!Step(c) /\ Filing(c) /\ UNCHANGED told

\* The LLM yields a token; a call raises or the client leaves.
Interrupt(c) == (Stream!Token(c) \/ Stream!Stop(c)) /\ Filing(c) /\ UNCHANGED told

\* Everything else that happens to requests: POST /chat files some, too.
Review == /\ \/ \E a \in Approvals \ Calls : CreateApproval(a)
             \/ Arrive
             \/ \E s \in Sessions : Step(s) \/ Abort(s)
          /\ UNCHANGED <<streams, told>>

\* Mutant of Poll: the final answer falls back to the draft where there is none.
PollFallsBack(c) ==
  /\ "approval_required" \in events[c]
  /\ told' = [told EXCEPT ![c] = [status |-> row[c].status, draft |-> filed[c], answer |-> filed[c]]]
  /\ UNCHANGED <<vars, streams>>

\* approval_result(): the owner gets the whole row at any status, the draft included;
\* only final_answer waits for the approval.
Poll(c) ==
  /\ "approval_required" \in events[c]
  /\ told' = [told EXCEPT ![c] = [status |-> row[c].status, draft |-> filed[c],
                                  answer |-> IF row[c].final THEN filed[c] ELSE "none"]]
  /\ UNCHANGED <<vars, streams>>

NextAll == Review \/ \E c \in Calls : Advance(c) \/ Interrupt(c) \/ Poll(c)

SpecAll == /\ InitAll /\ [][NextAll]_everything
           /\ \A c \in Calls : WF_everything(Advance(c))
-----------------------------------------------------------------------------
\* The properties of the streams hold beside the review, too.
AnnouncedIsFiled == Stream!AnnouncedIsFiled
SecretsNotKept == Stream!SecretsNotKept
KeepsToPath == Stream!KeepsToPath
StreamsEnd == Stream!StreamsEnd

\* Whatever generators, reviewers and polls interleave and whoever of them dies, a poll
\* shows the very draft that was filed, reviewed or not, never one that the output policy
\* blocks, and as the final answer no other text than this draft, after a reviewer with
\* access committed an approval (approval_result(), _to_response()).
ToldIsBacked ==
  \A c \in Calls : told[c] # NothingTold =>
    /\ told[c].draft = filed[c] /\ filed[c] # "none"
    /\ OutputPolicy => told[c].draft \notin {"secret", "withheld"}
    /\ told[c].answer \in {"none", told[c].draft}
    /\ told[c].answer # "none" =>
         \E d \in commits : d.approval = c /\ d.verdict = "approved" /\ c \in CanReview[d.by]

\* A user told of a decision is never told "pending" again, though decisions may
\* override each other between two polls.
NeverPendingAgain ==
  [][\A c \in Calls : told[c].status \in Verdicts => told'[c].status \in Verdicts]_told
=============================================================================
