----------------------------- MODULE ChatStream -----------------------------
(***************************************************************************)
(* POST /chat/stream: the generator behind the server-sent events.  It     *)
(* repeats the retrieval loop of the workflow, streams the LLM's tokens as *)
(* they come, and only then runs the output policy, files the answer for   *)
(* approval and writes the audit entry.  The client may leave at any yield *)
(* or await; what the generator had still to do is then not done.          *)
(***************************************************************************)
EXTENDS Naturals

CONSTANTS Calls,        \* POST /chat/stream requests
          React, MaxAttempts, OutputPolicy,   \* settings, as in ChatWorkflow
          RequireApproval,                    \* settings.require_approval
          Failures,     \* TRUE: Qdrant, the LLM or the database may fail a call
          Leaves        \* TRUE: clients may disconnect

VARIABLES pc,        \* where each generator stands
          attempt,   \* the retrieval loop's counter
          found,     \* whether all_matches has anything
          text,      \* what the tokens say so far
          events,    \* the events the client has been sent after the retrieval
          answer,    \* answer_text after the policy check
          filed,     \* approval requests: the draft filed by each call
          audit      \* chat_stream entries of audit_logs

local == <<attempt, found, text, answer>>
vars == <<pc, local, events, filed, audit>>

Places == {"new", "retrieve", "judge", "generate", "check", "approve", "log", "done", "error", "left"}
Texts == {"none", "empty", "plain", "secret", "withheld"}
Events == {"token", "secret token", "policy_passed", "policy_blocked", "approval_required", "done"}
Entries == {"chat_stream_blocked_by_policy", "chat_stream_pending", "chat_stream_completed"}

\* The types; the loop never counts past max_retrieval_attempts.
TypeOK == /\ pc \in [Calls -> Places]
          /\ attempt \in [Calls -> 0..MaxAttempts]
          /\ found \in [Calls -> BOOLEAN]
          /\ text \in [Calls -> Texts]
          /\ events \in [Calls -> SUBSET Events]
          /\ answer \in [Calls -> Texts]
          /\ filed \in [Calls -> Texts]
          /\ audit \subseteq [call : Calls, action : Entries, answer : Texts]

Init == /\ pc = [c \in Calls |-> "new"]
        /\ attempt = [c \in Calls |-> 0]
        /\ found = [c \in Calls |-> FALSE]
        /\ text = [c \in Calls |-> "empty"]
        /\ events = [c \in Calls |-> {}]
        /\ answer = [c \in Calls |-> "none"]
        /\ filed = [c \in Calls |-> "none"]
        /\ audit = {}
-----------------------------------------------------------------------------
TupleWidth == 5      \* search_chunks
EventWidth == 4      \* the comprehension behind retrieve_done
Attempts == IF React THEN MaxAttempts ELSE 1
Goto(c, place) == pc' = [pc EXCEPT ![c] = place]
Send(c, e) == events' = [events EXCEPT ![c] = @ \cup {e}]

\* The rewrite events; rewrite_query cannot fail.
Rewrite(c) ==
  /\ pc[c] = "new"
  /\ Goto(c, "retrieve")
  /\ UNCHANGED <<local, events, filed, audit>>

\* Mutants of Retrieve: the loop runs while the judge asks; the pass is not counted.
RetrieveUncapped(c) == \E hit \in BOOLEAN :
  /\ pc[c] = "retrieve"
  /\ attempt' = [attempt EXCEPT ![c] = @ + 1]
  /\ found' = [found EXCEPT ![c] = @ \/ hit]
  /\ Goto(c, IF found'[c] /\ TupleWidth # EventWidth THEN "error"
             ELSE IF React THEN "judge" ELSE "generate")
  /\ UNCHANGED <<text, answer, events, filed, audit>>
RetrieveNotCounted(c) == \E hit \in BOOLEAN :
  /\ pc[c] = "retrieve"
  /\ found' = [found EXCEPT ![c] = @ \/ hit]
  /\ Goto(c, IF found'[c] /\ TupleWidth # EventWidth THEN "error"
             ELSE IF React /\ attempt[c] < Attempts THEN "judge" ELSE "generate")
  /\ UNCHANGED <<attempt, text, answer, events, filed, audit>>

\* One pass of the loop: search, accumulate, and unpack for retrieve_done, which
\* raises if there is anything to unpack.
Retrieve(c) == \E hit \in BOOLEAN :
  /\ pc[c] = "retrieve"
  /\ attempt' = [attempt EXCEPT ![c] = @ + 1]
  /\ found' = [found EXCEPT ![c] = @ \/ hit]
  /\ Goto(c, IF found'[c] /\ TupleWidth # EventWidth THEN "error"
             ELSE IF React /\ attempt'[c] < Attempts THEN "judge" ELSE "generate")
  /\ UNCHANGED <<text, answer, events, filed, audit>>

\* Sub-questions and an insufficient context send it round again.
Judge(c) == \E again \in BOOLEAN :
  /\ pc[c] = "judge"
  /\ Goto(c, IF again THEN "retrieve" ELSE "generate")
  /\ UNCHANGED <<local, events, filed, audit>>

\* A token is sent as soon as the LLM yields it; it may complete a pattern of the
\* output policy.
Token(c) == \E pattern \in BOOLEAN :
  /\ pc[c] = "generate"
  /\ text' = [text EXCEPT ![c] = IF pattern \/ @ = "secret" THEN "secret" ELSE "plain"]
  /\ Send(c, IF pattern THEN "secret token" ELSE "token")
  /\ UNCHANGED <<pc, attempt, found, answer, filed, audit>>

\* The LLM is done, perhaps without a word.
EndOfTokens(c) ==
  /\ pc[c] = "generate"
  /\ Goto(c, "check")
  /\ UNCHANGED <<local, events, filed, audit>>

\* Mutant of CheckOutput: the streamed text stays the answer.
CheckOutputOnly(c) ==
  /\ pc[c] = "check"
  /\ answer' = [answer EXCEPT ![c] = text[c]]
  /\ Send(c, IF OutputPolicy /\ text[c] = "secret" THEN "policy_blocked" ELSE "policy_passed")
  /\ Goto(c, "approve")
  /\ UNCHANGED <<attempt, found, text, filed, audit>>

CheckOutput(c) ==
  LET blocked == OutputPolicy /\ text[c] = "secret" IN
  /\ pc[c] = "check"
  /\ answer' = [answer EXCEPT ![c] = IF blocked THEN "withheld" ELSE text[c]]
  /\ Send(c, IF blocked THEN "policy_blocked" ELSE "policy_passed")
  /\ Goto(c, "approve")
  /\ UNCHANGED <<attempt, found, text, filed, audit>>

\* Whether create_approval_request is called: the global setting decides, not the
\* documents or the tenant's policy.
NeedsApproval(c) == answer[c] # "withheld" /\ RequireApproval

\* Mutant of Approve: the client hears of an approval that is not filed.
ApproveUnfiled(c) ==
  /\ pc[c] = "approve"
  /\ Send(c, IF NeedsApproval(c) THEN "approval_required" ELSE "done")
  /\ Goto(c, "log")
  /\ UNCHANGED <<local, filed, audit>>

Approve(c) ==
  /\ pc[c] = "approve"
  /\ IF NeedsApproval(c)
     THEN /\ filed' = [filed EXCEPT ![c] = answer[c]]
          /\ Send(c, "approval_required")
     ELSE /\ Send(c, "done")
          /\ UNCHANGED filed
  /\ Goto(c, "log")
  /\ UNCHANGED <<local, audit>>

Entry(c) == [call   |-> c,
             action |-> IF answer[c] = "withheld" THEN "chat_stream_blocked_by_policy"
                        ELSE IF filed[c] # "none" THEN "chat_stream_pending" ELSE "chat_stream_completed",
             answer |-> answer[c]]

\* The generator is gone, and its locals with it; answer stays for the record.
End(c, place) == /\ Goto(c, place)
                 /\ attempt' = [attempt EXCEPT ![c] = 0]
                 /\ found' = [found EXCEPT ![c] = FALSE]
                 /\ text' = [text EXCEPT ![c] = "empty"]

Log(c) ==
  /\ pc[c] = "log"
  /\ audit' = audit \cup {Entry(c)}
  /\ End(c, "done")
  /\ UNCHANGED <<answer, events, filed>>

\* Qdrant, the LLM or the database raises, or the client leaves. The approval
\* request is inserted by another thread and may be committed all the same.
Stop(c) == \E committed \in BOOLEAN, end \in {"error", "left"} :
  /\ \/ /\ end = "error" /\ Failures
        /\ pc[c] \in {"retrieve", "generate", "log"} \/ (pc[c] = "approve" /\ NeedsApproval(c))
     \/ end = "left" /\ Leaves /\ pc[c] \notin {"new", "done", "error", "left"}
  /\ End(c, end)
  /\ filed' = IF committed /\ pc[c] = "approve" /\ NeedsApproval(c)
              THEN [filed EXCEPT ![c] = answer[c]] ELSE filed
  /\ audit' = IF committed /\ end = "error" /\ pc[c] = "log" THEN audit \cup {Entry(c)} ELSE audit
  /\ UNCHANGED <<answer, events>>

Step(c) == \/ Rewrite(c) \/ Retrieve(c) \/ Judge(c) \/ EndOfTokens(c)
           \/ CheckOutput(c) \/ Approve(c) \/ Log(c)

Next == \E c \in Calls : Step(c) \/ Token(c) \/ Stop(c)

Spec == Init /\ [][Next]_vars

\* The server keeps running the generator; the LLM's answer ends.
FairSpec == Spec /\ \A c \in Calls : WF_vars(Step(c))
-----------------------------------------------------------------------------
\* A client told that its answer awaits approval can poll for it, and the audit trail
\* says pending exactly of the answers that were filed and announced.
AnnouncedIsFiled ==
  /\ \A c \in Calls : "approval_required" \in events[c] => filed[c] \notin {"none", "withheld"}
  /\ \A e \in audit : e.action = "chat_stream_pending" =>
       filed[e.call] = e.answer /\ (pc[e.call] = "done" => "approval_required" \in events[e.call])

\* What the output policy blocks reaches neither the reviewer's queue nor the audit
\* trail: the check comes before both. (It comes after the tokens.)
SecretsNotKept ==
  OutputPolicy => (\A c \in Calls : filed[c] # "secret") /\ (\A e \in audit : e.answer # "secret")

\* Wherever it is stopped, a stream keeps what both endpoints promise of an answer
\* (AnswerPath): what is filed, what the client is told and what the audit trail says agree.
Known == [c \in Calls |-> IF "approval_required" \in events[c] THEN "pending"
                         ELSE IF "done" \in events[c] THEN "completed" ELSE "nothing"]
Ended == {c \in Calls : pc[c] \in {"done", "error", "left"}}
Titles == [blocked |-> "chat_stream_blocked_by_policy", pending |-> "chat_stream_pending",
           completed |-> "chat_stream_completed"]
Path == INSTANCE AnswerPath WITH
  draft <- answer, trail <- audit, told <- Known, ended <- Ended, Title <- Titles
KeepsToPath == Path!Spec

\* Every stream ends: the judge cannot keep it searching.
StreamsEnd == \A c \in Calls : (pc[c] # "new") ~> (pc[c] \in {"done", "error", "left"})

\* What the approvals module says: a reviewer decides before the answer is shown.
ReviewedBeforeShown ==
  \A c \in Calls : filed[c] # "none" => events[c] \cap {"token", "secret token"} = {}
=============================================================================
