---------------------------- MODULE ChatWorkflow ----------------------------
(***************************************************************************)
(* POST /chat: the LangGraph workflow (retrieve, judge, draft, route,      *)
(* approval), the response, the audit entry - while admins change the      *)
(* policy and the documents it is decided by.                              *)
(*                                                                         *)
(* should_require_approval reads the documents and then the tenant policy, *)
(* in two transactions.                                                    *)
(***************************************************************************)
EXTENDS ApprovalPolicy, Naturals

CONSTANTS Calls,        \* POST /chat requests, one tenant
          Docs,         \* documents with chunks in Qdrant, with a row or not (yet)
          React,        \* settings.react_retrieval_enabled
          MaxAttempts,  \* settings.max_retrieval_attempts
          OutputPolicy, \* settings.output_policy_enabled with patterns configured
          Failures,     \* TRUE: Qdrant, the LLM or the database may fail a call
          Changes       \* what admins change meanwhile: "policy", "documents"

ASSUME SettingsAssumption == /\ {React, OutputPolicy, Failures} \subseteq BOOLEAN
                             /\ MaxAttempts \in Nat \ {0}
                             /\ Changes \subseteq {"policy", "documents"}

VARIABLES setting,   \* documents rows
          policy,    \* the tenant's tenant_policies row
          pc,        \* the node each call stands before
          attempts, subs, sources,        \* retrieval_attempts, sub_questions (any?),
                                          \* the documents of all_contexts
          answer,    \* draft_answer
          read,      \* the documents rows should_require_approval got
          required,  \* approval_required
          filed,     \* approval requests: the draft filed by each call
          reply,     \* the HTTP response: status and answer
          audit,     \* chat entries of audit_logs
          possible   \* observer: what the policy in force said while it was read

graph == <<attempts, subs, sources, answer, read, required>>
vars == <<setting, policy, pc, graph, filed, reply, audit, possible>>

Answers == {"none", "plain", "secret", "withheld"}
Reply(status, text) == [status |-> status, answer |-> text]
Nodes == {"new", "retrieve", "judge", "draft", "route", "mode", "approval", "respond", "audit", "done"}
Actions == {"chat_blocked_by_policy", "chat_pending", "chat_completed"}

\* The types; no call searches more often than max_retrieval_attempts.
TypeOK == /\ setting \in [Docs -> Settings \cup {NoSettings}]
          /\ policy \in Policies
          /\ pc \in [Calls -> Nodes]
          /\ attempts \in [Calls -> 0..MaxAttempts]
          /\ subs \in [Calls -> BOOLEAN]
          /\ sources \in [Calls -> SUBSET Docs]
          /\ answer \in [Calls -> Answers]
          /\ read \in [Calls -> SUBSET Settings]
          /\ required \in [Calls -> BOOLEAN]
          /\ filed \in [Calls -> Answers]
          /\ reply \in [Calls -> [status : {"none", "completed", "pending", "error"}, answer : Answers]]
          /\ audit \subseteq [call : Calls, action : Actions, answer : Answers]
          /\ possible \in [Calls -> SUBSET BOOLEAN]

Init == /\ setting \in [Docs -> Settings \cup {NoSettings}]
        /\ policy \in Policies
        /\ pc = [c \in Calls |-> "new"]
        /\ attempts = [c \in Calls |-> 0]
        /\ subs = [c \in Calls |-> FALSE]
        /\ sources = [c \in Calls |-> {}]
        /\ answer = [c \in Calls |-> "none"]
        /\ read = [c \in Calls |-> {}]
        /\ required = [c \in Calls |-> FALSE]
        /\ filed = [c \in Calls |-> "none"]
        /\ reply = [c \in Calls |-> Reply("none", "none")]
        /\ audit = {}
        /\ possible = [c \in Calls |-> {}]
-----------------------------------------------------------------------------
\* search_chunks returns 5-tuples; chat() unpacks 4-tuples.
TupleWidth == 5
ResponseWidth == 4

\* source_document_ids: the fifth component, where there is one.
SourceIds(c) == IF TupleWidth > 4 THEN sources[c] ELSE {}
\* get_documents_by_ids: ids without a row are left out, the status is not looked at.
RowsOf(rows, ds) == {rows[d] : d \in ds} \ {NoSettings}
Goto(c, node) == pc' = [pc EXCEPT ![c] = node]

\* The request arrives; rewrite_node changes the search text only and cannot fail.
Rewrite(c) ==
  /\ pc[c] = "new"
  /\ Goto(c, "retrieve")
  /\ UNCHANGED <<setting, policy, graph, filed, reply, audit, possible>>

\* Mutant of Retrieve: the attempt is not counted.
RetrieveNotCounted(c) == \E found \in SUBSET Docs :
  /\ pc[c] = "retrieve"
  /\ sources' = [sources EXCEPT ![c] = IF attempts[c] > 0 /\ subs[c] THEN @ \cup found ELSE found]
  /\ Goto(c, "judge")
  /\ UNCHANGED <<setting, policy, attempts, subs, answer, read, required, filed, reply, audit, possible>>

\* A first search replaces the contexts, the search of sub-questions adds to them.
Retrieve(c) == \E found \in SUBSET Docs :
  /\ pc[c] = "retrieve"
  /\ sources' = [sources EXCEPT ![c] = IF attempts[c] > 0 /\ subs[c] THEN @ \cup found ELSE found]
  /\ attempts' = [attempts EXCEPT ![c] = @ + 1]
  /\ Goto(c, "judge")
  /\ UNCHANGED <<setting, policy, subs, answer, read, required, filed, reply, audit, possible>>

\* route_after_judge.
RouteAfterJudge(subquestions, tried) ==
  IF subquestions /\ tried < MaxAttempts THEN "retrieve" ELSE "draft"

\* Mutant of Judge: it asks for another search as long as it is not satisfied.
JudgeUncapped(c) == \E more \in IF React THEN BOOLEAN ELSE {FALSE} :
  /\ pc[c] = "judge"
  /\ subs' = [subs EXCEPT ![c] = more]
  /\ Goto(c, IF more THEN "retrieve" ELSE "draft")
  /\ UNCHANGED <<setting, policy, attempts, sources, answer, read, required, filed, reply, audit, possible>>

Judge(c) == \E more \in IF React /\ attempts[c] < MaxAttempts THEN BOOLEAN ELSE {FALSE} :
  /\ pc[c] = "judge"
  /\ subs' = [subs EXCEPT ![c] = more]
  /\ Goto(c, RouteAfterJudge(more, attempts[c]))
  /\ UNCHANGED <<setting, policy, attempts, sources, answer, read, required, filed, reply, audit, possible>>

\* Mutant of Draft: the text is kept in place of the block message.
DraftRaw(c) == \E text \in {"plain", "secret"} :
  /\ pc[c] = "draft"
  /\ answer' = [answer EXCEPT ![c] = text]
  /\ Goto(c, "route")
  /\ UNCHANGED <<setting, policy, attempts, subs, sources, read, required, filed, reply, audit, possible>>

\* The LLM's text, after evaluate_output_policy.
Draft(c) == \E text \in {"plain", "secret"} :
  /\ pc[c] = "draft"
  /\ answer' = [answer EXCEPT ![c] = IF OutputPolicy /\ text = "secret" THEN "withheld" ELSE text]
  /\ Goto(c, "route")
  /\ UNCHANGED <<setting, policy, attempts, subs, sources, read, required, filed, reply, audit, possible>>

\* route_after_draft, up to its first read: a blocked answer needs no approval;
\* otherwise the documents are read, and one marked "always" settles it.
ReadDocuments(c) ==
  /\ pc[c] = "route"
  /\ IF answer[c] = "withheld"
     THEN Goto(c, "respond") /\ UNCHANGED <<read, possible>>
     ELSE /\ read' = [read EXCEPT ![c] = RowsOf(setting, SourceIds(c))]
          /\ possible' = [possible EXCEPT ![c] =
                {ShouldRequireApproval(RowsOf(setting, SourceIds(c)), policy)}]
          /\ Goto(c, IF HasAlways(RowsOf(setting, SourceIds(c))) THEN "approval" ELSE "mode")
  /\ UNCHANGED <<setting, policy, attempts, subs, sources, answer, required, filed, reply, audit>>

\* Mutant of ReadPolicy: the documents without an override are forgotten.
ReadPolicyAlone(c) ==
  /\ pc[c] = "mode"
  /\ Goto(c, IF ShouldRequireApproval({}, policy) THEN "approval" ELSE "respond")
  /\ UNCHANGED <<setting, policy, graph, filed, reply, audit, possible>>

\* ... and its second one, get_tenant_approval_mode.
ReadPolicy(c) ==
  /\ pc[c] = "mode"
  /\ Goto(c, IF ShouldRequireApproval(read[c], policy) THEN "approval" ELSE "respond")
  /\ UNCHANGED <<setting, policy, graph, filed, reply, audit, possible>>

\* Mutant of FileApproval: the state does not say that approval is required.
FileApprovalUnmarked(c) ==
  /\ pc[c] = "approval"
  /\ filed' = [filed EXCEPT ![c] = answer[c]]
  /\ Goto(c, "respond")
  /\ UNCHANGED <<setting, policy, graph, reply, audit, possible>>

FileApproval(c) ==
  /\ pc[c] = "approval"
  /\ filed' = [filed EXCEPT ![c] = answer[c]]
  /\ required' = [required EXCEPT ![c] = TRUE]
  /\ Goto(c, "respond")
  /\ UNCHANGED <<setting, policy, attempts, subs, sources, answer, read, reply, audit, possible>>

\* chat() builds the list of retrieved chunks: unpacking raises unless it is empty
\* or the widths agree, and the request ends with 500.
Respond(c) ==
  /\ pc[c] = "respond"
  /\ IF sources[c] # {} /\ TupleWidth # ResponseWidth
     THEN Goto(c, "done") /\ reply' = [reply EXCEPT ![c] = Reply("error", "none")]
     ELSE Goto(c, "audit") /\ UNCHANGED reply
  /\ UNCHANGED <<setting, policy, graph, filed, audit, possible>>

\* The user sees the answer, or that it is pending; so does the audit trail.
Shown(c) == IF required[c] THEN "none" ELSE answer[c]
Entry(c) == [call   |-> c,
             action |-> IF answer[c] = "withheld" THEN "chat_blocked_by_policy"
                        ELSE IF required[c] THEN "chat_pending" ELSE "chat_completed",
             answer |-> Shown(c)]

\* The audit entry, then the response.
LogAnswer(c) ==
  /\ pc[c] = "audit"
  /\ audit' = audit \cup {Entry(c)}
  /\ reply' = [reply EXCEPT ![c] = Reply(IF required[c] THEN "pending" ELSE "completed", Shown(c))]
  /\ Goto(c, "done")
  /\ UNCHANGED <<setting, policy, graph, filed, possible>>

\* A call to Qdrant, the LLM or the database raises: 500. An insert may be
\* committed all the same, if it is the refresh after it that raises.
Fail(c) == \E committed \in BOOLEAN :
  /\ Failures
  /\ pc[c] \in {"retrieve", "draft", "route", "mode", "approval", "audit"}
  /\ Goto(c, "done")
  /\ reply' = [reply EXCEPT ![c] = Reply("error", "none")]
  /\ filed' = IF committed /\ pc[c] = "approval" THEN [filed EXCEPT ![c] = answer[c]] ELSE filed
  /\ audit' = IF committed /\ pc[c] = "audit" THEN audit \cup {Entry(c)} ELSE audit
  /\ UNCHANGED <<setting, policy, graph, possible>>

Step(c) == \/ Rewrite(c) \/ Retrieve(c) \/ Judge(c) \/ Draft(c) \/ ReadDocuments(c)
           \/ ReadPolicy(c) \/ FileApproval(c) \/ Respond(c) \/ LogAnswer(c)
-----------------------------------------------------------------------------
\* New rows and a new policy; calls between their two reads see what these say.
Change(rows, pol) ==
  /\ setting' = rows
  /\ policy' = pol
  /\ possible' = [c \in Calls |-> IF pc[c] # "mode" THEN possible[c]
       ELSE possible[c] \cup {ShouldRequireApproval(RowsOf(rows, SourceIds(c)), pol)}]
  /\ UNCHANGED <<pc, graph, filed, reply, audit>>

\* PUT /tenants/{id}/policy
SetPolicy == \E mode \in Modes :
  /\ "policy" \in Changes
  /\ Change(setting, mode)

\* PATCH /documents/{id}
UpdateDocument(d) == \E r \in Settings :
  /\ "documents" \in Changes
  /\ setting[d] # NoSettings
  /\ Change([setting EXCEPT ![d] = r], policy)

\* POST /documents/bulk, action update_sensitivity
BulkUpdateSensitivity(ds) == \E s \in Sensitivities :
  /\ "documents" \in Changes
  /\ Change([d \in Docs |-> IF d \in ds /\ setting[d] # NoSettings
                            THEN [setting[d] EXCEPT !.sensitivity = s] ELSE setting[d]], policy)

\* The ingest worker inserts the row of a document whose chunks are found already.
RecordDocument(d) ==
  /\ "documents" \in Changes
  /\ setting[d] = NoSettings
  /\ Change([setting EXCEPT ![d] = Uploaded], policy)

Administer == \/ SetPolicy
              \/ \E d \in Docs : UpdateDocument(d) \/ RecordDocument(d)
              \/ \E ds \in SUBSET Docs : BulkUpdateSensitivity(ds)

Next == Administer \/ \E c \in Calls : Step(c) \/ Fail(c)

Spec == Init /\ [][Next]_vars

\* The request thread runs; the services answer or raise.
FairSpec == Spec /\ \A c \in Calls : WF_vars(Step(c))
-----------------------------------------------------------------------------
\* The workflow's verdict is one the policy in force gave at some instant while it
\* was being read, although documents and policy are read one after the other.
\* Holds while admins change only one of the two.
DecisionInForce ==
  \A c \in Calls : answer[c] \notin {"none", "withheld"} =>
    /\ pc[c] = "approval" \/ filed[c] # "none" => TRUE \in possible[c]
    /\ pc[c] = "respond" /\ ~required[c] => FALSE \in possible[c]

\* What the comment on Document.approval_override says, "always" counts whatever the
\* tenant's mode: no answer skips review that had to be reviewed at every instant.
AlwaysIsHonoured ==
  \A c \in Calls :
    pc[c] = "respond" /\ ~required[c] /\ answer[c] # "withheld" => FALSE \in possible[c]

\* Every source has its say, as the documented chain puts it for an answer from that source
\* alone: the draft goes out unreviewed only if none of the documents read asks for review,
\* and waits for a reviewer only if one does, or the tenant's mode is "all".
SourcesHaveTheirSay ==
  [][\A c \in Calls : pc[c] \in {"route", "mode"} /\ answer[c] # "withheld" =>
       /\ pc'[c] = "respond" => \A r \in read'[c] : ~DocumentedChain(r, policy)
       /\ pc'[c] = "approval" => \/ EffectiveMode(policy) = "all"
                                 \/ \E r \in read'[c] : DocumentedChain(r, policy)]_vars

\* Text the output policy blocks goes nowhere: not to a reviewer, not to the user,
\* not to the audit trail (draft_node puts the block message in its place).
SecretsWithheld ==
  OutputPolicy => /\ \A c \in Calls : filed[c] # "secret" /\ reply[c].answer # "secret"
                  /\ \A e \in audit : e.answer # "secret"

\* A user who got an answer or a promise of review finds it in the audit trail, and
\* a promise of review is backed by a request filed with the draft.
RepliesAreBacked ==
  \A c \in Calls : reply[c].status \in {"completed", "pending"} =>
    /\ \E e \in audit : e.call = c /\ e.answer = reply[c].answer
                        /\ (e.action = "chat_pending" <=> reply[c].status = "pending")
    /\ reply[c].status = "pending" <=> filed[c] # "none"

\* Whatever fails, a call keeps what both endpoints promise of an answer (AnswerPath): what
\* is filed, what the user is told and what the audit trail says agree.
Known == [c \in Calls |-> IF reply[c].status \in {"pending", "completed"} THEN reply[c].status
                         ELSE "nothing"]
Ended == {c \in Calls : pc[c] = "done"}
Titles == [blocked |-> "chat_blocked_by_policy", pending |-> "chat_pending",
           completed |-> "chat_completed"]
Path == INSTANCE AnswerPath WITH
  draft <- answer, trail <- audit, told <- Known, ended <- Ended, Title <- Titles
KeepsToPath == Path!Spec

\* The judge cannot keep a call searching for ever: every call ends.
CallsEnd == \A c \in Calls : (pc[c] # "new") ~> (pc[c] = "done")

\* What search_chunks' docstring promises its callers, 4-tuples: a call in which
\* nothing fails is answered.
AnsweredUnlessFailing == \A c \in Calls : reply[c].status = "error" => Failures
=============================================================================
