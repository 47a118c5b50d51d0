------------------------ MODULE ChatWorkflow_proofs ------------------------
\* The chat workflow for any number of calls and documents: types, the output
\* policy, and the decision to ask for approval while admins change its inputs.
EXTENDS ChatWorkflow, ApprovalPolicy_proofs, TLAPS

\* A call searches again only while it has attempts left.
Counted == \A c \in Calls : /\ pc[c] = "new" => attempts[c] = 0
                            /\ pc[c] = "retrieve" => attempts[c] < MaxAttempts

\* Every call starts with nothing searched.
LEMMA TypeInit == Init => TypeOK /\ Counted
  BY SettingsAssumption DEF Init, TypeOK, Counted, Policies, Nodes, Answers, Reply

\* What admins do leaves every call where it is.
LEMMA ChangeKeepsTypes ==
  ASSUME TypeOK, Counted, NEW rows \in [Docs -> Settings \cup {NoSettings}], NEW pol \in Policies,
         Change(rows, pol)
  PROVE  TypeOK' /\ Counted'
<1>1. \A R : ShouldRequireApproval(R, pol) \in BOOLEAN
  BY DEF ShouldRequireApproval, HasAlways, HasSensitive
<1>2. possible' \in [Calls -> SUBSET BOOLEAN]
  BY <1>1 DEF TypeOK, Change
<1> QED
  BY <1>2 DEF TypeOK, Counted, Change, graph

\* Every administrative action is a Change of the rows, of the policy, or of nothing else.
LEMMA AdministerChanges ==
  ASSUME TypeOK, Administer
  PROVE  \E rows \in [Docs -> Settings \cup {NoSettings}], pol \in Policies :
           /\ Change(rows, pol)
           /\ rows # setting => "documents" \in Changes
           /\ pol # policy => "policy" \in Changes
<1>1. setting \in [Docs -> Settings \cup {NoSettings}] /\ policy \in Policies
  BY DEF TypeOK
<1>2. CASE SetPolicy
  <2>1. PICK mode \in Modes : "policy" \in Changes /\ Change(setting, mode)
    BY <1>2 DEF SetPolicy
  <2> QED
    BY <1>1, <2>1 DEF Policies
<1>3. ASSUME NEW d \in Docs, UpdateDocument(d)
      PROVE  \E rows \in [Docs -> Settings \cup {NoSettings}] : Change(rows, policy) /\ "documents" \in Changes
  <2>1. PICK r \in Settings : "documents" \in Changes /\ Change([setting EXCEPT ![d] = r], policy)
    BY <1>3 DEF UpdateDocument
  <2>2. [setting EXCEPT ![d] = r] \in [Docs -> Settings \cup {NoSettings}]
    BY <1>1
  <2> QED
    BY <2>1, <2>2
<1>4. ASSUME NEW d \in Docs, RecordDocument(d)
      PROVE  \E rows \in [Docs -> Settings \cup {NoSettings}] : Change(rows, policy) /\ "documents" \in Changes
  <2>1. "documents" \in Changes /\ Change([setting EXCEPT ![d] = Uploaded], policy)
    BY <1>4 DEF RecordDocument
  <2>2. [setting EXCEPT ![d] = Uploaded] \in [Docs -> Settings \cup {NoSettings}]
    BY <1>1 DEF Uploaded, Settings, Overrides, Sensitivities
  <2> QED
    BY <2>1, <2>2
<1>5. ASSUME NEW ds \in SUBSET Docs, BulkUpdateSensitivity(ds)
      PROVE  \E rows \in [Docs -> Settings \cup {NoSettings}] : Change(rows, policy) /\ "documents" \in Changes
  <2> DEFINE New(s) == [d \in Docs |-> IF d \in ds /\ setting[d] # NoSettings
                                       THEN [setting[d] EXCEPT !.sensitivity = s] ELSE setting[d]]
  <2>1. PICK s \in Sensitivities : "documents" \in Changes /\ Change(New(s), policy)
    BY <1>5 DEF BulkUpdateSensitivity
  <2>2. \A d \in Docs : setting[d] # NoSettings => [setting[d] EXCEPT !.sensitivity = s] \in Settings
    BY <1>1 DEF Settings
  <2>3. New(s) \in [Docs -> Settings \cup {NoSettings}]
    BY <1>1, <2>2
  <2> HIDE DEF New
  <2> QED
    BY <2>1, <2>3
<1> QED
  BY <1>1, <1>2, <1>3, <1>4, <1>5 DEF Administer

\* Every step keeps the types and the count of the searches.
LEMMA TypeNext == TypeOK /\ Counted /\ [Next]_vars => TypeOK' /\ Counted'
<1> SUFFICES ASSUME TypeOK, Counted, [Next]_vars
             PROVE  TypeOK' /\ Counted'
  OBVIOUS
<1> USE DEF Goto, graph
<1>1. CASE Administer
  BY <1>1, AdministerChanges, ChangeKeepsTypes
<1>2. ASSUME NEW c \in Calls, Rewrite(c) PROVE TypeOK' /\ Counted'
  BY <1>2, SettingsAssumption DEF Rewrite, TypeOK, Counted, Nodes
<1>3. ASSUME NEW c \in Calls, Retrieve(c) PROVE TypeOK' /\ Counted'
  <2>1. PICK found \in SUBSET Docs :
          sources' = [sources EXCEPT ![c] = IF attempts[c] > 0 /\ subs[c] THEN @ \cup found ELSE found]
    BY <1>3 DEF Retrieve
  <2>2. sources' \in [Calls -> SUBSET Docs]
    BY <2>1 DEF TypeOK
  <2>3. attempts[c] \in 0..MaxAttempts /\ attempts[c] < MaxAttempts
    BY <1>3 DEF Retrieve, TypeOK, Counted
  <2>4. attempts' \in [Calls -> 0..MaxAttempts]
    BY <1>3, <2>3, SettingsAssumption DEF Retrieve, TypeOK
  <2> QED
    BY <1>3, <2>2, <2>4 DEF Retrieve, TypeOK, Counted, Nodes
<1>4. ASSUME NEW c \in Calls, Judge(c) PROVE TypeOK' /\ Counted'
  BY <1>4, SettingsAssumption DEF Judge, RouteAfterJudge, TypeOK, Counted, Nodes
<1>5. ASSUME NEW c \in Calls, Draft(c) PROVE TypeOK' /\ Counted'
  BY <1>5 DEF Draft, TypeOK, Counted, Nodes, Answers
<1>6. ASSUME NEW c \in Calls, ReadDocuments(c) PROVE TypeOK' /\ Counted'
  <2> DEFINE R == RowsOf(setting, SourceIds(c))
             V == ShouldRequireApproval(R, policy)
  <2>1. R \in SUBSET Settings /\ V \in BOOLEAN
    BY DEF RowsOf, SourceIds, TupleWidth, TypeOK, ShouldRequireApproval, HasAlways, HasSensitive
  <2>2. CASE answer[c] = "withheld"
    BY <1>6, <2>2 DEF ReadDocuments, TypeOK, Counted, Nodes
  <2>3. CASE answer[c] # "withheld"
    <3>1. /\ read' = [read EXCEPT ![c] = R] /\ possible' = [possible EXCEPT ![c] = {V}]
          /\ pc[c] = "route"
          /\ pc' = [pc EXCEPT ![c] = IF HasAlways(R) THEN "approval" ELSE "mode"]
          /\ UNCHANGED <<setting, policy, attempts, subs, sources, answer, required, filed, reply, audit>>
      BY <1>6, <2>3 DEF ReadDocuments
    <3> HIDE DEF R, V
    <3>2. read' \in [Calls -> SUBSET Settings] /\ possible' \in [Calls -> SUBSET BOOLEAN]
      BY <2>1, <3>1 DEF TypeOK
    <3>3. pc' \in [Calls -> Nodes]
      BY <3>1 DEF TypeOK, Nodes
    <3> QED
      BY <3>1, <3>2, <3>3 DEF TypeOK, Counted
  <2> QED
    BY <2>2, <2>3
<1>7. ASSUME NEW c \in Calls, ReadPolicy(c) PROVE TypeOK' /\ Counted'
  BY <1>7 DEF ReadPolicy, TypeOK, Counted, Nodes
<1>8. ASSUME NEW c \in Calls, FileApproval(c) PROVE TypeOK' /\ Counted'
  BY <1>8 DEF FileApproval, TypeOK, Counted, Nodes
<1>9. ASSUME NEW c \in Calls, Respond(c) PROVE TypeOK' /\ Counted'
  <2>1. reply' \in [Calls -> [status : {"none", "completed", "pending", "error"}, answer : Answers]]
    BY <1>9 DEF Respond, Reply, TypeOK, Answers
  <2>2. pc' \in [Calls -> Nodes] /\ Counted'
    BY <1>9 DEF Respond, TypeOK, Counted, Nodes
  <2> QED
    BY <1>9, <2>1, <2>2 DEF Respond, TypeOK
<1>10. ASSUME NEW c \in Calls PROVE TypeOK => Entry(c) \in [call : Calls, action : Actions, answer : Answers]
  BY DEF Entry, Shown, TypeOK, Answers, Actions
<1>11. ASSUME NEW c \in Calls, LogAnswer(c) PROVE TypeOK' /\ Counted'
  <2>1. audit' \subseteq [call : Calls, action : Actions, answer : Answers]
    BY <1>10, <1>11 DEF LogAnswer, TypeOK
  <2> QED
    BY <1>11, <2>1 DEF LogAnswer, Reply, Shown, TypeOK, Counted, Nodes, Answers
<1>12. ASSUME NEW c \in Calls, Fail(c) PROVE TypeOK' /\ Counted'
  <2> DEFINE E == Entry(c)
  <2>1. E \in [call : Calls, action : Actions, answer : Answers]
    BY <1>10
  <2> HIDE DEF E
  <2>2. audit' = audit \/ audit' = audit \cup {E}
    BY <1>12 DEF Fail, E
  <2>3. audit' \subseteq [call : Calls, action : Actions, answer : Answers]
    BY <2>1, <2>2 DEF TypeOK
  <2>4. reply' \in [Calls -> [status : {"none", "completed", "pending", "error"}, answer : Answers]]
    BY <1>12 DEF Fail, Reply, TypeOK, Answers
  <2>5. filed' \in [Calls -> Answers]
    BY <1>12 DEF Fail, TypeOK
  <2>6. pc' \in [Calls -> Nodes] /\ Counted'
    BY <1>12 DEF Fail, TypeOK, Counted, Nodes
  <2> QED
    BY <1>12, <2>3, <2>4, <2>5, <2>6 DEF Fail, TypeOK
<1>13. CASE UNCHANGED vars
  BY <1>13 DEF vars, TypeOK, Counted
<1> QED
  BY <1>1, <1>2, <1>3, <1>4, <1>5, <1>6, <1>7, <1>8, <1>9, <1>11, <1>12, <1>13 DEF Next, Step

\* Types are kept, and no call searches more than max_retrieval_attempts times
\* (retrieve_node, route_after_judge).
THEOREM TypeCorrect == Spec => []TypeOK
<1>1. Spec => [](TypeOK /\ Counted)
  BY TypeInit, TypeNext, PTL DEF Spec
<1> QED
  BY <1>1, PTL
-----------------------------------------------------------------------------
\* The call has no draft that the output policy blocks, and has passed none on.
Clean == OutputPolicy => /\ \A c \in Calls : answer[c] # "secret"
                         /\ SecretsWithheld

\* Text the output policy blocks reaches no reviewer, no user and no audit entry,
\* however calls, failures and changes interleave (draft_node, chat).
THEOREM SecretsNeverLeave == Spec => []SecretsWithheld
<1>1. Init => Clean
  BY DEF Init, Clean, SecretsWithheld, Reply
<1>2. TypeOK /\ Clean /\ [Next]_vars => Clean'
  <2> SUFFICES ASSUME OutputPolicy, TypeOK, Clean, [Next]_vars
               PROVE  Clean'
    BY DEF Clean, SecretsWithheld
  <2> USE DEF graph, Clean, SecretsWithheld
  <2>1. CASE Administer
    <3>1. PICK rows \in [Docs -> Settings \cup {NoSettings}], pol \in Policies : Change(rows, pol)
      BY <2>1, AdministerChanges
    <3> QED
      BY <3>1 DEF Change
  <2>2. ASSUME NEW c \in Calls, Draft(c) PROVE Clean'
    <3>1. PICK text \in {"plain", "secret"} :
            answer' = [answer EXCEPT ![c] = IF OutputPolicy /\ text = "secret" THEN "withheld" ELSE text]
      BY <2>2 DEF Draft
    <3>2. \A b \in Calls : answer'[b] # "secret"
      BY <3>1 DEF TypeOK
    <3> QED
      BY <2>2, <3>2 DEF Draft
  <2>3. ASSUME NEW c \in Calls, FileApproval(c) PROVE Clean'
    BY <2>3 DEF FileApproval, TypeOK
  <2>4. ASSUME NEW c \in Calls, Respond(c) PROVE Clean'
    <3>1. \A b \in Calls : reply'[b].answer # "secret"
      BY <2>4 DEF Respond, Reply, TypeOK
    <3> QED
      BY <2>4, <3>1 DEF Respond
  <2>5. ASSUME NEW c \in Calls PROVE Entry(c).answer # "secret" /\ Shown(c) # "secret"
    BY DEF Entry, Shown
  <2>6. ASSUME NEW c \in Calls, LogAnswer(c) PROVE Clean'
    <3>1. \A b \in Calls : reply'[b].answer # "secret"
      BY <2>5, <2>6 DEF LogAnswer, Reply, TypeOK
    <3>2. \A e \in audit' : e.answer # "secret"
      BY <2>5, <2>6 DEF LogAnswer
    <3> QED
      BY <2>6, <3>1, <3>2 DEF LogAnswer
  <2>7. ASSUME NEW c \in Calls, Fail(c) PROVE Clean'
    <3>1. \A b \in Calls : reply'[b].answer # "secret"
      BY <2>7 DEF Fail, Reply, TypeOK
    <3>2. \A e \in audit' : e.answer # "secret"
      BY <2>5, <2>7 DEF Fail
    <3>3. \A b \in Calls : filed'[b] # "secret"
      BY <2>7 DEF Fail, TypeOK
    <3> QED
      BY <2>7, <3>1, <3>2, <3>3 DEF Fail
  <2>8. ASSUME NEW c \in Calls,
               Rewrite(c) \/ Retrieve(c) \/ Judge(c) \/ ReadDocuments(c) \/ ReadPolicy(c)
        PROVE  Clean'
    BY <2>8 DEF Rewrite, Retrieve, Judge, ReadDocuments, ReadPolicy
  <2>9. CASE UNCHANGED vars
    BY <2>9 DEF vars
  <2> QED
    BY <2>1, <2>2, <2>3, <2>4, <2>6, <2>7, <2>8, <2>9 DEF Next, Step
<1>3. Clean => SecretsWithheld
  BY DEF Clean, SecretsWithheld
<1> QED
  BY <1>1, <1>2, <1>3, TypeCorrect, PTL DEF Spec
-----------------------------------------------------------------------------
\* What is known of a call's decision: before it is taken nothing is filed; between
\* the two reads the rows read still give, with the policy of now, an answer some
\* instant gave; afterwards the decision is such an answer.
Undecided == {"new", "retrieve", "judge", "draft", "route", "mode", "approval"}
Deciding(c) ==
  /\ pc[c] \in Undecided => filed[c] = "none" /\ ~required[c]
  /\ pc[c] = "mode" => ShouldRequireApproval(read[c], policy) \in possible[c]
  /\ pc[c] = "mode" /\ "documents" \notin Changes => read[c] = RowsOf(setting, SourceIds(c))
  /\ pc[c] = "approval" \/ filed[c] # "none" => TRUE \in possible[c]
  /\ pc[c] = "respond" /\ ~required[c] /\ answer[c] # "withheld" => FALSE \in possible[c]
AllDeciding == \A c \in Calls : Deciding(c)

\* No call has read anything yet.
LEMMA DecidingInit == Init => AllDeciding
  BY DEF Init, AllDeciding, Deciding, Undecided

\* One kind of change at a time cannot make the two reads disagree.
LEMMA ChangeKeepsDeciding ==
  ASSUME TypeOK, AllDeciding, Changes # {"policy", "documents"}, Administer
  PROVE  AllDeciding'
<1>1. PICK rows \in [Docs -> Settings \cup {NoSettings}], pol \in Policies :
        /\ Change(rows, pol)
        /\ rows # setting => "documents" \in Changes
        /\ pol # policy => "policy" \in Changes
  BY AdministerChanges
<1> SUFFICES ASSUME NEW c \in Calls PROVE Deciding(c)'
  BY DEF AllDeciding
<1> DEFINE Now == ShouldRequireApproval(RowsOf(rows, SourceIds(c)), pol)
<1>2. Deciding(c)
  BY DEF AllDeciding
<1>3. /\ setting' = rows /\ policy' = pol /\ pc' = pc /\ filed' = filed
      /\ read' = read /\ required' = required /\ answer' = answer /\ sources' = sources
  BY <1>1 DEF Change, graph
<1>4. possible'[c] = IF pc[c] # "mode" THEN possible[c] ELSE possible[c] \cup {Now}
  BY <1>1 DEF Change
<1>5. CASE pc[c] # "mode"
  BY <1>2, <1>3, <1>4, <1>5 DEF Deciding
<1>6. CASE pc[c] = "mode"
  <2>1. rows = setting \/ pol = policy
    <3>1. ~("policy" \in Changes /\ "documents" \in Changes)
      BY SettingsAssumption
    <3> QED
      BY <1>1, <3>1
  <2>2. "documents" \notin Changes => rows = setting /\ read[c] = RowsOf(rows, SourceIds(c))
    BY <1>1, <1>2, <1>6 DEF Deciding
  <2>3. (SourceIds(c))' = SourceIds(c)
    BY <1>3 DEF SourceIds
  <2>4. (RowsOf(setting, SourceIds(c)))' = RowsOf(rows, SourceIds(c))
    BY <1>3, <2>3 DEF RowsOf
  <2>5. ShouldRequireApproval(read[c], pol) \in possible'[c]
    <3>1. CASE pol = policy
      BY <1>2, <1>4, <1>6, <3>1 DEF Deciding
    <3>2. CASE pol # policy
      <4>1. "documents" \notin Changes
        BY <1>1, <3>2, SettingsAssumption
      <4> QED
        BY <1>4, <1>6, <2>2, <4>1
    <3> QED
      BY <3>1, <3>2
  <2>6. (ShouldRequireApproval(read[c], policy))' = ShouldRequireApproval(read[c], pol)
    BY <1>3 DEF ShouldRequireApproval, HasAlways, HasSensitive, EffectiveMode
  <2> HIDE DEF Now
  <2> QED
    BY <1>2, <1>3, <1>4, <1>6, <2>2, <2>4, <2>5, <2>6 DEF Deciding
<1> QED
  BY <1>5, <1>6

\* A call whose own variables do not change keeps what is known of it.
Undisturbed(b) == /\ pc'[b] = pc[b] /\ sources'[b] = sources[b] /\ answer'[b] = answer[b]
                  /\ read'[b] = read[b] /\ required'[b] = required[b]
                  /\ filed'[b] = filed[b] /\ possible'[b] = possible[b]

\* A step of one call leaves the deciding of the others alone.
LEMMA OthersKeepDeciding ==
  ASSUME NEW b \in Calls, Deciding(b), Undisturbed(b), setting' = setting, policy' = policy
  PROVE  Deciding(b)'
<1>1. (RowsOf(setting, SourceIds(b)))' = RowsOf(setting, SourceIds(b))
  BY DEF RowsOf, SourceIds, Undisturbed
<1>2. (ShouldRequireApproval(read[b], policy))' = ShouldRequireApproval(read[b], policy)
  BY DEF ShouldRequireApproval, HasAlways, HasSensitive, EffectiveMode, Undisturbed
<1> QED
  BY <1>1, <1>2 DEF Deciding, Undisturbed

\* The first read (get_documents_by_ids): what it says is in force at that instant.
LEMMA DocumentsAreRead ==
  ASSUME TypeOK, NEW c \in Calls, Deciding(c), ReadDocuments(c)
  PROVE  Deciding(c)'
<1> DEFINE R == RowsOf(setting, SourceIds(c))
           V == ShouldRequireApproval(R, policy)
<1>1. CASE answer[c] = "withheld"
  BY <1>1 DEF ReadDocuments, Deciding, Undecided, Goto, TypeOK
<1>2. CASE answer[c] # "withheld"
  <2>1. /\ read'[c] = R /\ possible'[c] = {V} /\ pc[c] = "route"
        /\ pc'[c] = IF HasAlways(R) THEN "approval" ELSE "mode"
        /\ UNCHANGED <<setting, policy, sources, answer, required, filed>>
    BY <1>2 DEF ReadDocuments, Goto, TypeOK
  <2>2. (RowsOf(setting, SourceIds(c)))' = R
    BY <2>1 DEF RowsOf, SourceIds
  <2>3. (ShouldRequireApproval(read[c], policy))' = V
    BY <2>1 DEF ShouldRequireApproval, HasAlways, HasSensitive, EffectiveMode
  <2>4. HasAlways(R) => V = TRUE
    BY DEF ShouldRequireApproval
  <2>5. filed[c] = "none" /\ ~required[c]
    BY <2>1 DEF Deciding, Undecided
  <2> HIDE DEF R, V
  <2> QED
    BY <2>1, <2>2, <2>3, <2>4, <2>5 DEF Deciding, Undecided
<1> QED
  BY <1>1, <1>2

\* The second read (get_tenant_approval_mode): its verdict is among those in force meanwhile.
LEMMA PolicyIsRead ==
  ASSUME TypeOK, NEW c \in Calls, Deciding(c), ReadPolicy(c)
  PROVE  Deciding(c)'
<1> DEFINE V == ShouldRequireApproval(read[c], policy)
<1>1. V \in BOOLEAN
  BY DEF ShouldRequireApproval, HasAlways, HasSensitive
<1>2. /\ V \in possible[c] /\ filed[c] = "none" /\ ~required[c]
      /\ pc'[c] = IF V THEN "approval" ELSE "respond"
      /\ UNCHANGED <<setting, policy, sources, answer, read, required, filed, possible>>
  BY DEF ReadPolicy, Goto, graph, Deciding, Undecided, TypeOK
<1> HIDE DEF V
<1> QED
  BY <1>1, <1>2 DEF Deciding, Undecided

\* Every step keeps what is known of the calls that are deciding.
LEMMA DecidingNext ==
  ASSUME Changes # {"policy", "documents"}, TypeOK, AllDeciding, [Next]_vars
  PROVE  AllDeciding'
<1> USE DEF Goto, graph
<1>1. CASE Administer
  BY <1>1, ChangeKeepsDeciding
<1>2. ASSUME NEW c \in Calls, Step(c) \/ Fail(c)
      PROVE  /\ setting' = setting /\ policy' = policy
             /\ \A b \in Calls \ {c} : Undisturbed(b)
  BY <1>2 DEF Undisturbed, TypeOK, Step, Rewrite, Retrieve, Judge, Draft, ReadDocuments,
              ReadPolicy, FileApproval, Respond, LogAnswer, Fail
<1>3. ASSUME NEW c \in Calls, Step(c) \/ Fail(c)
      PROVE  Deciding(c)'
  <2>1. Deciding(c)
    BY DEF AllDeciding
  <2>2. CASE Rewrite(c)
    BY <2>1, <2>2 DEF Rewrite, TypeOK, Deciding, Undecided
  <2>3. CASE Retrieve(c)
    BY <2>1, <2>3 DEF Retrieve, TypeOK, Deciding, Undecided
  <2>4. CASE Judge(c)
    BY <2>1, <2>4 DEF Judge, RouteAfterJudge, TypeOK, Deciding, Undecided
  <2>5. CASE Draft(c)
    BY <2>1, <2>5 DEF Draft, TypeOK, Deciding, Undecided
  <2>6. CASE ReadDocuments(c)
    BY <2>1, <2>6, DocumentsAreRead
  <2>7. CASE ReadPolicy(c)
    BY <2>1, <2>7, PolicyIsRead
  <2>8. CASE FileApproval(c)
    BY <2>1, <2>8 DEF FileApproval, TypeOK, Deciding, Undecided
  <2>9. CASE Respond(c)
    BY <2>1, <2>9 DEF Respond, TypeOK, Deciding, Undecided
  <2>10. CASE LogAnswer(c)
    BY <2>1, <2>10 DEF LogAnswer, TypeOK, Deciding, Undecided
  <2>11. CASE Fail(c)
    BY <2>1, <2>11 DEF Fail, TypeOK, Deciding, Undecided
  <2> QED
    BY <1>3, <2>2, <2>3, <2>4, <2>5, <2>6, <2>7, <2>8, <2>9, <2>10, <2>11 DEF Step
<1>4. ASSUME NEW c \in Calls, Step(c) \/ Fail(c)
      PROVE  AllDeciding'
  <2> SUFFICES ASSUME NEW b \in Calls PROVE Deciding(b)'
    BY DEF AllDeciding
  <2>1. CASE b = c
    BY <1>3, <1>4, <2>1
  <2>2. CASE b # c
    <3>1. Deciding(b) /\ Undisturbed(b) /\ setting' = setting /\ policy' = policy
      BY <1>2, <1>4, <2>2 DEF AllDeciding
    <3> QED
      BY <3>1, OthersKeepDeciding
  <2> QED
    BY <2>1, <2>2
<1>5. CASE UNCHANGED vars
  <2> SUFFICES ASSUME NEW b \in Calls PROVE Deciding(b)'
    BY DEF AllDeciding
  <2>1. Deciding(b) /\ Undisturbed(b) /\ setting' = setting /\ policy' = policy
    BY <1>5 DEF vars, AllDeciding, Undisturbed
  <2> QED
    BY <2>1, OthersKeepDeciding
<1> QED
  BY <1>1, <1>4, <1>5 DEF Next

\* As long as admins change only the policy, or only the documents, every answer is
\* filed for approval, or goes without, as the policy in force said at some instant of
\* its decision (route_after_draft, should_require_approval). With both, see chat_mixed.
THEOREM DecisionsAreInForce ==
  ASSUME Changes # {"policy", "documents"}
  PROVE  Spec => []DecisionInForce
<1>1. Init => AllDeciding
  BY DecidingInit
<1>2. TypeOK /\ AllDeciding /\ [Next]_vars => AllDeciding'
  BY DecidingNext
<1>3. AllDeciding => DecisionInForce
  BY DEF AllDeciding, Deciding, DecisionInForce
<1> QED
  BY <1>1, <1>2, <1>3, TypeCorrect, PTL DEF Spec
-----------------------------------------------------------------------------
\* However many sources an answer has and whatever admins change meanwhile, each source has
\* its say in the decision (route_after_draft, should_require_approval).
THEOREM SourcesAreHeard == Spec => SourcesHaveTheirSay
<1>1. ASSUME TypeOK, [Next]_vars, NEW c \in Calls,
             pc[c] \in {"route", "mode"}, answer[c] # "withheld", pc'[c] \in {"respond", "approval"}
      PROVE  /\ pc'[c] = "respond" => \A r \in read'[c] : ~DocumentedChain(r, policy)
             /\ pc'[c] = "approval" => \/ EffectiveMode(policy) = "all"
                                       \/ \E r \in read'[c] : DocumentedChain(r, policy)
  <2>1. ReadDocuments(c) \/ ReadPolicy(c)
    <3>1. pc'[c] # pc[c]
      BY <1>1
    <3>2. ~Administer /\ ~UNCHANGED vars
      BY <1>1, <3>1, AdministerChanges DEF Change, vars
    <3>3. ASSUME NEW b \in Calls, Step(b) \/ Fail(b) PROVE b = c
      <4>1. \A a \in Calls : a # b => pc'[a] = pc[a]
        BY <1>1, <3>3 DEF TypeOK, Goto, graph, Step, Rewrite, Retrieve, Judge, Draft,
                          ReadDocuments, ReadPolicy, FileApproval, Respond, LogAnswer, Fail
      <4> QED
        BY <3>1, <4>1
    <3>4. Step(c)
      <4>1. ~Fail(c)
        BY <1>1 DEF Fail, Goto, TypeOK
      <4> QED
        BY <1>1, <3>2, <3>3, <4>1 DEF Next
    <3> QED
      BY <1>1, <3>4 DEF Step, Rewrite, Retrieve, Judge, Draft, FileApproval, Respond, LogAnswer
  <2>2. CASE ReadDocuments(c)
    <3>1. pc'[c] = "approval" /\ HasAlways(read'[c])
      BY <1>1, <2>2 DEF ReadDocuments, Goto, TypeOK
    <3> QED
      BY <3>1 DEF HasAlways, DocumentedChain
  <2>3. CASE ReadPolicy(c)
    <3>1. /\ read'[c] = read[c] /\ read[c] \in SUBSET Settings /\ policy \in Policies
          /\ pc'[c] = IF ShouldRequireApproval(read[c], policy) THEN "approval" ELSE "respond"
      BY <1>1, <2>3 DEF ReadPolicy, Goto, graph, TypeOK
    <3>2. ShouldRequireApproval(read[c], policy)
            <=> EffectiveMode(policy) = "all" \/ \E r \in read[c] : DocumentedChain(r, policy)
      BY <3>1, ChainOverSources
    <3> QED
      BY <3>1, <3>2
  <2> QED
    BY <2>1, <2>2, <2>3
<1>2. TypeOK /\ [Next]_vars =>
        [\A c \in Calls : pc[c] \in {"route", "mode"} /\ answer[c] # "withheld" =>
           /\ pc'[c] = "respond" => \A r \in read'[c] : ~DocumentedChain(r, policy)
           /\ pc'[c] = "approval" => \/ EffectiveMode(policy) = "all"
                                     \/ \E r \in read'[c] : DocumentedChain(r, policy)]_vars
  BY <1>1
<1> QED
  BY <1>2, TypeCorrect, PTL DEF Spec, SourcesHaveTheirSay
-----------------------------------------------------------------------------
\* What stands behind the reply of a call: nothing is promised before the end; once the
\* decision is taken, approval is required of just the calls whose draft is filed, and it
\* is never the block message.
Promised(c) ==
  /\ pc[c] # "done" => reply[c].status = "none"
  /\ pc[c] \in Undecided => filed[c] = "none" /\ ~required[c]
  /\ pc[c] \in {"route", "mode", "approval", "respond", "audit"} => answer[c] # "none"
  /\ pc[c] \in {"mode", "approval"} => answer[c] # "withheld"
  /\ pc[c] \in {"respond", "audit"} =>
       (required[c] <=> filed[c] # "none") /\ (required[c] => answer[c] # "withheld")
\* The reply of a call has its entry and, if pending, its request.
Answered(c) == reply[c].status \in {"completed", "pending"} =>
  /\ \E e \in audit : e.call = c /\ e.answer = reply[c].answer
                      /\ (e.action = "chat_pending" <=> reply[c].status = "pending")
  /\ reply[c].status = "pending" <=> filed[c] # "none"
AllBacked == \A c \in Calls : Promised(c) /\ Answered(c)

\* A call whose own variables do not change keeps its backing: entries are not removed.
LEMMA OthersStayBacked ==
  ASSUME NEW b \in Calls, Promised(b), Answered(b), audit \subseteq audit',
         pc'[b] = pc[b], answer'[b] = answer[b], required'[b] = required[b],
         filed'[b] = filed[b], reply'[b] = reply[b]
  PROVE  Promised(b)' /\ Answered(b)'
  BY DEF Promised, Answered

\* The reply says what the entry written with it says (chat()'s last lines).
LEMMA LogBacks ==
  ASSUME TypeOK, NEW c \in Calls, Promised(c), LogAnswer(c)
  PROVE  Promised(c)' /\ Answered(c)'
<1>1. /\ pc[c] = "audit" /\ pc'[c] = "done" /\ audit' = audit \cup {Entry(c)}
      /\ reply'[c] = Reply(IF required[c] THEN "pending" ELSE "completed", Shown(c))
      /\ UNCHANGED <<answer, required, filed>>
  BY DEF LogAnswer, Goto, graph, TypeOK
<1>2. /\ required[c] <=> filed[c] # "none"
      /\ required[c] => answer[c] # "withheld"
  BY <1>1 DEF Promised
<1>3. /\ Entry(c).call = c /\ Entry(c).answer = reply'[c].answer
      /\ Entry(c).action = "chat_pending" <=> reply'[c].status = "pending"
  BY <1>1, <1>2 DEF Entry, Reply
<1>4. reply'[c].status = "pending" <=> filed'[c] # "none"
  BY <1>1, <1>2 DEF Reply
<1> QED
  BY <1>1, <1>3, <1>4 DEF Promised, Answered, Undecided

LEMMA BackedNext == TypeOK /\ AllBacked /\ [Next]_vars => AllBacked'
<1> SUFFICES ASSUME TypeOK, AllBacked, [Next]_vars PROVE AllBacked'
  OBVIOUS
<1> USE DEF Goto, graph
<1>1. CASE Administer \/ UNCHANGED vars
  <2>1. UNCHANGED <<pc, answer, required, filed, reply, audit>>
    BY <1>1, AdministerChanges DEF Change, vars
  <2> QED
    BY <2>1, OthersStayBacked DEF AllBacked
<1>2. ASSUME NEW c \in Calls, Step(c) \/ Fail(c) PROVE Promised(c)' /\ Answered(c)'
  <2>3. Promised(c) /\ Answered(c)
    BY DEF AllBacked
  <2>4. CASE Rewrite(c) \/ Retrieve(c) \/ ReadPolicy(c)
    BY <2>3, <2>4 DEF Rewrite, Retrieve, ReadPolicy, TypeOK, Promised, Answered, Undecided
  <2>5. CASE Judge(c)
    BY <2>3, <2>5 DEF Judge, RouteAfterJudge, TypeOK, Promised, Answered, Undecided
  <2>6. CASE Draft(c)
    BY <2>3, <2>6 DEF Draft, TypeOK, Promised, Answered, Undecided
  <2>7. CASE ReadDocuments(c)
    BY <2>3, <2>7 DEF ReadDocuments, TypeOK, Promised, Answered, Undecided
  <2>8. CASE FileApproval(c)
    BY <2>3, <2>8 DEF FileApproval, TypeOK, Promised, Answered, Undecided
  <2>9. CASE Respond(c)
    BY <2>3, <2>9 DEF Respond, Reply, TypeOK, Promised, Answered, Undecided
  <2>10. CASE LogAnswer(c)
    BY <2>3, <2>10, LogBacks
  <2>11. CASE Fail(c)
    BY <2>3, <2>11 DEF Fail, Reply, TypeOK, Promised, Answered, Undecided
  <2> QED
    BY <1>2, <2>4, <2>5, <2>6, <2>7, <2>8, <2>9, <2>10, <2>11 DEF Step
<1>3. ASSUME NEW c \in Calls, Step(c) \/ Fail(c) PROVE AllBacked'
  <2>1. \A b \in Calls \ {c} : /\ pc'[b] = pc[b] /\ answer'[b] = answer[b] /\ filed'[b] = filed[b]
                               /\ required'[b] = required[b] /\ reply'[b] = reply[b]
    BY <1>3 DEF TypeOK, Step, Rewrite, Retrieve, Judge, Draft, ReadDocuments,
                ReadPolicy, FileApproval, Respond, LogAnswer, Fail
  <2>2. audit \subseteq audit'
    BY <1>3 DEF Step, Rewrite, Retrieve, Judge, Draft, ReadDocuments,
                ReadPolicy, FileApproval, Respond, LogAnswer, Fail
  <2> QED
    BY <1>2, <1>3, <2>1, <2>2, OthersStayBacked DEF AllBacked
<1> QED
  BY <1>1, <1>3 DEF Next

\* Whoever got an answer, or was promised a review, finds it in the audit trail, and the
\* promise is backed by a request filed with the draft (approval_node, chat).
THEOREM RepliesHaveBacking == Spec => []RepliesAreBacked
<1>1. Init => AllBacked
  BY DEF Init, AllBacked, Promised, Answered, Undecided, Reply
<1>2. AllBacked => RepliesAreBacked
  BY DEF AllBacked, Answered, RepliesAreBacked
<1> QED
  BY <1>1, <1>2, BackedNext, TypeCorrect, PTL DEF Spec
-----------------------------------------------------------------------------
\* How many nodes a call passes at most before its end, from each of them; every search
\* it still has left costs two more.
Place == [done |-> 0, audit |-> 1, respond |-> 2, approval |-> 3, mode |-> 4, route |-> 5,
          draft |-> 6, retrieve |-> 7, judge |-> 8, new |-> 8]
Remaining(c) == Place[pc[c]] + IF pc[c] \in {"new", "retrieve", "judge"}
                               THEN 2 * (MaxAttempts - attempts[c]) ELSE 0

\* All that a call has: while others run, or admins change its inputs, none of it moves.
Own(c) == <<pc[c], attempts[c], subs[c], sources[c], answer[c], read[c], required[c],
            filed[c], reply[c]>>

\* Whatever a step does to a call brings it nearer its end: it is answered after at most
\* 2 * max_retrieval_attempts + 8 of its own steps, however often the judge asks for more.
CallsWindDown ==
  [][\A c \in Calls : Own(c)' = Own(c) \/ Remaining(c)' < Remaining(c)]_vars

\* The graph has one cycle, judge to retrieve, and every turn uses up an attempt
\* (route_after_judge, retrieve_node). What CallsEnd says, but for the fairness.
THEOREM NoCallCircles ==
  Spec => /\ CallsWindDown
          /\ [](\A c \in Calls : Remaining(c) \in 0..(2 * MaxAttempts + 8))
<1>1. TypeOK /\ Counted => \A c \in Calls : Remaining(c) \in 0..(2 * MaxAttempts + 8)
  <2> SUFFICES ASSUME TypeOK, Counted, NEW c \in Calls
               PROVE  Remaining(c) \in 0..(2 * MaxAttempts + 8)
    OBVIOUS
  <2>1. attempts[c] \in Nat /\ attempts[c] <= MaxAttempts /\ MaxAttempts \in Nat /\ pc[c] \in Nodes
    BY SettingsAssumption DEF TypeOK
  <2>2. pc[c] = "retrieve" => attempts[c] < MaxAttempts
    BY DEF Counted
  <2> QED
    BY <2>1, <2>2 DEF Remaining, Place, Nodes
<1>2. ASSUME TypeOK, Counted, NEW b \in Calls, NEW c \in Calls, Step(b) \/ Fail(b)
      PROVE  Own(c)' = Own(c) \/ Remaining(c)' < Remaining(c)
  <2>1. CASE b # c
    <3>1. ASSUME Rewrite(b) \/ Judge(b) \/ Draft(b) PROVE Own(c)' = Own(c)
      <4>1. pc'[c] = pc[c]
        BY <1>2, <2>1, <3>1 DEF Rewrite, Judge, Draft, Goto, TypeOK
      <4>2. subs'[c] = subs[c]
        BY <1>2, <2>1, <3>1 DEF Rewrite, Judge, Draft, graph, TypeOK
      <4>3. answer'[c] = answer[c]
        BY <1>2, <2>1, <3>1 DEF Rewrite, Judge, Draft, graph, TypeOK
      <4> QED
        BY <3>1, <4>1, <4>2, <4>3 DEF Rewrite, Judge, Draft, graph, Own
    <3>4. ASSUME Retrieve(b) PROVE Own(c)' = Own(c)
      <4>1. sources'[c] = sources[c]
        BY <1>2, <2>1, <3>4 DEF Retrieve, TypeOK
      <4> QED
        BY <1>2, <2>1, <3>4, <4>1 DEF Retrieve, Goto, Own, TypeOK
    <3>2. ASSUME ReadDocuments(b) \/ ReadPolicy(b) \/ FileApproval(b) PROVE Own(c)' = Own(c)
      BY <1>2, <2>1, <3>2 DEF ReadDocuments, ReadPolicy, FileApproval, Goto, graph, Own, TypeOK
    <3>3. ASSUME Respond(b) \/ LogAnswer(b) \/ Fail(b) PROVE Own(c)' = Own(c)
      <4>1. pc'[c] = pc[c] /\ filed'[c] = filed[c] /\ UNCHANGED graph
        BY <1>2, <2>1, <3>3 DEF Respond, LogAnswer, Fail, Goto, graph, TypeOK
      <4>2. reply'[c] = reply[c]
        BY <1>2, <2>1, <3>3 DEF Respond, LogAnswer, Fail, Goto, TypeOK
      <4> QED
        BY <4>1, <4>2 DEF Own, graph
    <3> QED
      BY <1>2, <3>1, <3>2, <3>3, <3>4 DEF Step
  <2>2. CASE b = c
    <3>1. attempts[c] \in Nat /\ attempts[c] <= MaxAttempts /\ MaxAttempts \in Nat
      BY <1>2, SettingsAssumption DEF TypeOK
    <3>2. CASE Retrieve(c)
      <4>1. /\ pc[c] = "retrieve" /\ pc'[c] = "judge" /\ attempts'[c] = attempts[c] + 1
        BY <1>2, <3>2 DEF Retrieve, Goto, TypeOK
      <4> QED
        BY <3>1, <4>1 DEF Remaining, Place
    <3>3. CASE Judge(c)
      <4>1. pc[c] = "judge" /\ pc'[c] \in {"retrieve", "draft"} /\ attempts'[c] = attempts[c]
        BY <1>2, <3>3 DEF Judge, RouteAfterJudge, Goto, TypeOK
      <4> QED
        BY <3>1, <4>1 DEF Remaining, Place
    <3>4. CASE Rewrite(c) \/ Draft(c)
      <4>1. /\ attempts'[c] = attempts[c]
            /\ \/ pc[c] = "new" /\ pc'[c] = "retrieve"
               \/ pc[c] = "draft" /\ pc'[c] = "route"
        BY <1>2, <3>4 DEF Rewrite, Draft, Goto, graph, TypeOK
      <4> QED
        BY <3>1, <4>1 DEF Remaining, Place
    <3>5. CASE ReadDocuments(c) \/ ReadPolicy(c) \/ FileApproval(c) \/ Respond(c) \/ LogAnswer(c)
      <4>1. \/ pc[c] = "route" /\ pc'[c] \in {"respond", "approval", "mode"}
            \/ pc[c] = "mode" /\ pc'[c] \in {"respond", "approval"}
            \/ pc[c] = "approval" /\ pc'[c] = "respond"
            \/ pc[c] = "respond" /\ pc'[c] \in {"audit", "done"}
            \/ pc[c] = "audit" /\ pc'[c] = "done"
        BY <1>2, <3>5 DEF ReadDocuments, ReadPolicy, FileApproval, Respond, LogAnswer, Goto, TypeOK
      <4> QED
        BY <4>1 DEF Remaining, Place
    <3>6. CASE Fail(c)
      <4>1. pc[c] \in {"retrieve", "draft", "route", "mode", "approval", "audit"} /\ pc'[c] = "done"
        BY <1>2, <3>6 DEF Fail, Goto, TypeOK
      <4> QED
        BY <3>1, <4>1 DEF Remaining, Place
    <3> QED
      BY <1>2, <2>2, <3>2, <3>3, <3>4, <3>5, <3>6 DEF Step
  <2> QED
    BY <2>1, <2>2
<1>3. ASSUME TypeOK, Administer, NEW c \in Calls PROVE Own(c)' = Own(c)
  BY <1>3, AdministerChanges DEF Change, graph, Own
<1>4. UNCHANGED vars => \A c \in Calls : Own(c)' = Own(c)
  BY DEF vars, graph, Own
<1>5. TypeOK /\ Counted /\ [Next]_vars =>
        [\A c \in Calls : Own(c)' = Own(c) \/ Remaining(c)' < Remaining(c)]_vars
  BY <1>2, <1>3, <1>4 DEF Next
<1>6. Spec => [](TypeOK /\ Counted)
  BY TypeInit, TypeNext, PTL DEF Spec
<1> QED
  BY <1>1, <1>5, <1>6, PTL DEF Spec, CallsWindDown
-----------------------------------------------------------------------------
\* No draft before the draft node.
Unsettled == \A c \in Calls : pc[c] \in {"new", "retrieve", "judge", "draft"} => answer[c] = "none"

LEMMA UnsettledStep == TypeOK /\ Unsettled /\ [Next]_vars => Unsettled'
<1> SUFFICES ASSUME TypeOK, Unsettled, [Next]_vars PROVE Unsettled'
  OBVIOUS
<1>1. CASE Administer \/ UNCHANGED vars
  <2>1. UNCHANGED <<pc, answer>>
    BY <1>1, AdministerChanges DEF Change, graph, vars
  <2> QED
    BY <2>1 DEF Unsettled
<1>2. ASSUME NEW c \in Calls, Rewrite(c) \/ Retrieve(c) \/ Judge(c) PROVE Unsettled'
  BY <1>2 DEF Rewrite, Retrieve, Judge, Goto, graph, TypeOK, Unsettled
<1>3. ASSUME NEW c \in Calls, Draft(c) PROVE Unsettled'
  BY <1>3 DEF Draft, Goto, TypeOK, Unsettled
<1>4. ASSUME NEW c \in Calls,
             \/ ReadDocuments(c) \/ ReadPolicy(c) \/ FileApproval(c)
             \/ Respond(c) \/ LogAnswer(c) \/ Fail(c)
      PROVE  Unsettled'
  <2>1. PICK p \in {"respond", "approval", "mode", "audit", "done"} : Goto(c, p)
    BY <1>4 DEF ReadDocuments, ReadPolicy, FileApproval, Respond, LogAnswer, Fail
  <2>2. answer' = answer
    BY <1>4 DEF ReadDocuments, ReadPolicy, FileApproval, Respond, LogAnswer, Fail, graph
  <2> QED
    BY <2>1, <2>2 DEF Goto, TypeOK, Unsettled
<1> QED
  BY <1>1, <1>2, <1>3, <1>4 DEF Next, Step

\* What a user knows, and which calls have ended, changes for one call at a time.
LEMMA KnownOfOne ==
  ASSUME NEW c \in Calls, NEW v, \A b \in Calls \ {c} : reply'[b] = reply[b], Known'[c] = v
  PROVE  Known' = [Known EXCEPT ![c] = v]
<1>1. \A b \in Calls \ {c} : Known'[b] = Known[b]
  BY DEF Known
<1>2. Known = [b \in Calls |-> Known[b]] /\ Known' = [b \in Calls |-> Known'[b]]
  BY DEF Known
<1> HIDE DEF Known
<1> QED
  BY <1>1, <1>2

LEMMA EndedOfOne ==
  ASSUME TypeOK, NEW c \in Calls, NEW p, Goto(c, p)
  PROVE  Ended' = IF p = "done" THEN Ended \cup {c} ELSE Ended \ {c}
<1>1. \A b \in Calls : pc'[b] = IF b = c THEN p ELSE pc[b]
  BY DEF TypeOK, Goto
<1> QED
  BY <1>1 DEF Ended

LEMMA PathStep ==
  ASSUME TypeOK, AllBacked, Unsettled, NEW c \in Calls, Step(c) \/ Fail(c)
  PROVE  [Path!Next]_(Path!path)
<1>0. Promised(c)
  BY DEF AllBacked
<1>1. pc[c] # "done"
  BY DEF Step, Rewrite, Retrieve, Judge, Draft, ReadDocuments, ReadPolicy, FileApproval, Respond,
         LogAnswer, Fail
<1>2. c \notin Ended /\ Known[c] = "nothing"
  BY <1>0, <1>1 DEF Ended, Known, Promised
<1>3. reply' = reply => Known' = Known
  BY DEF Known
<1>4. ASSUME reply' = [reply EXCEPT ![c] = Reply("error", "none")] PROVE Known' = Known
  <2>1. \A b \in Calls \ {c} : reply'[b] = reply[b]
    BY <1>4 DEF TypeOK
  <2>2. Known'[c] = "nothing"
    BY <1>4 DEF TypeOK, Reply, Known
  <2> QED
    BY <1>2, <2>1, <2>2, KnownOfOne DEF Known
<1>5. CASE Rewrite(c) \/ Retrieve(c) \/ Judge(c) \/ ReadDocuments(c) \/ ReadPolicy(c)
  <2>1. PICK p \in Nodes \ {"done"} : Goto(c, p)
    BY <1>5 DEF Rewrite, Retrieve, Judge, RouteAfterJudge, ReadDocuments, ReadPolicy, Nodes
  <2>2. UNCHANGED <<answer, filed, audit, reply>>
    BY <1>5 DEF Rewrite, Retrieve, Judge, ReadDocuments, ReadPolicy, graph
  <2> QED
    BY <1>2, <1>3, <2>1, <2>2, EndedOfOne DEF Path!path
<1>6. CASE Draft(c)
  <2>1. PICK t \in Path!Texts : /\ answer' = [answer EXCEPT ![c] = t]
                                /\ OutputPolicy => t # "secret"
    BY <1>6 DEF Draft, Path!Texts
  <2>2. pc[c] = "draft" /\ Goto(c, "route") /\ UNCHANGED <<filed, audit, reply>>
    BY <1>6 DEF Draft
  <2>3. Ended' = Ended
    BY <1>2, <2>2, EndedOfOne
  <2>4. answer[c] = "none"
    BY <2>2 DEF Unsettled
  <2>5. Path!Settle(c)
    BY <1>3, <2>1, <2>2, <2>3, <2>4 DEF Path!Settle
  <2> QED
    BY <1>2, <2>5 DEF Path!Next
<1>7. ASSUME pc[c] = "approval", filed' = [filed EXCEPT ![c] = answer[c]], UNCHANGED <<answer, audit>>,
             Known' = Known, NEW p \in {"respond", "done"}, Goto(c, p)
      PROVE  Path!Next
  <2>1. Ended' \in {Ended, Ended \cup {c}}
    BY <1>2, <1>7, EndedOfOne
  <2>2. Path!File(c)
    BY <1>0, <1>2, <1>7, <2>1 DEF Path!File, Path!MayTell, Promised, Undecided
  <2> QED
    BY <1>2, <2>2 DEF Path!Next
<1>8. CASE FileApproval(c)
  BY <1>3, <1>7, <1>8 DEF FileApproval
<1>9. CASE Respond(c)
  <2>1. UNCHANGED <<answer, filed, audit>>
    BY <1>9 DEF Respond, graph
  <2>2. CASE Goto(c, "done") /\ reply' = [reply EXCEPT ![c] = Reply("error", "none")]
    BY <1>2, <1>4, <2>1, <2>2, EndedOfOne DEF Path!Next, Path!End
  <2>3. CASE Goto(c, "audit") /\ UNCHANGED reply
    BY <1>2, <1>3, <2>1, <2>3, EndedOfOne DEF Path!path
  <2> QED
    BY <1>9, <2>2, <2>3 DEF Respond
<1>10. ASSUME pc[c] = "audit", audit' = audit \cup {Entry(c)}, UNCHANGED <<answer, filed>>,
              Goto(c, "done"), Path!MayTell(c)
       PROVE  Path!Next
  <2>1. answer[c] # "none" /\ (required[c] <=> filed[c] # "none")
    BY <1>0, <1>10 DEF Promised
  <2>2. Entry(c) \in Path!Entries(c)
    BY <2>1 DEF Entry, Shown, Path!Entries, Path!Outcome, Titles
  <2>3. Path!Log(c)
    BY <1>10, <2>1, <2>2, EndedOfOne DEF Path!Log
  <2> QED
    BY <1>2, <2>3 DEF Path!Next
<1>11. CASE LogAnswer(c)
  <2>1. /\ pc[c] = "audit" /\ Goto(c, "done") /\ audit' = audit \cup {Entry(c)}
        /\ UNCHANGED <<answer, filed>>
        /\ reply' = [reply EXCEPT ![c] = Reply(IF required[c] THEN "pending" ELSE "completed", Shown(c))]
    BY <1>11 DEF LogAnswer, graph
  <2>2. required[c] <=> filed[c] # "none"
    BY <1>0, <2>1 DEF Promised
  <2>3. Known'[c] = IF filed[c] # "none" THEN "pending" ELSE "completed"
    BY <2>1, <2>2 DEF TypeOK, Reply, Known
  <2>4. \A b \in Calls \ {c} : reply'[b] = reply[b]
    BY <2>1 DEF TypeOK
  <2>5. Known' = [Known EXCEPT ![c] = IF filed[c] # "none" THEN "pending" ELSE "completed"]
    BY <2>3, <2>4, KnownOfOne
  <2>6. Path!MayTell(c)
    BY <1>2, <2>1, <2>5 DEF Path!MayTell, Path!Outcome
  <2> QED
    BY <1>10, <2>1, <2>6
<1>12. CASE Fail(c)
  <2>1. PICK committed \in BOOLEAN :
          /\ Goto(c, "done")
          /\ reply' = [reply EXCEPT ![c] = Reply("error", "none")]
          /\ filed' = IF committed /\ pc[c] = "approval" THEN [filed EXCEPT ![c] = answer[c]] ELSE filed
          /\ audit' = IF committed /\ pc[c] = "audit" THEN audit \cup {Entry(c)} ELSE audit
          /\ UNCHANGED answer
    BY <1>12 DEF Fail, graph
  <2>2. Known' = Known
    BY <1>4, <2>1
  <2>3. CASE committed /\ pc[c] = "approval"
    BY <1>7, <2>1, <2>2, <2>3
  <2>4. CASE committed /\ pc[c] = "audit"
    BY <1>10, <2>1, <2>2, <2>4 DEF Path!MayTell
  <2>5. CASE UNCHANGED <<filed, audit>>
    BY <1>2, <2>1, <2>2, <2>5, EndedOfOne DEF Path!Next, Path!End
  <2> QED
    BY <2>1, <2>3, <2>4, <2>5
<1> QED
  BY <1>5, <1>6, <1>8, <1>9, <1>11, <1>12 DEF Step

\* The workflow and chat() implement the common path of an answer, however admins change
\* its inputs and whatever fails: the text is settled once, that text is filed or none, and
\* the reply and the one entry of the trail say which.
THEOREM CallsKeepToPath == Spec => KeepsToPath
<1>1. Init => AllBacked /\ Unsettled
  BY DEF Init, AllBacked, Promised, Answered, Undecided, Reply, Unsettled
<1>2. Init => Path!Init
  <2> SUFFICES ASSUME Init PROVE Path!Init
    OBVIOUS
  <2>1. \A c \in Calls : reply[c].status = "none" /\ pc[c] = "new"
    BY DEF Init, Reply
  <2>2. Known = [c \in Calls |-> "nothing"] /\ Ended = {}
    BY <2>1 DEF Known, Ended
  <2> QED
    BY <2>2 DEF Init, Path!Init
<1>3. TypeOK /\ (Administer \/ UNCHANGED vars) => UNCHANGED Path!path
  <2> SUFFICES ASSUME TypeOK, Administer \/ UNCHANGED vars PROVE UNCHANGED Path!path
    OBVIOUS
  <2>1. UNCHANGED <<pc, answer, filed, reply, audit>>
    BY AdministerChanges DEF Change, graph, vars
  <2> QED
    BY <2>1 DEF Path!path, Known, Ended
<1>4. TypeOK /\ AllBacked /\ Unsettled /\ [Next]_vars => [Path!Next]_(Path!path)
  BY <1>3, PathStep DEF Next
<1> QED
  BY <1>1, <1>2, <1>4, BackedNext, UnsettledStep, TypeCorrect, PTL DEF Spec, KeepsToPath, Path!Spec
=============================================================================
