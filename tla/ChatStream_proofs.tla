-------------------------- MODULE ChatStream_proofs --------------------------
\* What a stream files, announces and logs, for any number of streams, whatever fails
\* and whoever leaves.
EXTENDS ChatStream, TLAPS

\* The settings, as config.py types them.
SettingsOK == /\ {React, OutputPolicy, RequireApproval} \subseteq BOOLEAN
              /\ MaxAttempts \in Nat \ {0}

\* The loop passes are counted below the limit as long as another may follow.
Capped(c) == pc[c] \in {"new", "retrieve", "judge"} => attempt[c] < Attempts
\* The answer is fixed by the check, and never what the policy blocks.
Checked(c) == /\ text[c] \in {"empty", "plain", "secret"}
              /\ pc[c] \in {"approve", "log", "done"} => answer[c] # "none"
              /\ OutputPolicy => answer[c] # "secret"
\* What is filed is that answer, and whoever is told of it was filed.
Filed(c) == /\ filed[c] # "none" => /\ filed[c] = answer[c] /\ answer[c] # "withheld"
                                    /\ pc[c] \in {"log", "done", "error", "left"}
            /\ "approval_required" \in events[c] => filed[c] # "none"
            /\ pc[c] \in {"log", "done"} /\ filed[c] # "none" => "approval_required" \in events[c]
Backed(e) == /\ pc[e.call] \in {"done", "error"}
             /\ e.answer = answer[e.call]
             /\ e.action = "chat_stream_pending" => filed[e.call] # "none"
Logged == \A e \in audit : Backed(e)
Kept == Logged /\ \A c \in Calls : Capped(c) /\ Checked(c) /\ Filed(c)

\* Attempts is max_retrieval_attempts, or one pass.
LEMMA AttemptsBound ==
  ASSUME SettingsOK
  PROVE  Attempts \in Nat /\ 0 < Attempts /\ Attempts <= MaxAttempts
  BY DEF SettingsOK, Attempts

LEMMA KeptInit == SettingsOK /\ Init => TypeOK /\ Kept
<1> SUFFICES ASSUME SettingsOK, Init PROVE TypeOK /\ Kept
  OBVIOUS
<1>1. TypeOK
  BY DEF SettingsOK, Init, TypeOK, Places, Texts, Events
<1>2. Kept
  BY AttemptsBound DEF Init, Kept, Logged, Capped, Checked, Filed
<1> QED
  BY <1>1, <1>2

\* The stream of another call is not touched.
Elsewhere(c) == \A b \in Calls \ {c} :
  /\ pc'[b] = pc[b] /\ attempt'[b] = attempt[b] /\ text'[b] = text[b]
  /\ events'[b] = events[b] /\ answer'[b] = answer[b] /\ filed'[b] = filed[b]

\* A step of call c that leaves c in order, and no audit entry behind its answer.
LEMMA OwnStep ==
  ASSUME TypeOK, Kept, NEW c \in Calls, Elsewhere(c),
         Capped(c)', Checked(c)', Filed(c)',
         pc[c] \notin {"done", "error"},
         \A e \in audit' : e \in audit \/ (e.call = c /\ Backed(e)')
  PROVE  Kept'
<1>1. \A b \in Calls : Capped(b)' /\ Checked(b)' /\ Filed(b)'
  <2> SUFFICES ASSUME NEW b \in Calls, b # c PROVE Capped(b)' /\ Checked(b)' /\ Filed(b)'
    OBVIOUS
  <2> QED
    BY DEF Kept, Elsewhere, Capped, Checked, Filed, Attempts
<1>2. Logged'
  <2> SUFFICES ASSUME NEW e \in audit', e \in audit PROVE Backed(e)'
    BY DEF Logged
  <2>1. e.call \in Calls /\ e.call # c
    BY DEF Kept, Logged, Backed, TypeOK
  <2> QED
    BY <2>1 DEF Kept, Logged, Backed, Elsewhere
<1> QED
  BY <1>1, <1>2 DEF Kept

\* The entry of the audit log.
LEMMA EntryType ==
  ASSUME TypeOK, NEW c \in Calls
  PROVE  /\ Entry(c) \in [call : Calls, action : Entries, answer : Texts]
         /\ Entry(c).call = c /\ Entry(c).answer = answer[c]
         /\ Entry(c).action = "chat_stream_pending" => filed[c] # "none"
  BY DEF TypeOK, Entry, Entries

\* A yield.
LEMMA SendType ==
  ASSUME TypeOK, NEW c \in Calls, NEW e \in Events, Send(c, e)
  PROVE  /\ events' \in [Calls -> SUBSET Events]
         /\ \A b \in Calls : b # c => events'[b] = events[b]
         /\ events'[c] = events[c] \cup {e}
<1>1. events[c] \cup {e} \in SUBSET Events
  BY DEF TypeOK
<1> QED
  BY <1>1 DEF TypeOK, Send

LEMMA StepKeeps ==
  ASSUME SettingsOK, TypeOK, Kept, NEW c \in Calls, Step(c) \/ Token(c) \/ Stop(c)
  PROVE  TypeOK' /\ Kept'
<1> USE DEF Goto, Send, End, local
<1>1. CASE Rewrite(c) \/ Judge(c) \/ EndOfTokens(c)
  <2>1. TypeOK'
    BY <1>1 DEF TypeOK, Places, Rewrite, Judge, EndOfTokens
  <2>2. Elsewhere(c) /\ audit' = audit /\ pc[c] \notin {"done", "error"}
    BY <1>1 DEF Elsewhere, TypeOK, Rewrite, Judge, EndOfTokens
  <2>3. Capped(c)' /\ Checked(c)' /\ Filed(c)'
    BY <1>1 DEF Kept, Capped, Checked, Filed, TypeOK, Attempts, Rewrite, Judge, EndOfTokens
  <2> QED
    BY <2>1, <2>2, <2>3, OwnStep
<1>2. CASE Retrieve(c)
  <2>1. /\ pc[c] = "retrieve" /\ attempt' = [attempt EXCEPT ![c] = attempt[c] + 1]
        /\ UNCHANGED <<text, answer, events, filed, audit>>
        /\ found' \in [Calls -> BOOLEAN]
        /\ \E p \in {"error", "judge", "generate"} :
             pc' = [pc EXCEPT ![c] = p] /\ (p = "judge" => attempt'[c] < Attempts)
    BY <1>2 DEF Retrieve, TypeOK
  <2>2. attempt[c] \in Nat /\ attempt[c] + 1 <= MaxAttempts
    BY <2>1, AttemptsBound DEF Kept, Capped, TypeOK, SettingsOK
  <2>3. attempt' \in [Calls -> 0..MaxAttempts]
    BY <2>1, <2>2 DEF TypeOK, SettingsOK
  <2>4. TypeOK'
    BY <2>1, <2>3 DEF TypeOK, Places
  <2>5. Elsewhere(c)
    BY <2>1 DEF Elsewhere, TypeOK
  <2>6. Capped(c)' /\ Checked(c)' /\ Filed(c)'
    BY <2>1 DEF Kept, Capped, Checked, Filed, TypeOK, Attempts
  <2> QED
    BY <2>1, <2>4, <2>5, <2>6, OwnStep
<1>3. CASE Token(c)
  <2>4. /\ pc[c] = "generate" /\ UNCHANGED <<pc, attempt, found, answer, filed, audit>>
        /\ \E t \in {"plain", "secret"} : text' = [text EXCEPT ![c] = t]
    BY <1>3 DEF Token
  <2>5. PICK e \in {"token", "secret token"} : Send(c, e)
    BY <1>3 DEF Token
  <2>6. /\ events' \in [Calls -> SUBSET Events]
        /\ \A b \in Calls : b # c => events'[b] = events[b]
        /\ events'[c] = events[c] \cup {e}
    BY <2>5, SendType DEF Events
  <2>7. text' \in [Calls -> Texts] /\ text'[c] \in {"plain", "secret"}
    BY <2>4 DEF TypeOK, Texts
  <2>1. TypeOK'
    BY <2>4, <2>6, <2>7 DEF TypeOK
  <2>2. Elsewhere(c) /\ audit' = audit /\ pc[c] \notin {"done", "error"}
    BY <2>4, <2>6 DEF Elsewhere, TypeOK
  <2>3. Capped(c)' /\ Checked(c)' /\ Filed(c)'
    BY <2>4, <2>6, <2>7 DEF Kept, Capped, Checked, Filed, TypeOK, Attempts
  <2> QED
    BY <2>1, <2>2, <2>3, OwnStep
<1>4. CASE CheckOutput(c)
  <2>1. TypeOK'
    BY <1>4 DEF TypeOK, Places, Texts, Events, CheckOutput
  <2>2. Elsewhere(c) /\ audit' = audit /\ pc[c] \notin {"done", "error"}
    BY <1>4 DEF Elsewhere, TypeOK, CheckOutput
  <2>3. Capped(c)' /\ Checked(c)' /\ Filed(c)'
    BY <1>4 DEF Kept, Capped, Checked, Filed, TypeOK, Attempts, CheckOutput
  <2> QED
    BY <2>1, <2>2, <2>3, OwnStep
<1>5. CASE Approve(c)
  <2>1. TypeOK'
    <3>1. filed' = [filed EXCEPT ![c] = answer[c]] \/ filed' = filed
      BY <1>5 DEF Approve
    <3>2. filed' \in [Calls -> Texts]
      BY <3>1 DEF TypeOK
    <3>3. PICK e \in {"approval_required", "done"} : Send(c, e)
      BY <1>5 DEF Approve
    <3>4. events' \in [Calls -> SUBSET Events]
      BY <3>3, SendType DEF Events
    <3> QED
      BY <1>5, <3>2, <3>4 DEF TypeOK, Places, Approve
  <2>2. Elsewhere(c) /\ audit' = audit /\ pc[c] \notin {"done", "error"}
    BY <1>5 DEF Elsewhere, TypeOK, Approve
  <2>3. Capped(c)' /\ Checked(c)'
    BY <1>5 DEF Kept, Capped, Checked, TypeOK, Attempts, Approve
  <2>4. Filed(c)'
    BY <1>5 DEF Kept, Checked, Filed, TypeOK, Approve, NeedsApproval
  <2> QED
    BY <2>1, <2>2, <2>3, <2>4, OwnStep
<1>6. CASE Log(c)
  <2>1. TypeOK'
    BY <1>6, EntryType DEF SettingsOK, TypeOK, Places, Texts, Log
  <2>2. Elsewhere(c) /\ pc[c] = "log" /\ pc'[c] = "done"
    BY <1>6 DEF Elsewhere, TypeOK, Log
  <2>3. Capped(c)' /\ Checked(c)' /\ Filed(c)'
    BY <1>6 DEF Kept, Capped, Checked, Filed, TypeOK, Attempts, Log
  <2>4. audit' = audit \cup {Entry(c)} /\ UNCHANGED <<answer, filed>>
    BY <1>6 DEF Log
  <2> QED
    BY <2>1, <2>2, <2>3, <2>4, EntryType, OwnStep DEF Backed
<1>7. CASE Stop(c)
  <2>1. PICK committed \in BOOLEAN, end \in {"error", "left"} :
          /\ pc[c] \notin {"new", "check", "done", "error", "left"} \/ (end = "left" /\ pc[c] = "check")
          /\ pc' = [pc EXCEPT ![c] = end]
          /\ filed' = IF committed /\ pc[c] = "approve" /\ NeedsApproval(c)
                      THEN [filed EXCEPT ![c] = answer[c]] ELSE filed
          /\ audit' = IF committed /\ end = "error" /\ pc[c] = "log" THEN audit \cup {Entry(c)} ELSE audit
          /\ attempt' = [attempt EXCEPT ![c] = 0] /\ found' = [found EXCEPT ![c] = FALSE]
          /\ text' = [text EXCEPT ![c] = "empty"]
          /\ UNCHANGED <<answer, events>>
    BY <1>7 DEF Stop
  <2>2. TypeOK'
    BY <2>1, EntryType DEF SettingsOK, TypeOK, Places, Texts
  <2>3. Elsewhere(c) /\ pc[c] \notin {"done", "error"} /\ pc'[c] = end
    BY <2>1 DEF Elsewhere, TypeOK
  <2>4. Capped(c)' /\ Checked(c)' /\ Filed(c)'
    BY <2>1, <2>3 DEF Kept, Capped, Checked, Filed, TypeOK, Attempts, NeedsApproval
  <2>5. pc[c] = "log" => filed'[c] = filed[c]
    BY <2>1
  <2>6. \A e \in audit' : e \in audit \/ (e.call = c /\ Backed(e)')
    BY <2>1, <2>3, <2>5, EntryType DEF Backed
  <2> QED
    BY <2>2, <2>3, <2>4, <2>6, OwnStep
<1> QED
  BY <1>1, <1>2, <1>3, <1>4, <1>5, <1>6, <1>7 DEF Step

LEMMA KeptStep == SettingsOK /\ TypeOK /\ Kept /\ [Next]_vars => TypeOK' /\ Kept'
<1>1. TypeOK /\ Kept /\ UNCHANGED vars => TypeOK' /\ Kept'
  BY DEF vars, local, TypeOK, Kept, Logged, Backed, Capped, Checked, Filed, Attempts
<1> QED
  BY <1>1, StepKeeps DEF Next

LEMMA KeptAlways == ASSUME SettingsOK PROVE Spec => [](TypeOK /\ Kept)
<1>1. Init => TypeOK /\ Kept
  BY KeptInit
<1>2. TypeOK /\ Kept /\ [Next]_vars => TypeOK' /\ Kept'
  BY KeptStep
<1> QED
  BY <1>1, <1>2, PTL DEF Spec

\* Every variable keeps its type; the loop of the generator (chat.py) makes
\* max_retrieval_attempts passes at most, whatever the judge says.
THEOREM StreamTypeCorrect == ASSUME SettingsOK PROVE Spec => []TypeOK
  BY KeptAlways, PTL

\* What follows from the invariant for the two properties.
LEMMA KeptIsFiled == TypeOK /\ Kept => AnnouncedIsFiled
<1> SUFFICES ASSUME TypeOK, Kept PROVE AnnouncedIsFiled
  OBVIOUS
<1>1. \A c \in Calls : "approval_required" \in events[c] => filed[c] \notin {"none", "withheld"}
  BY DEF Kept, Filed
<1>2. ASSUME NEW e \in audit, e.action = "chat_stream_pending"
      PROVE  filed[e.call] = e.answer /\ (pc[e.call] = "done" => "approval_required" \in events[e.call])
  <2>1. e.call \in Calls
    BY DEF TypeOK
  <2> QED
    BY <1>2, <2>1 DEF Kept, Logged, Backed, Filed
<1> QED
  BY <1>1, <1>2 DEF AnnouncedIsFiled

LEMMA KeptIsClean == TypeOK /\ Kept => SecretsNotKept
<1> SUFFICES ASSUME TypeOK, Kept, OutputPolicy
             PROVE  (\A c \in Calls : filed[c] # "secret") /\ (\A e \in audit : e.answer # "secret")
  BY DEF SecretsNotKept
<1>1. \A c \in Calls : filed[c] # "secret"
  BY DEF Kept, Filed, Checked
<1>2. \A e \in audit : e.call \in Calls /\ e.answer = answer[e.call]
  BY DEF Kept, Logged, Backed, TypeOK
<1> QED
  BY <1>1, <1>2 DEF Kept, Checked

\* A client that was told of an approval can poll for it, and the trail says pending of
\* just those answers: the request is inserted before the event is yielded and the entry
\* written (chat.py), wherever the generator is stopped.
THEOREM AnnouncedAreFiled == ASSUME SettingsOK PROVE Spec => []AnnouncedIsFiled
  BY KeptAlways, KeptIsFiled, PTL

\* No text the output policy blocks is filed or logged, though it was streamed (chat.py).
THEOREM BlockedTextIsNotKept == ASSUME SettingsOK PROVE Spec => []SecretsNotKept
  BY KeptAlways, KeptIsClean, PTL
-----------------------------------------------------------------------------
\* How far a stream is from its end, the tokens of the LLM not counted; every pass of the
\* loop it still has left costs two more.
Place == [done |-> 0, error |-> 0, left |-> 0, log |-> 1, approve |-> 2, check |-> 3,
          generate |-> 4, retrieve |-> 5, judge |-> 6, new |-> 6]
Remaining(c) == Place[pc[c]] + IF pc[c] \in {"new", "retrieve", "judge"}
                               THEN 2 * (Attempts - attempt[c]) ELSE 0

\* All that a stream has, and the part of it that tokens do not touch.
Fixed(c) == <<pc[c], attempt[c], found[c], answer[c], filed[c]>>
Own(c) == <<Fixed(c), text[c], events[c]>>

\* Whatever a step does to a stream brings it nearer its end, but for a token, which
\* adds to the text and is sent and changes nothing else.
StreamsWindDown ==
  [][\A c \in Calls : \/ Own(c)' = Own(c)
                      \/ Remaining(c)' < Remaining(c)
                      \/ pc[c] = "generate" /\ Fixed(c)' = Fixed(c)]_vars

\* The generator (chat.py) ends after at most 2 * max_retrieval_attempts + 6 steps besides
\* the tokens: the judge cannot keep it searching, whatever the other streams do.
\* What StreamsEnd says, but for the fairness.
THEOREM NoStreamCircles ==
  ASSUME SettingsOK
  PROVE  Spec => /\ StreamsWindDown
                 /\ [](\A c \in Calls : Remaining(c) \in 0..(2 * MaxAttempts + 6))
<1>0. Attempts \in Nat /\ Attempts <= MaxAttempts /\ MaxAttempts \in Nat
  BY AttemptsBound DEF SettingsOK
<1>1. TypeOK /\ Kept => \A c \in Calls : Remaining(c) \in 0..(2 * MaxAttempts + 6)
  <2> SUFFICES ASSUME TypeOK, Kept, NEW c \in Calls
               PROVE  Remaining(c) \in 0..(2 * MaxAttempts + 6)
    OBVIOUS
  <2>1. attempt[c] \in Nat /\ pc[c] \in Places
    BY <1>0 DEF TypeOK
  <2>2. pc[c] \in {"new", "retrieve", "judge"} => attempt[c] < Attempts
    BY DEF Kept, Capped
  <2> QED
    BY <1>0, <2>1, <2>2 DEF Remaining, Place, Places
<1>2. ASSUME TypeOK, Kept, NEW b \in Calls, NEW c \in Calls, Step(b) \/ Token(b) \/ Stop(b)
      PROVE  \/ Own(c)' = Own(c)
             \/ Remaining(c)' < Remaining(c)
             \/ pc[c] = "generate" /\ Fixed(c)' = Fixed(c)
  <2>1. CASE b # c
    <3>1. pc'[c] = pc[c] /\ attempt'[c] = attempt[c]
      BY <1>2, <2>1 DEF TypeOK, Step, Rewrite, Retrieve, Judge, EndOfTokens, CheckOutput,
                        Approve, Log, Token, Stop, Goto, End, local
    <3>2. found'[c] = found[c]
      BY <1>2, <2>1 DEF TypeOK, Step, Rewrite, Retrieve, Judge, EndOfTokens, CheckOutput,
                        Approve, Log, Token, Stop, End, local
    <3>3. text'[c] = text[c] /\ answer'[c] = answer[c]
      BY <1>2, <2>1 DEF TypeOK, Step, Rewrite, Retrieve, Judge, EndOfTokens, CheckOutput,
                        Approve, Log, Token, Stop, End, local
    <3>4. filed'[c] = filed[c]
      BY <1>2, <2>1 DEF TypeOK, Step, Rewrite, Retrieve, Judge, EndOfTokens, CheckOutput,
                        Approve, Log, Token, Stop
    <3>5. events'[c] = events[c]
      BY <1>2, <2>1 DEF TypeOK, Step, Rewrite, Retrieve, Judge, EndOfTokens, CheckOutput,
                        Approve, Log, Token, Stop, Send
    <3> QED
      BY <3>1, <3>2, <3>3, <3>4, <3>5 DEF Own, Fixed
  <2>2. CASE b = c
    <3>1. attempt[c] \in Nat
      BY <1>2, <1>0 DEF TypeOK
    <3>2. CASE Retrieve(c)
      <4>1. /\ pc[c] = "retrieve" /\ pc'[c] \in {"error", "judge", "generate"}
            /\ attempt'[c] = attempt[c] + 1
        BY <1>2, <3>2 DEF Retrieve, Goto, TypeOK
      <4>2. attempt[c] < Attempts
        BY <1>2, <4>1 DEF Kept, Capped
      <4>3. Attempts' = Attempts
        BY DEF Attempts
      <4> QED
        BY <1>0, <3>1, <4>1, <4>2, <4>3 DEF Remaining, Place
    <3>3. CASE Rewrite(c) \/ Judge(c)
      <4>1. /\ attempt'[c] = attempt[c]
            /\ \/ pc[c] = "new" /\ pc'[c] = "retrieve"
               \/ pc[c] = "judge" /\ pc'[c] \in {"retrieve", "generate"}
        BY <1>2, <3>3 DEF Rewrite, Judge, Goto, local, TypeOK
      <4>2. attempt[c] < Attempts
        BY <1>2, <4>1 DEF Kept, Capped
      <4>3. Attempts' = Attempts
        BY DEF Attempts
      <4> QED
        BY <1>0, <3>1, <4>1, <4>2, <4>3 DEF Remaining, Place
    <3>4. CASE EndOfTokens(c) \/ CheckOutput(c) \/ Approve(c) \/ Log(c)
      <4>1. \/ pc[c] = "generate" /\ pc'[c] = "check"
            \/ pc[c] = "check" /\ pc'[c] = "approve"
            \/ pc[c] = "approve" /\ pc'[c] = "log"
            \/ pc[c] = "log" /\ pc'[c] = "done"
        BY <1>2, <3>4 DEF EndOfTokens, CheckOutput, Approve, Log, Goto, End, TypeOK
      <4> QED
        BY <4>1 DEF Remaining, Place
    <3>5. CASE Token(c)
      BY <3>5 DEF Token, Fixed
    <3>6. CASE Stop(c)
      <4>1. pc'[c] \in {"error", "left"} /\ pc[c] \in Places \ {"new", "done", "error", "left"}
        BY <1>2, <3>6 DEF Stop, Goto, End, TypeOK, Places
      <4>2. pc[c] \in {"retrieve", "judge"} => attempt[c] < Attempts
        BY <1>2 DEF Kept, Capped
      <4> QED
        BY <1>0, <3>1, <4>1, <4>2 DEF Remaining, Place, Places
    <3> QED
      BY <1>2, <2>2, <3>2, <3>3, <3>4, <3>5, <3>6 DEF Step
  <2> QED
    BY <2>1, <2>2
<1>3. UNCHANGED vars => \A c \in Calls : Own(c)' = Own(c)
  BY DEF vars, local, Own, Fixed
<1>4. TypeOK /\ Kept /\ [Next]_vars =>
        [\A c \in Calls : \/ Own(c)' = Own(c)
                          \/ Remaining(c)' < Remaining(c)
                          \/ pc[c] = "generate" /\ Fixed(c)' = Fixed(c)]_vars
  BY <1>2, <1>3 DEF Next
<1> QED
  BY <1>1, <1>4, KeptAlways, PTL DEF Spec, StreamsWindDown
-----------------------------------------------------------------------------
\* Before the check nothing is settled, and before the request is filed, or need not be,
\* the client has heard of no outcome.
Unheard(c) ==
  /\ pc[c] \in {"new", "retrieve", "judge", "generate", "check"} => answer[c] = "none"
  /\ pc[c] \notin {"log", "done", "error", "left"} => events[c] \cap {"approval_required", "done"} = {}
AllUnheard == \A c \in Calls : Unheard(c)

LEMMA UnheardStep == TypeOK /\ AllUnheard /\ [Next]_vars => AllUnheard'
<1> SUFFICES ASSUME TypeOK, AllUnheard, [Next]_vars, NEW c \in Calls PROVE Unheard(c)'
  BY DEF AllUnheard
<1> USE DEF Goto, Send, End, local
<1>1. ASSUME NEW b \in Calls, Rewrite(b) \/ Retrieve(b) \/ Judge(b) \/ EndOfTokens(b) PROVE Unheard(c)'
  BY <1>1 DEF Rewrite, Retrieve, Judge, EndOfTokens, TypeOK, AllUnheard, Unheard
<1>2. ASSUME NEW b \in Calls, Token(b) PROVE Unheard(c)'
  <2>0. PICK e \in {"token", "secret token"} : Send(b, e)
    BY <1>2 DEF Token
  <2>1. pc' = pc /\ answer' = answer /\ events'[c] \subseteq events[c] \cup {"token", "secret token"}
    BY <1>2, <2>0 DEF Token, TypeOK
  <2> QED
    BY <2>1 DEF AllUnheard, Unheard
<1>3. ASSUME NEW b \in Calls, CheckOutput(b) PROVE Unheard(c)'
  <2>1. /\ pc[b] = "check" /\ pc' = [pc EXCEPT ![b] = "approve"]
        /\ events'[c] \subseteq events[c] \cup {"policy_blocked", "policy_passed"}
        /\ c # b => answer'[c] = answer[c]
    BY <1>3 DEF CheckOutput, TypeOK
  <2> QED
    BY <2>1 DEF TypeOK, AllUnheard, Unheard
<1>4. ASSUME NEW b \in Calls, Approve(b) PROVE Unheard(c)'
  <2>1. /\ pc[b] = "approve" /\ pc' = [pc EXCEPT ![b] = "log"] /\ answer' = answer
        /\ c # b => events'[c] = events[c]
    BY <1>4 DEF Approve, TypeOK
  <2> QED
    BY <2>1 DEF TypeOK, AllUnheard, Unheard
<1>5. ASSUME NEW b \in Calls, Log(b) \/ Stop(b) PROVE Unheard(c)'
  <2>1. /\ pc' = [pc EXCEPT ![b] = pc'[b]] /\ pc'[b] \in {"done", "error", "left"}
        /\ answer' = answer /\ events' = events
    BY <1>5 DEF Log, Stop, TypeOK
  <2> QED
    BY <2>1 DEF TypeOK, AllUnheard, Unheard
<1>6. CASE UNCHANGED vars
  BY <1>6 DEF vars, AllUnheard, Unheard
<1> QED
  BY <1>1, <1>2, <1>3, <1>4, <1>5, <1>6 DEF Next, Step

\* What the client knows, and which streams have ended, changes for one stream at a time.
LEMMA KnownOfOne ==
  ASSUME NEW c \in Calls, NEW v, \A b \in Calls \ {c} : events'[b] = events[b], Known'[c] = v
  PROVE  Known' = [Known EXCEPT ![c] = v]
<1>1. \A b \in Calls \ {c} : Known'[b] = Known[b]
  BY DEF Known
<1>2. Known = [b \in Calls |-> Known[b]] /\ Known' = [b \in Calls |-> Known'[b]]
  BY DEF Known
<1> HIDE DEF Known
<1> QED
  BY <1>1, <1>2

LEMMA EndedOfOne ==
  ASSUME TypeOK, NEW c \in Calls, NEW p, Goto(c, p)
  PROVE  Ended' = IF p \in {"done", "error", "left"} THEN Ended \cup {c} ELSE Ended \ {c}
<1>1. \A b \in Calls : pc'[b] = IF b = c THEN p ELSE pc[b]
  BY DEF TypeOK, Goto
<1> QED
  BY <1>1 DEF Ended

\* A step of the pipeline that settles and tells nothing.
LEMMA NothingSettled ==
  ASSUME TypeOK, NEW c \in Calls, NEW p \in Places \ {"done", "error", "left"}, c \notin Ended,
         Goto(c, p), Known' = Known, UNCHANGED <<answer, filed, audit>>
  PROVE  UNCHANGED Path!path
<1>1. Ended' = Ended
  BY EndedOfOne
<1> QED
  BY <1>1 DEF Path!path

LEMMA PathStep ==
  ASSUME TypeOK, Kept, AllUnheard, NEW c \in Calls, Step(c) \/ Token(c) \/ Stop(c)
  PROVE  [Path!Next]_(Path!path)
<1>0. Capped(c) /\ Checked(c) /\ Filed(c) /\ Unheard(c)
  BY DEF Kept, AllUnheard
<1>1. pc[c] \notin {"done", "error", "left"}
  BY DEF Step, Rewrite, Retrieve, Judge, EndOfTokens, CheckOutput, Approve, Log, Token, Stop
<1>2. c \notin Ended
  BY <1>1 DEF Ended
<1>3. pc[c] # "log" => Known[c] = "nothing"
  BY <1>0, <1>1 DEF Unheard, Known
<1>4. events' = events => Known' = Known
  BY DEF Known
<1>5. CASE Rewrite(c) \/ Judge(c) \/ EndOfTokens(c)
  <2>1. PICK p \in {"retrieve", "generate", "check"} : Goto(c, p)
    BY <1>5 DEF Rewrite, Judge, EndOfTokens
  <2> QED
    BY <1>2, <1>4, <1>5, <2>1, NothingSettled DEF Rewrite, Judge, EndOfTokens, local, Places
<1>6. CASE Retrieve(c)
  <2>1. \E p \in {"error", "judge", "generate"} : Goto(c, p)
    BY <1>6 DEF Retrieve
  <2>2. Known' = Known /\ UNCHANGED <<answer, filed, audit>>
    BY <1>4, <1>6 DEF Retrieve
  <2>3. CASE Goto(c, "error")
    <3>1. Ended' = Ended \cup {c}
      BY <2>3, EndedOfOne
    <3> QED
      BY <1>2, <2>2, <3>1 DEF Path!Next, Path!End
  <2> QED
    BY <1>2, <2>1, <2>2, <2>3, NothingSettled DEF Places
<1>7. CASE Token(c)
  <2>1. UNCHANGED <<pc, answer, filed, audit>>
    BY <1>7 DEF Token
  <2>2. PICK e \in {"token", "secret token"} : Send(c, e)
    BY <1>7 DEF Token
  <2>3. \A b \in Calls : /\ "approval_required" \in events'[b] <=> "approval_required" \in events[b]
                         /\ "done" \in events'[b] <=> "done" \in events[b]
    BY <2>2 DEF Send, TypeOK
  <2>4. Known' = Known
    BY <2>3 DEF Known
  <2>5. Ended' = Ended
    BY <2>1 DEF Ended
  <2> QED
    BY <2>1, <2>4, <2>5 DEF Path!path
<1>8. CASE CheckOutput(c)
  <2>1. PICK t \in Path!Texts : /\ answer' = [answer EXCEPT ![c] = t]
                                /\ OutputPolicy => t # "secret"
    BY <1>0, <1>8 DEF CheckOutput, Checked, Path!Texts
  <2>2. pc[c] = "check" /\ Goto(c, "approve") /\ UNCHANGED <<filed, audit>> /\ answer[c] = "none"
    BY <1>0, <1>8 DEF CheckOutput, Unheard
  <2>3. /\ \A b \in Calls \ {c} : events'[b] = events[b]
        /\ events'[c] \subseteq events[c] \cup {"policy_blocked", "policy_passed"}
    BY <1>8 DEF CheckOutput, Send, TypeOK
  <2>4. Known'[c] = "nothing"
    BY <1>0, <2>2, <2>3 DEF Unheard, Known
  <2>5. Known' = Known
    BY <1>3, <2>2, <2>3, <2>4, KnownOfOne DEF Known
  <2>6. Ended' = Ended
    BY <1>2, <2>2, EndedOfOne
  <2>7. Path!Settle(c)
    BY <2>1, <2>2, <2>5, <2>6 DEF Path!Settle
  <2> QED
    BY <1>2, <2>7 DEF Path!Next
<1>9. CASE Approve(c)
  <2>1. /\ pc[c] = "approve" /\ Goto(c, "log") /\ UNCHANGED <<answer, audit>>
        /\ answer[c] # "none" /\ filed[c] = "none"
    BY <1>0, <1>9 DEF Approve, Checked, Filed, local
  <2>2. Ended' = Ended
    BY <1>2, <2>1, EndedOfOne
  <2>3. \A b \in Calls \ {c} : events'[b] = events[b]
    BY <1>9 DEF Approve, Send, TypeOK
  <2>4. CASE NeedsApproval(c)
    <3>1. filed' = [filed EXCEPT ![c] = answer[c]] /\ answer[c] # "withheld" /\ filed'[c] # "none"
      BY <1>9, <2>1, <2>4 DEF Approve, NeedsApproval, TypeOK
    <3>2. Known'[c] = "pending"
      BY <1>9, <2>4 DEF Approve, Send, Known, TypeOK
    <3>3. Known' = [Known EXCEPT ![c] = "pending"]
      BY <2>3, <3>2, KnownOfOne
    <3>4. Path!MayTell(c)
      BY <1>3, <2>1, <3>1, <3>3 DEF Path!MayTell, Path!Outcome
    <3>5. Path!File(c)
      BY <1>3, <2>1, <2>2, <3>1, <3>4 DEF Path!File
    <3> QED
      BY <1>2, <3>5 DEF Path!Next
  <2>5. CASE ~NeedsApproval(c)
    <3>1. filed' = filed
      BY <1>9, <2>5 DEF Approve
    <3>2. Known'[c] = "completed"
      BY <1>0, <1>9, <2>1, <2>5 DEF Approve, Send, Known, TypeOK, Unheard
    <3>3. Known' = [Known EXCEPT ![c] = "completed"]
      BY <2>3, <3>2, KnownOfOne
    <3>4. Path!Tell(c)
      BY <1>3, <2>1, <2>2, <3>1, <3>3 DEF Path!Tell, Path!Outcome
    <3> QED
      BY <1>2, <3>4 DEF Path!Next
  <2> QED
    BY <2>4, <2>5
<1>10. Entry(c) \in Path!Entries(c)
  BY DEF Entry, Path!Entries, Path!Outcome, Titles
<1>11. ASSUME pc[c] = "log", audit' = audit \cup {Entry(c)}, events' = events, UNCHANGED <<answer, filed>>,
              NEW p \in {"done", "error", "left"}, Goto(c, p)
       PROVE  Path!Next
  <2>1. Ended' = Ended \cup {c}
    BY <1>11, EndedOfOne
  <2>2. answer[c] # "none"
    BY <1>0, <1>11 DEF Checked
  <2>3. Path!Log(c)
    BY <1>4, <1>10, <1>11, <2>1, <2>2 DEF Path!Log, Path!MayTell
  <2> QED
    BY <1>2, <2>3 DEF Path!Next
<1>12. CASE Log(c)
  BY <1>11, <1>12 DEF Log, End, local
<1>13. CASE Stop(c)
  <2>1. PICK committed \in BOOLEAN, end \in {"error", "left"} :
          /\ Goto(c, end)
          /\ filed' = IF committed /\ pc[c] = "approve" /\ NeedsApproval(c)
                      THEN [filed EXCEPT ![c] = answer[c]] ELSE filed
          /\ audit' = IF committed /\ end = "error" /\ pc[c] = "log" THEN audit \cup {Entry(c)} ELSE audit
          /\ UNCHANGED <<answer, events>>
    BY <1>13 DEF Stop, End, local
  <2>2. Ended' = Ended \cup {c}
    BY <2>1, EndedOfOne
  <2>3. CASE committed /\ pc[c] = "approve" /\ NeedsApproval(c)
    <3>1. answer[c] \notin {"none", "withheld"} /\ filed[c] = "none" /\ Known[c] = "nothing"
      BY <1>0, <1>3, <2>3 DEF Checked, Filed, NeedsApproval
    <3>2. filed' = [filed EXCEPT ![c] = answer[c]] /\ UNCHANGED <<answer, audit>> /\ Known' = Known
      BY <1>4, <2>1, <2>3
    <3>3. Path!File(c)
      BY <2>2, <3>1, <3>2 DEF Path!File, Path!MayTell
    <3> QED
      BY <1>2, <3>3 DEF Path!Next
  <2>4. CASE committed /\ end = "error" /\ pc[c] = "log"
    BY <1>11, <2>1, <2>4
  <2>5. CASE UNCHANGED <<filed, audit>>
    BY <1>2, <1>4, <2>1, <2>2, <2>5 DEF Path!Next, Path!End
  <2> QED
    BY <2>1, <2>3, <2>4, <2>5
<1> QED
  BY <1>5, <1>6, <1>7, <1>8, <1>9, <1>12, <1>13 DEF Step

\* The generator (chat.py, /chat/stream) implements the common path of an answer, wherever
\* it fails or is left: a client told "done" has no request filed later, whoever is told
\* of an approval has it filed, and the one entry of the trail says the same.
THEOREM StreamsKeepToPath == ASSUME SettingsOK PROVE Spec => KeepsToPath
<1>1. Init => Path!Init /\ AllUnheard
  <2> SUFFICES ASSUME Init PROVE Path!Init /\ AllUnheard
    OBVIOUS
  <2>1. \A c \in Calls : events[c] = {} /\ pc[c] = "new"
    BY DEF Init
  <2>2. Known = [c \in Calls |-> "nothing"] /\ Ended = {}
    BY <2>1 DEF Known, Ended
  <2> QED
    BY <2>1, <2>2 DEF Init, Path!Init, AllUnheard, Unheard
<1>2. UNCHANGED vars => UNCHANGED Path!path
  BY DEF vars, local, Path!path, Known, Ended
<1>3. TypeOK /\ Kept /\ AllUnheard /\ [Next]_vars => [Path!Next]_(Path!path)
  BY <1>2, PathStep DEF Next
<1> QED
  BY <1>1, <1>3, UnheardStep, KeptAlways, PTL DEF Spec, KeepsToPath, Path!Spec
==============================================================================
