------------------------ MODULE ReviewedStream_proofs ------------------------
\* What users are told of their requests, for any number of streams, reviewers and polls:
\* the composition is a review and a set of streams, and keeps what those promise.
EXTENDS ReviewedStream, ApprovalReview_proofs

SP == INSTANCE ChatStream_proofs WITH pc <- place, audit <- entries

\* Every step of the composition is a step of the review, or none of it.
LEMMA ReviewsStep == [NextAll]_everything => [Next]_vars
<1>1. ASSUME NEW c \in Calls, Filing(c) PROVE [Next]_vars
  BY <1>1, CallsAssumption DEF Filing, Next
<1>2. Review => [Next]_vars
  BY DEF Review, Next
<1>3. UNCHANGED everything => UNCHANGED vars
  BY DEF everything
<1>4. ASSUME NEW c \in Calls, Poll(c) PROVE UNCHANGED vars
  BY <1>4 DEF Poll
<1> QED
  BY <1>1, <1>2, <1>3, <1>4 DEF NextAll, Advance, Interrupt

\* ... and a step of the streams, or none of theirs.
LEMMA StreamsStep == [NextAll]_everything => [Stream!Next]_(Stream!vars)
<1>1. UNCHANGED streams => UNCHANGED Stream!vars
  BY DEF streams, Stream!vars, Stream!local
<1>2. Review => UNCHANGED streams
  BY DEF Review
<1>3. UNCHANGED everything => UNCHANGED streams
  BY DEF everything
<1>4. ASSUME NEW c \in Calls, Poll(c) PROVE UNCHANGED streams
  BY <1>4 DEF Poll
<1> QED
  BY <1>1, <1>2, <1>3, <1>4 DEF NextAll, Advance, Interrupt, Stream!Next

\* The composition implements the review as well as the streams: reviewers and streams
\* may be reasoned about apart (approvals.py and chat.py share the approvals table only).
THEOREM ReviewIsKept == SpecAll => Spec
<1>1. InitAll => Init
  BY DEF InitAll
<1> QED
  BY <1>1, ReviewsStep, PTL DEF SpecAll, Spec

THEOREM StreamsAreKept == SpecAll => Stream!Spec
<1>1. InitAll => Stream!Init
  BY DEF InitAll
<1> QED
  BY <1>1, StreamsStep, PTL DEF SpecAll, Stream!Spec

\* Reviewers keep their promises although streams file the requests and users poll them
\* (decide(), update_approval()): what is proved of the review holds in the composition.
THEOREM ReviewersKeepTheirWord ==
  SpecAll => /\ [](DecidedTogether /\ ReleaseJustified /\ AuditTruthful)
             /\ []NoDecisionUnlogged
             /\ OnlyRacersOverride
             /\ KeepsPromise
BY ReviewIsKept, RowsAreDecidedWhole, ReleasesAreJustified, AuditIsTruthful,
   DecisionsAreLogged, DecisionsBecomeFinal, CallsKeepPromise, PTL

-----------------------------------------------------------------------------
\* SP names the definitions of the streams a second time, with the facts proved of them.
LEMMA SameStep == ASSUME NEW c \in Calls, Stream!Step(c) PROVE SP!Step(c)
  BY DEF Stream!Step, SP!Step, Stream!Rewrite, SP!Rewrite, Stream!Retrieve, SP!Retrieve,
         Stream!Judge, SP!Judge, Stream!EndOfTokens, SP!EndOfTokens,
         Stream!CheckOutput, SP!CheckOutput, Stream!Approve, SP!Approve, Stream!Log, SP!Log,
         Stream!Goto, SP!Goto, Stream!End, SP!End, Stream!Send, SP!Send, Stream!Entry, SP!Entry,
         Stream!local, SP!local, Stream!Attempts, SP!Attempts,
         Stream!NeedsApproval, SP!NeedsApproval,
         Stream!TupleWidth, SP!TupleWidth, Stream!EventWidth, SP!EventWidth

LEMMA SameInterrupt == ASSUME NEW c \in Calls, Stream!Token(c) \/ Stream!Stop(c) PROVE SP!Token(c) \/ SP!Stop(c)
  BY DEF Stream!Token, SP!Token, Stream!Stop, SP!Stop, Stream!Goto, SP!Goto, Stream!End, SP!End, Stream!Send, SP!Send,
         Stream!Entry, SP!Entry, Stream!local, SP!local, Stream!NeedsApproval, SP!NeedsApproval

LEMMA SameInit == Stream!Init => SP!Init
  BY DEF Stream!Init, SP!Init
LEMMA SameNext == [Stream!Next]_(Stream!vars) => [SP!Next]_(SP!vars)
  BY SameStep, SameInterrupt DEF Stream!Next, SP!Next, Stream!vars, SP!vars, Stream!local, SP!local

LEMMA SettingsAreOK == SP!SettingsOK
  BY StreamAssumption DEF SP!SettingsOK

-----------------------------------------------------------------------------
\* What a user was told of a decision, the row still says: it was decided.
ToldIsDecided == \A c \in Calls : told[c].status \in Verdicts => row[c].status \in Verdicts

\* The invariant of the composition: the reviewers', the streams', and the users'.
Composed == /\ Safe /\ SP!TypeOK /\ SP!Kept
            /\ told \in [Calls -> Told]
            /\ ToldIsBacked /\ ToldIsDecided

\* Decisions are added to, and a decided row stays decided, if perhaps otherwise.
LEMMA ReviewForward ==
  ASSUME Safe, [Next]_vars
  PROVE  /\ commits \subseteq commits'
         /\ \A a \in Approvals : row[a].status \in Verdicts => row'[a].status \in Verdicts
<1> USE DEF Safe
<1>1. ASSUME NEW a \in Approvals, CreateApproval(a)
      PROVE  /\ commits' = commits
             /\ \A b \in Approvals : row[b].status \in Verdicts => row'[b].status \in Verdicts
  <2>1. row[a].status \notin Verdicts /\ row' = [row EXCEPT ![a].status = "pending"] /\ commits' = commits
    BY <1>1 DEF CreateApproval, Verdicts
  <2>2. \A b \in Approvals : b # a => row'[b] = row[b]
    BY <2>1 DEF TypeOK
  <2> QED
    BY <2>1, <2>2
<1>2. ASSUME NEW s \in Sessions, Commit(s)
      PROVE  /\ commits \subseteq commits'
             /\ \A b \in Approvals : row[b].status \in Verdicts => row'[b].status \in Verdicts
  <2>1. target[s] \in Approvals /\ verdict[s] \in Verdicts
    BY <1>2, CanReviewAssumption DEF TypeOK, Commit
  <2>2. /\ row' = [row EXCEPT ![target[s]] = Flush(row[target[s]], loaded[s], Decided(s))]
        /\ commits \subseteq commits'
    BY <1>2 DEF Commit
  <2>3. Flush(row[target[s]], loaded[s], Decided(s)).status \in {row[target[s]].status, verdict[s]}
    BY DEF Flush, Decided
  <2>4. \A b \in Approvals : row'[b] = IF b = target[s] THEN Flush(row[target[s]], loaded[s], Decided(s)) ELSE row[b]
    BY <2>2 DEF TypeOK
  <2> QED
    BY <2>1, <2>2, <2>3, <2>4
<1>3. ASSUME UNCHANGED <<row, commits>>
      PROVE  /\ commits \subseteq commits'
             /\ \A b \in Approvals : row[b].status \in Verdicts => row'[b].status \in Verdicts
  BY <1>3
<1>4. ASSUME NEW s \in Sessions, Load(s) \/ Refresh(s) \/ LogDecision(s) \/ Abort(s)
      PROVE  UNCHANGED <<row, commits>>
  BY <1>4 DEF Load, Refresh, LogDecision, Abort
<1>5. ASSUME Arrive PROVE UNCHANGED <<row, commits>>
  BY <1>5 DEF Arrive, Check
<1> QED
  BY <1>1, <1>2, <1>3, <1>4, <1>5 DEF Next, Step, vars

\* What a stream has filed, it does not file again.
LEMMA FiledOnce ==
  ASSUME SP!TypeOK, SP!Kept, NEW b \in Calls, SP!Step(b) \/ SP!Token(b) \/ SP!Stop(b)
  PROVE  \A c \in Calls : filed[c] # "none" => filed'[c] = filed[c]
<1>1. \A c \in Calls : filed[c] # "none" => place[c] # "approve"
  BY DEF SP!Kept, SP!Filed
<1>2. filed' = filed \/ (place[b] = "approve" /\ filed' = [filed EXCEPT ![b] = answer[b]])
  BY DEF SP!Step, SP!Rewrite, SP!Retrieve, SP!Judge, SP!EndOfTokens, SP!CheckOutput,
         SP!Approve, SP!Log, SP!Token, SP!Stop, SP!local
<1> QED
  BY <1>1, <1>2 DEF SP!TypeOK

\* A step in which nobody polls.
LEMMA TellsNobody ==
  ASSUME Composed, [Next]_vars, UNCHANGED told,
         \A c \in Calls : filed[c] # "none" => filed'[c] = filed[c]
  PROVE  ToldIsBacked' /\ ToldIsDecided'
<1>1. /\ commits \subseteq commits'
      /\ \A a \in Approvals : row[a].status \in Verdicts => row'[a].status \in Verdicts
  BY ReviewForward DEF Composed
<1>2. ToldIsDecided'
  BY <1>1, CallsAssumption DEF Composed, ToldIsDecided
<1>3. ASSUME NEW c \in Calls, told[c] # NothingTold PROVE filed'[c] = filed[c]
  BY <1>3 DEF Composed, ToldIsBacked
<1> QED
  BY <1>1, <1>2, <1>3 DEF Composed, ToldIsBacked

\* A poll tells what the row says; its answer is the draft, which passed the policy.
LEMMA TellsOne ==
  ASSUME Composed, NEW c \in Calls, Poll(c)
  PROVE  /\ told' \in [Calls -> Told]
         /\ ToldIsBacked' /\ ToldIsDecided'
<1> DEFINE t == [status |-> row[c].status, draft |-> filed[c],
                 answer |-> IF row[c].final THEN filed[c] ELSE "none"]
<1>1. /\ told' = [told EXCEPT ![c] = t] /\ "approval_required" \in events[c]
      /\ UNCHANGED <<row, commits, filed>>
  BY DEF Poll, vars, streams
<1>2. row[c] \in Row /\ filed[c] \in Stream!Texts /\ "none" \in Stream!Texts
  BY CallsAssumption DEF Composed, Safe, TypeOK, SP!TypeOK, SP!Texts, Stream!Texts
<1>3. told' \in [Calls -> Told]
  BY <1>1, <1>2 DEF Composed, Row, Told
<1>4. \A b \in Calls : told'[b] = IF b = c THEN t ELSE told[b]
  BY <1>1 DEF Composed
<1>5. ToldIsDecided'
  BY <1>1, <1>4 DEF Composed, ToldIsDecided
<1>6. row[c].final => \E d \in commits : d.approval = c /\ d.verdict = "approved" /\ c \in CanReview[d.by]
  BY CallsAssumption DEF Composed, Safe, ReleaseJustified
<1>7. filed[c] # "none" /\ filed[c] # "withheld" /\ (OutputPolicy => filed[c] # "secret")
  BY <1>1 DEF Composed, SP!Kept, SP!Filed, SP!Checked
<1>8. ToldIsBacked'
  BY <1>1, <1>4, <1>6, <1>7 DEF Composed, ToldIsBacked
<1> QED
  BY <1>3, <1>5, <1>8

LEMMA ComposedStep == Composed /\ [NextAll]_everything => Composed'
<1> SUFFICES ASSUME Composed, [NextAll]_everything PROVE Composed'
  OBVIOUS
<1>1. [Next]_vars /\ [SP!Next]_(SP!vars)
  BY ReviewsStep, StreamsStep, SameNext
<1>2. Safe' /\ SP!TypeOK' /\ SP!Kept'
  BY <1>1, SafeStep, SettingsAreOK, SP!KeptStep DEF Composed
<1>3. CASE \E c \in Calls : Poll(c)
  BY <1>2, <1>3, TellsOne DEF Composed
<1>4. CASE Review \/ UNCHANGED everything
  <2>1. UNCHANGED told /\ UNCHANGED filed
    BY <1>4 DEF Review, everything, streams
  <2> QED
    BY <1>1, <1>2, <2>1, TellsNobody DEF Composed
<1>5. CASE \E c \in Calls : Advance(c) \/ Interrupt(c)
  <2>1. PICK c \in Calls : SP!Step(c) \/ SP!Token(c) \/ SP!Stop(c)
    BY <1>5, SameStep, SameInterrupt DEF Advance, Interrupt
  <2>2. UNCHANGED told
    BY <1>5 DEF Advance, Interrupt
  <2> QED
    BY <1>1, <1>2, <2>1, <2>2, FiledOnce, TellsNobody DEF Composed
<1> QED
  BY <1>3, <1>4, <1>5 DEF NextAll

LEMMA ComposedAlways == SpecAll => []Composed
<1>1. InitAll => Composed
  <2> SUFFICES ASSUME InitAll PROVE Composed
    OBVIOUS
  <2>1. Safe
    BY SafeInit DEF InitAll
  <2>2. SP!TypeOK /\ SP!Kept
    BY SameInit, SettingsAreOK, SP!KeptInit DEF InitAll
  <2>3. /\ told = [c \in Calls |-> NothingTold]
        /\ NothingTold \in Told
        /\ NothingTold.status \notin Verdicts
    BY DEF InitAll, NothingTold, Told, Statuses, Verdicts, Stream!Texts
  <2> QED
    BY <2>1, <2>2, <2>3 DEF Composed, ToldIsBacked, ToldIsDecided
<1> QED
  BY <1>1, ComposedStep, PTL DEF SpecAll

\* The types, over any number of streams, reviewers and polls: no stream retrieves more
\* often than allowed (chat.py), a decide() in progress keeps a request its tenants allow
\* (approvals.py), and a user is told of a status with a text or none (approval_result()).
THEOREM TypesAreKept == SpecAll => []StreamTypeOK
<1>1. SP!TypeOK => Stream!TypeOK
  BY DEF SP!TypeOK, Stream!TypeOK, SP!Places, Stream!Places, SP!Texts, Stream!Texts,
         SP!Events, Stream!Events, SP!Entries, Stream!Entries
<1>2. Composed => StreamTypeOK
  BY <1>1 DEF Composed, Safe, StreamTypeOK
<1> QED
  BY <1>2, ComposedAlways, PTL

\* The streams keep their promises beside the review (chat.py): who was told of an approval
\* can poll for it, and no blocked text is filed or logged.
THEOREM AnnouncedStayFiled == SpecAll => []AnnouncedIsFiled
<1>1. Composed => AnnouncedIsFiled
  BY SP!KeptIsFiled DEF Composed, AnnouncedIsFiled, Stream!AnnouncedIsFiled, SP!AnnouncedIsFiled
<1> QED
  BY <1>1, ComposedAlways, PTL

THEOREM BlockedTextStaysOut == SpecAll => []SecretsNotKept
<1>1. Composed => SecretsNotKept
  BY SP!KeptIsClean DEF Composed, SecretsNotKept, Stream!SecretsNotKept, SP!SecretsNotKept
<1> QED
  BY <1>1, ComposedAlways, PTL

\* The streams keep to the common path of an answer while reviewers decide and users poll:
\* it is about them alone (chat.py).
THEOREM StreamsStayOnPath == SpecAll => KeepsToPath
<1>1. SpecAll => SP!Spec
  BY StreamsAreKept, SameInit, SameNext, PTL DEF Stream!Spec, SP!Spec
<1>2. SP!Spec => SP!KeepsToPath
  BY SP!StreamsKeepToPath, SettingsAreOK
<1>3. SP!Path!Init => Stream!Path!Init
  BY DEF SP!Path!Init, Stream!Path!Init, SP!Known, Stream!Known, SP!Ended, Stream!Ended
<1>4. [SP!Path!Next]_(SP!Path!path) => [Stream!Path!Next]_(Stream!Path!path)
  BY DEF SP!Path!Next, Stream!Path!Next, SP!Path!path, Stream!Path!path,
         SP!Path!Settle, Stream!Path!Settle, SP!Path!File, Stream!Path!File,
         SP!Path!Tell, Stream!Path!Tell, SP!Path!Log, Stream!Path!Log,
         SP!Path!End, Stream!Path!End, SP!Path!MayTell, Stream!Path!MayTell,
         SP!Path!Outcome, Stream!Path!Outcome, SP!Path!Entries, Stream!Path!Entries,
         SP!Path!Texts, Stream!Path!Texts, SP!Titles, Stream!Titles,
         SP!Known, Stream!Known, SP!Ended, Stream!Ended
<1> QED
  BY <1>1, <1>2, <1>3, <1>4, PTL
     DEF KeepsToPath, Stream!KeepsToPath, SP!KeepsToPath, Stream!Path!Spec, SP!Path!Spec

\* A poll shows the draft at any status, but the filed one and never one that the policy
\* blocks, and a final answer only after an approval with access (approval_result(),
\* update_approval(), chat.py), for any number of streams and reviewers and whoever dies.
THEOREM PollsAreBacked == SpecAll => []ToldIsBacked
  BY ComposedAlways, PTL DEF Composed

\* Once told of a decision, a user is never told "pending" (approval_result()).
THEOREM PollsDoNotGoBack == SpecAll => NeverPendingAgain
<1>1. Composed /\ [NextAll]_everything =>
        [\A c \in Calls : told[c].status \in Verdicts => told'[c].status \in Verdicts]_told
  <2> SUFFICES ASSUME Composed, NextAll, told' # told, NEW c \in Calls, told[c].status \in Verdicts
               PROVE  told'[c].status \in Verdicts
    BY DEF everything
  <2>1. PICK b \in Calls : Poll(b)
    BY DEF NextAll, Review, Advance, Interrupt
  <2>2. told' = [told EXCEPT ![b] = [status |-> row[b].status, draft |-> filed[b],
                                     answer |-> IF row[b].final THEN filed[b] ELSE "none"]]
    BY <2>1 DEF Poll
  <2>3. row[c].status \in Verdicts
    BY DEF Composed, ToldIsDecided
  <2> QED
    BY <2>2, <2>3 DEF Composed
<1> QED
  BY <1>1, ComposedAlways, PTL DEF SpecAll, NeverPendingAgain
=============================================================================
