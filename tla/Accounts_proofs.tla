--------------------------- MODULE Accounts_proofs ---------------------------
\* Tenants and users for any number of API processes and admin requests, whichever
\* calls fail and processes die.
EXTENDS Accounts, TLAPS

Answered == {"ok", "refused", "error", "dead"}
RequestState == [pc : Working \cup Answered \cup {"new"}, on : Processes \cup {None},
                 ask : Asks \cup {NoAsk}, saw : Modes \cup {""}]
ProcessState == [pc : {"down", "read", "seed", "up"}, tenant : BOOLEAN, user : BOOLEAN]

\* What a request is about to do has sense: it comes after the seed, it asks for
\* something, and a membership is inserted for a user there is.
Fits(r) ==
  LET q == request[r] IN
  /\ q.pc # "new" => user[Demo] # NoUser
  /\ q.pc \in Working => q.ask \in Asks
  /\ q.pc \in {"check", "link"} =>
       /\ q.ask.name \in Names /\ q.ask.tenant \in Tenants
       /\ user[q.ask.name] # NoUser

\* The demo user comes with its tenant and its membership; whoever serves, or saw the
\* rows while it started, can rely on them.
Seeded ==
  /\ user[Demo] # NoUser => /\ user[Demo] = Account("admin", Default)
                            /\ <<Demo, Default>> \in links
                            /\ Default \in tenants
  /\ \A p \in Processes :
       /\ process[p].pc = "up" => user[Demo] # NoUser
       /\ process[p].pc = "seed" /\ process[p].user => user[Demo] # NoUser
       /\ process[p].pc \in {"read", "seed"} /\ process[p].tenant => Default \in tenants

IInv == TypeOK /\ Seeded /\ \A r \in Requests : Fits(r)

\* The types of TypeOK under the names used here.
LEMMA RequestType ==
  RequestState = [pc : Working \cup {"new", "ok", "refused", "error", "dead"},
                  on : Processes \cup {None}, ask : Asks \cup {NoAsk}, saw : Modes \cup {""}]
<1>1. Working \cup Answered \cup {"new"} = Working \cup {"new", "ok", "refused", "error", "dead"}
  BY DEF Answered
<1> QED
  BY <1>1 DEF RequestState

LEMMA ProcessType ==
  ProcessState = [pc : {"down", "read", "seed", "up"}, tenant : BOOLEAN, user : BOOLEAN]
  BY DEF ProcessState

\* What each kind of request asks for.
LEMMA AskFields ==
  ASSUME NEW a \in Asks
  PROVE  /\ a.op \in {"tenant", "user", "grant", "policy"}
         /\ a.op = "user" => a.name \in Names /\ a.tenant \in Tenants \cup {None} /\ a.value \in Roles
         /\ a.op = "grant" => a.name \in Names /\ a.tenant \in Tenants
         /\ a.op = "policy" => a.tenant \in Tenants /\ a.value \in Modes
         /\ a.op = "tenant" => a.tenant \in Tenants
  BY DEF Asks

\* An account is none of the absent ones.
LEMMA AccountExists ==
  ASSUME NEW role \in Roles, NEW home \in Tenants \cup {None}
  PROVE  Account(role, home) \in Users /\ Account(role, home) # NoUser
  BY ValuesAssumption DEF Account, Users, NoUser

\* The state a request goes to.
Answer(r, pc) == IF pc \in Working THEN [request[r] EXCEPT !.pc = pc]
                 ELSE [request[r] EXCEPT !.pc = pc, !.on = None, !.saw = ""]

\* A step to a place that fits keeps every request proper, as no user disappears.
LEMMA GotoFits ==
  ASSUME TypeOK, \A q \in Requests : Fits(q), NEW r \in Requests, NEW pc \in Working \cup Answered,
         \A n \in Names : user[n] # NoUser => user'[n] # NoUser,
         request[r].pc \in Working,
         pc \in {"check", "link"} =>
           LET a == request[r].ask IN a.name \in Names /\ a.tenant \in Tenants /\ user'[a.name] # NoUser,
         Goto(r, pc)
  PROVE  request' \in [Requests -> RequestState] /\ \A q \in Requests : Fits(q)'
<1>1. /\ request \in [Requests -> RequestState]
      /\ request' = [request EXCEPT ![r] = Answer(r, pc)]
  BY DEF TypeOK, RequestState, Goto, Answer, Answered
<1>2. Answer(r, pc) \in RequestState /\ Answer(r, pc).pc = pc /\ Answer(r, pc).ask = request[r].ask
  BY <1>1 DEF Answer, RequestState
<1>3. ASSUME NEW q \in Requests
      PROVE  Fits(q)'
  <2>1. CASE q = r
    BY <1>1, <1>2, <2>1, SeedAssumption DEF Fits, Working
  <2>2. CASE q # r
    BY <1>1, <2>2, SeedAssumption DEF Fits
  <2> QED
    BY <2>1, <2>2
<1> QED
  BY <1>1, <1>2, <1>3

\* Where nothing but rows change, requests fit as before.
LEMMA RestFits ==
  ASSUME \A q \in Requests : Fits(q), UNCHANGED request,
         \A n \in Names : user[n] # NoUser => user'[n] # NoUser
  PROVE  \A q \in Requests : Fits(q)'
  BY SeedAssumption DEF Fits

\* Nothing is stored, every process is down.
LEMMA InitIInv == Init => IInv
<1> SUFFICES ASSUME Init PROVE IInv
  OBVIOUS
<1>1. TypeOK
  <2>1. user \in [Names -> Users \cup {NoUser}]
    BY DEF Init
  <2>2. request \in [Requests -> RequestState]
    BY DEF Init, NoRequest, RequestState
  <2>3. process \in [Processes -> ProcessState]
    BY DEF Init, Down, ProcessState
  <2>4. faults \in 0..MaxFaults
    <3>1. faults = 0
      BY DEF Init
    <3> QED
      BY <3>1, FaultsAssumption
  <2>5. /\ tenants \subseteq Tenants
        /\ audit \subseteq Asks
        /\ policy \in [Tenants -> Modes \cup {""}]
        /\ links = {}
        /\ enforced \in BOOLEAN
    BY DEF Init
  <2>6. links \subseteq {n \in Names : user[n] # NoUser} \X Tenants
    BY <2>5
  <2> QED
    BY <2>1, <2>2, <2>3, <2>4, <2>5, <2>6, RequestType, ProcessType DEF TypeOK
<1>2. Seeded
  BY SeedAssumption DEF Init, Seeded, Down
<1>3. ASSUME NEW r \in Requests PROVE Fits(r)
  BY DEF Init, Fits, NoRequest, Working
<1> QED
  BY <1>1, <1>2, <1>3 DEF IInv

\* Faults are counted up to their bound.
LEMMA CountOK ==
  ASSUME faults \in 0..MaxFaults, NEW conflict, NEW o \in Commits(conflict), Count(o)
  PROVE  faults' \in 0..MaxFaults
  BY FaultsAssumption DEF Commits, Count

\* The start of a process, step by step.
LEMMA BootKeeps ==
  ASSUME IInv, NEW p \in Processes, Boot(p)
  PROVE  IInv'
<1>0. /\ TypeOK /\ Seeded /\ \A q \in Requests : Fits(q)
      /\ process \in [Processes -> ProcessState] /\ process[p] \in ProcessState
      /\ Demo \in Names /\ Default \in Tenants
  BY SeedAssumption DEF IInv, TypeOK, ProcessState
<1>1. CASE ReadTenant(p)
  <2>1. /\ process'[p] = [pc |-> "read", tenant |-> Default \in tenants, user |-> FALSE]
        /\ \A q \in Processes \ {p} : process'[q] = process[q]
        /\ process' \in [Processes -> ProcessState]
    BY <1>0, <1>1 DEF ReadTenant, ProcessState
  <2>2. TypeOK'
    BY <1>0, <1>1, <2>1 DEF ReadTenant, TypeOK, rows, ProcessState
  <2>3. Seeded'
    BY <1>0, <1>1, <2>1 DEF ReadTenant, Seeded, rows
  <2> QED
    BY <1>0, <1>1, <2>2, <2>3, RestFits DEF ReadTenant, rows, IInv
<1>2. CASE ReadUser(p)
  <2>1. /\ process'[p] = [process[p] EXCEPT !.pc = "seed", !.user = user[Demo] # NoUser]
        /\ \A q \in Processes \ {p} : process'[q] = process[q]
        /\ process' \in [Processes -> ProcessState]
    BY <1>0, <1>2 DEF ReadUser, ProcessState
  <2>2. TypeOK'
    BY <1>0, <1>2, <2>1 DEF ReadUser, TypeOK, rows, ProcessState
  <2>3. Seeded'
    BY <1>0, <1>2, <2>1 DEF ReadUser, Seeded, rows, ProcessState
  <2> QED
    BY <1>0, <1>2, <2>2, <2>3, RestFits DEF ReadUser, rows, IInv
<1>3. CASE Seed(p)
  <2> DEFINE saw == process[p]
  <2>1. PICK o \in Commits(Twice(saw)) :
          /\ saw.pc = "seed"
          /\ IF o = "conflict" THEN UNCHANGED <<tenants, user, links>>
             ELSE /\ tenants' = IF saw.tenant THEN tenants ELSE tenants \cup {Default}
                  /\ user' = IF saw.user THEN user ELSE [user EXCEPT ![Demo] = Account("admin", Default)]
                  /\ links' = IF saw.user THEN links ELSE links \cup {<<Demo, Default>>}
          /\ process' = [process EXCEPT ![p] = IF o = "ok" THEN [@ EXCEPT !.pc = "up"] ELSE Down]
          /\ Count(o)
          /\ UNCHANGED <<policy, audit, request, enforced>>
    BY <1>3 DEF Seed
  <2>2. faults' \in 0..MaxFaults
    BY <1>0, <2>1, CountOK DEF TypeOK
  <2>3. /\ process'[p] = IF o = "ok" THEN [saw EXCEPT !.pc = "up"] ELSE Down
        /\ \A q \in Processes \ {p} : process'[q] = process[q]
        /\ process' \in [Processes -> ProcessState]
    BY <1>0, <2>1 DEF ProcessState, Down
  <2>4. Account("admin", Default) \in Users /\ Account("admin", Default) # NoUser
    BY <1>0, ValuesAssumption, AccountExists
  <2>5. user \in [Names -> Users \cup {NoUser}]
    BY <1>0 DEF TypeOK
  <2>6. saw.user => user[Demo] # NoUser
    BY <1>0, <2>1 DEF Seeded
  <2>7. saw.tenant => Default \in tenants
    BY <1>0, <2>1 DEF Seeded
  <2>8. /\ tenants \subseteq tenants' /\ links \subseteq links'
        /\ user' \in [Names -> Users \cup {NoUser}]
        /\ \A n \in Names : user[n] # NoUser => user'[n] # NoUser
    BY <2>1, <2>4, <2>5, <1>0
  <2>9. /\ user'[Demo] # NoUser => /\ user'[Demo] = Account("admin", Default)
                                   /\ <<Demo, Default>> \in links'
                                   /\ Default \in tenants'
    <3>1. CASE o = "conflict"
      BY <3>1, <2>1, <1>0 DEF Seeded
    <3>2. CASE o # "conflict" /\ saw.user
      BY <3>2, <2>1, <2>6, <2>8, <1>0 DEF Seeded
    <3>3. CASE o # "conflict" /\ ~saw.user
      BY <3>3, <2>1, <2>5, <2>7, <1>0
    <3> QED
      BY <3>1, <3>2, <3>3
  <2>10. o = "ok" => user'[Demo] # NoUser
    <3>1. CASE saw.user
      BY <3>1, <2>6, <2>8, <1>0
    <3>2. CASE ~saw.user
      BY <3>2, <2>1, <2>4, <2>5, <1>0
    <3> QED
      BY <3>1, <3>2
  <2>11. links' \subseteq {n \in Names : user'[n] # NoUser} \X Tenants
    <3>1. links \subseteq {n \in Names : user'[n] # NoUser} \X Tenants
      BY <1>0, <2>8 DEF TypeOK
    <3>2. CASE links' = links
      BY <3>1, <3>2
    <3>3. CASE o # "conflict" /\ ~saw.user
      BY <3>1, <3>3, <2>1, <2>4, <2>5, <1>0
    <3> QED
      BY <3>2, <3>3, <2>1
  <2>12. tenants' \subseteq Tenants
    BY <1>0, <2>1 DEF TypeOK
  <2>13. TypeOK'
    BY <1>0, <2>1, <2>2, <2>3, <2>8, <2>11, <2>12 DEF TypeOK, ProcessState
  <2>14. Seeded'
    BY <1>0, <2>3, <2>8, <2>9, <2>10 DEF Seeded, Down
  <2> QED
    BY <1>0, <2>1, <2>8, <2>13, <2>14, RestFits DEF IInv
<1> QED
  BY <1>1, <1>2, <1>3 DEF Boot

\* A process that dies takes its requests along.
LEMMA CrashKeeps ==
  ASSUME IInv, NEW p \in Processes, Crash(p)
  PROVE  IInv'
<1>1. process' \in [Processes -> ProcessState]
  BY DEF IInv, TypeOK, Crash, Down, ProcessState
<1>2. request' \in [Requests -> RequestState]
  <2>1. request \in [Requests -> RequestState]
    BY RequestType DEF IInv, TypeOK
  <2>2. ASSUME NEW q \in RequestState
        PROVE  [q EXCEPT !.pc = "dead", !.on = None, !.saw = ""] \in RequestState
    BY DEF RequestState, Answered
  <2> QED
    BY <2>1, <2>2 DEF Crash
<1>3. faults' \in 0..MaxFaults
  <2>1. faults \in 0..MaxFaults /\ faults < MaxFaults /\ faults' = faults + 1
    BY DEF IInv, TypeOK, Crash
  <2> QED
    BY <2>1, FaultsAssumption
<1>4. TypeOK'
  BY <1>1, <1>2, <1>3, RequestType, ProcessType DEF IInv, TypeOK, Crash, rows
<1>5. Seeded'
  <2>1. Seeded /\ \A q \in Processes : process'[q] = process[q] \/ process'[q] = Down
    BY ProcessType DEF IInv, TypeOK, Crash
  <2>2. UNCHANGED <<tenants, user, links>>
    BY DEF Crash, rows
  <2>3. \A q \in Processes : process'[q] = process[q] \/ process'[q].pc = "down"
    BY <2>1 DEF Down
  <2> QED
    BY <2>1, <2>2, <2>3 DEF Seeded
<1>6. ASSUME NEW r \in Requests PROVE Fits(r)'
  <2>1. \/ request'[r] = request[r]
        \/ request[r].pc \in Working /\ request'[r].pc = "dead"
    BY DEF IInv, TypeOK, Crash
  <2>2. user' = user /\ Fits(r)
    BY DEF Crash, rows, IInv
  <2> QED
    BY <2>1, <2>2 DEF Fits, Working
<1> QED
  BY <1>4, <1>5, <1>6 DEF IInv

\* The rows a process, or a membership, relies on are kept by a step that keeps users.
LEMMA RequestStepSeeded ==
  ASSUME Seeded, UNCHANGED process, tenants \subseteq tenants', links \subseteq links',
         \A n \in Names : user[n] # NoUser => user'[n] = user[n],
         user[Demo] # NoUser
  PROVE  Seeded'
  BY SeedAssumption DEF Seeded

\* A step of an admin request: where it goes, and the rows it writes.
LEMMA ServeKeeps ==
  ASSUME IInv, NEW r \in Requests, Serve(r)
  PROVE  IInv'
<1> DEFINE a == request[r].ask
<1>0. /\ TypeOK /\ Seeded /\ \A q \in Requests : Fits(q)
      /\ request \in [Requests -> RequestState] /\ Fits(r)
      /\ user \in [Names -> Users \cup {NoUser}]
  BY RequestType DEF IInv, TypeOK
<1>1. request[r].pc # "new" => user[Demo] # NoUser
  BY <1>0 DEF Fits
<1>2. request[r].pc \in Working => a \in Asks
  BY <1>0 DEF Fits
<1>3. Refusal(r) \in Answered /\ Refusal(r) \notin {"check", "link"}
  BY DEF Refusal, Answered
<1>4. ASSUME NEW conflict, NEW o \in Commits(conflict), Count(o)
      PROVE  faults' \in 0..MaxFaults
  BY <1>0, <1>4, CountOK DEF TypeOK
<1>5. ASSUME request' \in [Requests -> RequestState], \A q \in Requests : Fits(q)',
             tenants \subseteq tenants', tenants' \subseteq Tenants,
             links \subseteq links',
             links' \subseteq {n \in Names : user'[n] # NoUser} \X Tenants,
             user' \in [Names -> Users \cup {NoUser}],
             \A n \in Names : user[n] # NoUser => user'[n] = user[n],
             policy' \in [Tenants -> Modes \cup {""}], audit' \subseteq Asks,
             faults' \in 0..MaxFaults, UNCHANGED <<process, enforced>>,
             user[Demo] # NoUser
      PROVE  IInv'
  <2>1. TypeOK'
    BY <1>0, <1>5, RequestType DEF TypeOK
  <2>2. Seeded'
    BY <1>0, <1>5, RequestStepSeeded
  <2> QED
    BY <1>5, <2>1, <2>2 DEF IInv
<1>6. /\ links \subseteq {n \in Names : user[n] # NoUser} \X Tenants
      /\ tenants \subseteq Tenants /\ audit \subseteq Asks
      /\ policy \in [Tenants -> Modes \cup {""}] /\ faults \in 0..MaxFaults
  BY <1>0 DEF TypeOK
<1>7. CASE Submit(r)
  <2>1. PICK p \in Processes, ask \in Asks :
          /\ process[p].pc = "up"
          /\ ask.op = "grant" => user[ask.name] # NoUser
          /\ request' = [request EXCEPT ![r] =
                [pc |-> Entry[ask.op], on |-> p, ask |-> ask, saw |-> ""]]
          /\ UNCHANGED <<rows, process, faults, enforced>>
    BY <1>7 DEF Submit
  <2> DEFINE q == [pc |-> Entry[ask.op], on |-> p, ask |-> ask, saw |-> ""]
  <2>2. Entry[ask.op] \in Working /\ (Entry[ask.op] \in {"check", "link"} => ask.op = "grant")
    BY AskFields DEF Entry, Working
  <2>3. q \in RequestState
    BY <2>2 DEF RequestState
  <2>4. request' \in [Requests -> RequestState] /\ request'[r] = q
        /\ \A s \in Requests \ {r} : request'[s] = request[s]
    BY <1>0, <2>1, <2>3
  <2>5. user[Demo] # NoUser /\ user' = user
    BY <1>0, <2>1 DEF Seeded, rows
  <2>6. Fits(r)'
    BY <2>1, <2>2, <2>4, <2>5, AskFields DEF Fits
  <2>7. \A s \in Requests : Fits(s)'
    BY <1>0, <2>4, <2>5, <2>6 DEF Fits
  <2> QED
    BY <1>5, <1>6, <1>0, <2>1, <2>4, <2>5, <2>7 DEF rows
<1>8. CASE InsertTenant(r)
  <2>1. PICK o \in Commits(a.tenant \in tenants) : Count(o) /\ Goto(r, IF o = "ok" THEN "log" ELSE Refusal(r))
    BY <1>8 DEF InsertTenant
  <2>2. /\ request[r].pc \in Working /\ a.tenant \in Tenants
        /\ tenants' = tenants \cup {a.tenant}
        /\ UNCHANGED <<user, links, policy, audit, process, enforced>>
    BY <1>8, <1>2, AskFields DEF InsertTenant, At, Working
  <2>3. request' \in [Requests -> RequestState] /\ \A q \in Requests : Fits(q)'
    BY <1>0, <1>3, <2>1, <2>2, GotoFits DEF Working
  <2> QED
    BY <1>0, <1>1, <1>4, <1>5, <1>6, <2>1, <2>2, <2>3 DEF Working
<1>9. CASE InsertUser(r)
  <2>1. PICK o \in Commits(UserConflict(a)) :
          /\ user' = IF o = "conflict" THEN user ELSE [user EXCEPT ![a.name] = Account(a.value, a.tenant)]
          /\ Goto(r, IF o # "ok" THEN Refusal(r) ELSE IF a.tenant = None THEN "log" ELSE "check")
          /\ Count(o)
    BY <1>9 DEF InsertUser
  <2>2. /\ request[r].pc \in Working /\ a.op = "user"
        /\ UNCHANGED <<tenants, links, policy, audit, process, enforced>>
    BY <1>9 DEF InsertUser, At, Working
  <2>3. a.name \in Names /\ a.tenant \in Tenants \cup {None} /\ a.value \in Roles
    BY <1>2, <2>2, AskFields
  <2>4. Account(a.value, a.tenant) \in Users /\ Account(a.value, a.tenant) # NoUser
    BY <2>3, AccountExists
  <2>5. o # "conflict" => user[a.name] = NoUser
    BY <2>1 DEF Commits, UserConflict
  <2>6. /\ user' \in [Names -> Users \cup {NoUser}]
        /\ \A n \in Names : user[n] # NoUser => user'[n] = user[n]
    BY <1>0, <2>1, <2>4, <2>5
  <2>7. o = "ok" => user'[a.name] # NoUser
    BY <1>0, <2>1, <2>3, <2>4
  <2>8. request' \in [Requests -> RequestState] /\ \A q \in Requests : Fits(q)'
    <3> DEFINE next == IF o # "ok" THEN Refusal(r) ELSE IF a.tenant = None THEN "log" ELSE "check"
    <3>1. next \in Working \cup Answered
      BY <1>3 DEF Working
    <3>2. next \in {"check", "link"} => o = "ok" /\ a.tenant # None
      BY <1>3
    <3>3. next \in {"check", "link"} => a.name \in Names /\ a.tenant \in Tenants /\ user'[a.name] # NoUser
      BY <3>2, <2>3, <2>7
    <3>4. \A n \in Names : user[n] # NoUser => user'[n] # NoUser
      BY <2>6
    <3>5. Goto(r, next)
      BY <2>1
    <3> HIDE DEF next
    <3> QED
      BY <1>0, <2>2, <3>1, <3>3, <3>4, <3>5, GotoFits
  <2>9. links' \subseteq {n \in Names : user'[n] # NoUser} \X Tenants
    BY <1>6, <2>2, <2>6
  <2> QED
    BY <1>0, <1>1, <1>4, <1>5, <1>6, <2>1, <2>2, <2>6, <2>8, <2>9 DEF Working
<1>10. CASE CheckLink(r)
  <2> DEFINE next == IF <<a.name, a.tenant>> \in links THEN "log" ELSE "link"
  <2>1. /\ request[r].pc = "check" /\ Goto(r, next)
        /\ UNCHANGED <<tenants, user, links, policy, audit, process, faults, enforced>>
    BY <1>10 DEF CheckLink, At, rows
  <2>2. a.name \in Names /\ a.tenant \in Tenants /\ user[a.name] # NoUser
    BY <1>0, <2>1 DEF Fits
  <2>3. next \in Working /\ request[r].pc \in Working
    BY <2>1 DEF Working
  <2> HIDE DEF next
  <2>4. request' \in [Requests -> RequestState] /\ \A q \in Requests : Fits(q)'
    BY <1>0, <2>1, <2>2, <2>3, GotoFits
  <2> QED
    BY <1>0, <1>1, <1>5, <1>6, <2>1, <2>3, <2>4
<1>11. CASE InsertLink(r)
  <2> DEFINE link == <<a.name, a.tenant>>
  <2>1. PICK o \in Commits(link \in links \/ Missing(a.tenant)) :
          /\ links' = IF o = "conflict" THEN links ELSE links \cup {link}
          /\ Goto(r, IF o = "ok" THEN "log" ELSE Refusal(r))
          /\ Count(o)
    BY <1>11 DEF InsertLink
  <2>2. /\ request[r].pc = "link"
        /\ UNCHANGED <<tenants, user, policy, audit, process, enforced>>
    BY <1>11 DEF InsertLink, At
  <2>3. a.name \in Names /\ a.tenant \in Tenants /\ user[a.name] # NoUser
    BY <1>0, <2>2 DEF Fits
  <2>4. request' \in [Requests -> RequestState] /\ \A q \in Requests : Fits(q)'
    BY <1>0, <1>3, <2>1, <2>2, GotoFits DEF Working
  <2>5. links' \subseteq {n \in Names : user'[n] # NoUser} \X Tenants
    <3>1. user' = user /\ link \in {n \in Names : user[n] # NoUser} \X Tenants
      BY <2>2, <2>3
    <3>2. links' = links \/ links' = links \cup {link}
      BY <2>1
    <3> QED
      BY <1>6, <3>1, <3>2
  <2> QED
    BY <1>0, <1>1, <1>4, <1>5, <1>6, <2>1, <2>2, <2>4, <2>5
<1>12. CASE LoadPolicy(r)
  <2>1. /\ request[r].pc = "load" /\ a.op = "policy"
        /\ request' = [request EXCEPT ![r].pc = "write", ![r].saw = policy[a.tenant]]
        /\ UNCHANGED <<tenants, user, links, policy, audit, process, faults, enforced>>
    BY <1>12 DEF LoadPolicy, At, rows
  <2>2. policy[a.tenant] \in Modes \cup {""}
    BY <1>2, <1>6, <2>1, AskFields DEF Working
  <2>3. /\ request' \in [Requests -> RequestState]
        /\ request'[r].pc = "write" /\ request'[r].ask = a
        /\ \A s \in Requests \ {r} : request'[s] = request[s]
    BY <1>0, <2>1, <2>2 DEF RequestState, Working
  <2>4. Fits(r)'
    BY <1>0, <1>1, <1>2, <2>1, <2>3 DEF Fits, Working
  <2>5. \A s \in Requests : Fits(s)'
    BY <1>0, <2>1, <2>3, <2>4 DEF Fits
  <2> QED
    BY <1>0, <1>1, <1>5, <1>6, <2>1, <2>3, <2>5
<1>13. CASE WritePolicy(r)
  <2>1. PICK o \in Commits(request[r].saw = "" /\ (policy[a.tenant] # "" \/ Missing(a.tenant))) :
          /\ policy' = IF o = "conflict" \/ a.value = request[r].saw THEN policy
                       ELSE [policy EXCEPT ![a.tenant] = a.value]
          /\ Goto(r, IF o = "ok" THEN "log" ELSE Refusal(r))
          /\ Count(o)
    BY <1>13 DEF WritePolicy
  <2>2. /\ request[r].pc = "write" /\ a.op = "policy"
        /\ UNCHANGED <<tenants, user, links, audit, process, enforced>>
    BY <1>13 DEF WritePolicy, At
  <2>3. a.value \in Modes
    BY <1>2, <2>2, AskFields DEF Working
  <2>4. policy' \in [Tenants -> Modes \cup {""}]
    BY <1>6, <2>1, <2>3
  <2>5. request' \in [Requests -> RequestState] /\ \A q \in Requests : Fits(q)'
    BY <1>0, <1>3, <2>1, <2>2, GotoFits DEF Working
  <2> QED
    BY <1>0, <1>1, <1>4, <1>5, <1>6, <2>1, <2>2, <2>4, <2>5
<1>14. CASE LogChange(r)
  <2>1. PICK o \in Commits(FALSE) : Goto(r, IF o = "ok" THEN "ok" ELSE Refusal(r)) /\ Count(o)
    BY <1>14 DEF LogChange
  <2>2. /\ request[r].pc = "log" /\ audit' = audit \cup {a}
        /\ UNCHANGED <<tenants, user, links, policy, process, enforced>>
    BY <1>14 DEF LogChange
  <2>3. audit' \subseteq Asks
    BY <1>2, <1>6, <2>2 DEF Working
  <2>4. request' \in [Requests -> RequestState] /\ \A q \in Requests : Fits(q)'
    BY <1>0, <1>3, <2>1, <2>2, GotoFits DEF Working, Answered
  <2> QED
    BY <1>0, <1>1, <1>4, <1>5, <1>6, <2>1, <2>2, <2>3, <2>4
<1>15. CASE Raise(r)
  <2>1. /\ request[r].pc \in Working /\ Goto(r, Refusal(r))
        /\ faults < MaxFaults /\ faults' = faults + 1
        /\ UNCHANGED <<tenants, user, links, policy, audit, process, enforced>>
    BY <1>15 DEF Raise, rows
  <2>2. faults' \in 0..MaxFaults
    <3>1. faults \in 0..MaxFaults /\ faults < MaxFaults /\ faults' = faults + 1
      BY <1>6, <2>1
    <3> QED
      BY <3>1, FaultsAssumption
  <2>3. request' \in [Requests -> RequestState] /\ \A q \in Requests : Fits(q)'
    BY <1>0, <1>3, <2>1, GotoFits
  <2> QED
    BY <1>0, <1>1, <1>5, <1>6, <2>1, <2>2, <2>3 DEF Working
<1> QED
  BY <1>7, <1>8, <1>9, <1>10, <1>11, <1>12, <1>13, <1>14, <1>15 DEF Serve

\* The invariant is inductive.
LEMMA NextKeeps == IInv /\ [Next]_vars => IInv'
<1> SUFFICES ASSUME IInv, [Next]_vars PROVE IInv'
  OBVIOUS
<1>1. CASE UNCHANGED vars
  BY <1>1 DEF IInv, TypeOK, Seeded, Fits, vars, rows
<1> QED
  BY <1>1, BootKeeps, CrashKeeps, ServeKeeps DEF Next

\* TypeOK holds for any number of processes and requests, with or without foreign keys:
\* in particular every membership belongs to a user there is.
THEOREM TypeCorrect == Spec => []TypeOK
<1>1. IInv => TypeOK
  BY DEF IInv
<1> QED
  BY InitIInv, NextKeeps, <1>1, PTL DEF Spec

\* Whoever serves has seeded: however many processes start at once, fail and start
\* again, the demo admin can log in and is let into the default tenant.
THEOREM OpensForBusiness == Spec => []OpenForBusiness
<1>1. IInv => OpenForBusiness
  <2> SUFFICES ASSUME IInv, NEW p \in Processes, process[p].pc = "up"
      PROVE  Default \in tenants /\ IsAdmin(Demo) /\ LetIn(Demo, None)
    BY DEF OpenForBusiness
  <2>1. /\ user[Demo] # NoUser /\ user[Demo] = Account("admin", Default)
        /\ <<Demo, Default>> \in links /\ Default \in tenants
    BY DEF IInv, Seeded
  <2>2. user[Demo].role = "admin" /\ user[Demo].home = Default
    BY <2>1 DEF Account
  <2>3. TenantId(Demo, None) = Default
    BY <2>2 DEF TenantId
  <2> QED
    BY <2>1, <2>2, <2>3 DEF IsAdmin, LetIn
<1> QED
  BY InitIInv, NextKeeps, <1>1, PTL DEF Spec

\* Memberships are not taken away, and a user's row is not changed.
LEMMA RowsStay ==
  ASSUME IInv, [Next]_vars
  PROVE  /\ links \subseteq links'
         /\ \A n \in Names : user[n] # NoUser => user'[n] = user[n]
<1>0. user \in [Names -> Users \cup {NoUser}]
  BY DEF IInv, TypeOK
<1>1. ASSUME NEW p \in Processes, Seed(p)
      PROVE  /\ links \subseteq links'
             /\ \A n \in Names : user[n] # NoUser => user'[n] = user[n]
  <2>1. PICK o \in Commits(Twice(process[p])) :
          /\ process[p].pc = "seed"
          /\ IF o = "conflict" THEN UNCHANGED <<tenants, user, links>>
             ELSE /\ tenants' = IF process[p].tenant THEN tenants ELSE tenants \cup {Default}
                  /\ user' = IF process[p].user THEN user ELSE [user EXCEPT ![Demo] = Account("admin", Default)]
                  /\ links' = IF process[p].user THEN links ELSE links \cup {<<Demo, Default>>}
    BY <1>1 DEF Seed
  <2>2. o # "conflict" /\ ~process[p].user => user[Demo] = NoUser
    BY <2>1 DEF Commits, Twice
  <2> QED
    BY <1>0, <2>1, <2>2
<1>2. ASSUME NEW r \in Requests, InsertUser(r)
      PROVE  /\ links \subseteq links'
             /\ \A n \in Names : user[n] # NoUser => user'[n] = user[n]
  <2> DEFINE a == request[r].ask
  <2>1. PICK o \in Commits(UserConflict(a)) :
          user' = IF o = "conflict" THEN user ELSE [user EXCEPT ![a.name] = Account(a.value, a.tenant)]
    BY <1>2 DEF InsertUser
  <2>2. o # "conflict" => user[a.name] = NoUser
    BY <2>1 DEF Commits, UserConflict
  <2> QED
    BY <1>0, <1>2, <2>1, <2>2 DEF InsertUser
<1>3. ASSUME NEW r \in Requests, InsertLink(r)
      PROVE  links \subseteq links' /\ user' = user
  BY <1>3 DEF InsertLink
<1>4. ASSUME NEW r \in Requests, Serve(r), ~InsertUser(r), ~InsertLink(r)
      PROVE  links' = links /\ user' = user
  BY <1>4 DEF Serve, Submit, InsertTenant, CheckLink, LoadPolicy, WritePolicy, LogChange, Raise, rows
<1>5. ASSUME NEW p \in Processes, ReadTenant(p) \/ ReadUser(p) \/ Crash(p)
      PROVE  links' = links /\ user' = user
  BY <1>5 DEF ReadTenant, ReadUser, Crash, rows
<1> QED
  BY <1>1, <1>2, <1>3, <1>4, <1>5 DEF Next, Boot, vars, rows

\* Nor are tenants.
LEMMA TenantsStay == [Next]_vars => tenants \subseteq tenants'
  BY DEF Next, Boot, ReadTenant, ReadUser, Seed, Crash, Serve, Submit, InsertTenant,
         InsertUser, CheckLink, InsertLink, LoadPolicy, WritePolicy, LogChange, Raise, vars, rows

\* Nobody loses what they may do: who exists keeps role and default tenant, who is let in
\* with a header is let in with it for good, and every tenant stays.
AccessLasts ==
  [][/\ tenants \subseteq tenants'
     /\ \A n \in Names : /\ user[n] # NoUser => user'[n] = user[n]
                         /\ IsAdmin(n) => IsAdmin(n)'
                         /\ \A h \in Tenants \cup {None} : LetIn(n, h) => LetIn(n, h)']_vars

\* So holds, however seeds and creations of one user race (the unique username turns the
\* slower away: seed.py, create_user): no later check of get_tenant_id or require_roles goes
\* against an earlier one. The models of reviews and deletions may take as constants what
\* each session reaches.
THEOREM NobodyLosesAccess == Spec => AccessLasts
<1>1. ASSUME IInv, [Next]_vars
      PROVE  /\ tenants \subseteq tenants'
             /\ \A n \in Names : /\ user[n] # NoUser => user'[n] = user[n]
                                 /\ IsAdmin(n) => IsAdmin(n)'
                                 /\ \A h \in Tenants \cup {None} : LetIn(n, h) => LetIn(n, h)'
  <2>1. /\ links \subseteq links'
        /\ \A n \in Names : user[n] # NoUser => user'[n] = user[n]
    BY <1>1, RowsStay
  <2>2. tenants \subseteq tenants'
    BY <1>1, TenantsStay
  <2>3. ASSUME NEW n \in Names, IsAdmin(n) PROVE IsAdmin(n)'
    <3>1. user[n] # NoUser
      BY <2>3 DEF IsAdmin, NoUser, Account
    <3> QED
      BY <2>1, <2>3, <3>1 DEF IsAdmin
  <2>4. ASSUME NEW n \in Names, NEW h \in Tenants \cup {None}, LetIn(n, h) PROVE LetIn(n, h)'
    <3>1. user'[n] = user[n] /\ user[n] # NoUser
      BY <2>1, <2>4 DEF LetIn
    <3>2. (TenantId(n, h))' = TenantId(n, h)
      BY <3>1 DEF TenantId
    <3> QED
      BY <2>1, <2>4, <3>1, <3>2 DEF LetIn
  <2> QED
    BY <2>1, <2>2, <2>3, <2>4
<1>2. IInv /\ [Next]_vars =>
        [/\ tenants \subseteq tenants'
         /\ \A n \in Names : /\ user[n] # NoUser => user'[n] = user[n]
                             /\ IsAdmin(n) => IsAdmin(n)'
                             /\ \A h \in Tenants \cup {None} : LetIn(n, h) => LetIn(n, h)']_vars
  BY <1>1
<1> QED
  BY InitIInv, NextKeeps, <1>2, PTL DEF Spec, AccessLasts

\* A new user has the row that was asked for, and who is about to be told of a
\* membership has it.
Kept(r) ==
  LET q == request[r] IN
  /\ q.pc \in {"check", "link", "log", "ok"} /\ q.ask.op \in {"user", "grant"} =>
       /\ q.ask.name \in Names /\ user[q.ask.name] # NoUser
       /\ q.ask.op = "user" => user[q.ask.name] = Account(q.ask.value, q.ask.tenant)
  /\ q.pc \in {"log", "ok"} /\ q.ask.op \in {"user", "grant"} /\ q.ask.tenant # None =>
       <<q.ask.name, q.ask.tenant>> \in links

\* A request that stays where it is keeps what it has.
LEMMA StillKept ==
  ASSUME IInv, [Next]_vars, NEW q \in Requests, Kept(q), request'[q] = request[q]
  PROVE  Kept(q)'
  BY RowsStay DEF Kept

\* An answer other than "ok" promises nothing.
LEMMA NothingPromised ==
  ASSUME NEW q \in Requests, request'[q].pc \notin {"check", "link", "log", "ok"}
  PROVE  Kept(q)'
  BY DEF Kept

\* What an admin request keeps by a step of its own.
LEMMA ServeKept ==
  ASSUME IInv, NEW r \in Requests, Serve(r), \A q \in Requests : Kept(q)
  PROVE  \A q \in Requests : Kept(q)'
<1> DEFINE a == request[r].ask
<1>0. request \in [Requests -> RequestState] /\ [Next]_vars /\ Kept(r) /\ Fits(r)
  BY RequestType DEF IInv, TypeOK, Next
<1>1. \A q \in Requests \ {r} : request'[q] = request[q]
  BY <1>0 DEF Serve, Submit, InsertTenant, InsertUser, CheckLink, InsertLink, LoadPolicy,
              WritePolicy, LogChange, Raise, Goto
<1>2. SUFFICES Kept(r)'
  BY <1>0, <1>1, StillKept
<1>3. /\ links \subseteq links'
      /\ \A n \in Names : user[n] # NoUser => user'[n] = user[n]
  BY <1>0, RowsStay DEF IInv
<1>4. ASSUME NEW pc, Goto(r, pc)
      PROVE  request'[r].pc = pc /\ request'[r].ask = a
  BY <1>0, <1>4 DEF Goto, RequestState
<1>5. Refusal(r) \notin {"check", "link", "log", "ok"}
  BY DEF Refusal
<1>6. request[r].pc \in Working => a \in Asks
  BY <1>0 DEF Fits
<1>7. CASE Submit(r)
  <2>1. PICK p \in Processes, ask \in Asks :
          /\ ask.op = "grant" => user[ask.name] # NoUser
          /\ request' = [request EXCEPT ![r] =
                [pc |-> Entry[ask.op], on |-> p, ask |-> ask, saw |-> ""]]
          /\ UNCHANGED rows
    BY <1>7 DEF Submit
  <2>2. request'[r].pc = Entry[ask.op] /\ request'[r].ask = ask
    BY <1>0, <2>1
  <2>3. /\ Entry[ask.op] \notin {"link", "log", "ok"}
        /\ Entry[ask.op] = "check" => ask.op = "grant" /\ ask.name \in Names
    BY AskFields DEF Entry
  <2> QED
    BY <2>1, <2>2, <2>3 DEF Kept, rows
<1>8. CASE InsertTenant(r) \/ LoadPolicy(r) \/ WritePolicy(r)
  <2>1. a.op \in {"tenant", "policy"}
    BY <1>8 DEF InsertTenant, LoadPolicy, WritePolicy, At
  <2>2. request'[r].ask = a
    BY <1>0, <1>8, <1>4 DEF InsertTenant, LoadPolicy, WritePolicy, RequestState
  <2> QED
    BY <2>1, <2>2 DEF Kept
<1>9. CASE InsertUser(r)
  <2>1. PICK o \in Commits(UserConflict(a)) :
          /\ user' = IF o = "conflict" THEN user ELSE [user EXCEPT ![a.name] = Account(a.value, a.tenant)]
          /\ Goto(r, IF o # "ok" THEN Refusal(r) ELSE IF a.tenant = None THEN "log" ELSE "check")
    BY <1>9 DEF InsertUser
  <2>2. a.op = "user" /\ a.name \in Names /\ a.tenant \in Tenants \cup {None} /\ a.value \in Roles
    BY <1>6, <1>9, AskFields DEF InsertUser, At, Working
  <2>3. Account(a.value, a.tenant) # NoUser
    BY <2>2, AccountExists
  <2>4. CASE o = "ok"
    <3>1. user'[a.name] = Account(a.value, a.tenant)
      BY <2>1, <2>2, <2>4 DEF IInv, TypeOK
    <3>2. /\ request'[r].ask = a
          /\ request'[r].pc = IF a.tenant = None THEN "log" ELSE "check"
      BY <1>4, <2>1, <2>4
    <3> QED
      BY <2>2, <2>3, <3>1, <3>2 DEF Kept
  <2>5. CASE o # "ok"
    BY <1>4, <1>5, <2>1, <2>5, NothingPromised
  <2> QED
    BY <2>4, <2>5
<1>10. CASE CheckLink(r)
  <2>1. /\ a.op \in {"user", "grant"} /\ request[r].pc = "check" /\ request'[r].ask = a
        /\ request'[r].pc = IF <<a.name, a.tenant>> \in links THEN "log" ELSE "link"
        /\ UNCHANGED <<user, links>>
    BY <1>4, <1>10 DEF CheckLink, At, rows
  <2> QED
    BY <1>0, <2>1 DEF Kept
<1>11. CASE InsertLink(r)
  <2>1. PICK o \in Commits(<<a.name, a.tenant>> \in links \/ Missing(a.tenant)) :
          /\ links' = IF o = "conflict" THEN links ELSE links \cup {<<a.name, a.tenant>>}
          /\ Goto(r, IF o = "ok" THEN "log" ELSE Refusal(r))
    BY <1>11 DEF InsertLink
  <2>2. a.op \in {"user", "grant"} /\ request[r].pc = "link" /\ user' = user
    BY <1>11 DEF InsertLink, At
  <2>3. CASE o = "ok"
    <3>1. request'[r].ask = a /\ request'[r].pc = "log" /\ <<a.name, a.tenant>> \in links'
      BY <1>4, <2>1, <2>3
    <3> QED
      BY <1>0, <2>2, <3>1 DEF Kept
  <2>4. CASE o # "ok"
    BY <1>4, <1>5, <2>1, <2>4, NothingPromised
  <2> QED
    BY <2>3, <2>4
<1>12. CASE LogChange(r)
  <2>1. PICK o \in Commits(FALSE) : Goto(r, IF o = "ok" THEN "ok" ELSE Refusal(r))
    BY <1>12 DEF LogChange
  <2>2. request[r].pc = "log" /\ UNCHANGED <<user, links>>
    BY <1>12 DEF LogChange
  <2>3. CASE o = "ok"
    <3>1. request'[r].ask = a /\ request'[r].pc = "ok"
      BY <1>4, <2>1, <2>3
    <3> QED
      BY <1>0, <2>2, <3>1 DEF Kept
  <2>4. CASE o # "ok"
    BY <1>4, <1>5, <2>1, <2>4, NothingPromised
  <2> QED
    BY <2>3, <2>4
<1>13. CASE Raise(r)
  BY <1>4, <1>5, <1>13, NothingPromised DEF Raise
<1> QED
  BY <1>7, <1>8, <1>9, <1>10, <1>11, <1>12, <1>13 DEF Serve

\* What each request keeps, kept by every step.
AllKept == \A q \in Requests : Kept(q)

LEMMA InitKept == Init => AllKept
<1> SUFFICES ASSUME Init, NEW q \in Requests PROVE Kept(q)
  BY DEF AllKept
<1>1. request[q].pc = "new"
  BY DEF Init, NoRequest
<1> QED
  BY <1>1 DEF Kept

LEMMA NextKept == IInv /\ AllKept /\ [Next]_vars => AllKept'
<1> SUFFICES ASSUME IInv, AllKept, [Next]_vars PROVE AllKept'
  OBVIOUS
<1>1. CASE UNCHANGED vars
  BY <1>1 DEF AllKept, Kept, vars, rows
<1>2. ASSUME NEW p \in Processes, Boot(p) PROVE AllKept'
  <2>1. request' = request
    BY <1>2 DEF Boot, ReadTenant, ReadUser, Seed
  <2> QED
    BY <2>1, StillKept DEF AllKept
<1>3. ASSUME NEW p \in Processes, Crash(p), NEW q \in Requests PROVE Kept(q)'
  <2>1. request'[q] = request[q] \/ request'[q].pc = "dead"
    BY <1>3 DEF Crash, IInv, TypeOK
  <2> QED
    BY <2>1, StillKept, NothingPromised DEF AllKept
<1>4. ASSUME NEW r \in Requests, Serve(r) PROVE AllKept'
  BY <1>4, ServeKept DEF AllKept
<1> QED
  BY <1>1, <1>2, <1>3, <1>4 DEF AllKept, Next

\* Whoever was told "created" or "granted" is let in, whatever fails and whoever else is
\* at work on the same user.
THEOREM ConfirmedAreLetIn == Spec => []ConfirmedIsLetIn
<1>1. IInv /\ AllKept => ConfirmedIsLetIn
  <2> SUFFICES ASSUME IInv, AllKept, NEW r \in Requests, request[r].pc = "ok",
                      request[r].ask.op \in {"user", "grant"}, request[r].ask.tenant # None
      PROVE  LetIn(request[r].ask.name,
                   IF request[r].ask.op = "user" THEN None ELSE request[r].ask.tenant)
    BY DEF ConfirmedIsLetIn
  <2> DEFINE a == request[r].ask
  <2>1. /\ user[a.name] # NoUser /\ <<a.name, a.tenant>> \in links
        /\ a.op = "user" => user[a.name] = Account(a.value, a.tenant)
    BY DEF AllKept, Kept
  <2>2. TenantId(a.name, IF a.op = "user" THEN None ELSE a.tenant) = a.tenant
    BY <2>1 DEF TenantId, Account
  <2> QED
    BY <2>1, <2>2 DEF LetIn
<1> QED
  BY InitIInv, NextKeeps, InitKept, NextKept, <1>1, PTL DEF Spec
-----------------------------------------------------------------------------
\* A user whose membership in the default tenant is not there yet is being given it, by
\* the very request that inserted the row; and the tenant is there to be joined.
Linked(n) == <<n, user[n].home>> \in links
Joining(q, n) == /\ request[q].pc \in {"check", "link"}
                 /\ request[q].ask.op = "user" /\ request[q].ask.name = n
Awaited(n) == user[n].home # None => Linked(n) \/ \E q \in Requests : Joining(q, n)
Housed(q) == request[q].pc \in {"check", "link"} /\ request[q].ask.op = "user" =>
               ~Missing(request[q].ask.tenant)
Hosted == faults = 0 => /\ \A n \in Names : Awaited(n)
                        /\ \A q \in Requests : Housed(q)

LEMMA InitHosted == Init => Hosted
<1> SUFFICES ASSUME Init PROVE (\A n \in Names : Awaited(n)) /\ (\A q \in Requests : Housed(q))
  BY DEF Hosted
<1>1. ASSUME NEW n \in Names PROVE user[n].home = None
  BY <1>1 DEF Init, NoUser, Account
<1>2. ASSUME NEW q \in Requests PROVE request[q].pc = "new"
  BY <1>2 DEF Init, NoRequest
<1> QED
  BY <1>1, <1>2 DEF Awaited, Housed

\* A user's row and membership outlast every step; so does the wait for it, but for a
\* step of the one request that joins.
LEMMA AwaitedStays ==
  ASSUME IInv, [Next]_vars, NEW n \in Names, Awaited(n), user'[n] = user[n],
         \A q \in Requests : Joining(q, n) => Linked(n)' \/ Joining(q, n)'
  PROVE  Awaited(n)'
<1>1. Linked(n) => Linked(n)'
  BY RowsStay DEF Linked
<1> QED
  BY <1>1 DEF Awaited

\* A request that stays where it is keeps its tenant.
LEMMA HousedStays ==
  ASSUME NEW q \in Requests, Housed(q), request'[q] = request[q],
         tenants \subseteq tenants', UNCHANGED enforced
  PROVE  Housed(q)'
  BY DEF Housed, Missing

\* A step of an admin request, where no call fails.
LEMMA ServeHosted ==
  ASSUME IInv, AllKept, Hosted, NEW r \in Requests, Serve(r), faults' = 0
  PROVE  (\A n \in Names : Awaited(n)') /\ (\A q \in Requests : Housed(q)')
<1> DEFINE a == request[r].ask
<1>0. /\ request \in [Requests -> RequestState] /\ [Next]_vars /\ Kept(r) /\ Fits(r)
      /\ user \in [Names -> Users \cup {NoUser}] /\ faults \in 0..MaxFaults
  BY RequestType DEF IInv, TypeOK, Next, AllKept
<1>1. \A q \in Requests \ {r} : request'[q] = request[q]
  BY <1>0 DEF Serve, Submit, InsertTenant, InsertUser, CheckLink, InsertLink, LoadPolicy,
              WritePolicy, LogChange, Raise, Goto
<1>2. tenants \subseteq tenants' /\ enforced' = enforced
  BY DEF Serve, Submit, InsertTenant, InsertUser, CheckLink, InsertLink, LoadPolicy,
         WritePolicy, LogChange, Raise, rows
<1>3. /\ links \subseteq links'
      /\ \A n \in Names : user[n] # NoUser => user'[n] = user[n]
  BY <1>0, RowsStay
<1>4. faults = 0 /\ ~Raise(r)
  <2>1. faults \in Nat
    BY <1>0, FaultsAssumption
  <2>2. faults' = faults \/ faults' = faults + 1
    BY DEF Serve, Submit, InsertTenant, InsertUser, CheckLink, InsertLink,
           LoadPolicy, WritePolicy, LogChange, Raise, Count
  <2>3. Raise(r) => faults' = faults + 1
    BY DEF Raise
  <2> QED
    BY <2>1, <2>2, <2>3
<1>5. (\A n \in Names : Awaited(n)) /\ (\A q \in Requests : Housed(q))
  BY <1>4 DEF Hosted
<1>6. ASSUME NEW conflict, NEW o \in Commits(conflict), Count(o)
      PROVE  o = IF conflict THEN "conflict" ELSE "ok"
  BY <1>4, <1>6 DEF Commits, Count
<1>7. ASSUME NEW pc, Goto(r, pc)
      PROVE  request'[r].pc = pc /\ request'[r].ask = a
  BY <1>0, <1>7 DEF Goto, RequestState
<1>8. Refusal(r) \notin {"check", "link", "log", "ok"}
  BY DEF Refusal
<1>9. request[r].pc \in Working => a \in Asks
  BY <1>0 DEF Fits
<1>10. ASSUME Housed(r)', \A n \in Names : Awaited(n)'
       PROVE  (\A n \in Names : Awaited(n)') /\ (\A q \in Requests : Housed(q)')
  BY <1>1, <1>2, <1>5, <1>10, HousedStays
<1>11. ASSUME NEW n \in Names, user'[n] = user[n], Joining(r, n) => Linked(n)' \/ Joining(r, n)'
       PROVE  Awaited(n)'
  <2>1. \A q \in Requests : Joining(q, n) => Linked(n)' \/ Joining(q, n)'
    BY <1>1, <1>11 DEF Joining
  <2> QED
    BY <1>0, <1>5, <1>11, <2>1, AwaitedStays
<1>12. CASE InsertUser(r)
  <2>1. PICK o \in Commits(UserConflict(a)) :
          /\ user' = IF o = "conflict" THEN user ELSE [user EXCEPT ![a.name] = Account(a.value, a.tenant)]
          /\ Goto(r, IF o # "ok" THEN Refusal(r) ELSE IF a.tenant = None THEN "log" ELSE "check")
          /\ Count(o)
    BY <1>12 DEF InsertUser
  <2>2. /\ a.op = "user" /\ a.name \in Names /\ a.tenant \in Tenants \cup {None}
        /\ request[r].pc = "insert" /\ UNCHANGED <<tenants, links>>
    BY <1>9, <1>12, AskFields DEF InsertUser, At, Working
  <2>3. CASE UserConflict(a)
    <3>1. user' = user /\ request'[r].pc = Refusal(r)
      BY <1>6, <1>7, <2>1, <2>3
    <3>2. Housed(r)'
      BY <1>8, <3>1 DEF Housed
    <3>3. \A n \in Names : Awaited(n)'
      BY <1>11, <2>2, <3>1 DEF Joining
    <3> QED
      BY <1>10, <3>2, <3>3
  <2>4. CASE ~UserConflict(a)
    <3>1. /\ user' = [user EXCEPT ![a.name] = Account(a.value, a.tenant)]
          /\ request'[r].pc = IF a.tenant = None THEN "log" ELSE "check"
          /\ request'[r].ask = a
      BY <1>6, <1>7, <2>1, <2>4
    <3>2. Housed(r)'
      BY <1>2, <2>2, <2>4, <3>1 DEF Housed, UserConflict, Missing
    <3>3. ASSUME NEW n \in Names PROVE Awaited(n)'
      <4>1. CASE n = a.name
        <5>1. user'[n].home = a.tenant
          BY <1>0, <2>2, <3>1, <4>1 DEF Account
        <5>2. a.tenant # None => Joining(r, n)'
          BY <2>2, <3>1, <4>1 DEF Joining
        <5> QED
          BY <5>1, <5>2 DEF Awaited
      <4>2. CASE n # a.name
        BY <1>0, <1>11, <2>2, <3>1, <4>2 DEF Joining
      <4> QED
        BY <4>1, <4>2
    <3> QED
      BY <1>10, <3>2, <3>3
  <2> QED
    BY <2>3, <2>4
<1>13. CASE CheckLink(r)
  <2>1. /\ a.op \in {"user", "grant"} /\ request[r].pc = "check" /\ request'[r].ask = a
        /\ request'[r].pc = IF <<a.name, a.tenant>> \in links THEN "log" ELSE "link"
        /\ UNCHANGED <<tenants, user, links, enforced>>
    BY <1>7, <1>13 DEF CheckLink, At, rows
  <2>2. Housed(r)'
    BY <1>5, <2>1 DEF Housed, Missing
  <2>3. ASSUME NEW n \in Names, Joining(r, n) PROVE Linked(n)' \/ Joining(r, n)'
    <3>1. a.op = "user" /\ a.name = n /\ user[n] = Account(a.value, a.tenant)
      BY <1>0, <2>1, <2>3 DEF Joining, Kept
    <3>2. user[n].home = a.tenant
      BY <3>1 DEF Account
    <3> QED
      BY <2>1, <3>1, <3>2 DEF Linked, Joining
  <2> QED
    BY <1>10, <1>11, <2>1, <2>2, <2>3
<1>14. CASE InsertLink(r)
  <2> DEFINE link == <<a.name, a.tenant>>
  <2>1. PICK o \in Commits(link \in links \/ Missing(a.tenant)) :
          /\ links' = IF o = "conflict" THEN links ELSE links \cup {link}
          /\ Goto(r, IF o = "ok" THEN "log" ELSE Refusal(r))
          /\ Count(o)
    BY <1>14 DEF InsertLink
  <2>2. a.op \in {"user", "grant"} /\ request[r].pc = "link" /\ user' = user
    BY <1>14 DEF InsertLink, At
  <2>3. request'[r].pc \notin {"check", "link"}
    BY <1>7, <1>8, <2>1
  <2>4. Housed(r)'
    BY <2>3 DEF Housed
  <2>5. ASSUME NEW n \in Names, Joining(r, n) PROVE Linked(n)'
    <3>1. a.op = "user" /\ a.name = n /\ user[n] = Account(a.value, a.tenant)
      BY <1>0, <2>2, <2>5 DEF Joining, Kept
    <3>2. user[n].home = a.tenant /\ ~Missing(a.tenant)
      BY <1>5, <2>2, <3>1 DEF Account, Housed
    <3>3. link \in links'
      BY <1>6, <2>1, <3>2
    <3> QED
      BY <2>2, <3>1, <3>2, <3>3 DEF Linked
  <2> QED
    BY <1>10, <1>11, <2>2, <2>4, <2>5
<1>15. CASE Submit(r)
  <2>1. PICK p \in Processes, ask \in Asks :
          /\ request[r].pc = "new"
          /\ request' = [request EXCEPT ![r] =
                [pc |-> Entry[ask.op], on |-> p, ask |-> ask, saw |-> ""]]
          /\ UNCHANGED rows
    BY <1>15 DEF Submit
  <2>2. request'[r].pc = Entry[ask.op] /\ request'[r].ask = ask
    BY <1>0, <2>1
  <2>3. Entry[ask.op] \in {"check", "link"} => ask.op # "user"
    BY AskFields DEF Entry
  <2>4. Housed(r)'
    BY <2>2, <2>3 DEF Housed
  <2>5. \A n \in Names : ~Joining(r, n)
    BY <2>1 DEF Joining
  <2> QED
    BY <1>10, <1>11, <2>1, <2>4, <2>5 DEF rows
<1>16. CASE InsertTenant(r) \/ LoadPolicy(r) \/ WritePolicy(r) \/ LogChange(r)
  <2>1. user' = user /\ request[r].pc \notin {"check", "link"}
    BY <1>16 DEF InsertTenant, LoadPolicy, WritePolicy, LogChange, At, rows
  <2>2. request'[r].pc \notin {"check", "link"}
    <3>1. CASE LoadPolicy(r)
      BY <1>0, <3>1 DEF LoadPolicy, RequestState
    <3>2. CASE ~LoadPolicy(r)
      <4>1. \E pc \in {"log", "ok", Refusal(r)} : Goto(r, pc)
        BY <1>16, <3>2 DEF InsertTenant, WritePolicy, LogChange
      <4> QED
        BY <1>7, <1>8, <4>1
    <3> QED
      BY <3>1, <3>2
  <2>3. Housed(r)' /\ \A n \in Names : ~Joining(r, n)
    BY <2>1, <2>2 DEF Housed, Joining
  <2> QED
    BY <1>10, <1>11, <2>1, <2>3
<1> QED
  BY <1>4, <1>12, <1>13, <1>14, <1>15, <1>16 DEF Serve

\* A process that starts makes the demo user a member in the commit that inserts it.
LEMMA BootHosted ==
  ASSUME IInv, Hosted, NEW p \in Processes, Boot(p), faults' = 0
  PROVE  (\A n \in Names : Awaited(n)') /\ (\A q \in Requests : Housed(q)')
<1>0. /\ user \in [Names -> Users \cup {NoUser}] /\ faults \in 0..MaxFaults /\ [Next]_vars
      /\ Demo \in Names
  BY SeedAssumption DEF IInv, TypeOK, Next
<1>1. faults = 0
  <2>1. faults' = faults \/ faults' = faults + 1
    BY DEF Boot, ReadTenant, ReadUser, Seed, Count
  <2> QED
    BY <1>0, <2>1, FaultsAssumption
<1>2. (\A n \in Names : Awaited(n)) /\ (\A q \in Requests : Housed(q))
  BY <1>1 DEF Hosted
<1>3. request' = request /\ enforced' = enforced /\ tenants \subseteq tenants'
  BY DEF Boot, ReadTenant, ReadUser, Seed, rows
<1>4. \A q \in Requests : Housed(q)'
  BY <1>2, <1>3, HousedStays
<1>5. ASSUME NEW n \in Names PROVE Awaited(n)'
  <2>1. CASE user'[n] = user[n]
    BY <1>0, <1>2, <1>3, <2>1, AwaitedStays DEF Joining
  <2>2. CASE user'[n] # user[n]
    <3>1. Seed(p)
      BY <2>2 DEF Boot, ReadTenant, ReadUser, rows
    <3>2. PICK o \in Commits(Twice(process[p])) :
            IF o = "conflict" THEN UNCHANGED <<tenants, user, links>>
            ELSE /\ user' = IF process[p].user THEN user ELSE [user EXCEPT ![Demo] = Account("admin", Default)]
                 /\ links' = IF process[p].user THEN links ELSE links \cup {<<Demo, Default>>}
      BY <3>1 DEF Seed
    <3>3. n = Demo /\ user'[n].home = Default /\ <<Demo, Default>> \in links'
      BY <1>0, <2>2, <3>2 DEF Account
    <3> QED
      BY <3>3 DEF Awaited, Linked
  <2> QED
    BY <2>1, <2>2
<1> QED
  BY <1>4, <1>5

LEMMA NextHosted == IInv /\ AllKept /\ Hosted /\ [Next]_vars => Hosted'
<1> SUFFICES ASSUME IInv, AllKept, Hosted, [Next]_vars, faults' = 0
    PROVE  (\A n \in Names : Awaited(n)') /\ (\A q \in Requests : Housed(q)')
  BY DEF Hosted
<1>1. CASE UNCHANGED vars
  BY <1>1 DEF Hosted, Awaited, Linked, Joining, Housed, Missing, vars, rows
<1>2. ASSUME NEW p \in Processes PROVE ~Crash(p)
  <2>1. faults \in 0..MaxFaults
    BY DEF IInv, TypeOK
  <2>2. Crash(p) => faults' = faults + 1
    BY DEF Crash
  <2> QED
    BY <2>1, <2>2, FaultsAssumption
<1> QED
  BY <1>1, <1>2, BootHosted, ServeHosted DEF Next

\* Where no call has failed, a user is let into the own default tenant as soon as its
\* creation is over, whoever else is granting the same membership meanwhile.
THEOREM NobodyStaysStranded == Spec => []NobodyIsStranded
<1>1. IInv /\ Hosted => NobodyIsStranded
  <2> SUFFICES ASSUME IInv, Hosted, faults = 0, NEW n \in Names, user[n].home # None
      PROVE  LetIn(n, None) \/ Creating(n)
    BY DEF NobodyIsStranded
  <2>1. Linked(n) \/ \E q \in Requests : Joining(q, n)
    BY DEF Hosted, Awaited
  <2>2. Linked(n) => LetIn(n, None)
    BY DEF Linked, LetIn, TenantId, NoUser, Account
  <2>3. (\E q \in Requests : Joining(q, n)) => Creating(n)
    BY DEF Joining, Creating, Working
  <2> QED
    BY <2>1, <2>2, <2>3
<1> QED
  BY InitIInv, NextKeeps, InitKept, NextKept, InitHosted, NextHosted, <1>1, PTL DEF Spec
-----------------------------------------------------------------------------
\* What was asked for is in the trail, or its request is yet to end or ended badly.
Traced(a) == \/ a \in audit
             \/ \E q \in Requests : request[q].ask = a /\ request[q].pc # "ok"

\* A new request asks for nothing.
Blank == \A q \in Requests : request[q].pc = "new" => request[q].ask = NoAsk

\* The asks behind what is stored.
TenantAsked(t) == \E a \in Asks : a.op = "tenant" /\ a.tenant = t /\ Traced(a)
UserAsked(n) == \E a \in Asks : a.op = "user" /\ a.name = n /\ a.value = user[n].role /\ Traced(a)
PolicyAsked(t) == \E a \in Asks : a.op = "policy" /\ a.tenant = t /\ a.value = policy[t] /\ Traced(a)
AllAsked == /\ \A t \in tenants \ {Default} : TenantAsked(t)
            /\ \A n \in {m \in Names : user[m] # NoUser} \ {Demo} : UserAsked(n)
            /\ \A t \in {s \in Tenants : policy[s] # ""} : PolicyAsked(t)

\* A request keeps what it asks for, and only the entry in the trail lets it end well.
LEMMA RequestGoes ==
  ASSUME IInv, [Next]_vars, NEW q \in Requests, request[q].pc # "new"
  PROVE  /\ request'[q].ask = request[q].ask /\ request'[q].pc # "new"
         /\ request'[q].pc = "ok" => request[q].pc = "ok" \/ request[q].ask \in audit'
<1>0. request \in [Requests -> RequestState]
  BY RequestType DEF IInv, TypeOK
<1>1. CASE request'[q] = request[q]
  BY <1>1
<1>2. CASE request'[q] # request[q]
  <2>1. ASSUME NEW p \in Processes, Crash(p)
        PROVE  request'[q].pc = "dead" /\ request'[q].ask = request[q].ask
    BY <1>0, <1>2, <2>1 DEF Crash, RequestState
  <2>2. ASSUME NEW r \in Requests, Serve(r)
        PROVE  q = r /\ ~Submit(r)
    BY <1>0, <1>2, <2>2 DEF Serve, Submit, InsertTenant, InsertUser, CheckLink, InsertLink,
       LoadPolicy, WritePolicy, LogChange, Raise, Goto
  <2>3. ASSUME NEW pc, Goto(q, pc)
        PROVE  request'[q].pc = pc /\ request'[q].ask = request[q].ask
    BY <1>0, <2>3 DEF Goto, RequestState
  <2>4. Refusal(q) \notin {"ok", "new"}
    BY DEF Refusal
  <2>5. CASE LogChange(q)
    BY <2>3, <2>4, <2>5 DEF LogChange
  <2>6. CASE LoadPolicy(q)
    BY <1>0, <2>6 DEF LoadPolicy, RequestState
  <2>7. CASE InsertTenant(q) \/ InsertUser(q) \/ CheckLink(q) \/ InsertLink(q) \/ WritePolicy(q) \/ Raise(q)
    <3>1. \E pc \in {"log", "check", "link", Refusal(q)} : Goto(q, pc)
      BY <2>7 DEF InsertTenant, InsertUser, CheckLink, InsertLink, WritePolicy, Raise
    <3> QED
      BY <2>3, <2>4, <3>1
  <2>8. ASSUME NEW p \in Processes, Boot(p) PROVE FALSE
    BY <1>2, <2>8 DEF Boot, ReadTenant, ReadUser, Seed
  <2>9. ~UNCHANGED vars
    BY <1>2 DEF vars
  <2> QED
    <3>1. ASSUME NEW r \in Requests, Serve(r)
          PROVE  \/ LogChange(q) \/ LoadPolicy(q) \/ InsertTenant(q) \/ InsertUser(q)
                 \/ CheckLink(q) \/ InsertLink(q) \/ WritePolicy(q) \/ Raise(q)
      BY <2>2, <3>1 DEF Serve
    <3>2. CASE \E r \in Requests : Serve(r)
      BY <2>5, <2>6, <2>7, <3>1, <3>2
    <3>3. CASE \E p \in Processes : Crash(p)
      BY <2>1, <3>3
    <3> QED
      BY <2>8, <2>9, <3>2, <3>3 DEF Next
<1> QED
  BY <1>1, <1>2

\* Entries are never removed.
LEMMA TrailGrows == [Next]_vars => audit \subseteq audit'
  BY DEF Next, Boot, ReadTenant, ReadUser, Seed, Crash, Serve, Submit, InsertTenant, InsertUser,
     CheckLink, InsertLink, LoadPolicy, WritePolicy, LogChange, Raise, vars, rows

\* So what is traced stays traced,
LEMMA TracedStays ==
  ASSUME IInv, Blank, [Next]_vars, NEW a \in Asks, Traced(a)
  PROVE  Traced(a)'
<1>1. a # NoAsk
  <2>1. a.op # "none"
    BY AskFields
  <2>2. NoAsk.op = "none"
    BY DEF NoAsk
  <2> QED
    BY <2>1, <2>2
<1>2. CASE a \in audit
  BY <1>2, TrailGrows DEF Traced
<1>3. ASSUME NEW q \in Requests, request[q].ask = a, request[q].pc # "ok"
      PROVE  Traced(a)'
  <2>1. request[q].pc # "new"
    BY <1>1, <1>3 DEF Blank
  <2> QED
    BY <1>3, <2>1, RequestGoes DEF Traced
<1> QED
  BY <1>2, <1>3 DEF Traced

\* and a request that writes traces what it writes.
LEMMA WriterTraced ==
  ASSUME IInv, [Next]_vars, NEW q \in Requests,
         request[q].pc \in {"insert", "write"}
  PROVE  \E a \in Asks : a = request[q].ask /\ Traced(a)'
<1>1. PICK a \in Asks : a = request[q].ask
  BY DEF IInv, Fits, Working
<1>2. request'[q].ask = request[q].ask
  BY RequestGoes
<1>3. request'[q].pc = "ok" => request[q].ask \in audit'
  BY RequestGoes
<1> QED
  BY <1>1, <1>2, <1>3 DEF Traced

LEMMA NextBlank == IInv /\ Blank /\ [Next]_vars => Blank'
<1> SUFFICES ASSUME IInv, Blank, [Next]_vars, NEW q \in Requests, request'[q].pc = "new"
    PROVE  request'[q].ask = NoAsk
  BY DEF Blank
<1>1. request[q].pc = "new"
  BY RequestGoes
<1>2. request'[q] = request[q]
  <2>1. request \in [Requests -> RequestState]
    BY RequestType DEF IInv, TypeOK
  <2>2. ASSUME NEW r \in Requests, Submit(r) PROVE q # r
    <3>1. PICK p \in Processes, a \in Asks :
            request' = [request EXCEPT ![r] = [pc |-> Entry[a.op], on |-> p, ask |-> a, saw |-> ""]]
      BY <2>2 DEF Submit
    <3>2. Entry[a.op] # "new"
      BY AskFields DEF Entry
    <3> QED
      BY <2>1, <3>1, <3>2
  <2>3. ASSUME NEW r \in Requests, Serve(r), ~Submit(r)
        PROVE  request[r].pc # "new"
    BY <2>3 DEF Serve, InsertTenant, InsertUser, CheckLink, InsertLink, LoadPolicy, WritePolicy,
       LogChange, Raise, At, Working
  <2>4. ASSUME NEW r \in Requests, Serve(r) PROVE request'[q] = request[q]
    BY <1>1, <2>1, <2>2, <2>3, <2>4 DEF Serve, Submit, InsertTenant, InsertUser, CheckLink, InsertLink,
       LoadPolicy, WritePolicy, LogChange, Raise, Goto
  <2>5. ASSUME NEW p \in Processes, Boot(p) \/ Crash(p) PROVE request'[q] = request[q]
    BY <1>1, <2>1, <2>5 DEF Boot, ReadTenant, ReadUser, Seed, Crash, Working
  <2> QED
    BY <2>4, <2>5 DEF Next, vars
<1> QED
  BY <1>1, <1>2 DEF Blank

LEMMA NextAsked == IInv /\ Blank /\ AllAsked /\ [Next]_vars => AllAsked'
<1> SUFFICES ASSUME IInv, Blank, AllAsked, [Next]_vars PROVE AllAsked'
  OBVIOUS
<1>0. /\ user \in [Names -> Users \cup {NoUser}]
      /\ policy \in [Tenants -> Modes \cup {""}]
  BY DEF IInv, TypeOK
<1>1. ASSUME NEW t \in tenants' \ {Default} PROVE TenantAsked(t)'
  <2>1. CASE t \in tenants
    BY <2>1, TracedStays DEF AllAsked, TenantAsked
  <2>2. CASE t \notin tenants
    <3>1. PICK r \in Requests : InsertTenant(r) /\ t = request[r].ask.tenant
      BY <1>1, <2>2 DEF Next, Boot, ReadTenant, ReadUser, Seed, Crash, Serve, Submit, InsertTenant,
         InsertUser, CheckLink, InsertLink, LoadPolicy, WritePolicy, LogChange, Raise, vars, rows
    <3>2. request[r].pc = "insert" /\ request[r].ask.op = "tenant"
      BY <3>1 DEF InsertTenant, At
    <3> QED
      BY <3>1, <3>2, WriterTraced DEF TenantAsked
  <2> QED
    BY <2>1, <2>2
<1>2. ASSUME NEW n \in Names \ {Demo}, user'[n] # NoUser PROVE UserAsked(n)'
  <2>1. CASE user[n] # NoUser
    <3>1. user'[n] = user[n]
      BY <2>1, RowsStay
    <3>2. PICK a \in Asks : a.op = "user" /\ a.name = n /\ a.value = user[n].role /\ Traced(a)
      BY <1>2, <2>1 DEF AllAsked, UserAsked
    <3> QED
      BY <3>1, <3>2, TracedStays DEF UserAsked
  <2>2. CASE user[n] = NoUser
    <3>1. PICK r \in Requests : InsertUser(r) /\ n = request[r].ask.name /\ user'[n].role = request[r].ask.value
      <4>1. ASSUME NEW r \in Requests, InsertUser(r)
            PROVE  n = request[r].ask.name /\ user'[n].role = request[r].ask.value
        <5>1. PICK o \in Commits(UserConflict(request[r].ask)) :
                user' = IF o = "conflict" THEN user
                        ELSE [user EXCEPT ![request[r].ask.name] =
                                Account(request[r].ask.value, request[r].ask.tenant)]
          BY <4>1 DEF InsertUser
        <5> QED
          BY <1>0, <1>2, <2>2, <5>1 DEF Account
      <4>2. \E r \in Requests : InsertUser(r)
        BY <1>0, <1>2, <2>2 DEF Next, Boot, ReadTenant, ReadUser, Seed, Crash, Serve, Submit, InsertTenant,
           CheckLink, InsertLink, LoadPolicy, WritePolicy, LogChange, Raise, vars, rows
      <4> QED
        BY <4>1, <4>2
    <3>2. request[r].pc = "insert" /\ request[r].ask.op = "user"
      BY <3>1 DEF InsertUser, At
    <3> QED
      BY <3>1, <3>2, WriterTraced DEF UserAsked
  <2> QED
    BY <2>1, <2>2
<1>3. ASSUME NEW t \in Tenants, policy'[t] # "" PROVE PolicyAsked(t)'
  <2>1. CASE policy'[t] = policy[t]
    <3>1. PICK a \in Asks : a.op = "policy" /\ a.tenant = t /\ a.value = policy[t] /\ Traced(a)
      BY <1>3, <2>1 DEF AllAsked, PolicyAsked
    <3> QED
      BY <2>1, <3>1, TracedStays DEF PolicyAsked
  <2>2. CASE policy'[t] # policy[t]
    <3>1. PICK r \in Requests : WritePolicy(r)
      BY <2>2 DEF Next, Boot, ReadTenant, ReadUser, Seed, Crash, Serve, Submit, InsertTenant,
         InsertUser, CheckLink, InsertLink, LoadPolicy, LogChange, Raise, vars, rows
    <3>2. t = request[r].ask.tenant /\ policy'[t] = request[r].ask.value
      BY <1>0, <2>2, <3>1 DEF WritePolicy
    <3>3. request[r].pc = "write" /\ request[r].ask.op = "policy"
      BY <3>1 DEF WritePolicy, At
    <3> QED
      BY <3>2, <3>3, WriterTraced DEF PolicyAsked
  <2> QED
    BY <2>1, <2>2
<1> QED
  BY <1>1, <1>2, <1>3 DEF AllAsked

\* Whatever fails, nothing an admin changes is without a trace: it is in the audit trail,
\* or its request is under way or was answered with an error.
THEOREM ChangesAreAccounted == Spec => []ChangesAccounted
<1>1. Init => Blank /\ AllAsked
  <2> SUFFICES ASSUME Init PROVE Blank /\ AllAsked
    OBVIOUS
  <2>1. Blank
    BY DEF Init, Blank, NoRequest
  <2>2. AllAsked
    BY DEF Init, AllAsked
  <2> QED
    BY <2>1, <2>2
<1>2. IInv /\ AllAsked => ChangesAccounted
  <2> SUFFICES ASSUME IInv, AllAsked PROVE ChangesAccounted
    OBVIOUS
  <2>1. ASSUME NEW asks \in SUBSET Asks, NEW a \in asks, Traced(a)
        PROVE  Accounted(asks)
    BY <2>1 DEF Traced, Accounted
  <2>2. ASSUME NEW t \in tenants \ {Default}
        PROVE  Accounted({a \in Asks : a.op = "tenant" /\ a.tenant = t})
    BY <2>1, <2>2 DEF AllAsked, TenantAsked
  <2>3. ASSUME NEW n \in Names \ {Demo}, user[n] # NoUser
        PROVE  Accounted({a \in Asks : a.op = "user" /\ a.name = n /\ a.value = user[n].role})
    <3>1. UserAsked(n)
      BY <2>3 DEF AllAsked
    <3> QED
      BY <2>1, <3>1 DEF UserAsked
  <2>4. ASSUME NEW t \in Tenants, policy[t] # ""
        PROVE  Accounted({a \in Asks : a.op = "policy" /\ a.tenant = t /\ a.value = policy[t]})
    <3>1. PolicyAsked(t)
      BY <2>4 DEF AllAsked
    <3> QED
      BY <2>1, <3>1 DEF PolicyAsked
  <2> QED
    BY <2>2, <2>3, <2>4 DEF ChangesAccounted
<1> QED
  BY InitIInv, NextKeeps, NextBlank, NextAsked, <1>1, <1>2, PTL DEF Spec
-----------------------------------------------------------------------------
\* A start in progress that missed something which has been inserted since.
Stale(p) ==
  \/ process[p].pc \in {"read", "seed"} /\ ~process[p].tenant /\ Default \in tenants
  \/ process[p].pc = "seed" /\ ~process[p].user /\ user[Demo] # NoUser
One(b) == IF b THEN 1 ELSE 0

\* How often the commit of a process's seed can still be refused, at most: once for each
\* of the two rows that others may insert while it starts, once for what it has missed.
Refusals(p) == One(Default \notin tenants) + One(user[Demo] = NoUser) + One(Stale(p))

\* Nothing adds to the refusals a process has before it, and a refused start uses one up.
StartsGoOn ==
  [][\A p \in Processes :
       /\ Refusals(p)' <= Refusals(p)
       /\ process[p].pc = "seed" /\ process'[p].pc = "down" /\ faults' = faults =>
            Refusals(p)' < Refusals(p)]_vars

\* Where nothing fails, a process is started three times at most, however many seed the
\* empty database at once and whatever admins insert meanwhile (ensure_default_seed reads
\* again at every start). What ProcessesStart says, but for the fairness.
THEOREM StartsAreFew == Spec => StartsGoOn /\ [](\A p \in Processes : Refusals(p) \in 0..2)
<1>1. \A b : One(b) \in {0, 1}
  BY DEF One
<1>2. IInv => \A p \in Processes : Refusals(p) \in 0..2
  <2> SUFFICES ASSUME IInv, NEW p \in Processes PROVE Refusals(p) \in 0..2
    OBVIOUS
  <2>1. Stale(p) => Default \in tenants
    BY DEF Stale, IInv, Seeded
  <2> QED
    BY <1>1, <2>1 DEF Refusals, One
<1>3. ASSUME IInv, [Next]_vars, NEW p \in Processes
      PROVE  /\ Refusals(p)' <= Refusals(p)
             /\ process[p].pc = "seed" /\ process'[p].pc = "down" /\ faults' = faults =>
                  Refusals(p)' < Refusals(p)
  <2>0. faults \in Nat
    <3>1. faults \in 0..MaxFaults
      BY <1>3 DEF IInv, TypeOK
    <3> QED
      BY <3>1, FaultsAssumption
  <2>1. /\ Default \in tenants => Default \in tenants'
        /\ user[Demo] # NoUser => user'[Demo] # NoUser
    <3>1. tenants \subseteq tenants'
      BY <1>3, TenantsStay
    <3> QED
      BY <1>3, <3>1, RowsStay, SeedAssumption
  <2>2. CASE process'[p] = process[p]
    <3>1. Stale(p)' /\ ~Stale(p) => \/ Default \in tenants' /\ Default \notin tenants
                                    \/ user'[Demo] # NoUser /\ user[Demo] = NoUser
      BY <2>2 DEF Stale
    <3> QED
      BY <2>1, <2>2, <3>1 DEF Refusals, One
  <2>3. CASE process'[p] # process[p]
    <3>0. process \in [Processes -> ProcessState]
      BY <1>3, ProcessType DEF IInv, TypeOK
    <3>1. Boot(p) \/ Crash(p)
      <4>1. ASSUME NEW q \in Processes, Boot(q) \/ Crash(q) PROVE q = p
        BY <2>3, <3>0, <4>1 DEF Boot, ReadTenant, ReadUser, Seed, Crash
      <4>2. ASSUME NEW r \in Requests, Serve(r) PROVE FALSE
        BY <2>3, <4>2 DEF Serve, Submit, InsertTenant, InsertUser, CheckLink, InsertLink,
           LoadPolicy, WritePolicy, LogChange, Raise
      <4>3. ~UNCHANGED vars
        BY <2>3 DEF vars
      <4> QED
        BY <1>3, <4>1, <4>2, <4>3 DEF Next
    <3>2. CASE ReadTenant(p)
      <4>1. /\ process'[p] = [pc |-> "read", tenant |-> Default \in tenants, user |-> FALSE]
            /\ tenants' = tenants /\ user' = user /\ process[p].pc = "down"
        BY <3>0, <3>2 DEF ReadTenant, rows
      <4>2. process'[p].pc = "read" /\ process'[p].tenant = (Default \in tenants)
        BY <4>1
      <4>3. ~Stale(p)'
        BY <4>1, <4>2 DEF Stale
      <4> QED
        BY <2>1, <4>1, <4>3 DEF Refusals, One
    <3>3. CASE ReadUser(p)
      <4>1. /\ process'[p] = [process[p] EXCEPT !.pc = "seed", !.user = user[Demo] # NoUser]
            /\ tenants' = tenants /\ user' = user /\ process[p].pc = "read"
        BY <3>0, <3>3 DEF ReadUser, rows, ProcessState
      <4>2. process'[p].tenant = process[p].tenant /\ process'[p].pc = "seed"
        BY <3>0, <4>1 DEF ProcessState
      <4>3. process'[p].user = (user[Demo] # NoUser)
        BY <3>0, <4>1 DEF ProcessState
      <4>4. Stale(p)' => Stale(p)
        BY <4>1, <4>2, <4>3 DEF Stale
      <4> QED
        BY <4>1, <4>2, <4>4 DEF Refusals, One
    <3>4. CASE Crash(p)
      <4>1. /\ process'[p].pc = "down" /\ tenants' = tenants /\ user' = user
            /\ faults' = faults + 1
        BY <3>0, <3>4 DEF Crash, rows, Down
      <4>2. faults' # faults /\ ~Stale(p)'
        BY <2>0, <4>1 DEF Stale
      <4> QED
        BY <2>1, <4>1, <4>2 DEF Refusals, One
    <3>5. CASE Seed(p)
      <4>1. PICK o \in Commits(Twice(process[p])) :
              /\ process[p].pc = "seed"
              /\ o = "conflict" => UNCHANGED <<tenants, user>>
              /\ process' = [process EXCEPT ![p] = IF o = "ok" THEN [@ EXCEPT !.pc = "up"] ELSE Down]
              /\ Count(o)
        BY <3>5 DEF Seed
      <4>2. process'[p].pc = IF o = "ok" THEN "up" ELSE "down"
        BY <3>0, <4>1 DEF ProcessState, Down
      <4>3. ~Stale(p)'
        BY <4>2 DEF Stale
      <4>4. ASSUME o = "conflict" PROVE Stale(p) /\ UNCHANGED <<tenants, user>>
        BY <4>1, <4>4 DEF Commits, Twice, Stale
      <4>5. ASSUME o = "late" PROVE faults' # faults
        BY <2>0, <4>1, <4>5 DEF Count
      <4>6. o \in {"ok", "late", "conflict"}
        BY DEF Commits
      <4> QED
        BY <2>1, <4>2, <4>3, <4>4, <4>5, <4>6 DEF Refusals, One
    <3> QED
      BY <3>1, <3>2, <3>3, <3>4, <3>5 DEF Boot
  <2> QED
    BY <2>2, <2>3
<1>4. IInv /\ [Next]_vars =>
        [\A p \in Processes :
           /\ Refusals(p)' <= Refusals(p)
           /\ process[p].pc = "seed" /\ process'[p].pc = "down" /\ faults' = faults =>
                Refusals(p)' < Refusals(p)]_vars
  BY <1>3
<1> QED
  BY InitIInv, NextKeeps, <1>2, <1>4, PTL DEF Spec, StartsGoOn
=============================================================================
