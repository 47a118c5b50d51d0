------------------------------ MODULE Accounts ------------------------------
(***************************************************************************)
(* Tenants, users, their memberships and the tenants' policies: the seed   *)
(* every API process writes at its start, the admin endpoints, and the     *)
(* check that lets a request into a tenant.                                *)
(*                                                                         *)
(* Every endpoint is several transactions, run by concurrent threads; what *)
(* is read in one may be outdated in the next, and only the unique and     *)
(* foreign keys of the database stand between them.                        *)
(***************************************************************************)
EXTENDS Naturals

CONSTANTS Processes,  \* API processes (app_lifespan runs in each of them)
          Requests,   \* admin requests
          Names, Demo,       \* usernames, and settings.demo_username
          Tenants, Default,  \* tenant ids, and settings.default_tenant_id
          Roles, Modes,      \* of users; of policies
          MaxFaults,  \* bound: calls that raise and processes that die
          None

ASSUME SeedAssumption == Demo \in Names /\ Default \in Tenants
ASSUME ValuesAssumption == "admin" \in Roles /\ "none" \notin Roles /\ "" \notin Modes
ASSUME FaultsAssumption == MaxFaults \in Nat
ASSUME NoneAssumption == None \notin Names \cup Tenants

VARIABLES tenants,   \* rows of tenants
          user,      \* rows of users by their unique username: role and default tenant
          links,     \* rows of user_tenants
          policy,    \* rows of tenant_policies: the mode
          audit,     \* admin entries of audit_logs
          process,   \* where each API process is in its start, and what it read
          request,   \* where each admin request is, what it asks and what it read
          faults,    \* calls that failed and processes that died so far
          enforced   \* the database checks foreign keys: PostgreSQL does, SQLite does not

rows == <<tenants, user, links, policy, audit>>
vars == <<rows, process, request, faults, enforced>>

Account(role, home) == [role |-> role, home |-> home]
NoUser == Account("none", None)
Users == [role : Roles, home : Tenants \cup {None}]

\* What the endpoints are asked for.
Asks == [op : {"tenant"}, name : {None}, tenant : Tenants, value : {""}]
   \cup [op : {"user"}, name : Names, tenant : Tenants \cup {None}, value : Roles]
   \cup [op : {"grant"}, name : Names, tenant : Tenants, value : {""}]
   \cup [op : {"policy"}, name : {None}, tenant : Tenants, value : Modes]
NoAsk == [op |-> "none", name |-> None, tenant |-> None, value |-> ""]
NoRequest == [pc |-> "new", on |-> None, ask |-> NoAsk, saw |-> ""]

Working == {"insert", "check", "link", "load", "write", "log"}
Down == [pc |-> "down", tenant |-> FALSE, user |-> FALSE]

\* The types; and a membership is a user's, whether or not foreign keys are enforced.
TypeOK ==
  /\ tenants \subseteq Tenants
  /\ user \in [Names -> Users \cup {NoUser}]
  /\ links \subseteq {n \in Names : user[n] # NoUser} \X Tenants
  /\ policy \in [Tenants -> Modes \cup {""}]
  /\ audit \subseteq Asks
  /\ process \in [Processes -> [pc : {"down", "read", "seed", "up"}, tenant : BOOLEAN, user : BOOLEAN]]
  /\ request \in [Requests -> [pc : Working \cup {"new", "ok", "refused", "error", "dead"},
                               on : Processes \cup {None}, ask : Asks \cup {NoAsk}, saw : Modes \cup {""}]]
  /\ faults \in 0..MaxFaults
  /\ enforced \in BOOLEAN

Init == /\ tenants = {} /\ links = {} /\ audit = {}
        /\ user = [n \in Names |-> NoUser]
        /\ policy = [t \in Tenants |-> ""]
        /\ process = [p \in Processes |-> Down]
        /\ request = [r \in Requests |-> NoRequest]
        /\ faults = 0
        /\ enforced \in BOOLEAN
-----------------------------------------------------------------------------
\* A commit: refused for a duplicate or a missing reference, or done; it may be done
\* and the call raise all the same (the reply, or the refresh after it, is lost).
Commits(conflict) == IF conflict THEN {"conflict"}
                     ELSE {"ok"} \cup IF faults < MaxFaults THEN {"late"} ELSE {}
Count(o) == faults' = IF o = "late" THEN faults + 1 ELSE faults
Missing(t) == enforced /\ t \notin tenants

\* app_lifespan, ensure_default_seed: two reads, then one commit of what was missing.

ReadTenant(p) ==
  /\ process[p].pc = "down"
  /\ process' = [process EXCEPT ![p] = [pc |-> "read", tenant |-> Default \in tenants, user |-> FALSE]]
  /\ UNCHANGED <<rows, request, faults, enforced>>

ReadUser(p) ==
  /\ process[p].pc = "read"
  /\ process' = [process EXCEPT ![p].pc = "seed", ![p].user = user[Demo] # NoUser]
  /\ UNCHANGED <<rows, request, faults, enforced>>

\* Something the seed missed has been inserted since.
Twice(saw) == \/ ~saw.tenant /\ Default \in tenants
              \/ ~saw.user /\ user[Demo] # NoUser

\* Mutant of Seed: the demo user is not made a member of the default tenant.
SeedUnlinked(p) == LET saw == process[p] IN \E o \in Commits(Twice(saw)) :
  /\ saw.pc = "seed"
  /\ IF o = "conflict" THEN UNCHANGED <<tenants, user>>
     ELSE /\ tenants' = IF saw.tenant THEN tenants ELSE tenants \cup {Default}
          /\ user' = IF saw.user THEN user ELSE [user EXCEPT ![Demo] = Account("admin", Default)]
  /\ process' = [process EXCEPT ![p] = IF o = "ok" THEN [@ EXCEPT !.pc = "up"] ELSE Down]
  /\ Count(o)
  /\ UNCHANGED <<links, policy, audit, request, enforced>>

\* Mutant of Seed: the link is inserted whether or not the user is new.
SeedLinksAlways(p) ==
  LET saw == process[p] IN \E o \in Commits(Twice(saw) \/ <<Demo, Default>> \in links) :
    /\ saw.pc = "seed"
    /\ IF o = "conflict" THEN UNCHANGED <<tenants, user, links>>
       ELSE /\ tenants' = tenants \cup {Default}
            /\ user' = IF saw.user THEN user ELSE [user EXCEPT ![Demo] = Account("admin", Default)]
            /\ links' = links \cup {<<Demo, Default>>}
    /\ process' = [process EXCEPT ![p] = IF o = "ok" THEN [@ EXCEPT !.pc = "up"] ELSE Down]
    /\ Count(o)
    /\ UNCHANGED <<policy, audit, request, enforced>>

\* If another process was faster, the commit raises and the start ends; the container
\* is started again.
Seed(p) ==
  LET saw == process[p] IN \E o \in Commits(Twice(saw)) :
    /\ saw.pc = "seed"
    /\ IF o = "conflict" THEN UNCHANGED <<tenants, user, links>>
       ELSE /\ tenants' = IF saw.tenant THEN tenants ELSE tenants \cup {Default}
            /\ user' = IF saw.user THEN user ELSE [user EXCEPT ![Demo] = Account("admin", Default)]
            /\ links' = IF saw.user THEN links ELSE links \cup {<<Demo, Default>>}
    /\ process' = [process EXCEPT ![p] = IF o = "ok" THEN [@ EXCEPT !.pc = "up"] ELSE Down]
    /\ Count(o)
    /\ UNCHANGED <<policy, audit, request, enforced>>

Boot(p) == ReadTenant(p) \/ ReadUser(p) \/ Seed(p)

\* The process dies, and with it the threads of its requests.
Crash(p) ==
  /\ faults < MaxFaults
  /\ process[p].pc # "down"
  /\ process' = [process EXCEPT ![p] = Down]
  /\ request' = [r \in Requests |-> IF request[r].on = p /\ request[r].pc \in Working
                       THEN [request[r] EXCEPT !.pc = "dead", !.on = None, !.saw = ""] ELSE request[r]]
  /\ faults' = faults + 1
  /\ UNCHANGED <<rows, enforced>>
-----------------------------------------------------------------------------
\* The admin endpoints

\* The role comes from the user's row, not from the token.
IsAdmin(n) == user[n].role = "admin"

Entry == [tenant |-> "insert", user |-> "insert", grant |-> "check", policy |-> "load"]

\* require_roles(["admin"]). A grant names a user by id, so the user exists.
Submit(r) == \E p \in Processes, a \in Asks :
  /\ request[r].pc = "new"
  /\ process[p].pc = "up"
  /\ \E n \in Names : IsAdmin(n)
  /\ a.op = "grant" => user[a.name] # NoUser
  /\ request' = [request EXCEPT ![r] = [pc |-> Entry[a.op], on |-> p, ask |-> a, saw |-> ""]]
  /\ UNCHANGED <<rows, process, faults, enforced>>

At(r, pc, ops) == request[r].pc = pc /\ request[r].ask.op \in ops
\* A request that is answered holds no process and no snapshot any more.
Goto(r, pc) == request' = [request EXCEPT ![r] =
  IF pc \in Working THEN [@ EXCEPT !.pc = pc] ELSE [@ EXCEPT !.pc = pc, !.on = None, !.saw = ""]]

\* An exception before the audit entry is answered 400 by three endpoints.
Refusal(r) == IF request[r].ask.op # "policy" /\ request[r].pc # "log" THEN "refused" ELSE "error"

\* create_tenant
InsertTenant(r) == \E o \in Commits(request[r].ask.tenant \in tenants) :
  /\ At(r, "insert", {"tenant"})
  /\ tenants' = tenants \cup {request[r].ask.tenant}
  /\ Goto(r, IF o = "ok" THEN "log" ELSE Refusal(r))
  /\ Count(o)
  /\ UNCHANGED <<user, links, policy, audit, process, enforced>>

\* The users row create_user cannot insert: the name is taken, the tenant is missing.
UserConflict(a) == user[a.name] # NoUser \/ (a.tenant # None /\ Missing(a.tenant))

\* Mutant of InsertUser: the membership is not inserted.
InsertUserOnly(r) == LET a == request[r].ask IN
  /\ At(r, "insert", {"user"})
  /\ \E o \in Commits(UserConflict(a)) :
      /\ user' = IF o = "conflict" THEN user ELSE [user EXCEPT ![a.name] = Account(a.value, a.tenant)]
      /\ Goto(r, IF o = "ok" THEN "log" ELSE Refusal(r))
      /\ Count(o)
  /\ UNCHANGED <<tenants, links, policy, audit, process, enforced>>

\* Mutant of InsertUser: the error of the insert is swallowed.
InsertUserQuietly(r) == LET a == request[r].ask IN
  /\ At(r, "insert", {"user"})
  /\ \E o \in Commits(UserConflict(a)) :
      /\ user' = IF o = "conflict" THEN user ELSE [user EXCEPT ![a.name] = Account(a.value, a.tenant)]
      /\ Goto(r, IF a.tenant = None THEN "log" ELSE "check")
      /\ Count(o)
  /\ UNCHANGED <<tenants, links, policy, audit, process, enforced>>

\* create_user_account: the row, then in transactions of its own the membership.
InsertUser(r) == LET a == request[r].ask IN
  /\ At(r, "insert", {"user"})
  /\ \E o \in Commits(UserConflict(a)) :
      /\ user' = IF o = "conflict" THEN user ELSE [user EXCEPT ![a.name] = Account(a.value, a.tenant)]
      /\ Goto(r, IF o # "ok" THEN Refusal(r) ELSE IF a.tenant = None THEN "log" ELSE "check")
      /\ Count(o)
  /\ UNCHANGED <<tenants, links, policy, audit, process, enforced>>

\* Mutant of CheckLink: it asks whether the user has a membership, whatever the tenant.
CheckAnyLink(r) ==
  /\ At(r, "check", {"user", "grant"})
  /\ Goto(r, IF \E t \in Tenants : <<request[r].ask.name, t>> \in links THEN "log" ELSE "link")
  /\ UNCHANGED <<rows, process, faults, enforced>>

\* assign_user_tenant: a look at the table ...
CheckLink(r) ==
  /\ At(r, "check", {"user", "grant"})
  /\ Goto(r, IF <<request[r].ask.name, request[r].ask.tenant>> \in links THEN "log" ELSE "link")
  /\ UNCHANGED <<rows, process, faults, enforced>>

\* ... and an insert, which the unique key refuses if another thread was faster.
InsertLink(r) ==
  LET a == request[r].ask
      link == <<a.name, a.tenant>>
  IN
    /\ At(r, "link", {"user", "grant"})
    /\ \E o \in Commits(link \in links \/ Missing(a.tenant)) :
         /\ links' = IF o = "conflict" THEN links ELSE links \cup {link}
         /\ Goto(r, IF o = "ok" THEN "log" ELSE Refusal(r))
         /\ Count(o)
    /\ UNCHANGED <<tenants, user, policy, audit, process, enforced>>

\* upsert_tenant_policy: the row is loaded ...
LoadPolicy(r) ==
  /\ At(r, "load", {"policy"})
  /\ request' = [request EXCEPT ![r].pc = "write", ![r].saw = policy[request[r].ask.tenant]]
  /\ UNCHANGED <<rows, process, faults, enforced>>

\* ... and inserted, or updated in the columns that differ from what was loaded.
WritePolicy(r) ==
  LET a == request[r].ask
      insert == request[r].saw = ""
  IN
    /\ At(r, "write", {"policy"})
    /\ \E o \in Commits(insert /\ (policy[a.tenant] # "" \/ Missing(a.tenant))) :
         /\ policy' = IF o = "conflict" \/ a.value = request[r].saw THEN policy
                      ELSE [policy EXCEPT ![a.tenant] = a.value]
         /\ Goto(r, IF o = "ok" THEN "log" ELSE Refusal(r))
         /\ Count(o)
    /\ UNCHANGED <<tenants, user, links, audit, process, enforced>>

\* Mutant of LogChange: the change of a policy is not logged.
LogAllButPolicy(r) == \E o \in Commits(FALSE) :
  /\ request[r].pc = "log"
  /\ audit' = IF request[r].ask.op = "policy" THEN audit ELSE audit \cup {request[r].ask}
  /\ Goto(r, IF o = "ok" THEN "ok" ELSE Refusal(r))
  /\ Count(o)
  /\ UNCHANGED <<tenants, user, links, policy, process, enforced>>

\* log_event and the response.
LogChange(r) == \E o \in Commits(FALSE) :
  /\ request[r].pc = "log"
  /\ audit' = audit \cup {request[r].ask}
  /\ Goto(r, IF o = "ok" THEN "ok" ELSE Refusal(r))
  /\ Count(o)
  /\ UNCHANGED <<tenants, user, links, policy, process, enforced>>

\* A call to the database raises and had no effect.
Raise(r) ==
  /\ faults < MaxFaults
  /\ request[r].pc \in Working
  /\ Goto(r, Refusal(r))
  /\ faults' = faults + 1
  /\ UNCHANGED <<rows, process, enforced>>

Serve(r) == \/ Submit(r) \/ InsertTenant(r) \/ InsertUser(r) \/ CheckLink(r) \/ InsertLink(r)
            \/ LoadPolicy(r) \/ WritePolicy(r) \/ LogChange(r) \/ Raise(r)

Next == \/ \E p \in Processes : Boot(p) \/ Crash(p)
        \/ \E r \in Requests : Serve(r)

Spec == Init /\ [][Next]_vars

\* Containers are started again (restart: unless-stopped) and run.
FairSpec == Spec /\ \A p \in Processes : WF_vars(Boot(p))
-----------------------------------------------------------------------------
\* get_tenant_id: the header, or the user's default tenant, or the setting's; the
\* request goes through when the user is a member of it.
TenantId(n, header) == IF header # None THEN header
                       ELSE IF user[n].home # None THEN user[n].home ELSE Default
LetIn(n, header) == user[n] # NoUser /\ <<n, TenantId(n, header)>> \in links

\* As soon as one API process serves, someone can log in and administer the default
\* tenant, however many processes seed the database at once or died half-way.
OpenForBusiness ==
  (\E p \in Processes : process[p].pc = "up") =>
    Default \in tenants /\ IsAdmin(Demo) /\ LetIn(Demo, None)

\* A user whose creation or grant was confirmed is let into that tenant, a new user
\* even without naming it.
ConfirmedIsLetIn ==
  \A r \in Requests : LET a == request[r].ask IN
    request[r].pc = "ok" /\ a.op \in {"user", "grant"} /\ a.tenant # None =>
      LetIn(a.name, IF a.op = "user" THEN None ELSE a.tenant)

Creating(n) == \E r \in Requests : /\ request[r].ask.op = "user" /\ request[r].ask.name = n
                                   /\ request[r].pc \in Working

\* Where no call has failed, no user is left without the own default tenant, even if
\* grants of the same membership are served while the user is being created.
NobodyIsStranded ==
  faults = 0 => \A n \in Names :
    user[n].home # None => LetIn(n, None) \/ Creating(n)

\* One of the asks is in the trail, or its request is being served or ended badly.
Accounted(asks) ==
  \/ asks \cap audit # {}
  \/ \E r \in Requests : request[r].ask \in asks /\ request[r].pc # "ok"

\* Every tenant, user and policy that did not come from the seed is in the audit trail,
\* unless its request is being served or was answered with an error.
ChangesAccounted ==
  /\ \A t \in tenants \ {Default} :
       Accounted({a \in Asks : a.op = "tenant" /\ a.tenant = t})
  /\ \A n \in {m \in Names : user[m] # NoUser} \ {Demo} :
       Accounted({a \in Asks : a.op = "user" /\ a.name = n /\ a.value = user[n].role})
  /\ \A t \in {s \in Tenants : policy[s] # ""} :
       Accounted({a \in Asks : a.op = "policy" /\ a.tenant = t /\ a.value = policy[t]})

\* Every API process serves in the end, also when several seed an empty database at
\* once and all but one of the commits are refused.
ProcessesStart == \A p \in Processes : (process[p].pc = "down") ~> (process[p].pc = "up")
=============================================================================
