---------------------------- MODULE DocumentLife ----------------------------
(***************************************************************************)
(* What the knowledge base promises about a document.  It is made from one *)
(* upload, is stored before it is listed, is erased only after an admin of *)
(* its tenant withdrew it, and never comes back.  A deletion in bulk       *)
(* withdraws several documents at once and erases them one by one; a       *)
(* document may stay where it is for ever when a call fails.               *)
(***************************************************************************)
CONSTANTS Docs, Uploads, Admins, TenantOf, None

VARIABLES stage,   \* how far each document has come
          origin   \* the upload it was made from

life == <<stage, origin>>

Init == /\ stage = [d \in Docs |-> "unborn"]
        /\ origin = [d \in Docs |-> None]

\* An upload yields no second document.
Store(d, u) ==
  /\ stage[d] = "unborn" /\ \A e \in Docs : origin[e] # u
  /\ stage' = [stage EXCEPT ![d] = "stored"]
  /\ origin' = [origin EXCEPT ![d] = u]

List(d) ==
  /\ stage[d] = "stored"
  /\ stage' = [stage EXCEPT ![d] = "listed"]
  /\ UNCHANGED origin

Withdraw(a, ds) ==
  /\ \A d \in ds : stage[d] = "listed" /\ TenantOf[origin[d]] = TenantOf[a]
  /\ stage' = [d \in Docs |-> IF d \in ds THEN "withdrawn" ELSE stage[d]]
  /\ UNCHANGED origin

Erase(d) ==
  /\ stage[d] = "withdrawn"
  /\ stage' = [stage EXCEPT ![d] = "erased"]
  /\ UNCHANGED origin

Next == \/ \E d \in Docs : (\E u \in Uploads : Store(d, u)) \/ List(d) \/ Erase(d)
        \/ \E a \in Admins, ds \in SUBSET Docs : Withdraw(a, ds)

Spec == Init /\ [][Next]_life
=============================================================================
