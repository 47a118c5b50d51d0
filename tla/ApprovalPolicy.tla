--------------------------- MODULE ApprovalPolicy ---------------------------
(***************************************************************************)
(* Which answers a human must see first: the override and the sensitivity  *)
(* of the source documents, the tenant's policy, the global setting        *)
(* (services/approval_policy.py).                                          *)
(***************************************************************************)
CONSTANT RequireApproval     \* settings.require_approval

ASSUME RequireApprovalAssumption == RequireApproval \in BOOLEAN

Modes == {"all", "sensitive", "none"}
Policies == Modes \cup {"unset"}           \* "unset": the tenant has no policy row
Overrides == {"inherit", "always", "never"}  \* NULL is "inherit"
Sensitivities == {"normal", "sensitive", "restricted"}

\* The columns of a documents row the policy reads, and a missing row.
Settings == [override : Overrides, sensitivity : Sensitivities]
NoSettings == [override |-> "absent", sensitivity |-> "absent"]
Uploaded == [override |-> "inherit", sensitivity |-> "normal"]

EffectiveMode(policy) ==
  IF policy # "unset" THEN policy ELSE IF RequireApproval THEN "all" ELSE "none"

HasAlways(rows) == \E r \in rows : r.override = "always"
\* Mutants of HasSensitive: one level is forgotten; a "never" does not take the document out.
HasSensitiveOnly(rows) == \E r \in rows : r.override = "inherit" /\ r.sensitivity = "sensitive"
HasSensitiveOfAny(rows) == \E r \in rows : r.sensitivity \in {"sensitive", "restricted"}
HasSensitive(rows) ==
  \E r \in rows : r.override = "inherit" /\ r.sensitivity \in {"sensitive", "restricted"}

\* should_require_approval, for the rows found of the source documents.
ShouldRequireApproval(rows, policy) ==
  \/ HasAlways(rows)
  \/ EffectiveMode(policy) = "all"
  \/ EffectiveMode(policy) = "sensitive" /\ HasSensitive(rows)

\* How strict a mode, an override and a sensitivity are.
Stricter(p, q) ==
  \/ EffectiveMode(p) = "all" \/ EffectiveMode(q) = "none" \/ EffectiveMode(p) = EffectiveMode(q)

\* s asks for approval wherever r does.
Covers(s, r) ==
  \/ s.override = "always"
  \/ /\ r.override # "always"
     /\ HasSensitive({r}) => HasSensitive({s})
-----------------------------------------------------------------------------
\* The resolution chain of the documentation for an answer from one document:
\* its override decides, and only a document without one inherits the tenant's
\* mode, the global setting where the tenant has none.
DocumentedChain(r, policy) ==
  \/ r.override = "always"
  \/ /\ r.override = "inherit"
     /\ \/ EffectiveMode(policy) = "all"
        \/ EffectiveMode(policy) = "sensitive" /\ r.sensitivity # "normal"
=============================================================================
