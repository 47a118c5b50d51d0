----------------------- MODULE ApprovalPolicy_proofs -----------------------
\* What the approval policy guarantees for every set of source documents, every
\* tenant policy and both values of the global setting.
EXTENDS ApprovalPolicy, TLAPS

\* The effective mode is one of the three modes, whatever the tenant's row.
LEMMA ModeIsKnown ==
  ASSUME NEW p \in Policies
  PROVE  EffectiveMode(p) \in Modes
  BY DEF EffectiveMode, Policies, Modes

\* Answering from more documents never loses a review, and asks for one only if some
\* part would: the outcome does not depend on how retrieval passes split the sources
\* (should_require_approval on the ids of all contexts).
THEOREM SourcesAddUp ==
  ASSUME NEW R, NEW S, NEW p \in Policies
  PROVE  ShouldRequireApproval(R \cup S, p)
           <=> ShouldRequireApproval(R, p) \/ ShouldRequireApproval(S, p)
  BY DEF ShouldRequireApproval, HasAlways, HasSensitive

\* Tightening the tenant's mode, or the global setting behind an unset one, never
\* releases an answer that had to be reviewed (get_tenant_approval_mode).
THEOREM TighterModeKeepsReview ==
  ASSUME NEW R, NEW p \in Policies, NEW q \in Policies, Stricter(p, q),
         ShouldRequireApproval(R, q)
  PROVE  ShouldRequireApproval(R, p)
<1>1. EffectiveMode(p) \in Modes /\ EffectiveMode(q) \in Modes
  BY ModeIsKnown
<1>2. CASE EffectiveMode(p) = "all"
  BY <1>2 DEF ShouldRequireApproval
<1>3. CASE EffectiveMode(q) = "none"
  BY <1>3 DEF ShouldRequireApproval
<1>4. CASE EffectiveMode(p) = EffectiveMode(q)
  BY <1>4 DEF ShouldRequireApproval
<1> QED
  BY <1>2, <1>3, <1>4 DEF Stricter

\* Marking documents "always", or raising their sensitivity, never releases an answer
\* that had to be reviewed (the overrides' loop of should_require_approval).
THEOREM TighterDocumentsKeepReview ==
  ASSUME NEW R \in SUBSET Settings, NEW S \in SUBSET Settings, NEW p \in Policies,
         \A r \in R : \E s \in S : Covers(s, r),
         ShouldRequireApproval(R, p)
  PROVE  ShouldRequireApproval(S, p)
<1>1. CASE HasAlways(R)
  <2>1. PICK r \in R : r.override = "always"
    BY <1>1 DEF HasAlways
  <2>2. PICK s \in S : Covers(s, r)
    OBVIOUS
  <2>3. s.override = "always"
    BY <2>1, <2>2 DEF Covers
  <2> QED
    BY <2>3 DEF ShouldRequireApproval, HasAlways
<1>2. CASE EffectiveMode(p) = "all"
  BY <1>2 DEF ShouldRequireApproval
<1>3. CASE EffectiveMode(p) = "sensitive" /\ HasSensitive(R)
  <2>1. PICK r \in R : HasSensitive({r})
    BY <1>3 DEF HasSensitive
  <2>2. PICK s \in S : Covers(s, r)
    OBVIOUS
  <2>3. s.override = "always" \/ HasSensitive({s})
    BY <2>1, <2>2 DEF Covers
  <2> QED
    BY <1>3, <2>3 DEF ShouldRequireApproval, HasAlways, HasSensitive
<1> QED
  BY <1>1, <1>2, <1>3 DEF ShouldRequireApproval

\* For an answer from one document the code follows the documented chain, except for
\* a document marked "never", which the tenant's mode "all" overrules.
THEOREM ChainButForNever ==
  ASSUME NEW r \in Settings, NEW p \in Policies
  PROVE  ShouldRequireApproval({r}, p)
           <=> DocumentedChain(r, p) \/ (r.override = "never" /\ EffectiveMode(p) = "all")
<1>1. EffectiveMode(p) \in Modes
  BY ModeIsKnown
<1>2. r.override \in Overrides /\ r.sensitivity \in Sensitivities
  BY DEF Settings
<1>3. ShouldRequireApproval({r}, p)
        <=> \/ r.override = "always"
            \/ EffectiveMode(p) = "all"
            \/ /\ EffectiveMode(p) = "sensitive" /\ r.override = "inherit"
               /\ r.sensitivity \in {"sensitive", "restricted"}
  BY DEF ShouldRequireApproval, HasAlways, HasSensitive
<1>4. CASE r.override = "always"
  BY <1>3, <1>4 DEF DocumentedChain
<1>5. CASE r.override = "never"
  BY <1>3, <1>5 DEF DocumentedChain
<1>6. CASE r.override = "inherit"
  BY <1>2, <1>3, <1>6 DEF DocumentedChain, Sensitivities
<1> QED
  BY <1>2, <1>4, <1>5, <1>6 DEF Overrides

\* With several documents, each has its say: the answer is reviewed just if the mode is "all"
\* or the documented chain asks for it for one of them; a document marked "never" frees only
\* itself (should_require_approval's loop).
THEOREM ChainOverSources ==
  ASSUME NEW R \in SUBSET Settings, NEW p \in Policies
  PROVE  ShouldRequireApproval(R, p)
           <=> EffectiveMode(p) = "all" \/ \E r \in R : DocumentedChain(r, p)
<1>1. ASSUME NEW r \in R
      PROVE  DocumentedChain(r, p) => ShouldRequireApproval(R, p)
  <2>1. r.sensitivity # "normal" => r.sensitivity \in {"sensitive", "restricted"}
    BY DEF Settings, Sensitivities
  <2> QED
    BY <2>1 DEF DocumentedChain, ShouldRequireApproval, HasAlways, HasSensitive
<1>2. ASSUME HasAlways(R) PROVE \E r \in R : DocumentedChain(r, p)
  BY <1>2 DEF HasAlways, DocumentedChain
<1>3. ASSUME EffectiveMode(p) = "sensitive", HasSensitive(R)
      PROVE  \E r \in R : DocumentedChain(r, p)
  BY <1>3 DEF HasSensitive, DocumentedChain
<1> QED
  BY <1>1, <1>2, <1>3 DEF ShouldRequireApproval
=============================================================================
