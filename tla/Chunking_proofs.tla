-------------------------- MODULE Chunking_proofs --------------------------
(***************************************************************************)
(* What the chunkers promise, for every file, size and overlap.            *)
(*                                                                         *)
(* The windows: while the loop runs, every stretch that starts before the  *)
(* next window is kept already, so the last window only has to cover the   *)
(* rest.  The merge: the finished chunks followed by the one being built   *)
(* are at all times a cut of the segments taken so far (Cut), and growing  *)
(* the last chunk or starting another keeps it one.                        *)
(***************************************************************************)
EXTENDS Chunking, TLAPS

Span == Lesser(ChunkOverlap + 1, ChunkSize)

\* Stretches starting before `limit' stand in one of the chunks of s.
KeepsSpans(s, limit) ==
  \A a \in Nat, n \in 1..Span :
    a < limit /\ a + n <= file.length =>
      \E k \in DOMAIN s : s[k].from <= a /\ a + n <= s[k].to

\* s cuts the first n of the segments seg into runs, in order, and none without need.
Runs(s, n) ==
  /\ s # <<>> /\ s[1].from = 1 /\ s[Len(s)].to = n
  /\ \A k \in DOMAIN s : s[k].from <= s[k].to
  /\ \A k \in 1..Len(s) - 1 : s[k + 1].from = s[k].to + 1
Named(seg, s) ==
  \A k \in DOMAIN s : /\ \A i \in s[k].from..s[k].to : seg[i].page \in s[k].pages
                      /\ s[k].carry > 0 => k > 1 /\ s[k - 1].pages \subseteq s[k].pages
\* ... and no other page than those of its segments, and of the chunk it carries text from.
Inherits(seg, s) ==
  \A k \in DOMAIN s : /\ s[k].carry <= ChunkOverlap
                      /\ \A p \in s[k].pages : \/ \E i \in s[k].from..s[k].to : seg[i].page = p
                                               \/ s[k].carry > 0 /\ p \in s[k - 1].pages
Bounded(s) == \A k \in DOMAIN s : s[k].size > ChunkSize => s[k].from = s[k].to
Needed(seg, s) ==
  \A k \in 1..Len(s) - 1 : s[k].size + Separator + seg[s[k].to + 1].size > ChunkSize
Cut(seg, s, n) ==
  Runs(s, n) /\ Named(seg, s) /\ Inherits(seg, s) /\ Bounded(s) /\ Needed(seg, s)

\* The inductive invariant, by the place of the call.
WindowInv ==
  /\ pc = "window" => /\ Windows /\ KeepsSpans(chunks, start)
                      /\ start = 0 \/ start < file.length
  /\ Windows /\ pc \in {"upsert", "done"} =>
       (chunks = <<>> /\ pc = "done" /\ outcome # "success") \/ KeepsSpans(chunks, file.length)
  /\ Windows => \A k \in DOMAIN chunks : chunks[k].size <= ChunkSize
SplitInv ==
  /\ pc = "extract" => chunks = <<>> /\ segments = <<>> /\ current = NoText /\ next = 1 /\ start = 0
  /\ pc = "split" => /\ ~Windows /\ chunks = <<>> /\ current = NoText
                     /\ next > 1 => segments # <<>>
                     /\ file.paragraphs # <<>> => next \in DOMAIN file.paragraphs
MergeInv ==
  /\ pc = "merge" =>
       /\ ~Windows /\ segments # <<>> /\ next <= Len(segments) + 1
       /\ next = 1 => chunks = <<>> /\ current = NoText
       /\ next > 1 => current # NoText /\ Cut(segments, Append(chunks, current), next - 1)
  /\ ~Windows /\ pc \in {"upsert", "done"} =>
       (chunks = <<>> /\ pc = "done" /\ outcome # "success") \/ Cut(segments, chunks, Len(segments))
IInv == TypeOK /\ WindowInv /\ SplitInv /\ MergeInv

-----------------------------------------------------------------------------
\* A sequence that is appended to keeps its elements.
LEMMA Appended ==
  ASSUME NEW S, NEW s \in Seq(S), NEW x \in S
  PROVE  /\ Append(s, x) \in Seq(S) /\ Append(s, x) # <<>>
         /\ Len(Append(s, x)) = Len(s) + 1
         /\ DOMAIN Append(s, x) = 1..Len(s) + 1 /\ DOMAIN s = 1..Len(s)
         /\ \A k \in 1..Len(s) : Append(s, x)[k] = s[k] /\ s[k] \in S
         /\ Append(s, x)[Len(s) + 1] = x
  OBVIOUS

\* Elements of sequences, and functions that are sequences.
LEMMA Element ==
  ASSUME NEW S, NEW s \in Seq(S), NEW i \in DOMAIN s
  PROVE  s[i] \in S /\ i \in Nat /\ i <= Len(s)
  OBVIOUS

LEMMA Mapped ==
  ASSUME NEW S, NEW n \in Nat, NEW f \in [1..n -> S]
  PROVE  f \in Seq(S) /\ Len(f) = n
  OBVIOUS

\* A finished chunk and the one that follows it.
LEMMA CutFollowed ==
  ASSUME NEW seg, NEW s \in Seq(Chunk), NEW n \in Nat, NEW c \in Chunk,
         Cut(seg, s, n), c.from = n + 1, c.to = n + 1,
         seg[n + 1].page \in c.pages,
         c.carry > 0 => s[Len(s)].pages \subseteq c.pages,
         c.carry <= ChunkOverlap,
         \A p \in c.pages : p = seg[n + 1].page \/ (c.carry > 0 /\ p \in s[Len(s)].pages),
         s[Len(s)].size + Separator + seg[n + 1].size > ChunkSize
  PROVE  Cut(seg, Append(s, c), n + 1)
  PROOF
  <1> DEFINE t == Append(s, c)
  <1>1. /\ t # <<>> /\ Len(t) = Len(s) + 1 /\ DOMAIN t = 1..Len(s) + 1 /\ DOMAIN s = 1..Len(s)
        /\ \A k \in 1..Len(s) : t[k] = s[k] /\ s[k] \in Chunk
        /\ t[Len(s) + 1] = c
    BY Appended
  <1>2. Runs(s, n) /\ Named(seg, s) /\ Inherits(seg, s) /\ Bounded(s) /\ Needed(seg, s)
    BY DEF Cut
  <1>3. Len(s) \in Nat /\ Len(s) >= 1 /\ s[Len(s)].to = n
    BY <1>2 DEF Runs
  <1> HIDE DEF t
  <1>3a. Len(t) - 1 = Len(s)
    BY <1>1, <1>3
  <1>3b. ASSUME NEW k \in 1..Len(s) PROVE k = Len(s) \/ k \in 1..Len(s) - 1
    BY <1>3
  <1>4. Runs(t, n + 1)
    <2>1. t # <<>> /\ t[1].from = 1 /\ t[Len(t)].to = n + 1
      BY <1>1, <1>2, <1>3 DEF Runs
    <2>2. \A k \in DOMAIN t : t[k].from <= t[k].to
      BY <1>1, <1>2, <1>3 DEF Runs
    <2>3. ASSUME NEW k \in 1..Len(t) - 1 PROVE t[k + 1].from = t[k].to + 1
      <3>1. CASE k = Len(s)
        BY <3>1, <1>1, <1>3
      <3>2. CASE k \in 1..Len(s) - 1
        BY <3>2, <1>1, <1>2, <1>3 DEF Runs
      <3>3. k = Len(s) \/ k \in 1..Len(s) - 1
        BY <1>3a, <1>3b
      <3> QED BY <3>1, <3>2, <3>3
    <2> QED BY <2>1, <2>2, <2>3 DEF Runs
  <1>5. Named(seg, t)
    <2> SUFFICES ASSUME NEW k \in DOMAIN t
                 PROVE  /\ \A i \in t[k].from..t[k].to : seg[i].page \in t[k].pages
                        /\ t[k].carry > 0 => k > 1 /\ t[k - 1].pages \subseteq t[k].pages
      BY DEF Named
    <2>1. CASE k = Len(s) + 1
      <3>1. \A i \in c.from..c.to : seg[i].page \in c.pages
        <4>1. \A i \in c.from..c.to : i = n + 1
          OBVIOUS
        <4> QED BY <4>1
      <3>2. k - 1 = Len(s) /\ k > 1 /\ t[k] = c /\ t[k - 1] = s[Len(s)]
        BY <2>1, <1>1, <1>3
      <3> QED BY <3>1, <3>2
    <2>2. CASE k \in 1..Len(s)
      BY <2>2, <1>1, <1>2, <1>3 DEF Named
    <2> QED BY <2>1, <2>2, <1>1, <1>3
  <1>6. Bounded(t)
    BY <1>1, <1>2, <1>3 DEF Bounded
  <1>8. Inherits(seg, t)
    <2> SUFFICES ASSUME NEW k \in DOMAIN t
                 PROVE  /\ t[k].carry <= ChunkOverlap
                        /\ \A p \in t[k].pages : \/ \E i \in t[k].from..t[k].to : seg[i].page = p
                                                 \/ t[k].carry > 0 /\ p \in t[k - 1].pages
      BY DEF Inherits
    <2>1. CASE k = Len(s) + 1
      <3>1. k - 1 = Len(s) /\ t[k] = c /\ t[k - 1] = s[Len(s)] /\ n + 1 \in c.from..c.to
        BY <2>1, <1>1, <1>3
      <3> QED BY <3>1
    <2>2. CASE k \in 1..Len(s)
      <3>1. t[k] = s[k] /\ (k > 1 => t[k - 1] = s[k - 1])
        BY <2>2, <1>1, <1>3
      <3>2. s[k].carry > 0 => k > 1
        BY <2>2, <1>1, <1>2 DEF Named
      <3> QED BY <2>2, <3>1, <3>2, <1>1, <1>2 DEF Inherits
    <2> QED BY <2>1, <2>2, <1>1, <1>3
  <1>7. Needed(seg, t)
    <2> SUFFICES ASSUME NEW k \in 1..Len(t) - 1
                 PROVE  t[k].size + Separator + seg[t[k].to + 1].size > ChunkSize
      BY DEF Needed
    <2>1. CASE k = Len(s)
      BY <2>1, <1>1, <1>3
    <2>2. CASE k \in 1..Len(s) - 1
      BY <2>2, <1>1, <1>2, <1>3 DEF Needed
    <2>3. k = Len(s) \/ k \in 1..Len(s) - 1
      BY <1>3a, <1>3b
    <2> QED BY <2>1, <2>2, <2>3
  <1> QED BY <1>4, <1>5, <1>6, <1>7, <1>8 DEF Cut, t

\* The chunk being built takes one more segment.
LEMMA CutGrown ==
  ASSUME NEW seg, NEW s \in Seq(Chunk), NEW n \in Nat, NEW b \in Chunk, NEW c \in Chunk,
         Cut(seg, Append(s, b), n), c.from = b.from, c.carry = b.carry, c.to = n + 1,
         c.pages = b.pages \cup {seg[n + 1].page},
         c.size <= ChunkSize
  PROVE  Cut(seg, Append(s, c), n + 1)
  PROOF
  <1> DEFINE t == Append(s, b)
             u == Append(s, c)
  <1>1. /\ Len(t) = Len(s) + 1 /\ DOMAIN t = 1..Len(s) + 1 /\ DOMAIN s = 1..Len(s)
        /\ \A k \in 1..Len(s) : t[k] = s[k] /\ s[k] \in Chunk
        /\ t[Len(s) + 1] = b
    BY Appended
  <1>2. /\ u # <<>> /\ Len(u) = Len(s) + 1 /\ DOMAIN u = 1..Len(s) + 1
        /\ \A k \in 1..Len(s) : u[k] = s[k]
        /\ u[Len(s) + 1] = c
    BY Appended
  <1>3. Runs(t, n) /\ Named(seg, t) /\ Inherits(seg, t) /\ Bounded(t) /\ Needed(seg, t)
    BY DEF Cut
  <1> HIDE DEF t, u
  <1>4. Len(s) \in Nat /\ Len(s) + 1 \in DOMAIN t /\ b.to = n /\ b.from <= b.to
    BY <1>1, <1>3 DEF Runs
  <1>5. Runs(u, n + 1)
    <2>1. u # <<>> /\ u[Len(u)].to = n + 1
      BY <1>2, <1>4
    <2>2. u[1].from = 1
      BY <1>1, <1>2, <1>3, <1>4 DEF Runs
    <2>3. ASSUME NEW k \in DOMAIN u PROVE u[k].from <= u[k].to
      <3>1. CASE k = Len(s) + 1
        BY <3>1, <1>2, <1>4 DEF Chunk
      <3>2. CASE k \in 1..Len(s)
        BY <3>2, <1>1, <1>2, <1>3, <1>4 DEF Runs
      <3> QED BY <3>1, <3>2, <1>2, <1>4
    <2>4. \A k \in 1..Len(s) : u[k].to = t[k].to /\ u[k + 1].from = t[k + 1].from
      BY <1>1, <1>2, <1>4
    <2>5. \A k \in 1..Len(u) - 1 : u[k + 1].from = u[k].to + 1
      BY <2>4, <1>1, <1>2, <1>3, <1>4 DEF Runs
    <2> QED BY <2>1, <2>2, <2>3, <2>5 DEF Runs
  <1>6. Named(seg, u)
    <2> SUFFICES ASSUME NEW k \in DOMAIN u
                 PROVE  /\ \A i \in u[k].from..u[k].to : seg[i].page \in u[k].pages
                        /\ u[k].carry > 0 => k > 1 /\ u[k - 1].pages \subseteq u[k].pages
      BY DEF Named
    <2>1. CASE k = Len(s) + 1
      <3>1. \A i \in b.from..b.to : seg[i].page \in b.pages
        BY <1>1, <1>3, <1>4 DEF Named
      <3>2. \A i \in c.from..c.to : i \in b.from..b.to \/ i = n + 1
        BY <1>4 DEF Chunk
      <3>3. b.carry > 0 => k > 1 /\ t[k - 1].pages \subseteq b.pages
        BY <2>1, <1>1, <1>3, <1>4 DEF Named
      <3>4. u[k] = c /\ (k > 1 => u[k - 1] = t[k - 1])
        BY <2>1, <1>1, <1>2, <1>4
      <3> QED BY <3>1, <3>2, <3>3, <3>4
    <2>2. CASE k \in 1..Len(s)
      BY <2>2, <1>1, <1>2, <1>3, <1>4 DEF Named
    <2> QED BY <2>1, <2>2, <1>2, <1>4
  <1>7. Bounded(u)
    <2> SUFFICES ASSUME NEW k \in DOMAIN u, u[k].size > ChunkSize PROVE u[k].from = u[k].to
      BY DEF Bounded
    <2>1. k # Len(s) + 1
      BY <1>2, SizesAssumption DEF Chunk
    <2> QED BY <2>1, <1>1, <1>2, <1>3, <1>4 DEF Bounded
  <1>8. Needed(seg, u)
    BY <1>1, <1>2, <1>3, <1>4 DEF Needed
  <1>9. Inherits(seg, u)
    <2> SUFFICES ASSUME NEW k \in DOMAIN u
                 PROVE  /\ u[k].carry <= ChunkOverlap
                        /\ \A p \in u[k].pages : \/ \E i \in u[k].from..u[k].to : seg[i].page = p
                                                 \/ u[k].carry > 0 /\ p \in u[k - 1].pages
      BY DEF Inherits
    <2>1. k > 1 => u[k - 1] = t[k - 1]
      BY <1>1, <1>2, <1>4
    <2>2. t[k].carry > 0 => k > 1
      BY <1>1, <1>2, <1>3 DEF Named
    <2>3. CASE k = Len(s) + 1
      <3>1. \A i \in b.from..b.to : i \in c.from..c.to
        BY <1>4 DEF Chunk
      <3>2. n + 1 \in c.from..c.to
        BY <1>4 DEF Chunk
      <3>3. u[k] = c /\ t[k] = b /\ k \in DOMAIN t
        BY <2>3, <1>1, <1>2, <1>4
      <3>4. /\ b.carry <= ChunkOverlap
            /\ \A p \in b.pages : \/ \E i \in b.from..b.to : seg[i].page = p
                                  \/ b.carry > 0 /\ p \in t[k - 1].pages
        BY <3>3, <1>3 DEF Inherits
      <3> QED BY <2>1, <2>2, <3>1, <3>2, <3>3, <3>4
    <2>4. CASE k \in 1..Len(s)
      <3>1. u[k] = t[k] /\ k \in DOMAIN t
        BY <2>4, <1>1, <1>2, <1>4
      <3> QED BY <2>1, <2>2, <3>1, <1>3 DEF Inherits
    <2> QED BY <2>3, <2>4, <1>2, <1>4
  <1> QED BY <1>5, <1>6, <1>7, <1>8, <1>9 DEF Cut, u

\* The chunks before the last are cut by the same rules.
LEMMA CutPrefix ==
  ASSUME NEW seg, NEW s \in Seq(Chunk), NEW c \in Chunk, NEW n, Cut(seg, Append(s, c), n)
  PROVE  Named(seg, s) /\ Inherits(seg, s) /\ Bounded(s) /\ Needed(seg, s)
  PROOF
  <1> DEFINE t == Append(s, c)
  <1>1. /\ Len(t) = Len(s) + 1 /\ DOMAIN t = 1..Len(s) + 1 /\ DOMAIN s = 1..Len(s)
        /\ \A k \in 1..Len(s) : t[k] = s[k]
    BY Appended
  <1>2. Len(s) \in Nat /\ Cut(seg, t, n)
    OBVIOUS
  <1> HIDE DEF t
  <1>3. Named(seg, s)
    BY <1>1, <1>2 DEF Cut, Named
  <1>4. Inherits(seg, s)
    <2> SUFFICES ASSUME NEW k \in DOMAIN s
                 PROVE  /\ s[k].carry <= ChunkOverlap
                        /\ \A p \in s[k].pages : \/ \E i \in s[k].from..s[k].to : seg[i].page = p
                                                 \/ s[k].carry > 0 /\ p \in s[k - 1].pages
      BY DEF Inherits
    <2>1. t[k] = s[k] /\ k \in DOMAIN t /\ (k > 1 => t[k - 1] = s[k - 1])
      BY <1>1, <1>2
    <2>2. s[k].carry > 0 => k > 1
      BY <1>3 DEF Named
    <2> QED BY <2>1, <2>2, <1>2 DEF Cut, Inherits
  <1> QED BY <1>1, <1>2, <1>3, <1>4 DEF Cut, Bounded, Needed

\* One window more: it keeps every stretch that starts before the next one.
LEMMA SpansExtended ==
  ASSUME NEW s \in Seq(Chunk), NEW c \in Chunk, NEW b \in Nat, NEW e \in Nat,
         file.length \in Nat, KeepsSpans(s, b), c.from = b, c.to = Lesser(b + ChunkSize, file.length),
         b + ChunkSize >= file.length \/ e = b + Step
  PROVE  KeepsSpans(Append(s, c), IF b + ChunkSize >= file.length THEN file.length ELSE e)
  PROOF
  <1> DEFINE t == Append(s, c)
  <1>1. /\ DOMAIN t = 1..Len(s) + 1 /\ DOMAIN s = 1..Len(s) /\ Len(s) \in Nat
        /\ \A k \in 1..Len(s) : t[k] = s[k]
        /\ t[Len(s) + 1] = c
    BY Appended
  <1> HIDE DEF t
  <1>2. ASSUME NEW a \in Nat, NEW n \in 1..Span, a + n <= file.length,
               a < IF b + ChunkSize >= file.length THEN file.length ELSE e
        PROVE  \E k \in DOMAIN t : t[k].from <= a /\ a + n <= t[k].to
    <2>1. CASE a < b
      <3>1. PICK k \in DOMAIN s : s[k].from <= a /\ a + n <= s[k].to
        BY <2>1, <1>2 DEF KeepsSpans
      <3> QED BY <3>1, <1>1
    <2>2. CASE a >= b
      <3>1. n \in Nat /\ n <= ChunkOverlap + 1 /\ n <= ChunkSize
        BY SizesAssumption DEF Span, Lesser
      <3>2. c.from <= a /\ a + n <= c.to
        BY <2>2, <3>1, <1>2, SizesAssumption DEF Lesser, Step
      <3>3. Len(s) + 1 \in DOMAIN t
        BY <1>1
      <3> QED BY <3>2, <3>3, <1>1
    <2> QED BY <2>1, <2>2
  <1> QED BY <1>2 DEF KeepsSpans, t
-----------------------------------------------------------------------------
\* The types, of every file the call may be given.
LEMMA FileTypes ==
  ASSUME TypeOK
  PROVE  /\ file.kind \in {"pdf", "text", "image"} /\ file.length \in Nat
         /\ file.paragraphs \in Seq(Paragraph)
  BY FilesAssumption DEF TypeOK

\* What the pieces of a paragraph are.
LEMMA PiecesType ==
  ASSUME NEW p \in Paragraph
  PROVE  Pieces(p) \in Seq(Nat \ {0}) /\ Pieces(p) # <<>> /\ p.page \in Nat
  <1>1. CASE p.size <= ChunkSize
    <2>1. <<p.size>> \in Seq(Nat \ {0}) /\ <<p.size>> # <<>>
      BY DEF Paragraph
    <2> QED BY <1>1, <2>1 DEF Pieces, Paragraph
  <1>2. CASE ~(p.size <= ChunkSize)
    BY <1>2 DEF Pieces, Paragraph
  <1> QED BY <1>1, <1>2

\* The types of a segment and of the chunk it makes.
LEMMA MergeTypes ==
  ASSUME TypeOK, NEW s \in [size : Nat \ {0}, page : Nat]
  PROVE  /\ Alone(s) \in Chunk /\ Grown(s) \in Chunk /\ Followers(s) \subseteq Chunk
         /\ Alone(s) # NoText /\ Grown(s) # NoText /\ NoText \notin Followers(s)
  <1>1. Alone(s) \in Chunk /\ Alone(s) # NoText
    BY DEF TypeOK, Alone, Chunk, NoText
  <1>2. Grown(s) \in Chunk /\ Grown(s) # NoText
    <2>1. CASE current = NoText
      BY <2>1, <1>1 DEF Grown
    <2>2. CASE current # NoText
      <3>1. /\ current.size + Separator + s.size \in Nat \ {0}
            /\ current.pages \cup {s.page} \in SUBSET Nat
        BY DEF TypeOK, Chunk, Separator
      <3> QED BY <2>2, <3>1 DEF TypeOK, Grown, Chunk, NoText
    <2> QED BY <2>1, <2>2
  <1>3. ASSUME NEW c \in Carrying(s) PROVE c \in Chunk /\ c # NoText
    <2>1. PICK n \in 1..ChunkOverlap :
            c = [from |-> next, to |-> next, carry |-> n, size |-> n + Separator + s.size,
                 pages |-> current.pages \cup {s.page}]
      BY <1>3 DEF Carrying
    <2>2. n \in Nat /\ n > 0 /\ current.pages \in SUBSET Nat
      BY SizesAssumption DEF TypeOK, Chunk
    <2> QED BY <2>1, <2>2 DEF TypeOK, Chunk, Separator, NoText
  <1> QED BY <1>1, <1>2, <1>3 DEF Followers

\* The call has its types at every step.
LEMMA TypeStep ==
  ASSUME TypeOK, WindowInv, [Next]_vars
  PROVE  TypeOK'
  <1>0. file.length \in Nat /\ file.paragraphs \in Seq(Paragraph)
    BY FileTypes
  <1>1. CASE Extract
    <2>1. CASE chunks' = <<[NoText EXCEPT !.to = file.length, !.size = file.length]>>
      <3>1. [NoText EXCEPT !.to = file.length, !.size = file.length] \in Chunk
        BY <1>0 DEF NoText, Chunk
      <3>2. chunks' \in Seq(Chunk)
        BY <3>1, <2>1
      <3> QED BY <3>2, <1>1 DEF Extract, Counted, TypeOK
    <2>2. CASE UNCHANGED chunks
      BY <2>2, <1>1 DEF Extract, Counted, TypeOK
    <2> QED BY <2>1, <2>2, <1>1 DEF Extract
  <1>2. CASE NothingFound
    BY <1>2 DEF NothingFound, Counted, TypeOK
  <1>3. CASE Window
    <2> DEFINE end == Lesser(start + ChunkSize, file.length)
               c == [NoText EXCEPT !.from = start, !.to = end, !.size = end - start]
    <2>1. start \in Nat /\ end \in Nat /\ end - start \in Nat
      BY <1>3, <1>0, SizesAssumption DEF Window, WindowInv, Lesser, TypeOK
    <2>2. c \in Chunk
      BY <2>1 DEF NoText, Chunk
    <2>3. chunks' \in Seq(Chunk)
      BY <2>2, <1>3 DEF Window, TypeOK
    <2>4. Step \in Nat
      BY SizesAssumption DEF Step
    <2> QED BY <2>1, <2>3, <2>4, <1>3 DEF Window, TypeOK
  <1>4. CASE Split
    <2> DEFINE p == file.paragraphs[next]
    <2>1. Pieces(p) \in Seq(Nat \ {0}) /\ p.page \in Nat
      BY <1>4, <1>0, PiecesType, Element DEF Split
    <2>2. [i \in DOMAIN Pieces(p) |-> [size |-> Pieces(p)[i], page |-> p.page]]
            \in Seq([size : Nat \ {0}, page : Nat])
      <3>1. DOMAIN Pieces(p) = 1..Len(Pieces(p)) /\ Len(Pieces(p)) \in Nat
        BY <2>1
      <3>2. \A i \in DOMAIN Pieces(p) : Pieces(p)[i] \in Nat \ {0}
        BY <2>1, Element
      <3>3. [i \in DOMAIN Pieces(p) |-> [size |-> Pieces(p)[i], page |-> p.page]]
              \in [1..Len(Pieces(p)) -> [size : Nat \ {0}, page : Nat]]
        BY <3>1, <3>2, <2>1
      <3> QED BY <3>1, <3>3, Mapped
    <2>3. segments' \in Seq([size : Nat \ {0}, page : Nat])
      BY <2>2, <1>4 DEF Split, TypeOK
    <2> QED BY <2>3, <1>4 DEF Split, TypeOK
  <1>5. CASE Merge
    <2>1. segments[next] \in [size : Nat \ {0}, page : Nat]
      BY <1>5, Element DEF Merge, TypeOK
    <2>2. Grown(segments[next]) \in Chunk /\ Followers(segments[next]) \subseteq Chunk
      BY <2>1, MergeTypes
    <2>3. current' \in Chunk
      BY <2>2, <1>5 DEF Merge
    <2>4. chunks' \in Seq(Chunk)
      <3>1. chunks' = chunks \/ chunks' = Append(chunks, current)
        BY <1>5 DEF Merge
      <3>2. current \in Chunk /\ chunks \in Seq(Chunk)
        BY DEF TypeOK
      <3> QED BY <3>1, <3>2
    <2> QED BY <2>3, <2>4, <1>5 DEF Merge, TypeOK
  <1>6. CASE Flush
    BY <1>6 DEF Flush, TypeOK
  <1>7. CASE Upsert
    BY <1>7 DEF Upsert, Counted, TypeOK
  <1>8. CASE UNCHANGED vars
    BY <1>8 DEF vars, TypeOK
  <1> QED BY <1>1, <1>2, <1>3, <1>4, <1>5, <1>6, <1>7, <1>8 DEF Next

\* Windows keep their stretches and their size, and the last one covers the end.
LEMMA WindowStep ==
  ASSUME TypeOK, WindowInv, SplitInv, MergeInv, [Next]_vars
  PROVE  WindowInv'
  <1>0. file.length \in Nat /\ chunks \in Seq(Chunk) /\ start \in Nat
    BY FileTypes DEF TypeOK
  <1>1. CASE Extract
    <2>1. file' = file /\ chunks = <<>> /\ start' = start
      BY <1>1 DEF Extract, SplitInv
    <2>2. CASE chunks' = <<[NoText EXCEPT !.to = file.length, !.size = file.length]>>
      <3>1. file.kind = "image" /\ file.length \in 1..ChunkSize /\ pc' = "upsert"
        BY <2>2, <2>1, <1>1 DEF Extract
      <3>2. chunks'[1].from = 0 /\ chunks'[1].to = file.length /\ DOMAIN chunks' = {1}
            /\ chunks'[1].size <= ChunkSize
        <4> DEFINE c == [NoText EXCEPT !.to = file.length, !.size = file.length]
        <4>1. c.from = 0 /\ c.to = file.length /\ c.size = file.length
          BY DEF NoText
        <4>2. chunks' = <<c>>
          BY <2>2
        <4> HIDE DEF c
        <4>3. chunks'[1] = c /\ DOMAIN chunks' = {1}
          BY <4>2
        <4> QED BY <4>1, <4>3, <3>1, SizesAssumption
      <3>3. KeepsSpans(chunks', file.length)
        BY <3>2, <1>0 DEF KeepsSpans
      <3> QED BY <2>1, <3>1, <3>2, <3>3 DEF WindowInv, Windows, KeepsSpans
    <2>3. CASE chunks' = chunks /\ Counted("error")
      BY <2>1, <2>3, <1>1 DEF WindowInv, Counted, Windows
    <2>4. CASE chunks' = chunks /\ Counted("empty")
      BY <2>1, <2>4, <1>1 DEF WindowInv, Counted, Windows
    <2>5. CASE pc' = "window"
      <3>1. chunks' = <<>> /\ start' = 0 /\ Windows /\ Windows'
        BY <2>1, <2>5, <1>1 DEF Extract, Counted, SplitInv, Windows
      <3>2. KeepsSpans(chunks', start')
        BY <3>1 DEF KeepsSpans
      <3> QED BY <2>5, <3>1, <3>2 DEF WindowInv, KeepsSpans
    <2>6. CASE pc' = "split"
      BY <2>1, <2>6, <1>1 DEF Extract, WindowInv, Windows
    <2> QED BY <2>2, <2>3, <2>4, <2>5, <2>6, <1>1 DEF Extract
  <1>2. CASE NothingFound
    <2>1. CASE pc = "window"
      <3>1. chunks' = chunks /\ file' = file /\ pc' = "done" /\ file.length = 0
        BY <1>2, <2>1 DEF NothingFound, Counted
      <3> QED BY <3>1, <2>1 DEF WindowInv, Windows, KeepsSpans
    <2>2. CASE pc = "split"
      BY <1>2, <2>2 DEF NothingFound, Counted, WindowInv, SplitInv, Windows
    <2> QED BY <2>1, <2>2, <1>2 DEF NothingFound
  <1>3. CASE Window
    <2> DEFINE end == Lesser(start + ChunkSize, file.length)
               c == [NoText EXCEPT !.from = start, !.to = end, !.size = end - start]
    <2>1. start < file.length /\ file' = file /\ Windows /\ KeepsSpans(chunks, start)
      BY <1>3, <1>0 DEF Window, WindowInv
    <2>2. end - start \in Nat /\ end - start <= ChunkSize /\ end \in Nat
      BY <2>1, <1>0, SizesAssumption DEF Lesser
    <2>3. c \in Chunk /\ c.from = start /\ c.to = end /\ c.size <= ChunkSize
      BY <2>2, <1>0 DEF NoText, Chunk
    <2>4. chunks' = Append(chunks, c)
      BY <1>3 DEF Window
    <2> HIDE DEF c
    <2>5. \A k \in DOMAIN chunks' : chunks'[k].size <= ChunkSize
      BY <2>1, <2>3, <2>4, <1>0, Appended DEF WindowInv
    <2>6. CASE start + ChunkSize >= file.length
      <3>1. KeepsSpans(chunks', file.length)
        BY <2>1, <2>3, <2>4, <2>6, <1>0, SpansExtended
      <3>2. pc' = "upsert"
        BY <2>6, <1>3 DEF Window
      <3> QED BY <2>1, <2>5, <3>1, <3>2 DEF WindowInv, Windows, KeepsSpans
    <2>7. CASE ~(start + ChunkSize >= file.length)
      <3>1. start' = start + Step /\ pc' = "window"
        BY <2>7, <1>3 DEF Window
      <3>2. start' \in Nat /\ start' < file.length
        BY <2>7, <3>1, <1>0, SizesAssumption DEF Step
      <3>3. KeepsSpans(chunks', start')
        BY <2>1, <2>3, <2>4, <2>7, <3>1, <3>2, <1>0, SpansExtended
      <3> QED BY <2>1, <2>5, <3>1, <3>2, <3>3 DEF WindowInv, Windows, KeepsSpans
    <2> QED BY <2>6, <2>7
  <1>4. CASE Split
    BY <1>4 DEF Split, SplitInv, WindowInv, Windows
  <1>5. CASE Merge
    BY <1>5 DEF Merge, MergeInv, WindowInv, Windows
  <1>6. CASE Flush
    BY <1>6 DEF Flush, MergeInv, WindowInv, Windows
  <1>7. CASE Upsert
    BY <1>7 DEF Upsert, Counted, WindowInv, Windows, KeepsSpans
  <1>8. CASE UNCHANGED vars
    BY <1>8 DEF vars, WindowInv, Windows, KeepsSpans
  <1> QED BY <1>1, <1>2, <1>3, <1>4, <1>5, <1>6, <1>7, <1>8 DEF Next

\* A paragraph gives one segment at least.
LEMMA SplitLeavesSegments ==
  ASSUME TypeOK, Split
  PROVE  segments' # <<>>
  <1> DEFINE p == file.paragraphs[next]
             f == [i \in DOMAIN Pieces(p) |-> [size |-> Pieces(p)[i], page |-> p.page]]
  <1>1. Pieces(p) # <<>> /\ Pieces(p) \in Seq(Nat \ {0})
    BY FileTypes, PiecesType, Element DEF Split
  <1>2. f \in Seq([size : Nat \ {0}, page : {p.page}]) /\ f # <<>>
    <2>1. Len(Pieces(p)) \in Nat /\ DOMAIN Pieces(p) = 1..Len(Pieces(p)) /\ 1 \in DOMAIN Pieces(p)
      BY <1>1
    <2>2. \A i \in DOMAIN Pieces(p) : Pieces(p)[i] \in Nat \ {0}
      BY <1>1, Element
    <2>3. f \in [1..Len(Pieces(p)) -> [size : Nat \ {0}, page : {p.page}]]
      BY <2>1, <2>2
    <2>4. f \in Seq([size : Nat \ {0}, page : {p.page}]) /\ Len(f) = Len(Pieces(p))
      BY <2>1, <2>3, Mapped
    <2>5. Len(f) # Len(<<>>)
      BY <2>1, <2>4
    <2> QED BY <2>4, <2>5
  <1>3. segments' = segments \o f
    BY DEF Split
  <1>4. segments \in Seq([size : Nat \ {0}, page : Nat])
    BY DEF TypeOK
  <1> HIDE DEF f
  <1> QED BY <1>2, <1>3, <1>4

\* Where the call stands while it splits.
LEMMA SplitStep ==
  ASSUME TypeOK, SplitInv, MergeInv, [Next]_vars
  PROVE  SplitInv'
  <1>0. file.paragraphs \in Seq(Paragraph) /\ next \in Nat
    BY FileTypes DEF TypeOK
  <1>1. CASE Extract
    <2>1. pc' # "extract"
      BY <1>1 DEF Extract, Counted
    <2>2. pc' = "split" => /\ ~Windows /\ chunks = <<>> /\ current = NoText /\ next = 1
                           /\ chunks' = chunks /\ current' = current /\ next' = next /\ file' = file
      BY <1>1 DEF Extract, Counted, SplitInv, Windows
    <2> QED BY <2>1, <2>2, <1>0 DEF SplitInv, Windows
  <1>2. CASE Split
    <2>2. segments' # <<>>
      BY <1>2, SplitLeavesSegments
    <2>3. /\ file' = file /\ chunks' = <<>> /\ current' = NoText /\ ~Windows
          /\ pc' \in {"split", "merge"}
          /\ pc' = "split" => next' \in DOMAIN file.paragraphs
      BY <1>2, <1>0 DEF Split, SplitInv
    <2> QED BY <2>2, <2>3 DEF SplitInv, Windows
  <1>3. CASE NothingFound \/ Window \/ Merge \/ Flush \/ Upsert
    BY <1>3 DEF NothingFound, Window, Merge, Flush, Upsert, Counted, SplitInv
  <1>4. CASE UNCHANGED vars
    BY <1>4 DEF vars, SplitInv, Windows
  <1> QED BY <1>1, <1>2, <1>3, <1>4 DEF Next

\* Merging keeps the chunks, with the one being built, a cut of the segments taken.
LEMMA MergeStep ==
  ASSUME TypeOK, WindowInv, SplitInv, MergeInv, [Next]_vars
  PROVE  MergeInv'
  <1>0. /\ segments \in Seq([size : Nat \ {0}, page : Nat]) /\ next \in Nat \ {0}
        /\ current \in Chunk /\ chunks \in Seq(Chunk) /\ file.paragraphs \in Seq(Paragraph)
    BY FileTypes DEF TypeOK
  <1>1. CASE Extract
    BY <1>1 DEF Extract, Counted, SplitInv, MergeInv, Windows
  <1>2. CASE NothingFound
    BY <1>2 DEF NothingFound, Counted, WindowInv, SplitInv, MergeInv, Windows
  <1>3. CASE Window
    <2>1. file' = file /\ chunks' # <<>> /\ pc' \in {"window", "upsert"} /\ pc = "window"
      BY <1>3, <1>0 DEF Window
    <2> QED BY <2>1 DEF WindowInv, MergeInv, Windows
  <1>4. CASE Split
    BY <1>4, SplitLeavesSegments DEF Split, SplitInv, MergeInv, Windows
  <1>5. CASE Merge
    <2> DEFINE s == segments[next]
    <2>1. /\ file' = file /\ segments' = segments /\ pc' = "merge" /\ next' = next + 1
          /\ ~Windows /\ next \in 1..Len(segments) /\ Len(segments) \in Nat /\ segments # <<>>
      BY <1>5, <1>0 DEF Merge, MergeInv
    <2>2. s \in [size : Nat \ {0}, page : Nat]
      <3>1. next \in DOMAIN segments
        BY <1>5 DEF Merge
      <3> QED BY <3>1, <1>0, Element
    <2>3. Alone(s) \in Chunk /\ Grown(s) \in Chunk /\ Followers(s) \subseteq Chunk
          /\ Alone(s) # NoText /\ Grown(s) # NoText /\ NoText \notin Followers(s)
      BY <2>2, MergeTypes
    <2>4. SUFFICES current' # NoText /\ Cut(segments, Append(chunks', current'), next)
      BY <2>1, <1>0 DEF MergeInv, Windows
    <2> HIDE DEF s
    <2>5. CASE next = 1
      <3>1. chunks = <<>> /\ current = NoText
        BY <2>5, <1>5 DEF MergeInv, Merge
      <3>2. chunks' = <<>> /\ current' = Alone(s)
        BY <3>1, <1>5 DEF Merge, Fits, Grown, s
      <3>3. /\ Alone(s).from = 1 /\ Alone(s).to = 1 /\ Alone(s).carry = 0
            /\ Alone(s).pages = {s.page}
        BY <2>5 DEF Alone
      <3>4. /\ Append(<<>>, Alone(s)) # <<>> /\ Len(Append(<<>>, Alone(s))) = 1
            /\ DOMAIN Append(<<>>, Alone(s)) = {1} /\ Append(<<>>, Alone(s))[1] = Alone(s)
        OBVIOUS
      <3>5. \A i \in 1..1 : i = 1
        OBVIOUS
      <3>6. \A i \in 1..1 - 1 : FALSE
        OBVIOUS
      <3>7. Cut(segments, Append(<<>>, Alone(s)), 1)
        <4> DEFINE t == Append(<<>>, Alone(s))
        <4> HIDE DEF t
        <4>1. t # <<>> /\ Len(t) = 1 /\ DOMAIN t = {1} /\ t[1] = Alone(s)
          BY <3>4 DEF t
        <4>2. Runs(t, 1) /\ Bounded(t)
          BY <4>1, <3>3, <3>6 DEF Runs, Bounded
        <4>5. Inherits(segments, t)
          BY <4>1, <3>3, <2>5, SizesAssumption DEF Inherits, s
        <4>3. Named(segments, t)
          BY <4>1, <3>3, <3>5, <2>5 DEF Named, s
        <4>4. Needed(segments, t)
          BY <4>1, <3>6 DEF Needed
        <4> QED BY <4>2, <4>3, <4>4, <4>5 DEF Cut, t
      <3> QED BY <3>2, <3>7, <2>3, <2>5
    <2>6. CASE next > 1
      <3>1. current # NoText /\ Cut(segments, Append(chunks, current), next - 1) /\ next - 1 \in Nat
        BY <2>6, <1>5, <1>0 DEF MergeInv, Merge
      <3>2. CASE Fits(s)
        <4>1. current' = Grown(s) /\ chunks' = chunks
          BY <3>2, <1>5 DEF Merge, s
        <4>2. Grown(s) = [current EXCEPT !.to = next, !.size = @ + Separator + s.size,
                                         !.pages = @ \cup {s.page}]
          BY <3>1 DEF Grown
        <4>3. /\ Grown(s).from = current.from /\ Grown(s).carry = current.carry /\ Grown(s).to = next
              /\ Grown(s).pages = current.pages \cup {s.page}
              /\ Grown(s).size = current.size + Separator + s.size
          BY <4>2, <1>0 DEF Chunk
        <4>4. Grown(s).size <= ChunkSize
          BY <4>3, <3>1, <3>2 DEF Fits
        <4>5. Cut(segments, Append(chunks, Grown(s)), next - 1 + 1)
          <5>1. /\ Grown(s).to = next - 1 + 1
                /\ Grown(s).pages = current.pages \cup {segments[next - 1 + 1].page}
            BY <4>3, <1>0 DEF s
          <5> QED BY <5>1, <4>3, <4>4, <3>1, <2>3, <1>0, CutGrown
        <4> QED BY <4>1, <4>5, <2>3, <1>0
      <3>3. CASE ~Fits(s)
        <4>1. current' \in Followers(s) /\ chunks' = Append(chunks, current)
          BY <3>3, <1>5 DEF Merge, s
        <4>2. /\ current'.from = next /\ current'.to = next /\ s.page \in current'.pages
              /\ current'.carry > 0 => current.pages \subseteq current'.pages
              /\ current'.carry <= ChunkOverlap
              /\ \A p \in current'.pages : p = s.page \/ (current'.carry > 0 /\ p \in current.pages)
          <5>1. CASE current' = Alone(s)
            BY <5>1, SizesAssumption DEF Alone
          <5>2. CASE current' \in Carrying(s)
            BY <5>2, SizesAssumption DEF Carrying
          <5> QED BY <4>1, <5>1, <5>2 DEF Followers
        <4>3. current' \in Chunk /\ current' # NoText
          BY <4>1, <2>3
        <4>4. chunks' \in Seq(Chunk) /\ Len(chunks') = Len(chunks) + 1 /\ chunks'[Len(chunks')] = current
          BY <4>1, <1>0, Appended
        <4>5. current.size + Separator + s.size > ChunkSize
          BY <3>1, <3>3, <2>2, <1>0, SizesAssumption DEF Fits, Chunk, Separator
        <4>6. Cut(segments, chunks', next - 1)
          BY <4>1, <3>1
        <4>7. Cut(segments, Append(chunks', current'), next - 1 + 1)
          <5>1. /\ current'.from = next - 1 + 1 /\ current'.to = next - 1 + 1
                /\ segments[next - 1 + 1].page \in current'.pages
                /\ current'.carry <= ChunkOverlap
            BY <4>2, <1>0 DEF s
          <5>2. /\ current'.carry > 0 => chunks'[Len(chunks')].pages \subseteq current'.pages
                /\ \A p \in current'.pages :
                     \/ p = segments[next - 1 + 1].page
                     \/ current'.carry > 0 /\ p \in chunks'[Len(chunks')].pages
                /\ chunks'[Len(chunks')].size + Separator + segments[next - 1 + 1].size > ChunkSize
            BY <4>2, <4>4, <4>5, <1>0 DEF s
          <5> QED BY <5>1, <5>2, <4>3, <4>4, <4>6, <3>1, CutFollowed
        <4> QED BY <4>3, <4>7, <1>0
      <3> QED BY <3>2, <3>3
    <2> QED BY <2>1, <2>5, <2>6
  <1>6. CASE Flush
    <2>1. /\ file' = file /\ segments' = segments /\ pc' = "upsert" /\ ~Windows
          /\ next = Len(segments) + 1 /\ next > 1 /\ chunks' = Append(chunks, current)
      BY <1>6, <1>0 DEF Flush, MergeInv
    <2>2. Cut(segments, chunks', Len(segments))
      BY <2>1, <1>6, <1>0 DEF Flush, MergeInv
    <2> QED BY <2>1, <2>2 DEF MergeInv, Windows
  <1>7. CASE Upsert
    BY <1>7 DEF Upsert, Counted, MergeInv, Windows
  <1>8. CASE UNCHANGED vars
    BY <1>8 DEF vars, MergeInv, Windows
  <1> QED BY <1>1, <1>2, <1>3, <1>4, <1>5, <1>6, <1>7, <1>8 DEF Next
-----------------------------------------------------------------------------
\* The invariant holds throughout a call.
THEOREM Invariance == Spec => []IInv
  <1>1. Init => IInv
    <2> SUFFICES ASSUME Init PROVE IInv
      OBVIOUS
    <2> USE DEF Init
    <2>1. TypeOK
      BY DEF TypeOK, NoText, Chunk
    <2>2. WindowInv /\ SplitInv /\ MergeInv
      BY DEF WindowInv, SplitInv, MergeInv
    <2> QED BY <2>1, <2>2 DEF IInv
  <1>2. IInv /\ [Next]_vars => IInv'
    BY TypeStep, WindowStep, SplitStep, MergeStep DEF IInv
  <1> QED BY <1>1, <1>2, PTL DEF Spec

\* Every variable keeps its type, whatever the file and the settings.
THEOREM TypeCorrect == Spec => []TypeOK
  <1>1. IInv => TypeOK
    BY DEF IInv
  <1> QED BY <1>1, Invariance, PTL

\* chunk_text keeps every stretch of chunk_overlap + 1 characters whole, for any text,
\* size and overlap, the overlap that is larger than the size included.
THEOREM WindowsKeepSpans == Spec => []SpansKept
  <1>1. IInv => SpansKept
    <2> SUFFICES ASSUME IInv, Windows, Made,
                        NEW a \in 0..file.length, NEW n \in 1..Span, a + n <= file.length
                 PROVE  \E k \in DOMAIN chunks : chunks[k].from <= a /\ a + n <= chunks[k].to
      BY DEF SpansKept, Span
    <2>1. file.length \in Nat /\ Span \in Nat
      BY FileTypes, SizesAssumption DEF IInv, Span, Lesser
    <2>2. KeepsSpans(chunks, file.length)
      BY DEF IInv, WindowInv, Made
    <2>3. a \in Nat /\ a < file.length
      BY <2>1
    <2> QED BY <2>2, <2>3 DEF KeepsSpans
  <1> QED BY <1>1, Invariance, PTL

\* smart_chunk_text loses, repeats and reorders no segment, for any PDF and settings.
THEOREM MergeKeepsSegments == Spec => []SegmentsKept
  <1>1. IInv => SegmentsKept
    BY DEF IInv, MergeInv, SegmentsKept, Made, Cut, Runs
  <1> QED BY <1>1, Invariance, PTL

\* At any time the finished chunks keep the rules of a cut.
LEMMA FinishedChunks ==
  ASSUME IInv, ~Windows
  PROVE  /\ Named(segments, chunks) /\ Inherits(segments, chunks)
         /\ Bounded(chunks) /\ Needed(segments, chunks)
  <1>1. chunks \in Seq(Chunk) /\ current \in Chunk /\ next \in Nat \ {0}
    BY DEF IInv, TypeOK
  <1>2. CASE chunks = <<>>
    BY <1>2 DEF Named, Inherits, Bounded, Needed
  <1>3. CASE pc = "merge" /\ chunks # <<>>
    <2>1. Cut(segments, Append(chunks, current), next - 1)
      BY <1>1, <1>3 DEF IInv, MergeInv
    <2> QED BY <2>1, <1>1, CutPrefix
  <1>4. CASE pc \in {"upsert", "done"} /\ chunks # <<>>
    BY <1>4 DEF IInv, MergeInv, Cut
  <1> QED BY <1>2, <1>3, <1>4 DEF IInv, TypeOK, WindowInv, SplitInv

\* A chunk names the pages of all its text, its own and carried, for any PDF and settings.
THEOREM PagesNameSources == Spec => []SourcesNamed
  <1>1. ASSUME IInv, ~Windows, NEW k \in DOMAIN chunks
        PROVE  /\ \A i \in chunks[k].from..chunks[k].to : segments[i].page \in chunks[k].pages
               /\ chunks[k].carry > 0 => \A i \in chunks[k - 1].from..chunks[k - 1].to :
                    segments[i].page \in chunks[k].pages
    <2>1. Named(segments, chunks)
      BY <1>1, FinishedChunks
    <2>2. \A i \in chunks[k].from..chunks[k].to : segments[i].page \in chunks[k].pages
      BY <2>1 DEF Named
    <2>3. ASSUME chunks[k].carry > 0, NEW i \in chunks[k - 1].from..chunks[k - 1].to
          PROVE  segments[i].page \in chunks[k].pages
      <3>1. k > 1 /\ chunks[k - 1].pages \subseteq chunks[k].pages
        BY <2>1, <2>3 DEF Named
      <3>2. k - 1 \in DOMAIN chunks
        BY <1>1, <3>1 DEF IInv, TypeOK
      <3> QED BY <2>1, <2>3, <3>1, <3>2 DEF Named
    <2> QED BY <2>2, <2>3
  <1>2. IInv => SourcesNamed
    BY <1>1 DEF SourcesNamed
  <1> QED BY <1>2, Invariance, PTL

\* The whole truth of the page lists: a chunk names the pages of its own segments and, if it
\* carries text over, all that the chunk before names - and so, link by link, those of every
\* chunk back to the last one that began without a carry (smart_chunk_text, step 3).
PagesInherited ==
  ~Windows => \A k \in DOMAIN chunks :
    chunks[k].pages = Own(k) \cup IF chunks[k].carry > 0 THEN chunks[k - 1].pages ELSE {}

THEOREM PagesAreInherited == Spec => []PagesInherited
  <1>1. ASSUME IInv, ~Windows, NEW k \in DOMAIN chunks
        PROVE  chunks[k].pages = Own(k) \cup IF chunks[k].carry > 0 THEN chunks[k - 1].pages ELSE {}
    <2>1. Named(segments, chunks) /\ Inherits(segments, chunks)
      BY <1>1, FinishedChunks
    <2>2. Own(k) \subseteq chunks[k].pages
      BY <2>1 DEF Named, Own
    <2>3. chunks[k].carry > 0 => chunks[k - 1].pages \subseteq chunks[k].pages
      BY <2>1 DEF Named
    <2>4. \A p \in chunks[k].pages : p \in Own(k) \/ (chunks[k].carry > 0 /\ p \in chunks[k - 1].pages)
      BY <2>1 DEF Inherits, Own
    <2> QED BY <2>2, <2>3, <2>4
  <1>2. IInv => PagesInherited
    BY <1>1 DEF PagesInherited
  <1> QED BY <1>2, Invariance, PTL

\* The claim of smart_chunk_text's comment, that the list records where the content came
\* from, is true of a configuration without overlap, for any PDF; in run chunk_pages, with
\* one, it is false.
THEOREM NoOverlapNamesSourcesOnly == ASSUME ChunkOverlap = 0 PROVE Spec => []PagesAreSources
  <1>1. ASSUME IInv, ~Windows, NEW k \in DOMAIN chunks
        PROVE  chunks[k].carry = 0 /\ chunks[k].pages \subseteq Own(k)
    <2>1. Inherits(segments, chunks) /\ chunks[k].carry <= 0
      BY <1>1, FinishedChunks DEF Inherits
    <2>2. chunks[k].carry \in Nat
      <3>1. chunks \in Seq(Chunk)
        BY <1>1 DEF IInv, TypeOK
      <3>2. chunks[k] \in Chunk
        BY <3>1, <1>1, Element
      <3> QED BY <3>2 DEF Chunk
    <2>3. chunks[k].carry = 0
      BY <2>1, <2>2
    <2> QED BY <2>1, <2>3 DEF Inherits, Own
  <1>2. IInv => PagesAreSources
    BY <1>1 DEF PagesAreSources
  <1> QED BY <1>2, Invariance, PTL

\* A chunk is too long only because of the one segment it consists of.
THEOREM OversizedAlone == Spec => []OversizedIsOneSegment
  <1>1. ASSUME IInv, NEW k \in DOMAIN chunks, chunks[k].size > ChunkSize
        PROVE  ~Windows /\ chunks[k].from = chunks[k].to
    <2>1. ~Windows
      <3>1. chunks[k] \in Chunk
        BY <1>1, Element DEF IInv, TypeOK
      <3> QED BY <1>1, <3>1, SizesAssumption DEF IInv, WindowInv, Chunk
    <2> QED BY <2>1, <1>1, FinishedChunks DEF Bounded
  <1>2. IInv => OversizedIsOneSegment
    BY <1>1 DEF OversizedIsOneSegment
  <1> QED BY <1>2, Invariance, PTL

\* No chunk ends before it has to.
THEOREM NoNeedlessCut == Spec => []CutsAreNeeded
  <1>1. IInv => CutsAreNeeded
    BY FinishedChunks DEF CutsAreNeeded, Needed
  <1> QED BY <1>1, Invariance, PTL
=============================================================================
