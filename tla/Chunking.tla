------------------------------ MODULE Chunking ------------------------------
(***************************************************************************)
(* ingest_document: from the bytes of one upload to the chunks that are    *)
(* stored.  chunk_text slides a window over the text; smart_chunk_text     *)
(* splits a PDF into segments and merges them into chunks.  Both are       *)
(* loops, and one iteration is one step.                                   *)
(*                                                                         *)
(* Text is abstracted to where it comes from: a window is a range of       *)
(* offsets, a chunk of a PDF is a run of whole segments with the end of    *)
(* the chunk before it, whose length is all that is kept of it.            *)
(***************************************************************************)
EXTENDS Naturals, Sequences

LOCAL INSTANCE Functions

CONSTANTS ChunkSize, ChunkOverlap,   \* settings.chunk_size and chunk_overlap
          Strategy,                  \* settings.chunking_strategy
          Files                      \* the uploads considered

\* A paragraph of a page, and the stripped sentences the pattern cuts it into.
Paragraph == [page : Nat, size : Nat \ {0}, sentences : Seq(Nat \ {0}) \ {<<>>}]

\* length: of the whole text, white space collapsed; paragraphs: of a PDF, in order.
ASSUME FilesAssumption ==
  Files \subseteq [kind : {"pdf", "text", "image"}, length : Nat, paragraphs : Seq(Paragraph)]
\* Nothing in the settings makes the overlap smaller than the size.
ASSUME SizesAssumption == ChunkSize \in Nat \ {0} /\ ChunkOverlap \in Nat
ASSUME StrategyAssumption == Strategy \in {"smart", "fixed"}

VARIABLES file,      \* the upload
          pc,        \* where the call stands
          start,     \* chunk_text: where the next window starts
          segments,  \* smart_chunk_text: what is merged, with its page
          next,      \* the next paragraph to split or segment to merge
          current,   \* current_text and current_pages
          chunks,    \* the chunks made so far
          outcome    \* the status the call was counted under

vars == <<file, pc, start, segments, next, current, chunks, outcome>>

\* carry: how many characters of the chunk before stand in front.
Chunk == [from : Nat, to : Nat, carry : Nat, size : Nat, pages : SUBSET Nat]
NoText == [from |-> 0, to |-> 0, carry |-> 0, size |-> 0, pages |-> {}]
Separator == 2   \* "\n\n"

TypeOK ==
  /\ file \in Files
  /\ pc \in {"extract", "window", "split", "merge", "upsert", "done"}
  /\ start \in Nat /\ next \in Nat \ {0}
  /\ segments \in Seq([size : Nat \ {0}, page : Nat])
  /\ current \in Chunk
  /\ chunks \in Seq(Chunk)
  /\ outcome \in {"none", "empty", "success", "error"}

Init == /\ file \in Files
        /\ pc = "extract" /\ outcome = "none"
        /\ start = 0 /\ next = 1
        /\ segments = <<>> /\ chunks = <<>>
        /\ current = NoText

Counted(status) == pc' = "done" /\ outcome' = status
Lesser(a, b) == IF a < b THEN a ELSE b
-----------------------------------------------------------------------------
\* ingest_document: reading a PDF or describing an image may raise; no description is
\* nothing to index, and a short one is one chunk.
Extract ==
  /\ pc = "extract"
  /\ \/ file.kind # "text" /\ Counted("error") /\ UNCHANGED chunks
     \/ /\ file.kind = "image" /\ file.length = 0
        /\ Counted("empty") /\ UNCHANGED chunks
     \/ /\ file.kind = "image" /\ file.length \in 1..ChunkSize
        /\ chunks' = <<[NoText EXCEPT !.to = file.length, !.size = file.length]>>
        /\ pc' = "upsert" /\ UNCHANGED outcome
     \/ /\ file.kind = "image" => file.length > ChunkSize
        /\ pc' = IF file.kind = "pdf" /\ Strategy = "smart" THEN "split" ELSE "window"
        /\ UNCHANGED <<outcome, chunks>>
  /\ UNCHANGED <<file, start, segments, next, current>>

\* Mutant of Step: windows side by side.
StepWhole == ChunkSize
Step == IF ChunkSize > ChunkOverlap THEN ChunkSize - ChunkOverlap ELSE 1

\* chunk_text, one iteration: text[start : start + chunk_size].
Window ==
  /\ pc = "window" /\ file.length > 0
  /\ LET end == Lesser(start + ChunkSize, file.length)
     IN chunks' = Append(chunks, [NoText EXCEPT !.from = start, !.to = end, !.size = end - start])
  /\ IF start + ChunkSize >= file.length THEN pc' = "upsert" /\ UNCHANGED start
                                         ELSE start' = start + Step /\ UNCHANGED pc
  /\ UNCHANGED <<file, segments, next, current, outcome>>

\* Nothing to index, by either way.
NothingFound ==
  /\ \/ pc = "window" /\ file.length = 0
     \/ pc = "split" /\ file.paragraphs = <<>>
  /\ Counted("empty")
  /\ UNCHANGED <<file, start, segments, next, current, chunks>>
-----------------------------------------------------------------------------
\* smart_chunk_text

\* Mutant of Pieces: an empty sentence at the end is kept.
PiecesWithEmpty(p) == IF p.size <= ChunkSize THEN <<p.size>> ELSE Append(p.sentences, 0)
\* Steps 1 and 2: a paragraph that fits is one segment, a longer one its sentences.
Pieces(p) == IF p.size <= ChunkSize THEN <<p.size>> ELSE p.sentences

Split ==
  /\ pc = "split" /\ next \in DOMAIN file.paragraphs
  /\ LET p == file.paragraphs[next]
     IN segments' = segments \o [i \in DOMAIN Pieces(p) |-> [size |-> Pieces(p)[i], page |-> p.page]]
  /\ IF next < Len(file.paragraphs) THEN next' = next + 1 /\ UNCHANGED pc
                                    ELSE next' = 1 /\ pc' = "merge"
  /\ UNCHANGED <<file, start, current, chunks, outcome>>

\* Mutants of Fits: the separator is not counted; a chunk may not be quite full.
FitsUncounted(s) == current = NoText \/ current.size + s.size <= ChunkSize
FitsBelow(s) == current = NoText \/ current.size + Separator + s.size < ChunkSize
\* The candidate is within chunk_size, or the first segment is too long and accepted.
Fits(s) == current = NoText \/ current.size + Separator + s.size <= ChunkSize

Alone(s) == [from |-> next, to |-> next, carry |-> 0, size |-> s.size, pages |-> {s.page}]

Grown(s) ==
  IF current = NoText THEN Alone(s)
  ELSE [current EXCEPT !.to = next, !.size = @ + Separator + s.size, !.pages = @ \cup {s.page}]

\* Mutant of Carrying: the carried text comes without its pages.
CarryingNoPages(s) ==
  {[from |-> next, to |-> next, carry |-> n, size |-> n + Separator + s.size,
    pages |-> {s.page}] : n \in 1..ChunkOverlap}

\* The next chunk starts with the last chunk_overlap characters of this one, less the
\* white space in front that strip() takes (the last character never is), and with
\* all its pages, whichever of them those characters are from.
Carrying(s) ==
  {[from |-> next, to |-> next, carry |-> n, size |-> n + Separator + s.size,
    pages |-> current.pages \cup {s.page}] : n \in 1..ChunkOverlap}

Followers(s) ==
  IF ChunkOverlap > 0 /\ current.size > ChunkOverlap THEN Carrying(s) ELSE {Alone(s)}

\* Step 3, one segment: the chunk grows, or it is finished and the next one begins.
Merge ==
  /\ pc = "merge" /\ next \in DOMAIN segments
  /\ LET s == segments[next] IN
     \/ Fits(s) /\ current' = Grown(s) /\ UNCHANGED chunks
     \/ ~Fits(s) /\ chunks' = Append(chunks, current) /\ current' \in Followers(s)
  /\ next' = next + 1
  /\ UNCHANGED <<file, pc, start, segments, outcome>>

\* Mutant of Flush: the text left over is dropped.
FlushForgotten ==
  /\ pc = "merge" /\ next \notin DOMAIN segments
  /\ pc' = "upsert"
  /\ UNCHANGED <<file, start, segments, next, current, chunks, outcome>>
\* The text left over is the last chunk.
Flush ==
  /\ pc = "merge" /\ next \notin DOMAIN segments
  /\ chunks' = Append(chunks, current)
  /\ pc' = "upsert"
  /\ UNCHANGED <<file, start, segments, next, current, outcome>>
-----------------------------------------------------------------------------
\* upsert_chunks stores the chunks together or raises; the call is counted once.
Upsert ==
  /\ pc = "upsert"
  /\ \E status \in {"success", "error"} : Counted(status)
  /\ UNCHANGED <<file, start, segments, next, current, chunks>>

Next == Extract \/ NothingFound \/ Window \/ Split \/ Merge \/ Flush \/ Upsert

Spec == Init /\ [][Next]_vars
-----------------------------------------------------------------------------
Windows == file.kind # "pdf" \/ Strategy # "smart"
Made == pc = "upsert" \/ (pc = "done" /\ outcome = "success")

\* A phrase across a boundary is found whole: windows lose no text, and every stretch
\* of up to chunk_overlap + 1 characters (of chunk_size, if that is less) stands in one
\* of them, wherever it starts.
SpansKept ==
  Windows /\ Made =>
    \A a \in 0..file.length, n \in 1..Lesser(ChunkOverlap + 1, ChunkSize) :
      a + n <= file.length =>
        \E k \in DOMAIN chunks : chunks[k].from <= a /\ a + n <= chunks[k].to

\* Merging loses, repeats and reorders no segment, whether it fits or not: the chunks
\* are the segments cut into consecutive runs.
SegmentsKept ==
  ~Windows /\ Made =>
    /\ chunks # <<>> /\ chunks[1].from = 1 /\ chunks[Len(chunks)].to = Len(segments)
    /\ \A k \in DOMAIN chunks : chunks[k].from <= chunks[k].to
    /\ \A k \in 1..Len(chunks) - 1 : chunks[k + 1].from = chunks[k].to + 1

\* How many characters stand behind segment i in chunk k.
Behind(k, i) ==
  FoldFunctionOnSet(+, 0, [m \in DOMAIN segments |-> Separator + segments[m].size], i + 1..chunks[k].to)

\* The pages a chunk of a PDF names include those of all its text: of its own segments,
\* and of the segments of the chunk before that the carried characters reach back into.
SourcesNamed ==
  ~Windows => \A k \in DOMAIN chunks :
    /\ \A i \in chunks[k].from..chunks[k].to : segments[i].page \in chunks[k].pages
    /\ chunks[k].carry > 0 => \A i \in chunks[k - 1].from..chunks[k - 1].to :
         Behind(k - 1, i) < chunks[k].carry => segments[i].page \in chunks[k].pages

\* Only a segment that is too long next to what is carried makes a chunk longer than
\* chunk_size, and then it is the only one in it.
OversizedIsOneSegment ==
  \A k \in DOMAIN chunks : chunks[k].size > ChunkSize => ~Windows /\ chunks[k].from = chunks[k].to

\* No cut without need: the segment after a chunk would not have fitted into it.
CutsAreNeeded ==
  ~Windows => \A k \in 1..Len(chunks) - 1 :
    chunks[k].size + Separator + segments[chunks[k].to + 1].size > ChunkSize

\* smart_chunk_text says that each chunk records the pages its content came from. Where
\* the text carried over is no longer than the chunk before is without its own carry,
\* these are the pages of the two chunks' segments.
Own(k) == {segments[i].page : i \in chunks[k].from..chunks[k].to}
PagesAreSources ==
  ~Windows => \A k \in DOMAIN chunks :
    /\ chunks[k].carry = 0 => chunks[k].pages \subseteq Own(k)
    /\ k > 1 /\ chunks[k].carry + chunks[k - 1].carry + Separator <= chunks[k - 1].size =>
         chunks[k].pages \subseteq Own(k) \cup Own(k - 1)
=============================================================================
