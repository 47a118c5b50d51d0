----------------------------- MODULE MCChunking -----------------------------
\* Uploads for model checking: PDFs of up to three paragraphs on pages 1 to 3, and
\* texts and images of any length up to twelve.
EXTENDS Chunking

\* A blank stands between two sentences.
Paragraphs == {[page |-> p, size |-> t[1], sentences |-> t[2]] : p \in 1..3,
                 t \in {<<1, <<1>>>>, <<3, <<1, 1>>>>, <<7, <<3, 3>>>>, <<10, <<10>>>>, <<10, <<4, 5>>>>}}
InOrder(ps) == \A i \in 1..Len(ps) - 1 : ps[i].page <= ps[i + 1].page
PDFs == {ps \in UNION {[1..n -> Paragraphs] : n \in 0..3} : InOrder(ps)}

SomeFiles ==
       [kind : {"pdf"}, length : {0}, paragraphs : PDFs]
  \cup [kind : {"text", "image"}, length : 0..12, paragraphs : {<<>>}]
=============================================================================
