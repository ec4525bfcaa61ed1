------------------------------ MODULE Chunking ------------------------------
(***************************************************************************)
(* How Local RAG cuts a document into the chunks that it embeds and cites     *)
(* (services/local-rag/app/chunking.py): spans between structural boundaries,  *)
(* packed into sections of at most MaxChars characters, and a section that is  *)
(* longer cut into windows that overlap.  A loop of the code is an action.     *)
(*                                                                           *)
(* Positions are offsets as in Python, so [from, to) names the characters      *)
(* from + 1 .. to of the sequence.  The characters are                        *)
(*   "#"  at the start of a line, what a structural boundary begins with       *)
(*   "x"  any other visible one       " "  a blank       "n"  a new line       *)
(*   "f"  a form feed, at which splitlines breaks a line and "\n" counts none  *)
(*                                                                           *)
(* A definition named Wrong... is a plausible bug, used by no action.        *)
(***************************************************************************)
EXTENDS Integers, Sequences, FiniteSets

CONSTANTS
    Texts,     \* the documents
    MaxChars,  \* MAX_CHARS
    Overlap    \* OVERLAP_CHARS

\* chunk_document raises ValueError otherwise.
ASSUME SizesAssumption ==
    /\ MaxChars \in Nat \ {0}
    /\ Overlap \in 0 .. MaxChars - 1
    /\ Texts \subseteq Seq({"#", "x", " ", "n", "f"})

VARIABLES
    text,        \* the document
    structured,  \* boundary_pattern knows the document's type
    pc,          \* "pack", "cut" or "done"
    from, to,    \* the section
    start,       \* the window of a long section
    chunks       \* the chunks so far

vars == <<text, structured, pc, from, to, start, chunks>>

Smaller(a, b) == IF a <= b THEN a ELSE b
Larger(a, b) == IF a >= b THEN a ELSE b

Breaks == {"n", "f"}
Visible == {"#", "x"}

\* line_offsets: where the lines of splitlines begin.
LineStart(o) == o = 0 \/ (o \in 1 .. Len(text) - 1 /\ text[o] \in Breaks)

\* structural_boundaries.
Boundary(o) == o = 0 \/ (structured /\ LineStart(o) /\ text[o + 1] = "#")

\* structural_spans: the end of the span that begins at o.
SpanEnd(o) ==
    CHOOSE e \in o + 1 .. Len(text) :
        /\ e = Len(text) \/ Boundary(e)
        /\ \A p \in o + 1 .. e - 1 : ~Boundary(p)

LineIndex(o) == Cardinality({p \in 1 .. o : LineStart(p)})

Newlines(a, b) == Cardinality({p \in a + 1 .. b : text[p] = "n"})

Init ==
    /\ text \in Texts
    /\ structured \in BOOLEAN
    /\ pc = IF text = <<>> THEN "done" ELSE "pack"
    /\ from = 0
    /\ to = IF text = <<>> THEN 0 ELSE SpanEnd(0)
    /\ start = 0
    /\ chunks = <<>>
-----------------------------------------------------------------------------
Fits(e) == e - from <= MaxChars

More == to < Len(text) /\ Fits(SpanEnd(to))

\* pack_spans: the next span still fits.
Extend ==
    /\ pc = "pack" /\ More
    /\ to' = SpanEnd(to)
    /\ UNCHANGED <<text, structured, pc, from, start, chunks>>

\* What is appended for the characters of [a, b), stripped, with the lines of
\* the characters as they were: nothing when they are blank.
WrongChunk(a, b, line) ==
    LET seen == {p \in a + 1 .. b : text[p] \in Visible}
    IN  IF seen = {} THEN <<>>
        ELSE <<[from |-> (CHOOSE p \in seen : \A q \in seen : p <= q) - 1,
                to |-> CHOOSE p \in seen : \A q \in seen : q <= p,
                first |-> line + 1,
                last |-> line + Newlines(a, b) + 1]>>

Chunk(a, b, line) ==
    LET seen == {p \in a + 1 .. b : text[p] \in Visible}
    IN  IF seen = {} THEN <<>>
        ELSE <<[from |-> (CHOOSE p \in seen : \A q \in seen : p <= q) - 1,
                to |-> CHOOSE p \in seen : \A q \in seen : q <= p,
                first |-> line + Newlines(from, a) + 1,
                last |-> line + Newlines(from, b) + 1]>>

\* The next section, or the end.
NextSection ==
    /\ from' = to
    /\ start' = to
    /\ IF to = Len(text)
       THEN pc' = "done" /\ UNCHANGED to
       ELSE pc' = "pack" /\ to' = SpanEnd(to)

\* A section that fits is one chunk.
Whole ==
    /\ pc = "pack" /\ ~More
    /\ Fits(to)
    /\ chunks' = chunks \o Chunk(from, to, LineIndex(from))
    /\ NextSection
    /\ UNCHANGED <<text, structured>>

Long ==
    /\ pc = "pack" /\ ~More
    /\ ~Fits(to)
    /\ pc' = "cut"
    /\ UNCHANGED <<text, structured, from, to, start, chunks>>

WrongNextStart(end) == Larger(end - Overlap + 1, start + 1)
WrongNextSlides(end) == start + 1

\* chunk_text: where the window after the one that ends at end begins.
NextStart(end) == Larger(end - Overlap, start + 1)

\* One window of a long section.
Cut ==
    /\ pc = "cut"
    /\ LET end == Smaller(to, start + MaxChars)
       IN  /\ chunks' = chunks \o Chunk(start, end, LineIndex(from))
           /\ IF end >= to
              THEN NextSection
              ELSE start' = NextStart(end) /\ UNCHANGED <<pc, from, to>>
    /\ UNCHANGED <<text, structured>>

Next == Extend \/ Whole \/ Long \/ Cut

Spec == Init /\ [][Next]_vars
-----------------------------------------------------------------------------
TypeOK ==
    /\ text \in Texts
    /\ structured \in BOOLEAN
    /\ pc \in {"pack", "cut", "done"}
    /\ from \in 0 .. Len(text)
    /\ to \in from .. Len(text)
    /\ start \in from .. Len(text)
    /\ chunks \in Seq([from : Nat, to : Nat, first : Nat, last : Nat])

Holds(c, a, b) == c.from <= a /\ b <= c.to

\* Chunks are no longer than MaxChars, and everything of at most Overlap + 1
\* characters that can be read in one section can be read in one chunk:
\* nothing visible is lost, and no phrase is split by a window for good.
PhrasesKept ==
    /\ \A i \in DOMAIN chunks : chunks[i].to - chunks[i].from <= MaxChars
    /\ pc = "done" =>
          \A a, b \in 0 .. Len(text) :
              /\ a < b /\ b - a <= Overlap + 1
              /\ text[a + 1] \in Visible /\ text[b] \in Visible
              /\ \A p \in a + 1 .. b - 1 : ~Boundary(p)
              => \E i \in DOMAIN chunks : Holds(chunks[i], a, b)

\* The lines a citation names hold the chunk's text, in a document without
\* form feeds.
LinesHold ==
    (\A p \in DOMAIN text : text[p] # "f") =>
        \A i \in DOMAIN chunks :
            LET c == chunks[i]
            IN  /\ c.first <= Newlines(0, c.from) + 1
                /\ Newlines(0, c.to - 1) + 1 <= c.last

ShortLines ==
    \A a \in 0 .. Len(text) - (MaxChars - Overlap) :
        \E p \in a + 1 .. a + (MaxChars - Overlap) : text[p] = "n"

\* indexer.py:409: the id of a chunk is made of its path, its lines and its
\* text, and the store refuses a batch with an id twice.  Windows never agree
\* on the lines where every line is shorter than the step between windows.
IdsDiffer ==
    ShortLines =>
        \A i, j \in DOMAIN chunks : chunks[i].first = chunks[j].first => i = j
=============================================================================
