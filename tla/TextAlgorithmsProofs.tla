------------------------ MODULE TextAlgorithmsProofs ------------------------
(***************************************************************************)
(* Theorems of the algorithms of Local RAG on text: Chunking for every        *)
(* MaxChars, every Overlap below it and every set of documents; Retrieval for  *)
(* every store, every scores and every limit; the verdict on every answer.     *)
(***************************************************************************)
EXTENDS MCTextAlgorithms, CitationsProofs, FiniteSetTheorems

-----------------------------------------------------------------------------
(* What the helpers return.                                                 *)

Characters == {"#", "x", " ", "n", "f"}

ChunkType == [from : Nat, to : Nat, first : Nat, last : Nat]

LEMMA TextType ==
    ASSUME text \in Texts
    PROVE  /\ Len(text) \in Nat
           /\ DOMAIN text = 1 .. Len(text)
           /\ \A p \in 1 .. Len(text) : text[p] \in Characters
           /\ text # <<>> => Len(text) > 0
<1>1. text \in Seq(Characters)
  BY SizesAssumption DEF Characters
<1>2. QED
  BY <1>1, LenProperties, ElementOfSeq, EmptySeq

LEMMA SpanEndType ==
    ASSUME text \in Texts, NEW o \in 0 .. Len(text) - 1
    PROVE  /\ SpanEnd(o) \in o + 1 .. Len(text)
           /\ SpanEnd(o) = Len(text) \/ Boundary(SpanEnd(o))
<1> DEFINE Ends == {e \in o + 1 .. Len(text) : e = Len(text) \/ Boundary(e)}
<1>0. Len(text) \in Nat
  BY TextType
<1>1. Ends \in SUBSET Nat /\ Ends # {}
  <2>1. Len(text) \in Ends
    BY <1>0
  <2>2. QED
    BY <2>1, <1>0
<1>2. PICK m \in Ends : \A q \in Ends : m <= q
  BY <1>1, LeastExists
<1>3. \A p \in o + 1 .. m - 1 : ~Boundary(p)
  <2>1. SUFFICES ASSUME NEW p \in o + 1 .. m - 1, Boundary(p) PROVE FALSE
    OBVIOUS
  <2>2. m \in o + 1 .. Len(text)
    OBVIOUS
  <2>3. p \in o + 1 .. Len(text) /\ p < m
    BY <2>2, <1>0
  <2>4. p \in Ends
    BY <2>1, <2>3
  <2>5. QED
    BY <2>3, <2>4, <1>2
<1>4. /\ m \in o + 1 .. Len(text)
      /\ m = Len(text) \/ Boundary(m)
  OBVIOUS
<1> HIDE DEF Ends
<1>5. QED
  BY <1>3, <1>4 DEF SpanEnd

LEMMA NewlinesType ==
    ASSUME NEW a \in Nat, NEW b \in Nat
    PROVE  Newlines(a, b) \in Nat
<1>1. IsFiniteSet(a + 1 .. b)
  BY FS_Interval
<1>2. IsFiniteSet({p \in a + 1 .. b : text[p] = "n"})
  BY <1>1, FS_Subset
<1>3. QED
  BY <1>2, FS_CardinalityType DEF Newlines

LEMMA LineIndexType ==
    ASSUME NEW o \in Nat
    PROVE  LineIndex(o) \in Nat
<1>1. IsFiniteSet(1 .. o)
  BY FS_Interval
<1>2. IsFiniteSet({p \in 1 .. o : LineStart(p)})
  BY <1>1, FS_Subset
<1>3. QED
  BY <1>2, FS_CardinalityType DEF LineIndex

\* Line feeds add up, and there are more of them in more characters.
LEMMA NewlinesAdd ==
    ASSUME NEW a \in Nat, NEW b \in Nat, NEW c \in Nat, a <= b, b <= c
    PROVE  Newlines(a, b) + Newlines(b, c) = Newlines(a, c)
<1> DEFINE Left == {p \in a + 1 .. b : text[p] = "n"}
           Right == {p \in b + 1 .. c : text[p] = "n"}
<1>1. IsFiniteSet(Left) /\ IsFiniteSet(Right)
  <2>1. IsFiniteSet(a + 1 .. b) /\ IsFiniteSet(b + 1 .. c)
    BY FS_Interval
  <2>2. Left \in SUBSET (a + 1 .. b) /\ Right \in SUBSET (b + 1 .. c)
    OBVIOUS
  <2> HIDE DEF Left, Right
  <2>3. QED
    BY <2>1, <2>2, FS_Subset
<1>2. Left \cap Right = {}
  OBVIOUS
<1>3. {p \in a + 1 .. c : text[p] = "n"} = Left \cup Right
  OBVIOUS
<1>4. Cardinality(Left \cup Right) = Cardinality(Left) + Cardinality(Right)
  <2>1. Cardinality(Left \cap Right) = 0
    BY <1>2, FS_EmptySet
  <2>2. Cardinality(Left) \in Nat /\ Cardinality(Right) \in Nat
    BY <1>1, FS_CardinalityType
  <2> HIDE DEF Left, Right
  <2>3. Cardinality(Left \cup Right)
            = Cardinality(Left) + Cardinality(Right) - Cardinality(Left \cap Right)
    BY <1>1, FS_Union
  <2>4. QED
    BY <2>1, <2>2, <2>3
<1>5. QED
  BY <1>3, <1>4 DEF Newlines

LEMMA NewlinesGrow ==
    ASSUME NEW a \in Nat, NEW b \in Nat, NEW c \in Nat, a <= b, b <= c
    PROVE  /\ Newlines(a, b) <= Newlines(a, c)
           /\ (\E p \in b + 1 .. c : text[p] = "n") => Newlines(a, b) < Newlines(a, c)
<1> DEFINE Right == {p \in b + 1 .. c : text[p] = "n"}
<1>1. Newlines(a, b) + Newlines(b, c) = Newlines(a, c)
  BY NewlinesAdd
<1>2. Newlines(a, b) \in Nat /\ Newlines(b, c) \in Nat
  BY NewlinesType
<1>3. IsFiniteSet(Right)
  <2>1. IsFiniteSet(b + 1 .. c)
    BY FS_Interval
  <2>2. Right \in SUBSET (b + 1 .. c)
    OBVIOUS
  <2> HIDE DEF Right
  <2>3. QED
    BY <2>1, <2>2, FS_Subset
<1>4. (\E p \in b + 1 .. c : text[p] = "n") => Newlines(b, c) # 0
  <2>1. (\E p \in b + 1 .. c : text[p] = "n") => Right # {}
    OBVIOUS
  <2>2. Newlines(b, c) = Cardinality(Right)
    BY DEF Newlines
  <2> HIDE DEF Right
  <2>3. QED
    BY <1>3, <2>1, <2>2, FS_EmptySet
<1>5. QED
  BY <1>1, <1>2, <1>4

\* A chunk reaches from its first visible character to its last.
LEMMA ChunkShape ==
    ASSUME text \in Texts, NEW a \in Nat, NEW b \in a .. Len(text), NEW line
    PROVE  LET seen == {p \in a + 1 .. b : text[p] \in Visible}
           IN  \/ seen = {} /\ Chunk(a, b, line) = <<>>
               \/ \E m, n \in seen :
                     /\ \A q \in seen : m <= q /\ q <= n
                     /\ Chunk(a, b, line) =
                           <<[from |-> m - 1, to |-> n,
                              first |-> line + Newlines(from, a) + 1,
                              last |-> line + Newlines(from, b) + 1]>>
<1> DEFINE seen == {p \in a + 1 .. b : text[p] \in Visible}
<1>0. Len(text) \in Nat /\ b \in Nat
  BY TextType
<1>1. CASE seen = {}
  BY <1>1 DEF Chunk
<1>2. CASE seen # {}
  <2>1. seen \in SUBSET Nat /\ seen \in SUBSET (0 .. b)
    BY <1>0
  <2>2. \E m \in seen : \A q \in seen : m <= q
    BY <2>1, <1>2, LeastExists
  <2>3. \E n \in seen : \A q \in seen : q <= n
    BY <2>1, <1>2, <1>0, GreatestExists
  <2> DEFINE m == CHOOSE p \in seen : \A q \in seen : p <= q
             n == CHOOSE p \in seen : \A q \in seen : q <= p
  <2>4. m \in seen /\ n \in seen /\ \A q \in seen : m <= q /\ q <= n
    <3> HIDE DEF seen
    <3>1. QED
      BY <2>2, <2>3
  <2>5. Chunk(a, b, line) = <<[from |-> m - 1, to |-> n,
                               first |-> line + Newlines(from, a) + 1,
                               last |-> line + Newlines(from, b) + 1]>>
    BY <1>2 DEF Chunk
  <2> HIDE DEF seen, m, n
  <2>6. QED
    BY <2>4, <2>5 DEF seen
<1>3. QED
  BY <1>1, <1>2

LEMMA ChunkFields ==
    ASSUME text \in Texts, from \in Nat,
           NEW a \in Nat, NEW b \in a .. Len(text), NEW line \in Nat
    PROVE  /\ Chunk(a, b, line) \in Seq(ChunkType)
           /\ Len(Chunk(a, b, line)) \in {0, 1}
           /\ Len(Chunk(a, b, line)) = 1 =>
                 /\ Chunk(a, b, line)[1].from \in a .. b
                 /\ Chunk(a, b, line)[1].to \in a .. b
                 /\ Chunk(a, b, line)[1].first = line + Newlines(from, a) + 1
                 /\ Chunk(a, b, line)[1].last = line + Newlines(from, b) + 1
<1> DEFINE seen == {p \in a + 1 .. b : text[p] \in Visible}
<1>0. Len(text) \in Nat /\ b \in Nat
  BY TextType
<1>1. Newlines(from, a) \in Nat /\ Newlines(from, b) \in Nat
  BY <1>0, NewlinesType
<1>2. CASE Chunk(a, b, line) = <<>>
  BY <1>2, EmptySeq
<1>3. CASE Chunk(a, b, line) # <<>>
  <2>1. PICK m \in seen, n \in seen :
            Chunk(a, b, line) = <<[from |-> m - 1, to |-> n,
                                   first |-> line + Newlines(from, a) + 1,
                                   last |-> line + Newlines(from, b) + 1]>>
    BY <1>3, ChunkShape
  <2>2. m - 1 \in a .. b /\ n \in a .. b
    BY <1>0
  <2>3. [from |-> m - 1, to |-> n,
         first |-> line + Newlines(from, a) + 1,
         last |-> line + Newlines(from, b) + 1] \in ChunkType
    <3>1. m - 1 \in Nat /\ n \in Nat
      BY <1>0, <2>2
    <3>2. line + Newlines(from, a) + 1 \in Nat /\ line + Newlines(from, b) + 1 \in Nat
      <4>1. \A x \in Nat : line + x + 1 \in Nat
        OBVIOUS
      <4>2. QED
        BY <1>1, <4>1
    <3>3. QED
      BY <3>1, <3>2 DEF ChunkType
  <2>4. QED
    BY <2>1, <2>2, <2>3
<1>4. QED
  BY <1>2, <1>3

\* What is visible at both ends of [c, d) and lies in [a, b) is in its chunk.
LEMMA ChunkHolds ==
    ASSUME text \in Texts, from \in Nat,
           NEW a \in Nat, NEW b \in a .. Len(text), NEW line \in Nat,
           NEW c \in Nat, NEW d \in Nat, a <= c, c < d, d <= b,
           text[c + 1] \in Visible, text[d] \in Visible
    PROVE  Len(Chunk(a, b, line)) = 1 /\ Holds(Chunk(a, b, line)[1], c, d)
<1> DEFINE seen == {p \in a + 1 .. b : text[p] \in Visible}
<1>0. Len(text) \in Nat /\ b \in Nat
  BY TextType
<1>1. c + 1 \in seen /\ d \in seen
  BY <1>0
<1>2. PICK m \in seen, n \in seen :
          /\ \A q \in seen : m <= q /\ q <= n
          /\ Chunk(a, b, line) = <<[from |-> m - 1, to |-> n,
                                   first |-> line + Newlines(from, a) + 1,
                                   last |-> line + Newlines(from, b) + 1]>>
  BY <1>1, ChunkShape
<1>3. m <= c + 1 /\ d <= n /\ m \in Nat /\ n \in Nat
  BY <1>0, <1>1, <1>2
<1>4. QED
  BY <1>2, <1>3 DEF Holds
\* new is the sequence old with what added holds, one element at most.
AtMostOneMore(old, added, new) ==
    /\ new \in Seq(ChunkType)
    /\ \A i \in DOMAIN old : i \in DOMAIN new /\ new[i] = old[i]
    /\ \A i \in DOMAIN new :
          \/ i \in DOMAIN old
          \/ i = Len(old) + 1 /\ Len(added) = 1 /\ new[i] = added[1]
    /\ Len(added) = 1 =>
          Len(old) + 1 \in DOMAIN new /\ new[Len(old) + 1] = added[1]

LEMMA Appended ==
    ASSUME text \in Texts, from \in Nat, chunks \in Seq(ChunkType),
           NEW a \in Nat, NEW b \in a .. Len(text),
           NEW added, added = Chunk(a, b, LineIndex(from)),
           NEW new, new = chunks \o added
    PROVE  AtMostOneMore(chunks, added, new)
<1>1. added \in Seq(ChunkType) /\ Len(added) \in {0, 1}
  BY LineIndexType, ChunkFields
<1>2. /\ Len(chunks) \in Nat
      /\ DOMAIN chunks = 1 .. Len(chunks)
  BY LenProperties
<1>3. /\ new \in Seq(ChunkType)
      /\ Len(new) = Len(chunks) + Len(added)
      /\ \A i \in 1 .. Len(chunks) + Len(added) :
            new[i] = IF i <= Len(chunks) THEN chunks[i] ELSE added[i - Len(chunks)]
  BY <1>1, ConcatProperties
<1>4. DOMAIN new = 1 .. Len(chunks) + Len(added)
  BY <1>3, LenProperties
<1>5. \A i \in DOMAIN chunks : i \in DOMAIN new /\ new[i] = chunks[i]
  BY <1>1, <1>2, <1>3, <1>4
<1>6. \A i \in DOMAIN new :
          \/ i \in DOMAIN chunks
          \/ i = Len(chunks) + 1 /\ Len(added) = 1 /\ new[i] = added[1]
  <2>1. SUFFICES ASSUME NEW i \in DOMAIN new, i \notin DOMAIN chunks
                 PROVE  i = Len(chunks) + 1 /\ Len(added) = 1 /\ new[i] = added[1]
    OBVIOUS
  <2>2. i = Len(chunks) + 1 /\ Len(added) = 1
    <3>1. i \in 1 .. Len(chunks) + Len(added) /\ i \notin 1 .. Len(chunks)
      BY <1>2, <1>4, <2>1
    <3>2. CASE Len(added) = 0
      BY <1>2, <3>1, <3>2
    <3>3. CASE Len(added) = 1
      BY <1>2, <3>1, <3>3
    <3>4. QED
      BY <1>1, <3>2, <3>3
  <2>3. new[i] = added[i - Len(chunks)] /\ i - Len(chunks) = 1
    BY <1>2, <1>3, <1>4, <2>2
  <2>4. QED
    BY <2>2, <2>3
<1>7. Len(added) = 1 =>
          Len(chunks) + 1 \in DOMAIN new /\ new[Len(chunks) + 1] = added[1]
  <2>1. Len(added) = 1 => Len(chunks) + 1 \in 1 .. Len(chunks) + Len(added)
    BY <1>2
  <2>2. ~(Len(chunks) + 1 <= Len(chunks)) /\ Len(chunks) + 1 - Len(chunks) = 1
    BY <1>2
  <2>3. QED
    BY <1>3, <1>4, <2>1, <2>2
<1>8. QED
  BY <1>3, <1>5, <1>6, <1>7 DEF AtMostOneMore
-----------------------------------------------------------------------------
(* The steps.  Whole and Cut both append the chunk of a window that begins at  *)
(* start: the last one of its section, or one that the next overlaps.         *)

\* Where the section and the window lie.
Place ==
    /\ pc # "done" => from < to /\ (to = Len(text) \/ Boundary(to))
    /\ pc = "pack" => start = from
    /\ pc = "cut" => start < to
    /\ pc = "done" => from = Len(text) /\ to = Len(text) /\ start = Len(text)

Append1(end) ==
    /\ end \in start + 1 .. to
    /\ end - start <= MaxChars
    /\ chunks' = chunks \o Chunk(start, end, LineIndex(from))
    /\ UNCHANGED <<text, structured>>

LastWindow(end) == Append1(end) /\ end = to /\ NextSection

Slides(end) ==
    /\ Append1(end)
    /\ end < to
    /\ end = start + MaxChars
    /\ pc = "cut"
    /\ start' = end - Overlap
    /\ UNCHANGED <<pc, from, to>>

\* No chunk is appended.
Quiet ==
    /\ UNCHANGED <<text, structured, from, start, chunks>>
    /\ pc = "pack" /\ pc' \in {"pack", "cut"}
    /\ to' \in to .. Len(text)
    /\ to' = to \/ to' = Len(text) \/ Boundary(to')

LEMMA Steps ==
    ASSUME TypeOK, Place, [Next]_vars
    PROVE  \/ Quiet
           \/ \E end \in Nat : LastWindow(end) \/ Slides(end)
           \/ UNCHANGED vars
<1>0. /\ Len(text) \in Nat
      /\ from \in 0 .. Len(text) /\ to \in from .. Len(text) /\ start \in from .. Len(text)
      /\ MaxChars \in Nat \ {0} /\ Overlap \in 0 .. MaxChars - 1
  BY TextType, SizesAssumption DEF TypeOK
<1>1. CASE Extend
  <2>1. to \in 0 .. Len(text) - 1
    BY <1>1, <1>0 DEF Extend, More
  <2>2. /\ SpanEnd(to) \in to + 1 .. Len(text)
        /\ SpanEnd(to) = Len(text) \/ Boundary(SpanEnd(to))
    BY <2>1, SpanEndType DEF TypeOK
  <2>3. Quiet
    BY <1>1, <1>0, <2>2 DEF Extend, Quiet
  <2>4. QED
    BY <2>3
<1>2. CASE Whole
  <2>1. LastWindow(to)
    BY <1>2, <1>0 DEF Whole, LastWindow, Append1, Place, Fits
  <2>2. QED
    BY <2>1, <1>0
<1>3. CASE Long
  <2>1. Quiet
    BY <1>3, <1>0 DEF Long, Quiet
  <2>2. QED
    BY <2>1
<1>4. CASE Cut
  <2> DEFINE end == Smaller(to, start + MaxChars)
  <2>1. /\ pc = "cut" /\ start < to
        /\ chunks' = chunks \o Chunk(start, end, LineIndex(from))
        /\ UNCHANGED <<text, structured>>
    BY <1>4 DEF Cut, Place
  <2>2. end \in start + 1 .. to /\ end - start <= MaxChars
    BY <1>0, <2>1 DEF Smaller
  <2>3. Append1(end) /\ end \in Nat
    BY <1>0, <2>1, <2>2 DEF Append1
  <2>4. CASE end >= to
    <3>1. end = to
      BY <2>2, <2>4, <1>0
    <3>2. NextSection
      BY <1>4, <2>4 DEF Cut
    <3>3. QED
      BY <2>3, <3>1, <3>2 DEF LastWindow
  <2>5. CASE ~(end >= to)
    <3>1. end < to /\ end = start + MaxChars
      BY <2>2, <2>5, <1>0 DEF Smaller
    <3>2. start' = NextStart(end) /\ UNCHANGED <<pc, from, to>>
      BY <1>4, <2>5 DEF Cut
    <3>3. NextStart(end) = end - Overlap
      BY <3>1, <1>0 DEF NextStart, Larger
    <3>4. QED
      BY <2>1, <2>3, <3>1, <3>2, <3>3 DEF Slides
  <2>6. QED
    BY <2>4, <2>5
<1>5. CASE UNCHANGED vars
  BY <1>5
<1>6. QED
  BY <1>1, <1>2, <1>3, <1>4, <1>5 DEF Next
LEMMA InitPlaced == Init => TypeOK /\ Place
<1> SUFFICES ASSUME Init PROVE TypeOK /\ Place
  OBVIOUS
<1>0. Len(text) \in Nat /\ text \in Texts
  BY TextType DEF Init
<1>1. CASE text = <<>>
  <2>1. Len(text) = 0
    BY <1>1
  <2>2. QED
    BY <1>1, <2>1 DEF Init, TypeOK, Place
<1>2. CASE text # <<>>
  <2>1. Len(text) > 0
    BY <1>0, <1>2, TextType
  <2>2. /\ SpanEnd(0) \in 1 .. Len(text)
        /\ SpanEnd(0) = Len(text) \/ Boundary(SpanEnd(0))
    BY <1>0, <2>1, SpanEndType
  <2>3. pc = "pack" /\ from = 0 /\ start = 0 /\ to = SpanEnd(0) /\ chunks = <<>>
    BY <1>2 DEF Init
  <2>4. TypeOK
    BY <1>0, <2>2, <2>3 DEF Init, TypeOK
  <2>5. Place
    BY <1>0, <2>2, <2>3 DEF Place
  <2>6. QED
    BY <2>4, <2>5
<1>3. QED
  BY <1>1, <1>2

LEMMA NextPlaced == TypeOK /\ Place /\ [Next]_vars => TypeOK' /\ Place'
<1> SUFFICES ASSUME TypeOK, Place, [Next]_vars PROVE TypeOK' /\ Place'
  OBVIOUS
<1>0. /\ Len(text) \in Nat
      /\ from \in 0 .. Len(text) /\ to \in from .. Len(text) /\ start \in from .. Len(text)
      /\ MaxChars \in Nat \ {0} /\ Overlap \in 0 .. MaxChars - 1
      /\ text \in Texts /\ chunks \in Seq(ChunkType)
  BY TextType, SizesAssumption DEF TypeOK, ChunkType
<1>1. CASE Quiet
  <2>1. TypeOK'
    BY <1>0, <1>1 DEF TypeOK, Quiet
  <2>3. Boundary(to)' = Boundary(to')
    BY <1>1 DEF Quiet, Boundary, LineStart
  <2>4. Place'
    BY <1>0, <1>1, <2>3 DEF Place, Quiet
  <2>5. QED
    BY <2>1, <2>4
<1>2. ASSUME NEW end \in Nat, LastWindow(end) PROVE TypeOK' /\ Place'
  <2>1. chunks' \in Seq(ChunkType)
    <3>1. /\ from \in Nat /\ start \in Nat /\ end \in start .. Len(text)
          /\ chunks' = chunks \o Chunk(start, end, LineIndex(from))
      BY <1>0, <1>2 DEF LastWindow, Append1
    <3>2. QED
      BY <1>0, <3>1, Appended DEF AtMostOneMore
  <2>2. /\ end = to /\ from' = to /\ start' = to
        /\ UNCHANGED <<text, structured>>
    BY <1>2 DEF LastWindow, Append1, NextSection
  <2>3. CASE to = Len(text)
    <3>1. pc' = "done" /\ to' = to
      BY <1>2, <2>3 DEF LastWindow, NextSection
    <3>2. TypeOK'
      BY <1>0, <2>1, <2>2, <3>1 DEF TypeOK, ChunkType
    <3>3. Place'
      BY <1>0, <2>2, <2>3, <3>1 DEF Place
    <3>4. QED
      BY <3>2, <3>3
  <2>4. CASE to # Len(text)
    <3>1. pc' = "pack" /\ to' = SpanEnd(to)
      BY <1>2, <2>4 DEF LastWindow, NextSection
    <3>2. /\ SpanEnd(to) \in to + 1 .. Len(text)
          /\ SpanEnd(to) = Len(text) \/ Boundary(SpanEnd(to))
      BY <1>0, <2>4, SpanEndType
    <3>3. Boundary(to)' = Boundary(to')
      BY <2>2 DEF Boundary, LineStart
    <3>4. TypeOK'
      BY <1>0, <2>1, <2>2, <3>1, <3>2 DEF TypeOK, ChunkType
    <3>5. Place'
      BY <1>0, <2>2, <3>1, <3>2, <3>3 DEF Place
    <3>6. QED
      BY <3>4, <3>5
  <2>5. QED
    BY <2>3, <2>4
<1>3. ASSUME NEW end \in Nat, Slides(end) PROVE TypeOK' /\ Place'
  <2>1. chunks' \in Seq(ChunkType)
    <3>1. /\ from \in Nat /\ start \in Nat /\ end \in start .. Len(text)
          /\ chunks' = chunks \o Chunk(start, end, LineIndex(from))
      BY <1>0, <1>3 DEF Slides, Append1
    <3>2. QED
      BY <1>0, <3>1, Appended DEF AtMostOneMore
  <2>2. /\ end \in start + 1 .. to /\ end < to /\ end = start + MaxChars
        /\ pc = "cut" /\ start' = end - Overlap
        /\ UNCHANGED <<text, structured, pc, from, to>>
    BY <1>3 DEF Slides, Append1
  <2>3. start' \in start .. to /\ start' < to
    BY <1>0, <2>2
  <2>4. TypeOK'
    BY <1>0, <2>1, <2>2, <2>3 DEF TypeOK, ChunkType
  <2>5. Boundary(to)' = Boundary(to)
    BY <2>2 DEF Boundary, LineStart
  <2>6. Place'
    BY <1>0, <2>2, <2>3, <2>5 DEF Place
  <2>7. QED
    BY <2>4, <2>6
<1>4. CASE UNCHANGED vars
  <2>1. TypeOK'
    BY <1>4 DEF vars, TypeOK
  <2>2. Boundary(to)' = Boundary(to)
    BY <1>4 DEF vars, Boundary, LineStart
  <2>3. Place'
    BY <1>4, <2>2 DEF vars, Place
  <2>4. QED
    BY <2>1, <2>3
<1>5. QED
  BY <1>1, <1>2, <1>3, <1>4, Steps

\* The variables keep their types, for every MaxChars and every document.
THEOREM TypeCorrect == Spec => []TypeOK
<1>1. Spec => [](TypeOK /\ Place)
  BY InitPlaced, NextPlaced, PTL DEF Spec
<1>2. QED
  BY <1>1, PTL
-----------------------------------------------------------------------------
(* No phrase is lost: what begins before the current window and is short      *)
(* enough to be promised is held already.                                    *)

Phrase(a, b) ==
    /\ a < b /\ b - a <= Overlap + 1
    /\ text[a + 1] \in Visible /\ text[b] \in Visible
    /\ \A p \in a + 1 .. b - 1 : ~Boundary(p)

ChunksFit == \A i \in DOMAIN chunks : chunks[i].to - chunks[i].from <= MaxChars

PhrasesHeld ==
    \A a, b \in 0 .. Len(text) :
        Phrase(a, b) /\ a < start => \E i \in DOMAIN chunks : Holds(chunks[i], a, b)

LEMMA AppendedFits ==
    ASSUME TypeOK, Place, ChunksFit, NEW end \in Nat, Append1(end)
    PROVE  ChunksFit'
<1> DEFINE added == Chunk(start, end, LineIndex(from))
<1>1. /\ from \in Nat /\ start \in Nat /\ end \in start .. Len(text)
      /\ end - start <= MaxChars /\ MaxChars \in Nat
      /\ added = Chunk(start, end, LineIndex(from)) /\ chunks' = chunks \o added
      /\ text \in Texts /\ Len(text) \in Nat /\ chunks \in Seq(ChunkType)
  <2>1. /\ text \in Texts /\ Len(text) \in Nat /\ chunks \in Seq(ChunkType)
        /\ from \in 0 .. Len(text) /\ to \in from .. Len(text) /\ start \in from .. Len(text)
        /\ MaxChars \in Nat
    BY TextType, SizesAssumption DEF TypeOK, ChunkType
  <2>2. /\ end \in start + 1 .. to /\ end - start <= MaxChars
        /\ added = Chunk(start, end, LineIndex(from)) /\ chunks' = chunks \o added
    BY DEF Append1
  <2>3. QED
    BY <2>1, <2>2
<1> HIDE DEF added
<1>2. AtMostOneMore(chunks, added, chunks')
  BY <1>1, Appended
<1>3. Len(added) = 1 => added[1].from \in start .. end /\ added[1].to \in start .. end
  BY <1>1, LineIndexType, ChunkFields
<1>4. SUFFICES ASSUME NEW i \in DOMAIN chunks'
               PROVE  chunks'[i].to - chunks'[i].from <= MaxChars
  BY DEF ChunksFit
<1>5. CASE i \in DOMAIN chunks
  BY <1>2, <1>5 DEF ChunksFit, AtMostOneMore
<1>6. CASE i \notin DOMAIN chunks
  <2>1. Len(added) = 1 /\ chunks'[i] = added[1]
    BY <1>2, <1>6 DEF AtMostOneMore
  <2>2. chunks'[i].from \in start .. end /\ chunks'[i].to \in start .. end
    BY <1>3, <2>1
  <2>3. QED
    <3>1. PICK f, t \in start .. end : f = chunks'[i].from /\ t = chunks'[i].to
      BY <2>2
    <3>2. t - f <= MaxChars
      <4>1. end - start <= MaxChars
        BY <1>1
      <4>2. start \in Nat /\ end \in Nat
        BY <1>1
      <4>3. MaxChars \in Nat
        BY <1>1
      <4>4. t \in start .. end /\ f \in start .. end
        BY <3>1
      <4>5. QED
        BY <4>1, <4>2, <4>3, <4>4
    <3>3. QED
      BY <3>1, <3>2
<1>7. QED
  BY <1>5, <1>6

LEMMA AppendedHolds ==
    ASSUME TypeOK, Place, PhrasesHeld, NEW end \in Nat, Append1(end),
           NEW a \in 0 .. Len(text), NEW b \in 0 .. Len(text), Phrase(a, b),
           a < start \/ b <= end
    PROVE  \E i \in DOMAIN chunks' : Holds(chunks'[i], a, b)
<1> DEFINE added == Chunk(start, end, LineIndex(from))
<1>1. /\ from \in Nat /\ start \in Nat /\ end \in start .. Len(text)
      /\ added = Chunk(start, end, LineIndex(from)) /\ chunks' = chunks \o added
      /\ text \in Texts /\ Len(text) \in Nat /\ chunks \in Seq(ChunkType)
  BY TextType DEF TypeOK, Append1, ChunkType
<1> HIDE DEF added
<1>2. AtMostOneMore(chunks, added, chunks')
  BY <1>1, Appended
<1>3. CASE a < start
  <2>1. PICK i \in DOMAIN chunks : Holds(chunks[i], a, b)
    BY <1>3 DEF PhrasesHeld
  <2>2. QED
    BY <1>2, <2>1 DEF AtMostOneMore
<1>4. CASE ~(a < start)
  <2>1. /\ a \in Nat /\ b \in Nat /\ start <= a /\ a < b /\ b <= end
        /\ text[a + 1] \in Visible /\ text[b] \in Visible
    BY <1>1, <1>4 DEF Phrase
  <2>2. Len(added) = 1 /\ Holds(added[1], a, b)
    BY <1>1, <2>1, LineIndexType, ChunkHolds
  <2>3. QED
    BY <1>2, <2>2 DEF AtMostOneMore
<1>5. QED
  BY <1>3, <1>4

LEMMA NextHeld ==
    TypeOK /\ Place /\ ChunksFit /\ PhrasesHeld /\ [Next]_vars
        => ChunksFit' /\ PhrasesHeld'
<1> SUFFICES ASSUME TypeOK, Place, ChunksFit, PhrasesHeld, [Next]_vars
             PROVE  ChunksFit' /\ PhrasesHeld'
  OBVIOUS
<1>0. /\ Len(text) \in Nat
      /\ from \in 0 .. Len(text) /\ to \in from .. Len(text) /\ start \in from .. Len(text)
      /\ MaxChars \in Nat \ {0} /\ Overlap \in 0 .. MaxChars - 1
  BY TextType, SizesAssumption DEF TypeOK
<1>1. ASSUME UNCHANGED <<text, structured>>
      PROVE  \A a, b : Phrase(a, b)' <=> Phrase(a, b)
  BY <1>1 DEF Phrase, Boundary, LineStart
<1>2. CASE UNCHANGED <<text, structured, start, chunks>>
  <2>1. \A a, b : Phrase(a, b)' <=> Phrase(a, b)
    BY <1>1, <1>2
  <2>2. PhrasesHeld'
    BY <1>2, <2>1 DEF PhrasesHeld, Holds
  <2>3. QED
    BY <1>2, <2>2 DEF ChunksFit
<1>3. ASSUME NEW end \in Nat, Append1(end),
             \A a, b \in 0 .. Len(text) : Phrase(a, b) /\ a < start' => a < start \/ b <= end
      PROVE  ChunksFit' /\ PhrasesHeld'
  <2>1. \A a, b : Phrase(a, b)' <=> Phrase(a, b)
    BY <1>1, <1>3 DEF Append1
  <2>2. SUFFICES ASSUME NEW a \in 0 .. Len(text), NEW b \in 0 .. Len(text),
                        Phrase(a, b), a < start'
                 PROVE  \E i \in DOMAIN chunks' : Holds(chunks'[i], a, b)
    BY <1>3, <2>1, AppendedFits DEF PhrasesHeld, Holds, Append1
  <2>3. a < start \/ b <= end
    BY <1>3, <2>2
  <2>4. QED
    BY <1>3, <2>2, <2>3, AppendedHolds
<1>4. ASSUME NEW end \in Nat, LastWindow(end) PROVE ChunksFit' /\ PhrasesHeld'
  <2>1. Append1(end) /\ end = to /\ start' = to
    BY <1>4 DEF LastWindow, NextSection
  <2>2. to = Len(text) \/ Boundary(to)
    <3>1. pc = "done" => from = to /\ from = Len(text)
      BY DEF Place
    <3>2. QED
      BY <3>1 DEF Place, TypeOK
  <2>3. \A a, b \in 0 .. Len(text) : Phrase(a, b) /\ a < start' => b <= end
    <3>1. SUFFICES ASSUME NEW a \in 0 .. Len(text), NEW b \in 0 .. Len(text),
                          Phrase(a, b), a < to, ~(b <= to)
                   PROVE  FALSE
      BY <2>1
    <3>2. to # Len(text) /\ to \in a + 1 .. b - 1
      BY <1>0, <3>1
    <3>3. QED
      BY <2>2, <3>1, <3>2 DEF Phrase
  <2>4. QED
    BY <1>3, <2>1, <2>3
<1>5. ASSUME NEW end \in Nat, Slides(end) PROVE ChunksFit' /\ PhrasesHeld'
  <2>1. Append1(end) /\ start' = end - Overlap
    BY <1>5 DEF Slides
  <2>2. \A a, b \in 0 .. Len(text) : Phrase(a, b) /\ a < start' => b <= end
    <3>1. SUFFICES ASSUME NEW a \in 0 .. Len(text), NEW b \in 0 .. Len(text),
                          b - a <= Overlap + 1, a < end - Overlap
                   PROVE  b <= end
      BY <2>1 DEF Phrase
    <3>2. QED
      BY <1>0, <3>1
  <2>3. QED
    BY <1>3, <2>1, <2>2
<1>6. QED
  BY <1>2, <1>4, <1>5, Steps DEF Quiet, vars

\* Whatever the sizes and the document, everything short enough that can be
\* read in one section can be read in one chunk (chunking.py).
THEOREM PhrasesAreKept == Spec => []PhrasesKept
<1> DEFINE HeldInv == TypeOK /\ Place /\ ChunksFit /\ PhrasesHeld
<1>1. Init => HeldInv
  <2>1. Init => chunks = <<>> /\ start = 0
    BY DEF Init
  <2>2. chunks = <<>> => ChunksFit
    BY DEF ChunksFit
  <2>3. TypeOK /\ start = 0 => PhrasesHeld
    BY TextType DEF PhrasesHeld, TypeOK
  <2>4. QED
    BY <2>1, <2>2, <2>3, InitPlaced
<1>2. HeldInv /\ [Next]_vars => HeldInv'
  BY NextPlaced, NextHeld
<1>3. HeldInv => PhrasesKept
  <2>1. SUFFICES ASSUME HeldInv, pc = "done",
                        NEW a \in 0 .. Len(text), NEW b \in 0 .. Len(text), Phrase(a, b)
                 PROVE  \E i \in DOMAIN chunks : Holds(chunks[i], a, b)
    BY DEF PhrasesKept, Phrase, ChunksFit
  <2>2. a < start
    BY <2>1, TextType DEF Phrase, Place, TypeOK
  <2>3. QED
    BY <2>1, <2>2 DEF PhrasesHeld
<1>4. QED
  BY <1>1, <1>2, <1>3, PTL DEF Spec
-----------------------------------------------------------------------------
(* Lines.  Without form feeds splitlines and line feeds count alike, so the    *)
(* lines of a chunk are those of its window.                                  *)

NoFormFeed == \A p \in DOMAIN text : text[p] # "f"

LinesNamed ==
    NoFormFeed =>
        \A i \in DOMAIN chunks :
            LET c == chunks[i]
            IN  /\ c.first <= Newlines(0, c.from) + 1
                /\ Newlines(0, c.to - 1) + 1 <= c.last

\* The line a section begins on.
LEMMA LineIndexIsNewlines ==
    ASSUME text \in Texts, NoFormFeed, NEW o \in 0 .. Len(text) - 1
    PROVE  LineIndex(o) = Newlines(0, o)
<1>1. Len(text) \in Nat /\ DOMAIN text = 1 .. Len(text)
  BY TextType
<1>2. \A p \in 1 .. o : LineStart(p) <=> text[p] = "n"
  BY <1>1 DEF LineStart, Breaks, NoFormFeed
<1>3. {p \in 1 .. o : LineStart(p)} = {p \in 0 + 1 .. o : text[p] = "n"}
  BY <1>2
<1>4. QED
  BY <1>3 DEF LineIndex, Newlines

\* The chunk of a window ends where its last visible character does, and holds
\* one: it is not empty.
LEMMA ChunkLines ==
    ASSUME text \in Texts, NoFormFeed, from \in Nat, from < Len(text),
           NEW a \in Nat, from <= a, NEW b \in a .. Len(text),
           Len(Chunk(a, b, LineIndex(from))) = 1
    PROVE  LET c == Chunk(a, b, LineIndex(from))[1]
           IN  /\ c.first <= Newlines(0, c.from) + 1
               /\ Newlines(0, c.to - 1) + 1 <= c.last
<1> DEFINE c == Chunk(a, b, LineIndex(from))[1]
<1>0. Len(text) \in Nat /\ b \in Nat
  BY TextType
<1>1. PICK m \in a + 1 .. b, n \in a + 1 .. b :
          Chunk(a, b, LineIndex(from)) =
              <<[from |-> m - 1, to |-> n,
                 first |-> LineIndex(from) + Newlines(from, a) + 1,
                 last |-> LineIndex(from) + Newlines(from, b) + 1]>>
  <2>1. Chunk(a, b, LineIndex(from)) # <<>>
    BY EmptySeq
  <2>2. QED
    BY <2>1, ChunkShape
<1>2. /\ c.from = m - 1 /\ c.to = n
      /\ c.first = LineIndex(from) + Newlines(from, a) + 1
      /\ c.last = LineIndex(from) + Newlines(from, b) + 1
  BY <1>1
<1>3. LineIndex(from) = Newlines(0, from)
  BY <1>0, LineIndexIsNewlines
<1>4. /\ Newlines(0, from) + Newlines(from, a) = Newlines(0, a)
      /\ Newlines(0, from) + Newlines(from, b) = Newlines(0, b)
  BY <1>0, NewlinesAdd
<1>5. /\ m - 1 \in Nat /\ a <= m - 1 /\ n - 1 \in Nat /\ n - 1 <= b
  BY <1>0
<1>6. Newlines(0, a) <= Newlines(0, m - 1) /\ Newlines(0, n - 1) <= Newlines(0, b)
  BY <1>0, <1>5, NewlinesGrow
<1>7. /\ Newlines(0, a) \in Nat /\ Newlines(0, b) \in Nat
      /\ Newlines(0, m - 1) \in Nat /\ Newlines(0, n - 1) \in Nat
  BY <1>0, <1>5, NewlinesType
<1> HIDE DEF c
<1>8. c.first = Newlines(0, a) + 1 /\ c.last = Newlines(0, b) + 1
  BY <1>2, <1>3, <1>4
<1>9. c.first <= Newlines(0, c.from) + 1
  BY <1>2, <1>6, <1>7, <1>8
<1>10. Newlines(0, c.to - 1) + 1 <= c.last
  BY <1>2, <1>6, <1>7, <1>8
<1>11. QED
  BY <1>9, <1>10 DEF c

LEMMA NextNamed ==
    TypeOK /\ Place /\ LinesNamed /\ [Next]_vars => LinesNamed'
<1> SUFFICES ASSUME TypeOK, Place, LinesNamed, [Next]_vars
             PROVE  LinesNamed'
  OBVIOUS
<1>1. CASE UNCHANGED <<text, chunks>>
  BY <1>1 DEF LinesNamed, NoFormFeed, Newlines
<1>2. ASSUME NEW end \in Nat, Append1(end) PROVE LinesNamed'
  <2> DEFINE added == Chunk(start, end, LineIndex(from))
             Named(c) == /\ c.first <= Newlines(0, c.from) + 1
                         /\ Newlines(0, c.to - 1) + 1 <= c.last
  <2>1. /\ text \in Texts /\ Len(text) \in Nat /\ chunks \in Seq(ChunkType)
        /\ from \in 0 .. Len(text) /\ to \in from .. Len(text) /\ start \in from .. Len(text)
    BY TextType DEF TypeOK, ChunkType
  <2>2. /\ end \in start + 1 .. to /\ text' = text
        /\ added = Chunk(start, end, LineIndex(from)) /\ chunks' = chunks \o added
    BY <1>2 DEF Append1
  <2>3. /\ from \in Nat /\ start \in Nat /\ end \in start .. Len(text)
        /\ from <= start /\ from < Len(text)
    BY <2>1, <2>2
  <2>4. NoFormFeed /\ Len(added) = 1 => Named(added[1])
    BY <2>1, <2>3, ChunkLines
  <2> HIDE DEF added
  <2>5. AtMostOneMore(chunks, added, chunks')
    BY <2>1, <2>2, <2>3, Appended
  <2>6. NoFormFeed => \A i \in DOMAIN chunks : Named(chunks[i])
    BY DEF LinesNamed
  <2> HIDE DEF Named
  <2>7. NoFormFeed => \A i \in DOMAIN chunks' : Named(chunks'[i])
    BY <2>4, <2>5, <2>6 DEF AtMostOneMore
  <2>8. \A a : Newlines(0, a) = Cardinality({p \in 0 + 1 .. a : text'[p] = "n"})
    BY <2>2 DEF Newlines
  <2>9. NoFormFeed' = NoFormFeed
    BY <2>2 DEF NoFormFeed
  <2>10. NoFormFeed' => \A i \in DOMAIN chunks' :
             /\ chunks'[i].first <= Newlines(0, chunks'[i].from) + 1
             /\ Newlines(0, chunks'[i].to - 1) + 1 <= chunks'[i].last
    BY <2>7, <2>9 DEF Named
  <2>11. NoFormFeed' => \A i \in DOMAIN chunks' :
             /\ chunks'[i].first
                    <= Cardinality({p \in 0 + 1 .. chunks'[i].from : text'[p] = "n"}) + 1
             /\ Cardinality({p \in 0 + 1 .. chunks'[i].to - 1 : text'[p] = "n"}) + 1
                    <= chunks'[i].last
    BY <2>8, <2>10
  <2>12. QED
    BY <2>11 DEF LinesNamed, Newlines
<1>3. QED
  BY <1>1, <1>2, Steps DEF Quiet, LastWindow, Slides, vars

\* The lines a citation names hold the chunk's text, in every document without
\* form feeds (chunking.py:69).
THEOREM LinesAreHeld == Spec => []LinesHold
<1> DEFINE NamedInv == TypeOK /\ Place /\ LinesNamed
<1>1. Init => NamedInv
  <2>1. Init => chunks = <<>>
    BY DEF Init
  <2>2. chunks = <<>> => LinesNamed
    BY DEF LinesNamed
  <2>3. QED
    BY <2>1, <2>2, InitPlaced
<1>2. NamedInv /\ [Next]_vars => NamedInv'
  BY NextPlaced, NextNamed
<1>3. NamedInv => LinesHold
  BY DEF LinesHold, LinesNamed, NoFormFeed
<1>4. QED
  BY <1>1, <1>2, <1>3, PTL DEF Spec
-----------------------------------------------------------------------------
(* Ids.  Where lines are short, each chunk begins on a later line than those   *)
(* before it, and on no later line than the current window (Fence).           *)

Fence == LineIndex(from) + Newlines(from, start) + 1

FirstsRise ==
    ShortLines =>
        /\ \A i, j \in DOMAIN chunks : i < j => chunks[i].first < chunks[j].first
        /\ pc # "done" => \A i \in DOMAIN chunks : chunks[i].first < Fence

\* A section begins on a later line than the windows of the one before.
LEMMA SectionsRise ==
    ASSUME text \in Texts, NEW o \in Nat, NEW a \in Nat, NEW e \in Nat,
           o <= a, a < e, e < Len(text), Boundary(e)
    PROVE  LineIndex(o) + Newlines(o, a) < LineIndex(e)
<1> DEFINE Earlier == {p \in 1 .. o : LineStart(p)}
           Between == {p \in o + 1 .. a : text[p] = "n"}
           All == {p \in 1 .. e : LineStart(p)}
<1>0. Len(text) \in Nat
  BY TextType
<1>1. IsFiniteSet(1 .. o) /\ IsFiniteSet(o + 1 .. a) /\ IsFiniteSet(1 .. e)
  <2>1. 1 \in Int /\ o \in Int /\ o + 1 \in Int /\ a \in Int /\ e \in Int
    OBVIOUS
  <2>2. QED
    BY <2>1, FS_Interval
<1>2. /\ Earlier \in SUBSET (1 .. o) /\ Between \in SUBSET (o + 1 .. a)
      /\ All \in SUBSET (1 .. e)
  OBVIOUS
<1>3. Earlier \cap Between = {}
  OBVIOUS
<1>4. e \in All
  BY DEF Boundary
<1>5. e \notin Earlier \cup Between
  OBVIOUS
<1>6. (Earlier \cup Between) \cup {e} \subseteq All
  <2>1. \A p \in o + 1 .. a : text[p] = "n" => LineStart(p)
    BY <1>0 DEF LineStart, Breaks
  <2>2. QED
    BY <2>1, <1>4
<1>7. /\ Cardinality(Earlier) = LineIndex(o)
      /\ Cardinality(Between) = Newlines(o, a)
      /\ Cardinality(All) = LineIndex(e)
  BY DEF LineIndex, Newlines
<1> HIDE DEF Earlier, Between, All
<1>8. IsFiniteSet(Earlier) /\ IsFiniteSet(Between) /\ IsFiniteSet(All)
  BY <1>1, <1>2, FS_Subset
<1>9. /\ IsFiniteSet(Earlier \cup Between)
      /\ Cardinality(Earlier \cup Between)
            = Cardinality(Earlier) + Cardinality(Between) - Cardinality(Earlier \cap Between)
  BY <1>8, FS_Union
<1>10. Cardinality(Earlier \cap Between) = 0
  BY <1>3, FS_EmptySet
<1>11. /\ IsFiniteSet((Earlier \cup Between) \cup {e})
       /\ Cardinality((Earlier \cup Between) \cup {e}) = Cardinality(Earlier \cup Between) + 1
  BY <1>5, <1>9, FS_AddElement
<1>12. Cardinality((Earlier \cup Between) \cup {e}) <= Cardinality(All)
  BY <1>6, <1>8, FS_Subset
<1>13. /\ Cardinality(Earlier) \in Nat /\ Cardinality(Between) \in Nat
       /\ Cardinality(All) \in Nat
  BY <1>8, FS_CardinalityType
<1>14. Cardinality(Earlier) + Cardinality(Between) < Cardinality(All)
  BY <1>9, <1>10, <1>11, <1>12, <1>13
<1>15. QED
  BY <1>7, <1>14

LEMMA FirstsType ==
    ASSUME chunks \in Seq(ChunkType)
    PROVE  /\ DOMAIN chunks = 1 .. Len(chunks) /\ Len(chunks) \in Nat
           /\ \A i \in DOMAIN chunks : chunks[i].first \in Nat
<1>1. /\ DOMAIN chunks = 1 .. Len(chunks) /\ Len(chunks) \in Nat
      /\ \A i \in 1 .. Len(chunks) : chunks[i] \in ChunkType
  BY LenProperties, ElementOfSeq
<1>2. \A c \in ChunkType : c.first \in Nat
  BY DEF ChunkType
<1>3. QED
  BY <1>1, <1>2

\* The fence rises with every window.
LEMMA FenceRises ==
    ASSUME TypeOK, Place, ShortLines, NEW end \in Nat, LastWindow(end) \/ Slides(end),
           pc' # "done"
    PROVE  Fence \in Nat /\ Fence' \in Nat /\ Fence < Fence'
<1>0. /\ text \in Texts /\ Len(text) \in Nat
      /\ from \in 0 .. Len(text) /\ to \in from .. Len(text) /\ start \in from .. Len(text)
      /\ MaxChars \in Nat \ {0} /\ Overlap \in 0 .. MaxChars - 1
  BY TextType, SizesAssumption DEF TypeOK
<1>1. CASE LastWindow(end)
  <2>1. /\ end \in start + 1 .. to /\ end = to
        /\ from' = to /\ start' = to /\ text' = text /\ to # Len(text)
    BY <1>1 DEF LastWindow, Append1, NextSection
  <2>2. Boundary(to)
    <3>1. pc = "done" => to = Len(text)
      BY DEF Place
    <3>2. QED
      BY <2>1, <3>1 DEF Place
  <2>3. LineIndex(from) + Newlines(from, start) < LineIndex(to)
    BY <1>0, <2>1, <2>2, SectionsRise
  <2>4. Fence' = LineIndex(to) + Newlines(to, to) + 1
    BY <2>1 DEF Fence, LineIndex, Newlines, LineStart
  <2>5. /\ LineIndex(from) \in Nat /\ LineIndex(to) \in Nat
        /\ Newlines(from, start) \in Nat /\ Newlines(to, to) \in Nat
    <3>1. from \in Nat /\ to \in Nat /\ start \in Nat
      BY <1>0
    <3>2. QED
      BY <3>1, LineIndexType, NewlinesType
  <2>6. QED
    BY <2>3, <2>4, <2>5 DEF Fence
<1>2. CASE Slides(end)
  <2>1. /\ end \in start + 1 .. to /\ end < to /\ end = start + MaxChars
        /\ start' = end - Overlap /\ from' = from /\ text' = text
    BY <1>2 DEF Slides, Append1
  <2> DEFINE next == start + (MaxChars - Overlap)
  <2>2. /\ start' = next /\ next \in Nat /\ start \in Nat /\ from \in Nat
        /\ from <= start /\ start <= next
        /\ start \in 0 .. Len(text) - (MaxChars - Overlap)
    BY <1>0, <2>1
  <2>3. \E p \in start + 1 .. next : text[p] = "n"
    BY <2>2 DEF ShortLines
  <2> HIDE DEF next
  <2>4. Newlines(from, start) < Newlines(from, next)
    BY <2>2, <2>3, NewlinesGrow
  <2>5. Fence' = LineIndex(from) + Newlines(from, next) + 1
    BY <2>1, <2>2 DEF Fence, LineIndex, Newlines, LineStart
  <2>6. /\ LineIndex(from) \in Nat
        /\ Newlines(from, start) \in Nat /\ Newlines(from, next) \in Nat
    BY <2>2, LineIndexType, NewlinesType
  <2>7. QED
    BY <2>4, <2>5, <2>6 DEF Fence
<1>3. QED
  BY <1>1, <1>2

LEMMA NextRises ==
    TypeOK /\ Place /\ FirstsRise /\ [Next]_vars => FirstsRise'
<1> SUFFICES ASSUME TypeOK, Place, FirstsRise, [Next]_vars PROVE FirstsRise'
  OBVIOUS
<1>0. /\ text \in Texts /\ Len(text) \in Nat /\ chunks \in Seq(ChunkType)
      /\ from \in 0 .. Len(text) /\ to \in from .. Len(text) /\ start \in from .. Len(text)
  BY TextType DEF TypeOK, ChunkType
<1>1. CASE Quiet
  <2>1. /\ UNCHANGED <<text, from, start, chunks>> /\ pc # "done"
    BY <1>1 DEF Quiet
  <2>2. ShortLines' = ShortLines /\ Fence' = Fence
    BY <2>1 DEF ShortLines, Fence, LineIndex, Newlines, LineStart
  <2>3. QED
    BY <2>1, <2>2 DEF FirstsRise
<1>2. CASE UNCHANGED vars
  <2>1. UNCHANGED <<text, from, start, chunks, pc>>
    BY <1>2 DEF vars
  <2>2. ShortLines' = ShortLines /\ Fence' = Fence
    BY <2>1 DEF ShortLines, Fence, LineIndex, Newlines, LineStart
  <2>3. QED
    BY <2>1, <2>2 DEF FirstsRise
<1>3. ASSUME NEW end \in Nat, LastWindow(end) \/ Slides(end) PROVE FirstsRise'
  <2> DEFINE added == Chunk(start, end, LineIndex(from))
  <2>1. /\ end \in start + 1 .. to /\ text' = text
        /\ added = Chunk(start, end, LineIndex(from)) /\ chunks' = chunks \o added
    BY <1>3 DEF LastWindow, Slides, Append1
  <2>2. /\ from \in Nat /\ start \in Nat /\ end \in start .. Len(text)
        /\ from < Len(text)
    BY <1>0, <2>1
  <2>3. pc # "done"
    BY <1>0, <2>1 DEF Place
  <2>4. Len(added) = 1 => added[1].first = Fence
    BY <1>0, <2>2, LineIndexType, ChunkFields DEF Fence
  <2> HIDE DEF added
  <2>5. AtMostOneMore(chunks, added, chunks')
    BY <1>0, <2>1, <2>2, Appended
  <2>6. /\ DOMAIN chunks = 1 .. Len(chunks) /\ Len(chunks) \in Nat
        /\ \A i \in DOMAIN chunks : chunks[i].first \in Nat
    BY <1>0, FirstsType
  <2>7. ShortLines' = ShortLines
    BY <2>1 DEF ShortLines
  <2>8. SUFFICES ASSUME ShortLines
                 PROVE  /\ \A i, j \in DOMAIN chunks' :
                              i < j => chunks'[i].first < chunks'[j].first
                        /\ pc' # "done" =>
                              \A i \in DOMAIN chunks' : chunks'[i].first < Fence'
    BY <2>7 DEF FirstsRise
  <2>9. \A i \in DOMAIN chunks' :
            \/ /\ i \in DOMAIN chunks
               /\ chunks'[i] = chunks[i]
               /\ chunks'[i].first < Fence
            \/ /\ i = Len(chunks) + 1
               /\ chunks'[i].first = Fence
    BY <2>3, <2>4, <2>5, <2>8 DEF AtMostOneMore, FirstsRise
  <2>10. ASSUME NEW i \in DOMAIN chunks', NEW j \in DOMAIN chunks', i < j
         PROVE  chunks'[i].first < chunks'[j].first
    <3>1. i \in DOMAIN chunks /\ chunks'[i] = chunks[i] /\ chunks'[i].first < Fence
      BY <2>6, <2>9, <2>10
    <3>2. CASE j \in DOMAIN chunks /\ chunks'[j] = chunks[j]
      BY <2>8, <2>10, <3>1, <3>2 DEF FirstsRise
    <3>3. CASE chunks'[j].first = Fence
      BY <3>1, <3>3
    <3>4. QED
      BY <2>9, <3>2, <3>3
  <2>11. ASSUME pc' # "done", NEW i \in DOMAIN chunks'
         PROVE  chunks'[i].first < Fence'
    <3>1. Fence < Fence' /\ Fence \in Nat /\ Fence' \in Nat
      BY <1>3, <2>8, <2>11, FenceRises
    <3>3. CASE chunks'[i].first = Fence
      BY <3>1, <3>3
    <3>4. CASE chunks'[i].first < Fence /\ i \in DOMAIN chunks /\ chunks'[i] = chunks[i]
      <4>1. chunks'[i].first \in Nat
        BY <2>6, <3>4
      <4>2. QED
        BY <3>1, <3>4, <4>1
    <3>5. QED
      BY <2>9, <3>3, <3>4
  <2>12. QED
    BY <2>10, <2>11
<1>4. QED
  BY <1>1, <1>2, <1>3, Steps

\* No two chunks of a document with short lines get one id, whatever their
\* texts: they begin on different lines (indexer.py:409).
THEOREM IdsAreDifferent == Spec => []IdsDiffer
<1> DEFINE RiseInv == TypeOK /\ Place /\ FirstsRise
<1>1. Init => RiseInv
  <2>1. Init => chunks = <<>>
    BY DEF Init
  <2>2. chunks = <<>> => FirstsRise
    BY DEF FirstsRise
  <2>3. QED
    BY <2>1, <2>2, InitPlaced
<1>2. RiseInv /\ [Next]_vars => RiseInv'
  BY NextPlaced, NextRises
<1>3. RiseInv => IdsDiffer
  <2>1. SUFFICES ASSUME RiseInv, ShortLines,
                        NEW i \in DOMAIN chunks, NEW j \in DOMAIN chunks,
                        chunks[i].first = chunks[j].first
                 PROVE  i = j
    BY DEF IdsDiffer
  <2>2. /\ DOMAIN chunks = 1 .. Len(chunks) /\ Len(chunks) \in Nat
        /\ \A k \in DOMAIN chunks : chunks[k].first \in Nat
    BY <2>1, FirstsType DEF TypeOK, ChunkType
  <2>3. ~(i < j) /\ ~(j < i)
    BY <2>1, <2>2 DEF FirstsRise
  <2>4. QED
    BY <2>2, <2>3
<1>4. QED
  BY <1>1, <1>2, <1>3, PTL DEF Spec

-----------------------------------------------------------------------------
(* The algorithms together.  Each theorem above holds of TextSpec too.       *)

LEMMA DocumentsAreChunked == TextSpec => Spec
<1>1. TextInit => Init
  BY DEF TextInit
<1>2. [TextNext]_textVars => [Next]_vars
  BY DEF TextNext, textVars
<1>3. QED
  BY <1>1, <1>2, PTL DEF TextSpec, Spec

(* The verdict.                                                             *)

\* Whatever the tokens and however many: in a grounded answer without the word
\* CITATION each word with an ASCII letter or digit is cited, and without dots in
\* words an answer that has such a word and keeps the prompt's rules is grounded.
THEOREM JudgesRightly == TextSpec => []JudgedRight
<1> DEFINE Spelled == answer \in Seq(Atoms)
<1>1. TextInit => Spelled
  BY EmptySeq DEF TextInit
<1>2. Spelled /\ [TextNext]_textVars => Spelled'
  BY AppendProperties DEF TextNext, textVars
<1>3. Spelled => JudgedRight
  BY OnlySupportedPasses, CompliantIsAccepted DEF JudgedRight
<1>4. QED
  BY <1>1, <1>2, <1>3, PTL DEF TextSpec

-----------------------------------------------------------------------------
(* Retrieval.  What a sort returns: the place of an element is one more than  *)
(* the number of elements that come before it.                              *)

LEMMA SortExists ==
    ASSUME NEW S, IsFiniteSet(S), NEW R,
           \A x \in S : <<x, x>> \notin R,
           \A x, y, z \in S : <<x, y>> \in R /\ <<y, z>> \in R => <<x, z>> \in R,
           \A x, y \in S : x = y \/ <<x, y>> \in R \/ <<y, x>> \in R
    PROVE  \E s \in [1 .. Cardinality(S) -> S] :
              \A i, j \in 1 .. Cardinality(S) : i < j => <<s[i], s[j]>> \in R
<1> DEFINE n == Cardinality(S)
           Below(x) == {y \in S : <<y, x>> \in R}
           rank == [x \in S |-> Cardinality(Below(x)) + 1]
<1>1. n \in Nat
  BY FS_CardinalityType
<1>2. ASSUME NEW x \in S
      PROVE  /\ IsFiniteSet(Below(x)) /\ Cardinality(Below(x)) \in Nat
             /\ Cardinality(Below(x)) <= n - 1
  <2>1. IsFiniteSet(S \ {x}) /\ Cardinality(S \ {x}) = n - 1
    BY FS_RemoveElement
  <2>2. Below(x) \in SUBSET (S \ {x})
    OBVIOUS
  <2> HIDE DEF Below, n
  <2>3. QED
    BY <2>1, <2>2, FS_Subset, FS_CardinalityType
<1>3. ASSUME NEW x \in S, NEW y \in S, <<x, y>> \in R
      PROVE  rank[x] < rank[y]
  <2>1. Below(x) \cup {x} \in SUBSET Below(y) /\ x \notin Below(x)
    BY <1>3
  <2>2. IsFiniteSet(Below(x)) /\ IsFiniteSet(Below(y))
    BY <1>2
  <2>3. Cardinality(Below(x)) \in Nat /\ Cardinality(Below(y)) \in Nat
    BY <1>2
  <2>4. rank[x] = Cardinality(Below(x)) + 1 /\ rank[y] = Cardinality(Below(y)) + 1
    OBVIOUS
  <2> HIDE DEF Below, rank
  <2>5. Cardinality(Below(x) \cup {x}) = Cardinality(Below(x)) + 1
    BY <2>1, <2>2, FS_AddElement
  <2>6. Cardinality(Below(x) \cup {x}) <= Cardinality(Below(y))
    BY <2>1, <2>2, FS_Subset
  <2>7. QED
    BY <2>3, <2>4, <2>5, <2>6
<1>4. rank \in [S -> 1 .. n]
  <2>1. ASSUME NEW x \in S
        PROVE  Cardinality(Below(x)) + 1 \in 1 .. n
    <3>1. Cardinality(Below(x)) \in Nat /\ Cardinality(Below(x)) <= n - 1
      BY <1>2
    <3> HIDE DEF Below, n
    <3>2. QED
      BY <1>1, <3>1
  <2> HIDE DEF Below, n
  <2>2. QED
    BY <2>1
<1>5. \A x, y \in S : rank[x] = rank[y] => x = y
  <2> HIDE DEF rank
  <2>1. \A x \in S : rank[x] \in Nat
    BY <1>1, <1>4
  <2>2. ASSUME NEW x \in S, NEW y \in S, rank[x] = rank[y]
        PROVE  x = y
    <3>1. ~(rank[x] < rank[y]) /\ ~(rank[y] < rank[x])
      BY <2>1, <2>2
    <3>2. QED
      BY <1>3, <3>1
  <2>3. QED
    BY <2>2
<1>6. \A k \in 1 .. n : \E x \in S : rank[x] = k
  <2> HIDE DEF rank
  <2>1. rank \in Injection(S, 1 .. n)
    BY <1>4, <1>5 DEF Injection, IsInjective
  <2>2. IsFiniteSet(1 .. n) /\ Cardinality(1 .. n) = n
    BY <1>1, FS_Interval
  <2>3. rank \in Surjection(S, 1 .. n)
    BY <2>1, <2>2, FS_Injection
  <2>4. QED
    BY <2>3 DEF Surjection
<1> DEFINE s == [k \in 1 .. n |-> CHOOSE x \in S : rank[x] = k]
<1>7. s \in [1 .. n -> S] /\ \A k \in 1 .. n : rank[s[k]] = k
  BY <1>6
<1>8. ASSUME NEW i \in 1 .. n, NEW j \in 1 .. n, i < j
      PROVE  <<s[i], s[j]>> \in R
  <2> HIDE DEF s, rank
  <2>1. s[i] \in S /\ s[j] \in S /\ rank[s[i]] = i /\ rank[s[j]] = j
    BY <1>7
  <2>2. s[i] # s[j] /\ ~(rank[s[j]] < rank[s[i]])
    BY <1>1, <1>8, <2>1
  <2>3. <<s[j], s[i]>> \notin R
    BY <1>3, <2>1, <2>2
  <2>4. QED
    BY <2>1, <2>2, <2>3
<1> HIDE DEF s
<1>9. QED
  BY <1>7, <1>8

\* A sequence without repetition in a set of its length has the whole set.
LEMMA NothingLeftOut ==
    ASSUME NEW S, IsFiniteSet(S), NEW s \in [1 .. Cardinality(S) -> S],
           \A i, j \in 1 .. Cardinality(S) : i < j => s[i] # s[j]
    PROVE  Range(s) = S
<1> DEFINE n == Cardinality(S)
<1>1. n \in Nat
  BY FS_CardinalityType
<1>2. IsFiniteSet(1 .. n) /\ Cardinality(1 .. n) = n
  BY <1>1, FS_Interval
<1>3. \A i, j \in 1 .. n : s[i] = s[j] => i = j
  BY <1>1
<1>4. s \in Injection(1 .. n, S)
  BY <1>3 DEF Injection, IsInjective
<1>5. s \in Surjection(1 .. n, S)
  BY <1>2, <1>4, FS_Injection
<1>6. QED
  BY <1>5 DEF Surjection, Range

\* The extremes of a set of integers.
LEMMA Extremes ==
    ASSUME NEW S \in SUBSET Int, IsFiniteSet(S), S # {}
    PROVE  /\ Max(S) \in S /\ Min(S) \in S
           /\ \A x \in S : Min(S) <= x /\ x <= Max(S)
<1> DEFINE R == {p \in S \X S : p[1] < p[2]}
           n == Cardinality(S)
<1>1. /\ \A x \in S : <<x, x>> \notin R
      /\ \A x, y, z \in S : <<x, y>> \in R /\ <<y, z>> \in R => <<x, z>> \in R
      /\ \A x, y \in S : x = y \/ <<x, y>> \in R \/ <<y, x>> \in R
      /\ \A x, y \in S : <<x, y>> \in R => x < y
  OBVIOUS
<1>2. n \in Nat /\ n # 0
  BY FS_CardinalityType, FS_EmptySet
<1> HIDE DEF R
<1>3. PICK s \in [1 .. n -> S] : \A i, j \in 1 .. n : i < j => <<s[i], s[j]>> \in R
  BY <1>1, SortExists
<1>4. \A i, j \in 1 .. n : i < j => s[i] < s[j]
  BY <1>1, <1>3
<1>5. Range(s) = S
  <2>1. \A i, j \in 1 .. n : i < j => s[i] # s[j]
    BY <1>1, <1>3
  <2>2. QED
    BY <2>1, NothingLeftOut
<1>6. \A x \in S : \E i \in 1 .. n : x = s[i]
  BY <1>5 DEF Range
<1>7. 1 \in 1 .. n /\ n \in 1 .. n
  BY <1>2
<1>8. \A x \in S : s[1] <= x /\ x <= s[n]
  <2>1. SUFFICES ASSUME NEW i \in 1 .. n
                 PROVE  s[1] <= s[i] /\ s[i] <= s[n]
    BY <1>6
  <2>2. s[1] \in Int /\ s[i] \in Int /\ s[n] \in Int
    BY <1>7
  <2>3. s[1] <= s[i]
    BY <1>4, <1>7, <2>2
  <2>4. s[i] <= s[n]
    BY <1>2, <1>4, <1>7, <2>2
  <2>5. QED
    BY <2>3, <2>4
<1>9. s[1] \in S /\ s[n] \in S
  BY <1>7
<1> HIDE DEF n
<1>10. Max(S) \in S /\ \A y \in S : Max(S) >= y
  BY <1>8, <1>9 DEF Max
<1>11. Min(S) \in S /\ \A y \in S : Min(S) =< y
  BY <1>8, <1>9 DEF Min
<1>12. QED
  BY <1>10, <1>11

-----------------------------------------------------------------------------
(* The scores.                                                              *)

\* A part of a whole, in parts of Unit.
LEMMA PartOfUnit ==
    ASSUME NEW x \in Nat, NEW whole \in Nat, x <= whole, whole > 0
    PROVE  /\ (x * Unit) \div whole \in Nat
           /\ (x * Unit) \div whole <= Unit
<1> DEFINE q == (x * 60000) \div whole
<1>1. q \in Int /\ whole * q <= x * 60000 /\ x * 60000 < whole * q + whole
  OBVIOUS
<1> HIDE DEF q
<1>2. q >= 0
  <2>1. SUFFICES ASSUME q <= -1 PROVE FALSE
    BY <1>1
  <2>2. whole * q <= whole * (-1)
    BY <1>1, <2>1
  <2>3. QED
    BY <1>1, <2>2
<1>3. q <= 60000
  <2>1. SUFFICES ASSUME q >= 60001 PROVE FALSE
    BY <1>1
  <2>2. whole * q >= whole * 60001
    BY <1>1, <2>1
  <2>3. QED
    BY <1>1, <2>2
<1>4. q \in Nat /\ q <= 60000
  BY <1>1, <1>2, <1>3
<1>5. Unit = 60000 /\ (x * 60000) \div whole = q
  BY DEF Unit, q
<1>6. QED
  BY <1>4, <1>5

LEMMA CoverageType ==
    ASSUME NEW matched, NEW tokens, IsFiniteSet(tokens)
    PROVE  /\ Coverage(matched, tokens) \in Nat /\ Coverage(matched, tokens) <= Unit
           /\ matched = {} => Coverage(matched, tokens) = 0
<1> DEFINE hits == Cardinality(matched \cap tokens)
           all == Cardinality(tokens)
<1>1. CASE tokens = {}
  BY <1>1 DEF Coverage, Unit
<1>2. CASE tokens # {}
  <2>1. hits \in Nat /\ all \in Nat /\ hits <= all /\ all # 0
    BY <1>2, FS_Intersection, FS_CardinalityType, FS_EmptySet
  <2>2. matched = {} => hits = 0
    BY FS_EmptySet
  <2>3. Coverage(matched, tokens) = (hits * Unit) \div all
    BY <1>2 DEF Coverage
  <2> HIDE DEF hits, all
  <2>4. (hits * Unit) \div all \in Nat /\ (hits * Unit) \div all <= Unit
    BY <2>1, PartOfUnit
  <2>5. hits = 0 => (hits * Unit) \div all = 0
    BY <2>1 DEF Unit
  <2>6. QED
    BY <2>2, <2>3, <2>4, <2>5
<1>3. QED
  BY <1>1, <1>2

\* What the chunks of the store are.
Chunked == chunk \in [Store -> Profiles]

LEMMA QueryFinite == IsFiniteSet(QueryTokens)
<1>1. IsFiniteSet(EarlierTokens \cup QuestionTokens)
  BY RetrievalAssumption, FS_Union
<1>2. QED
  BY <1>1, RetrievalAssumption DEF QueryTokens

LEMMA ProfileFields ==
    ASSUME Chunked, NEW c \in Store
    PROVE  /\ chunk[c].distance \in Nat
           /\ chunk[c].phrase \in {"nowhere", "snippet", "metadata", "name"}
BY RetrievalAssumption DEF Chunked, Profile

LEMMA LexicalType ==
    ASSUME Chunked, NEW c \in Store
    PROVE  /\ LexicalScore(c) \in Nat
           /\ chunk[c].matched = {} /\ chunk[c].phrase = "nowhere" => LexicalScore(c) = 0
<1> DEFINE words == (80 * Coverage(chunk[c].matched, QueryTokens)) \div 100
           literal == CASE chunk[c].phrase = "name" -> Unit
                        [] chunk[c].phrase = "snippet" -> (95 * Unit) \div 100
                        [] chunk[c].phrase = "metadata" -> (90 * Unit) \div 100
                        [] chunk[c].phrase = "nowhere" -> 0
<1>1. words \in Nat /\ (chunk[c].matched = {} => words = 0)
  <2>1. /\ Coverage(chunk[c].matched, QueryTokens) \in Nat
        /\ chunk[c].matched = {} => Coverage(chunk[c].matched, QueryTokens) = 0
    BY CoverageType, QueryFinite
  <2> DEFINE part == Coverage(chunk[c].matched, QueryTokens)
  <2>2. part \in Nat /\ (chunk[c].matched = {} => part = 0)
    BY <2>1 DEF Unit
  <2>3. words = (80 * part) \div 100
    OBVIOUS
  <2> HIDE DEF part, words
  <2>4. words \in Nat /\ (part = 0 => words = 0)
    BY <2>2, <2>3
  <2>5. QED
    BY <2>2, <2>4
<1>2. literal \in Nat /\ (chunk[c].phrase = "nowhere" => literal = 0)
  BY ProfileFields DEF Unit
<1>3. LexicalScore(c) = Max({words, literal})
  BY DEF LexicalScore
<1> HIDE DEF words, literal
<1>4. IsFiniteSet({words, literal})
  <2>1. IsFiniteSet({words}) /\ {words, literal} = {words} \cup {literal}
    BY FS_Singleton
  <2>2. QED
    BY <2>1, FS_AddElement
<1>5. Max({words, literal}) \in {words, literal}
  BY <1>1, <1>2, <1>4, Extremes
<1>6. QED
  BY <1>1, <1>2, <1>3, <1>5

LEMMA VectorType ==
    ASSUME Chunked, NEW C \in SUBSET Store, NEW c \in C
    PROVE  VectorScore(c, C) \in Nat /\ VectorScore(c, C) <= Unit
<1> DEFINE distances == {chunk[d].distance : d \in C}
           span == Max(distances) - Min(distances)
           far == Max(distances) - chunk[c].distance
<1>1. \A d \in C : chunk[d].distance \in Nat
  BY ProfileFields
<1>2. distances \in SUBSET Int /\ distances # {} /\ chunk[c].distance \in distances
  BY <1>1
<1>3. IsFiniteSet(distances)
  <2> DEFINE f == [d \in C |-> chunk[d].distance]
  <2>1. f \in Surjection(C, distances)
    BY DEF Surjection
  <2>2. IsFiniteSet(C)
    BY RetrievalAssumption, FS_Subset
  <2> HIDE DEF f, distances
  <2>3. QED
    BY <2>1, <2>2, FS_Surjection
<1>4. VectorScore(c, C) = IF span = 0 THEN Unit ELSE (far * Unit) \div span
  BY DEF VectorScore
<1>5. /\ Max(distances) \in Int /\ Min(distances) \in Int
      /\ Min(distances) <= chunk[c].distance /\ chunk[c].distance <= Max(distances)
      /\ chunk[c].distance \in Int
  <2> HIDE DEF distances
  <2>1. QED
    BY <1>2, <1>3, Extremes
<1> HIDE DEF distances
<1>6. far \in Nat /\ span \in Nat /\ far <= span
  BY <1>5
<1> HIDE DEF far, span
<1>7. CASE span = 0
  BY <1>4, <1>7 DEF Unit
<1>8. CASE span # 0
  <2>1. (far * Unit) \div span \in Nat /\ (far * Unit) \div span <= Unit
    BY <1>6, <1>8, PartOfUnit
  <2>2. QED
    BY <1>4, <1>8, <2>1
<1>9. QED
  BY <1>7, <1>8

\* Without a word of the query, nearness alone is worth 45 of 100.
LEMMA CombinedType ==
    ASSUME Chunked, NEW C \in SUBSET Store, NEW c \in C
    PROVE  /\ CombinedScore(c, C) \in Nat
           /\ chunk[c].matched = {} /\ chunk[c].phrase = "nowhere" =>
                 CombinedScore(c, C) <= 27000
<1>1. /\ LexicalScore(c) \in Nat
      /\ chunk[c].matched = {} /\ chunk[c].phrase = "nowhere" => LexicalScore(c) = 0
  BY LexicalType
<1>2. VectorScore(c, C) \in Nat /\ VectorScore(c, C) <= Unit
  BY VectorType
<1>3. Unit = 60000
  BY DEF Unit
<1> DEFINE near == VectorScore(c, C)
           lexical == LexicalScore(c)
<1>4. CombinedScore(c, C) = (45 * near + 55 * lexical) \div 100
  BY DEF CombinedScore
<1>5. near \in Nat /\ near <= 60000 /\ lexical \in Nat
  BY <1>1, <1>2, <1>3
<1> HIDE DEF near
<1>6. lexical = 0 => (45 * near + 55 * lexical) \div 100 <= 27000
  <2> HIDE DEF lexical
  <2>1. QED
    BY <1>5
<1>7. (45 * near + 55 * lexical) \div 100 \in Nat
  <2> HIDE DEF lexical
  <2>1. QED
    BY <1>5
<1>8. QED
  BY <1>1, <1>4, <1>6, <1>7

-----------------------------------------------------------------------------
(* The order of rerank_candidates.                                          *)

Finer(a, b, rest) == a < b \/ (a = b /\ rest)

LEMMA BeforeSpec ==
    ASSUME Chunked, NEW C \in SUBSET Store, NEW c \in C, NEW d \in C
    PROVE  Before(c, d, C) <=>
              Finer(CombinedScore(d, C), CombinedScore(c, C),
              Finer(LexicalScore(d), LexicalScore(c),
              Finer(chunk[c].distance, chunk[d].distance, c < d)))
<1> DEFINE key(e) == <<-CombinedScore(e, C), -LexicalScore(e), chunk[e].distance, e>>
           P(i) == /\ key(c)[i] < key(d)[i]
                   /\ \A j \in 1 .. i - 1 : key(c)[j] = key(d)[j]
<1>1. /\ CombinedScore(c, C) \in Int /\ CombinedScore(d, C) \in Int
      /\ LexicalScore(c) \in Int /\ LexicalScore(d) \in Int
  BY CombinedType, LexicalType
<1>2. Before(c, d, C) <=> \E i \in 1 .. 4 : P(i)
  BY DEF Before
<1>3. /\ P(1) <=> key(c)[1] < key(d)[1]
      /\ P(2) <=> key(c)[2] < key(d)[2] /\ key(c)[1] = key(d)[1]
      /\ P(3) <=> key(c)[3] < key(d)[3] /\ key(c)[1] = key(d)[1] /\ key(c)[2] = key(d)[2]
      /\ P(4) <=> /\ key(c)[4] < key(d)[4] /\ key(c)[1] = key(d)[1]
                  /\ key(c)[2] = key(d)[2] /\ key(c)[3] = key(d)[3]
  <2> HIDE DEF key
  <2>1. QED
    OBVIOUS
<1>4. /\ key(c)[1] = -CombinedScore(c, C) /\ key(d)[1] = -CombinedScore(d, C)
      /\ key(c)[2] = -LexicalScore(c) /\ key(d)[2] = -LexicalScore(d)
      /\ key(c)[3] = chunk[c].distance /\ key(d)[3] = chunk[d].distance
      /\ key(c)[4] = c /\ key(d)[4] = d
  OBVIOUS
<1>5. Before(c, d, C) <=> P(1) \/ P(2) \/ P(3) \/ P(4)
  <2> HIDE DEF P
  <2>1. QED
    BY <1>2
<1> HIDE DEF P, key
<1>6. QED
  BY <1>1, <1>3, <1>4, <1>5 DEF Finer

\* A strict total order on the candidates.
LEMMA BeforeOrders ==
    ASSUME Chunked, NEW C \in SUBSET Store
    PROVE  /\ \A c \in C : ~Before(c, c, C)
           /\ \A c, d, e \in C : Before(c, d, C) /\ Before(d, e, C) => Before(c, e, C)
           /\ \A c, d \in C : c = d \/ Before(c, d, C) \/ Before(d, c, C)
<1>1. \A c \in C : /\ CombinedScore(c, C) \in Int /\ LexicalScore(c) \in Int
                   /\ chunk[c].distance \in Int /\ c \in Int
  BY CombinedType, LexicalType, ProfileFields, RetrievalAssumption
<1>2. ASSUME NEW c \in C
      PROVE  ~Before(c, c, C)
  BY <1>1, BeforeSpec DEF Finer
<1>3. ASSUME NEW c \in C, NEW d \in C, NEW e \in C, Before(c, d, C), Before(d, e, C)
      PROVE  Before(c, e, C)
  <2>1. Finer(CombinedScore(d, C), CombinedScore(c, C),
        Finer(LexicalScore(d), LexicalScore(c),
        Finer(chunk[c].distance, chunk[d].distance, c < d)))
    BY <1>3, BeforeSpec
  <2>2. Finer(CombinedScore(e, C), CombinedScore(d, C),
        Finer(LexicalScore(e), LexicalScore(d),
        Finer(chunk[d].distance, chunk[e].distance, d < e)))
    BY <1>3, BeforeSpec
  <2>3. Finer(CombinedScore(e, C), CombinedScore(c, C),
        Finer(LexicalScore(e), LexicalScore(c),
        Finer(chunk[c].distance, chunk[e].distance, c < e)))
    BY <1>1, <2>1, <2>2 DEF Finer
  <2>4. QED
    BY <2>3, BeforeSpec
<1>4. ASSUME NEW c \in C, NEW d \in C
      PROVE  c = d \/ Before(c, d, C) \/ Before(d, c, C)
  <2>1. \/ c = d
        \/ Finer(CombinedScore(d, C), CombinedScore(c, C),
           Finer(LexicalScore(d), LexicalScore(c),
           Finer(chunk[c].distance, chunk[d].distance, c < d)))
        \/ Finer(CombinedScore(c, C), CombinedScore(d, C),
           Finer(LexicalScore(c), LexicalScore(d),
           Finer(chunk[d].distance, chunk[c].distance, d < c)))
    BY <1>1 DEF Finer
  <2>2. QED
    BY <2>1, BeforeSpec
<1>5. QED
  BY <1>2, <1>3, <1>4

\* What rerank_candidates makes of the candidates C.
InOrder(h, C) ==
    /\ h \in [1 .. Cardinality(C) -> C]
    /\ Range(h) = C
    /\ \A i, j \in 1 .. Cardinality(C) : i < j =>
          h[i] # h[j] /\ CombinedScore(h[i], C) >= CombinedScore(h[j], C)

LEMMA HybridOrders ==
    ASSUME Chunked, NEW C \in SUBSET Store
    PROVE  InOrder(Hybrid(C), C)
<1> DEFINE R == {p \in C \X C : Before(p[1], p[2], C)}
           n == Cardinality(C)
           h == Hybrid(C)
<1>1. IsFiniteSet(C) /\ n \in Nat
  BY RetrievalAssumption, FS_Subset, FS_CardinalityType
<1>2. \A c, d \in C : <<c, d>> \in R <=> Before(c, d, C)
  OBVIOUS
<1>3. \E s \in [1 .. n -> C] : \A i, j \in 1 .. n : i < j => <<s[i], s[j]>> \in R
  <2>1. /\ \A c \in C : <<c, c>> \notin R
        /\ \A c, d, e \in C : <<c, d>> \in R /\ <<d, e>> \in R => <<c, e>> \in R
        /\ \A c, d \in C : c = d \/ <<c, d>> \in R \/ <<d, c>> \in R
    <3> HIDE DEF R
    <3>1. QED
      BY <1>2, BeforeOrders
  <2> HIDE DEF R
  <2>2. QED
    BY <1>1, <2>1, SortExists
<1>4. \E s \in [1 .. n -> C] : \A i, j \in DOMAIN s : i < j => Before(s[i], s[j], C)
  <2> HIDE DEF R
  <2>1. PICK s \in [1 .. n -> C] : \A i, j \in 1 .. n : i < j => <<s[i], s[j]>> \in R
    BY <1>3
  <2>2. \A i, j \in 1 .. n : i < j => Before(s[i], s[j], C)
    BY <1>2, <2>1
  <2>3. DOMAIN s = 1 .. n
    OBVIOUS
  <2>4. QED
    BY <2>2, <2>3
<1>5. h \in [1 .. n -> C] /\ \A i, j \in DOMAIN h : i < j => Before(h[i], h[j], C)
  BY <1>4 DEF Hybrid
<1> HIDE DEF h
<1>6. ASSUME NEW i \in 1 .. n, NEW j \in 1 .. n, i < j
      PROVE  h[i] # h[j] /\ CombinedScore(h[i], C) >= CombinedScore(h[j], C)
  <2>1. h[i] \in C /\ h[j] \in C /\ Before(h[i], h[j], C)
    BY <1>5, <1>6
  <2>2. CombinedScore(h[i], C) \in Int /\ CombinedScore(h[j], C) \in Int
    BY <2>1, CombinedType
  <2>3. h[i] # h[j]
    BY <2>1, BeforeOrders
  <2>4. CombinedScore(h[i], C) >= CombinedScore(h[j], C)
    BY <2>1, <2>2, BeforeSpec DEF Finer
  <2>5. QED
    BY <2>3, <2>4
<1>7. Range(h) = C
  BY <1>1, <1>5, <1>6, NothingLeftOut
<1>8. QED
  BY <1>5, <1>6, <1>7 DEF InOrder, h

\* The places of a limit.
Places(s) == Min({limit, Len(s)})

\* The first results are as many as the limit allows, each another one when no
\* two places of s hold the same.
LEMMA FirstSpec ==
    ASSUME limit \in Nat, NEW S, NEW s \in Seq(S)
    PROVE  /\ Places(s) \in 0 .. Len(s)
           /\ First(s) \in Seq(S)
           /\ Range(First(s)) = {s[i] : i \in 1 .. Places(s)}
           /\ (\A i, j \in 1 .. Len(s) : i < j => s[i] # s[j]) =>
                 Cardinality(Range(First(s))) = Places(s)
<1> DEFINE m == Places(s)
           f == First(s)
<1>1. Len(s) \in Nat /\ \A i \in 1 .. Len(s) : s[i] \in S
  BY LenProperties, ElementOfSeq
<1>2. m \in 0 .. Len(s)
  <2>1. IsFiniteSet({limit, Len(s)})
    <3>1. IsFiniteSet({limit}) /\ {limit, Len(s)} = {limit} \cup {Len(s)}
      BY FS_Singleton
    <3>2. QED
      BY <3>1, FS_AddElement
  <2>2. m \in {limit, Len(s)} /\ m <= limit /\ m <= Len(s)
    BY <1>1, <2>1, Extremes DEF Places
  <2>3. QED
    BY <1>1, <2>2
<1>3. f = SubSeq(s, 1, m)
  BY DEF First, Places
<1> HIDE DEF f, m
<1>4. /\ f \in Seq(S) /\ Len(f) = m
      /\ \A i \in 1 .. m : f[i] = s[i]
  <2>1. \A i \in 1 .. m : s[i] \in S
    BY <1>1, <1>2
  <2>2. /\ f \in Seq(S) /\ Len(f) = IF 1 <= m THEN m - 1 + 1 ELSE 0
        /\ \A i \in 1 .. m - 1 + 1 : f[i] = s[1 + i - 1]
    BY <1>2, <1>3, <2>1, SubSeqProperties
  <2>3. QED
    BY <1>2, <2>2
<1>5. DOMAIN f = 1 .. m
  BY <1>4, LenProperties
<1>6. Range(f) = {s[i] : i \in 1 .. m}
  BY <1>4, <1>5 DEF Range
<1>7. ASSUME \A i, j \in 1 .. Len(s) : i < j => s[i] # s[j]
      PROVE  Cardinality(Range(f)) = m
  <2>1. f \in [1 .. m -> Range(f)]
    BY <1>4, <1>5, LenProperties DEF Range
  <2>2. \A i, j \in 1 .. m : f[i] = f[j] => i = j
    BY <1>1, <1>2, <1>4, <1>7
  <2>3. f \in Surjection(1 .. m, Range(f)) /\ f \in Injection(1 .. m, Range(f))
    BY <1>5, <2>1, <2>2 DEF Surjection, Injection, IsInjective, Range
  <2>4. IsFiniteSet(1 .. m) /\ Cardinality(1 .. m) = m
    BY <1>2, FS_Interval
  <2>5. QED
    BY <2>3, <2>4, FS_Surjection
<1>8. QED
  BY <1>2, <1>4, <1>6, <1>7 DEF f, m

\* apply_scores puts every candidate in one place, a better one first.
LEMMA RankedSpec ==
    ASSUME NEW n \in Nat, NEW C, DOMAIN C = 1 .. n,
           NEW given, \A i \in 1 .. n : given[i] \in Int
    PROVE  LET order == Ranked(C, given) IN
           /\ order \in [1 .. n -> 1 .. n]
           /\ Range(order) = 1 .. n
           /\ \A k, l \in 1 .. n : k < l =>
                 order[k] # order[l] /\ given[order[k]] >= given[order[l]]
<1> DEFINE Better(i, j) == given[i] > given[j] \/ (given[i] = given[j] /\ i < j)
           R == {p \in (1 .. n) \X (1 .. n) : Better(p[1], p[2])}
           order == Ranked(C, given)
<1>1. IsFiniteSet(1 .. n) /\ Cardinality(1 .. n) = n
  BY FS_Interval
<1>2. \A i, j \in 1 .. n : <<i, j>> \in R <=> Better(i, j)
  OBVIOUS
<1>3. /\ \A i \in 1 .. n : ~Better(i, i)
      /\ \A i, j, k \in 1 .. n : Better(i, j) /\ Better(j, k) => Better(i, k)
      /\ \A i, j \in 1 .. n : i = j \/ Better(i, j) \/ Better(j, i)
  OBVIOUS
<1>4. \E s \in [1 .. n -> 1 .. n] : \A i, j \in 1 .. n : i < j => <<s[i], s[j]>> \in R
  <2>1. /\ \A i \in 1 .. n : <<i, i>> \notin R
        /\ \A i, j, k \in 1 .. n : <<i, j>> \in R /\ <<j, k>> \in R => <<i, k>> \in R
        /\ \A i, j \in 1 .. n : i = j \/ <<i, j>> \in R \/ <<j, i>> \in R
    <3> HIDE DEF R, Better
    <3>1. QED
      BY <1>2, <1>3
  <2> HIDE DEF R
  <2>2. QED
    BY <1>1, <2>1, SortExists
<1>5. /\ order \in [1 .. n -> 1 .. n]
      /\ \A k, l \in 1 .. n : k < l => Better(order[k], order[l])
  <2>1. PICK s \in [1 .. n -> 1 .. n] : \A i, j \in 1 .. n : i < j => <<s[i], s[j]>> \in R
    <3> HIDE DEF R
    <3>1. QED
      BY <1>4
  <2>2. \A i, j \in 1 .. n : i < j => Better(s[i], s[j])
    <3> HIDE DEF R, Better
    <3>1. QED
      BY <1>2, <2>1
  <2>3. order = CHOOSE t \in [1 .. n -> 1 .. n] :
                   \A k, l \in 1 .. n : k < l => Better(t[k], t[l])
    BY DEF Ranked
  <2> HIDE DEF order, Better
  <2>4. QED
    BY <2>2, <2>3
<1> HIDE DEF order
<1>6. \A k, l \in 1 .. n : k < l =>
          order[k] # order[l] /\ given[order[k]] >= given[order[l]]
  <2>1. SUFFICES ASSUME NEW k \in 1 .. n, NEW l \in 1 .. n, k < l
                 PROVE  order[k] # order[l] /\ given[order[k]] >= given[order[l]]
    OBVIOUS
  <2>2. order[k] \in 1 .. n /\ order[l] \in 1 .. n
    BY <1>5
  <2>3. Better(order[k], order[l])
    BY <1>5, <2>1
  <2>4. QED
    BY <2>2, <2>3
<1> HIDE DEF Better
<1>7. Range(order) = 1 .. n
  BY <1>1, <1>5, <1>6, NothingLeftOut
<1>8. QED
  BY <1>5, <1>6, <1>7 DEF order

-----------------------------------------------------------------------------
(* The invariant of a retrieval: the candidates are in order from the answer  *)
(* of the store on, and the results are among them.                          *)

RetrievalInv ==
    /\ Chunked /\ limit \in Nat
    /\ stage \in {"query", "rerank", "assess", "done"}
    /\ stage \in {"query", "rerank"} => scores = <<>>
    /\ stage # "query" => Range(hybrid) \subseteq Store /\ InOrder(hybrid, Range(hybrid))
    /\ scores # <<>> => \A i \in DOMAIN hybrid : scores[i] \in Int
    /\ stage \in {"assess", "done"} => results \in Seq(Range(hybrid))
    /\ BestKept /\ EvidenceNeeded

\* The candidates as a sequence, each in one place.
LEMMA HybridSpec ==
    ASSUME InOrder(hybrid, Range(hybrid)), Range(hybrid) \subseteq Store
    PROVE  /\ Len(hybrid) \in Nat /\ DOMAIN hybrid = 1 .. Len(hybrid)
           /\ hybrid \in Seq(Range(hybrid))
           /\ \A i, j \in 1 .. Len(hybrid) : i < j =>
                 /\ hybrid[i] # hybrid[j]
                 /\ CombinedScore(hybrid[i], Range(hybrid)) >= CombinedScore(hybrid[j], Range(hybrid))
<1> DEFINE C == Range(hybrid)
           n == Cardinality(C)
<1>1. n \in Nat
  BY RetrievalAssumption, FS_Subset, FS_CardinalityType
<1>2. hybrid \in [1 .. n -> C]
  BY DEF InOrder
<1>3. \A i, j \in 1 .. n : i < j =>
          hybrid[i] # hybrid[j] /\ CombinedScore(hybrid[i], C) >= CombinedScore(hybrid[j], C)
  BY DEF InOrder
<1> HIDE DEF n, C
<1>4. hybrid \in Seq(C)
  BY <1>1, <1>2, SeqDef
<1>5. Len(hybrid) = n
  BY <1>1, <1>2, <1>4, LenProperties
<1>6. QED
  BY <1>1, <1>2, <1>3, <1>4, <1>5 DEF C

\* A candidate stands in the place that Score looks for.
LEMMA PlaceOf ==
    ASSUME Len(hybrid) \in Nat, DOMAIN hybrid = 1 .. Len(hybrid),
           \A i, j \in 1 .. Len(hybrid) : i < j => hybrid[i] # hybrid[j],
           NEW i \in 1 .. Len(hybrid)
    PROVE  (CHOOSE j \in DOMAIN hybrid : hybrid[j] = hybrid[i]) = i
<1>1. \A j \in 1 .. Len(hybrid) : hybrid[j] = hybrid[i] => j = i
  BY DEF Range
<1>2. QED
  BY <1>1

\* The scores are functions of the profiles and of the candidates.
LEMMA ScoresStay ==
    ASSUME UNCHANGED chunk, NEW C, Range(hybrid)' = C, NEW c
    PROVE  CombinedScore(c, Range(hybrid))' = CombinedScore(c, C)
<1>1. LexicalScore(c)' = LexicalScore(c)
  <2>1. Coverage(chunk[c].matched, QueryTokens)' = Coverage(chunk[c].matched, QueryTokens)
    BY DEF Coverage
  <2>2. (CASE chunk[c].phrase = "name" -> Unit
           [] chunk[c].phrase = "snippet" -> (95 * Unit) \div 100
           [] chunk[c].phrase = "metadata" -> (90 * Unit) \div 100
           [] chunk[c].phrase = "nowhere" -> 0)'
        = (CASE chunk[c].phrase = "name" -> Unit
           [] chunk[c].phrase = "snippet" -> (95 * Unit) \div 100
           [] chunk[c].phrase = "metadata" -> (90 * Unit) \div 100
           [] chunk[c].phrase = "nowhere" -> 0)
    OBVIOUS
  <2>3. QED
    BY <2>1, <2>2 DEF LexicalScore
<1>2. VectorScore(c, Range(hybrid))' = VectorScore(c, C)
  <2>1. {chunk'[d].distance : d \in Range(hybrid)'} = {chunk[d].distance : d \in C}
    OBVIOUS
  <2>2. QED
    BY <2>1 DEF VectorScore
<1>3. QED
  BY <1>1, <1>2 DEF CombinedScore

\* The order of the candidates is theirs in the next state too.
LEMMA OrderStays ==
    ASSUME UNCHANGED chunk, NEW h, NEW C, InOrder(h, C), hybrid' = h
    PROVE  InOrder(hybrid, Range(hybrid))'
<1>1. Range(h) = C
  BY DEF InOrder
<1>2. Range(hybrid)' = C
  BY <1>1
<1>3. \A c : CombinedScore(c, Range(hybrid))' = CombinedScore(c, C)
  BY <1>2, ScoresStay
<1>4. QED
  BY <1>1, <1>2, <1>3 DEF InOrder

\* So are the results that BestKept allows.
LEMMA BestStays ==
    ASSUME BestKept, UNCHANGED <<chunk, limit, hybrid, scores, results>>,
           stage \in {"assess", "done"}
    PROVE  BestKept'
<1>1. \A c : CombinedScore(c, Range(hybrid))' = CombinedScore(c, Range(hybrid))
  BY ScoresStay
<1>2. QED
  BY <1>1 DEF BestKept, Score

LEMMA InitRetrieval == RetrievalInit => RetrievalInv
<1>1. RetrievalInit => Chunked /\ limit \in Nat
  BY RetrievalAssumption DEF RetrievalInit, Chunked
<1>2. QED
  BY <1>1 DEF RetrievalInit, RetrievalInv, BestKept, EvidenceNeeded

LEMMA QueryKeeps ==
    ASSUME RetrievalInv, Query
    PROVE  RetrievalInv'
<1>1. PICK P \in SUBSET Store : Pool(P) /\ hybrid' = Hybrid(Under(P))
  BY DEF Query
<1>2. /\ stage' = "rerank" /\ scores' = <<>>
      /\ UNCHANGED <<chunk, limit, scores, results, enough>>
  BY DEF Query, RetrievalInv
<1>3. Under(P) \in SUBSET Store
  BY DEF Under
<1>4. InOrder(Hybrid(Under(P)), Under(P))
  BY <1>3, HybridOrders DEF RetrievalInv
<1>5. PICK h, C : h = Hybrid(Under(P)) /\ C = Under(P)
  OBVIOUS
<1>6. hybrid' = h /\ InOrder(h, C) /\ C \in SUBSET Store
  BY <1>1, <1>3, <1>4, <1>5
<1>7. Range(h) = C
  BY <1>6 DEF InOrder
<1>8. InOrder(hybrid, Range(hybrid))'
  BY <1>2, <1>6, OrderStays
<1>9. QED
  BY <1>2, <1>6, <1>7, <1>8 DEF RetrievalInv, Chunked, BestKept, EvidenceNeeded

\* What a step of the ranking keeps, given what it proves of the results.
LEMMA RankKeeps ==
    ASSUME RetrievalInv, stage = "rerank", stage' = "assess",
           UNCHANGED <<chunk, limit, hybrid>>,
           scores' # <<>> => \A i \in DOMAIN hybrid : scores'[i] \in Int,
           results' \in Seq(Range(hybrid)), BestKept'
    PROVE  RetrievalInv'
<1>1. PICK h, C : h = hybrid /\ C = Range(hybrid)
  OBVIOUS
<1>2. InOrder(hybrid, Range(hybrid)) /\ Range(hybrid) \subseteq Store
  BY DEF RetrievalInv
<1>3. InOrder(hybrid, Range(hybrid))'
  BY <1>1, <1>2, OrderStays
<1>4. QED
  BY <1>2, <1>3 DEF RetrievalInv, Chunked, EvidenceNeeded

LEMMA FallbackKeeps ==
    ASSUME RetrievalInv, Fallback
    PROVE  RetrievalInv'
<1>1. /\ stage = "rerank" /\ stage' = "assess" /\ results' = First(hybrid)
      /\ UNCHANGED <<chunk, limit, hybrid, scores>> /\ scores = <<>>
  BY DEF Fallback, RetrievalInv
<1>2. /\ Len(hybrid) \in Nat /\ DOMAIN hybrid = 1 .. Len(hybrid)
      /\ hybrid \in Seq(Range(hybrid)) /\ limit \in Nat
      /\ \A i, j \in 1 .. Len(hybrid) : i < j =>
            /\ hybrid[i] # hybrid[j]
            /\ CombinedScore(hybrid[i], Range(hybrid)) >= CombinedScore(hybrid[j], Range(hybrid))
  BY <1>1, HybridSpec DEF RetrievalInv
<1> DEFINE m == Places(hybrid)
<1>3. /\ m \in 0 .. Len(hybrid)
      /\ results' \in Seq(Range(hybrid))
      /\ Range(results') = {hybrid[i] : i \in 1 .. m}
      /\ Cardinality(Range(results')) = m
  BY <1>1, <1>2, FirstSpec
<1>4. ASSUME NEW c \in Range(results'), NEW d \in Range(hybrid) \ Range(results')
      PROVE  CombinedScore(c, Range(hybrid)) >= CombinedScore(d, Range(hybrid))
  <2> HIDE DEF m
  <2>1. PICK i \in 1 .. m : c = hybrid[i]
    BY <1>3, <1>4
  <2>2. PICK j \in 1 .. Len(hybrid) : d = hybrid[j]
    BY <1>2, <1>4 DEF Range
  <2>3. i < j /\ i \in 1 .. Len(hybrid)
    BY <1>2, <1>3, <1>4, <2>2
  <2>4. QED
    BY <1>2, <2>1, <2>2, <2>3
<1>5. \A c : CombinedScore(c, Range(hybrid))' = CombinedScore(c, Range(hybrid))
  BY <1>1, ScoresStay
<1>6. Cardinality(Range(results')) = Min({limit', Len(hybrid')})
  BY <1>1, <1>3 DEF Places
<1>7. BestKept'
  BY <1>1, <1>4, <1>5, <1>6 DEF BestKept
<1>8. QED
  BY <1>1, <1>3, <1>7, RankKeeps

LEMMA ApplyKeeps ==
    ASSUME RetrievalInv, ApplyScores
    PROVE  RetrievalInv'
<1> DEFINE n == Len(hybrid)
           C == Range(hybrid)
           order == Ranked(hybrid, scores')
           ranked == [k \in DOMAIN order |-> hybrid[order[k]]]
           m == Places(ranked)
<1>1. /\ stage = "rerank" /\ stage' = "assess" /\ hybrid # <<>>
      /\ UNCHANGED <<chunk, limit, hybrid>>
      /\ scores' \in [DOMAIN hybrid -> RerankerScores]
      /\ results' = First(ranked)
  BY DEF ApplyScores
<1>2. /\ n \in Nat /\ DOMAIN hybrid = 1 .. n /\ limit \in Nat
      /\ \A i \in 1 .. n : hybrid[i] \in C
      /\ \A i, j \in 1 .. n : i < j => hybrid[i] # hybrid[j]
      /\ \A i, j \in 1 .. n : hybrid[i] = hybrid[j] => i = j
  <2>1. /\ Len(hybrid) \in Nat /\ DOMAIN hybrid = 1 .. Len(hybrid)
        /\ hybrid \in Seq(Range(hybrid)) /\ limit \in Nat
        /\ \A i, j \in 1 .. Len(hybrid) : i < j => hybrid[i] # hybrid[j]
    BY <1>1, HybridSpec DEF RetrievalInv
  <2>2. \A i, j \in 1 .. Len(hybrid) : hybrid[i] = hybrid[j] => i = j
    BY <2>1
  <2>3. QED
    BY <2>1, <2>2, ElementOfSeq
<1>3. \A i \in 1 .. n : scores'[i] \in Int
  BY <1>1, <1>2, RetrievalAssumption
<1>4. /\ order \in [1 .. n -> 1 .. n]
      /\ Range(order) = 1 .. n
      /\ \A k, l \in 1 .. n : k < l =>
            order[k] # order[l] /\ scores'[order[k]] >= scores'[order[l]]
  <2> HIDE DEF n
  <2>1. QED
    BY <1>2, <1>3, RankedSpec
<1> HIDE DEF order
<1>5. /\ ranked \in [1 .. n -> C]
      /\ \A k \in 1 .. n : ranked[k] = hybrid[order[k]] /\ order[k] \in 1 .. n
  <2> HIDE DEF C
  <2>1. QED
    BY <1>2, <1>4
<1>6. ranked \in Seq(C) /\ Len(ranked) = n
  <2> HIDE DEF C, ranked, n
  <2>1. ranked \in Seq(C)
    BY <1>2, <1>5, SeqDef
  <2>2. QED
    BY <1>2, <1>5, <2>1, LenProperties
<1>7. \A k, l \in 1 .. n : k < l => ranked[k] # ranked[l]
  <2> HIDE DEF ranked, n
  <2>1. QED
    BY <1>2, <1>4, <1>5
<1> HIDE DEF ranked
<1>8. /\ m \in 0 .. n
      /\ results' \in Seq(C)
      /\ Range(results') = {ranked[i] : i \in 1 .. m}
      /\ Cardinality(Range(results')) = m
  <2> HIDE DEF C, n
  <2>1. \A k, l \in 1 .. Len(ranked) : k < l => ranked[k] # ranked[l]
    BY <1>6, <1>7
  <2>2. QED
    BY <1>1, <1>2, <1>6, <2>1, FirstSpec
<1>9. ASSUME NEW i \in 1 .. n, NEW c, c = hybrid[i]
      PROVE  Score(c)' = scores'[i]
  <2>1. (CHOOSE j \in DOMAIN hybrid : hybrid[j] = hybrid[i]) = i
    BY <1>2, PlaceOf
  <2>2. (CHOOSE j \in DOMAIN hybrid' : hybrid'[j] = c) = i
    BY <1>1, <1>9, <2>1
  <2>3. QED
    BY <2>2 DEF Score
<1>10. ASSUME NEW c \in Range(results'), NEW d \in Range(hybrid) \ Range(results')
       PROVE  Score(c)' >= Score(d)'
  <2> HIDE DEF m
  <2>1. PICK k \in 1 .. m : c = ranked[k]
    BY <1>8
  <2>2. PICK l \in 1 .. n : d = ranked[l]
    <3>1. PICK j \in 1 .. n : d = hybrid[j]
      BY <1>2 DEF Range
    <3>2. PICK l \in 1 .. n : order[l] = j
      BY <1>4 DEF Range
    <3>3. QED
      BY <1>5, <3>1, <3>2
  <2>3. k < l /\ k \in 1 .. n
    BY <1>2, <1>8, <1>10, <2>2
  <2>4. scores'[order[k]] >= scores'[order[l]]
    BY <1>4, <2>3
  <2>5. Score(c)' = scores'[order[k]] /\ Score(d)' = scores'[order[l]]
    BY <1>5, <1>9, <2>1, <2>2, <2>3
  <2>6. QED
    BY <2>4, <2>5
<1>11. scores' # <<>>
  <2>1. hybrid \in Seq(Range(hybrid))
    BY <1>1, HybridSpec DEF RetrievalInv
  <2>2. n # 0
    BY <1>1, <2>1, EmptySeq
  <2>3. DOMAIN scores' = 1 .. n /\ 1 \in 1 .. n
    BY <1>1, <1>2, <2>2
  <2>4. QED
    BY <2>3
<1>12. Cardinality(Range(results')) = Min({limit', Len(hybrid')})
  BY <1>1, <1>6, <1>8 DEF Places
<1>13. BestKept'
  BY <1>1, <1>10, <1>11, <1>12 DEF BestKept
<1>14. QED
  BY <1>1, <1>2, <1>3, <1>8, <1>13, RankKeeps

\* What is not enough for an answer: a chunk that only is near, or one that the
\* reranker scores at zero or below.
LEMMA NotEnough ==
    ASSUME NEW relevance \in Nat, relevance <= 30000, MinConfidence > (40 * Unit) \div 100
    PROVE  ~(Confidence(relevance, 0) >= MinConfidence)
<1>1. MinConfidence \in Nat /\ MinConfidence > 24000
  BY RetrievalAssumption DEF Unit
<1>2. (8 * relevance) \div 10 <= 24000
  OBVIOUS
<1>3. (2 * 0) \div 10 = 0 /\ (8 * relevance) \div 10 \in Int
  OBVIOUS
<1>4. QED
  BY <1>1, <1>2, <1>3 DEF Confidence

LEMMA AssessKeeps ==
    ASSUME RetrievalInv, AssessConfidence
    PROVE  RetrievalInv'
<1> DEFINE top == Head(results)
           relevance == IF scores = <<>> THEN CombinedScore(top, Range(hybrid))
                        ELSE Sigmoid(Score(top))
           coverage == Coverage(chunk[top].matched, SignificantTokens)
<1>1. /\ stage = "assess" /\ stage' = "done"
      /\ UNCHANGED <<chunk, limit, hybrid, scores, results>>
      /\ Range(hybrid) \subseteq Store /\ Chunked
      /\ results \in Seq(Range(hybrid)) /\ InOrder(hybrid, Range(hybrid)) /\ BestKept
      /\ scores # <<>> => \A i \in DOMAIN hybrid : scores[i] \in Int
  BY DEF AssessConfidence, RetrievalInv
<1>2. enough' = (results # <<>> /\ Confidence(relevance, coverage) >= MinConfidence)
  BY DEF AssessConfidence, Score
<1>3. ASSUME results # <<>>, chunk[top].matched = {}, chunk[top].phrase = "nowhere",
             ~(scores # <<>> /\ Score(top) > 0), MinConfidence > (40 * Unit) \div 100
      PROVE  ~enough'
  <2>1. top \in Range(hybrid)
    BY <1>1, <1>3, HeadTailProperties
  <2>2. coverage = 0
    <3>1. IsFiniteSet(SignificantTokens)
      BY RetrievalAssumption, FS_Subset DEF SignificantTokens
    <3>2. QED
      BY <1>3, <3>1, CoverageType
  <2>3. relevance \in Nat /\ relevance <= 30000
    <3>1. CASE scores = <<>>
      <4>1. /\ CombinedScore(top, Range(hybrid)) \in Nat
            /\ CombinedScore(top, Range(hybrid)) <= 27000
        <5> HIDE DEF top
        <5>1. QED
          BY <1>1, <1>3, <2>1, CombinedType
      <4>2. QED
        BY <3>1, <4>1
    <3>2. CASE scores # <<>>
      <4>1. Score(top) \in Int
        <5>1. \E i \in DOMAIN hybrid : hybrid[i] = top
          BY <2>1 DEF Range
        <5>2. QED
          BY <1>1, <3>2, <5>1 DEF Score
      <4>2. ~(Score(top) > 0)
        BY <1>3, <3>2
      <4>3. Sigmoid(Score(top)) = 30000 \/ Sigmoid(Score(top)) = 3000
        BY <4>1, <4>2 DEF Sigmoid, Unit
      <4>4. QED
        BY <3>2, <4>3
    <3>3. QED
      BY <3>1, <3>2
  <2> HIDE DEF relevance, coverage
  <2>4. ~(Confidence(relevance, 0) >= MinConfidence)
    BY <1>3, <2>3, NotEnough
  <2>5. Confidence(relevance, coverage) = Confidence(relevance, 0)
    BY <2>2
  <2>6. QED
    BY <1>2, <2>4, <2>5
<1>4. EvidenceNeeded'
  <2>1. Score(top)' = Score(top)
    BY <1>1 DEF Score
  <2>2. enough' => results # <<>>
    BY <1>2
  <2>3. QED
    BY <1>1, <1>3, <2>1, <2>2 DEF EvidenceNeeded
<1>5. BestKept'
  BY <1>1, BestStays
<1>6. InOrder(hybrid, Range(hybrid))'
  <2>1. PICK h, C : h = hybrid /\ C = Range(hybrid)
    OBVIOUS
  <2>2. QED
    BY <1>1, <2>1, OrderStays
<1>7. QED
  BY <1>1, <1>4, <1>5, <1>6 DEF RetrievalInv, Chunked

LEMMA RetrievalStays ==
    ASSUME RetrievalInv, UNCHANGED retrievalVars
    PROVE  RetrievalInv'
<1>1. UNCHANGED <<chunk, limit, stage, hybrid, scores, results, enough>>
  BY DEF retrievalVars
<1>2. BestKept'
  <2>1. CASE stage \in {"assess", "done"}
    BY <1>1, <2>1, BestStays DEF RetrievalInv
  <2>2. CASE stage \notin {"assess", "done"}
    BY <1>1, <2>2 DEF BestKept
  <2>3. QED
    BY <2>1, <2>2
<1>3. EvidenceNeeded'
  BY <1>1 DEF RetrievalInv, EvidenceNeeded, Score
<1>4. stage # "query" => InOrder(hybrid, Range(hybrid))'
  <2>1. PICK h, C : h = hybrid /\ C = Range(hybrid)
    OBVIOUS
  <2>2. QED
    BY <1>1, <2>1, OrderStays DEF RetrievalInv
<1>5. QED
  BY <1>1, <1>2, <1>3, <1>4 DEF RetrievalInv, Chunked

LEMMA RetrievalInvariant == TextSpec => []RetrievalInv
<1>1. TextInit => RetrievalInv
  BY InitRetrieval DEF TextInit
<1>2. RetrievalInv /\ [TextNext]_textVars => RetrievalInv'
  <2>1. SUFFICES ASSUME RetrievalInv, [TextNext]_textVars PROVE RetrievalInv'
    OBVIOUS
  <2>2. RetrievalNext \/ UNCHANGED retrievalVars
    BY <2>1 DEF TextNext, textVars
  <2>3. QED
    BY <2>1, <2>2, QueryKeeps, FallbackKeeps, ApplyKeeps, AssessKeeps, RetrievalStays
       DEF RetrievalNext
<1>3. QED
  BY <1>1, <1>2, PTL DEF TextSpec

\* No match that is left out is better than one that is returned, and no place
\* of the limit stays empty, whatever the store holds and the reranker says.
THEOREM TheBestAreKept == TextSpec => []BestKept
<1>1. RetrievalInv => BestKept
  BY DEF RetrievalInv
<1>2. QED
  BY <1>1, RetrievalInvariant, PTL

\* With CONFIDENCE_MIN_SCORE above 0.40, a question no word of whose query occurs in
\* the first chunk is refused, however near that is, unless the reranker finds it
\* relevant.  The words of a follow-up's query are also those of the turns before it.
THEOREM NearnessIsNoEvidence == TextSpec => []EvidenceNeeded
<1>1. RetrievalInv => EvidenceNeeded
  BY DEF RetrievalInv
<1>2. QED
  BY <1>1, RetrievalInvariant, PTL
=============================================================================
