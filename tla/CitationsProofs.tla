--------------------------- MODULE CitationsProofs ---------------------------
(***************************************************************************)
(* The verdict on an answer is right both ways, for answers of any length:    *)
(* no uncited claim passes, and what keeps the rules of the prompt does.      *)
(***************************************************************************)
EXTENDS Citations, SequenceTheorems, WellFoundedInduction, TLAPS

(* Least and greatest positions.                                            *)

LEMMA LeastExists ==
    ASSUME NEW S \in SUBSET Nat, S # {}
    PROVE  \E m \in S : \A q \in S : m <= q
<1> DEFINE R == {ss \in Nat \X Nat : ss[1] < ss[2]}
<1>1. \A a, b \in Nat : a < b => <<a, b>> \in R
  OBVIOUS
<1>2. IsWellFoundedOn(R, Nat)
  BY NatLessThanWellFounded, Zenon DEF OpToRel
<1> HIDE DEF R
<1>3. PICK m \in S : \A q \in S : ~(<<q, m>> \in R)
  BY <1>2, WFMin
<1>4. \A q \in S : ~(q < m)
  BY <1>1, <1>3
<1>5. QED
  BY <1>4

LEMMA GreatestExists ==
    ASSUME NEW n \in Nat, NEW S \in SUBSET (0 .. n), S # {}
    PROVE  \E m \in S : \A q \in S : q <= m
<1>1. PICK k \in {n - q : q \in S} : \A j \in {n - q : q \in S} : k <= j
  <2>1. {n - q : q \in S} \in SUBSET Nat
    OBVIOUS
  <2>2. {n - q : q \in S} # {}
    OBVIOUS
  <2>3. QED
    BY <2>1, <2>2, LeastExists
<1>2. PICK m \in S : k = n - m
  BY <1>1
<1>3. \A q \in S : n - m <= n - q
  BY <1>1, <1>2
<1>4. QED
  BY <1>3


-----------------------------------------------------------------------------
(* Where the atoms go.                                                       *)

Behind == Placed \cup {"line"}   \* what may stand between a stop and its citations

LEMMA AnswerType ==
    ASSUME NEW answer \in Seq(Atoms)
    PROVE  /\ Len(answer) \in Nat
           /\ DOMAIN answer = 1 .. Len(answer)
           /\ \A i \in 1 .. Len(answer) : answer[i] \in Atoms
BY LenProperties, ElementOfSeq

LEMMA EndSpec ==
    ASSUME NEW answer \in Seq(Atoms), NEW i \in 1 .. Len(answer)
    PROVE  LET e == CitationsEnd(answer, i)
           IN  /\ e \in i .. Len(answer)
               /\ \A k \in i + 1 .. e : answer[k] \in Behind
               /\ \A j \in i + 1 .. Len(answer) :
                     /\ answer[j] \in Placed
                     /\ \A k \in i + 1 .. j : answer[k] \in Behind
                     => j <= e
<1> DEFINE Ends == {i} \cup {j \in i + 1 .. Len(answer) :
                     /\ answer[j] \in Placed
                     /\ \A k \in i + 1 .. j : answer[k] \in Behind}
<1>0. Len(answer) \in Nat
  BY AnswerType
<1>1. CitationsEnd(answer, i) = CHOOSE e \in Ends : \A q \in Ends : e >= q
  BY DEF CitationsEnd, Max, Behind
<1>2. Ends \in SUBSET (0 .. Len(answer)) /\ Ends # {}
  BY <1>0
<1>3. /\ \A j \in Ends : j \in i .. Len(answer)
      /\ \A j \in Ends : \A k \in i + 1 .. j : answer[k] \in Behind
      /\ \A j \in i + 1 .. Len(answer) :
            /\ answer[j] \in Placed
            /\ \A k \in i + 1 .. j : answer[k] \in Behind
            => j \in Ends
  BY <1>0
<1> HIDE DEF Ends
<1>4. \E e \in Ends : \A q \in Ends : q <= e
  BY <1>0, <1>2, GreatestExists
<1>5. \A e, q \in Ends : q <= e <=> e >= q
  BY <1>0, <1>2
<1>6. \E e \in Ends : \A q \in Ends : e >= q
  BY <1>4, <1>5
<1>7. CitationsEnd(answer, i) \in Ends /\ \A q \in Ends : CitationsEnd(answer, i) >= q
  BY <1>1, <1>6
<1>8. \A q \in Ends : q <= CitationsEnd(answer, i)
  BY <1>5, <1>7
<1>9. QED
  BY <1>3, <1>7, <1>8

\* The three ways of an atom.
Stopped(answer, s) == s \in 1 .. Len(answer) /\ answer[s] \in Stops

Passed(answer, i, s) == Stopped(answer, s) /\ s < i /\ i <= CitationsEnd(answer, s)

LEMMA MovedSpec ==
    ASSUME NEW answer \in Seq(Atoms), NEW i \in 1 .. Len(answer)
    PROVE  /\ Moved(answer, i) \in 1 .. Len(answer)
           /\ answer[i] \in Stops => Moved(answer, i) = CitationsEnd(answer, i)
           /\ answer[i] \notin Stops /\ (\E s : Passed(answer, i, s)) => Moved(answer, i) = i - 1
           /\ answer[i] \notin Stops /\ ~(\E s : Passed(answer, i, s)) => Moved(answer, i) = i
<1>0. Len(answer) \in Nat
  BY AnswerType
<1>1. \A s \in 1 .. Len(answer) : CitationsEnd(answer, s) \in s .. Len(answer)
  BY EndSpec
<1>2. (\E s \in 1 .. i - 1 : answer[s] \in Stops /\ CitationsEnd(answer, s) >= i)
          <=> \E s : Passed(answer, i, s)
  <2>1. ASSUME NEW s \in 1 .. i - 1, answer[s] \in Stops, CitationsEnd(answer, s) >= i
        PROVE  Passed(answer, i, s)
    <3>1. s \in 1 .. Len(answer) /\ s < i
      BY <1>0
    <3>2. i <= CitationsEnd(answer, s)
      BY <1>0, <1>1, <2>1, <3>1
    <3>3. QED
      BY <2>1, <3>1, <3>2 DEF Passed, Stopped
  <2>2. ASSUME NEW s, Passed(answer, i, s)
        PROVE  s \in 1 .. i - 1 /\ answer[s] \in Stops /\ CitationsEnd(answer, s) >= i
    <3>1. s \in 1 .. Len(answer) /\ answer[s] \in Stops /\ s < i /\ i <= CitationsEnd(answer, s)
      BY <2>2 DEF Passed, Stopped
    <3>2. CitationsEnd(answer, s) \in s .. Len(answer)
      BY <1>1, <3>1
    <3>3. QED
      BY <1>0, <3>1, <3>2
  <2>3. QED
    BY <2>1, <2>2
<1>3. CASE answer[i] \in Stops
  BY <1>0, <1>1, <1>3 DEF Moved
<1>4. CASE answer[i] \notin Stops /\ \E s : Passed(answer, i, s)
  <2>1. Moved(answer, i) = i - 1
    BY <1>2, <1>4 DEF Moved
  <2>2. i - 1 \in 1 .. Len(answer)
    BY <1>0, <1>4 DEF Passed, Stopped
  <2>3. QED
    BY <1>4, <2>1, <2>2
<1>5. CASE answer[i] \notin Stops /\ ~(\E s : Passed(answer, i, s))
  BY <1>2, <1>5 DEF Moved
<1>6. QED
  BY <1>3, <1>4, <1>5

LEMMA MovedNear ==
    ASSUME NEW answer \in Seq(Atoms), NEW i \in 1 .. Len(answer), answer[i] \notin Stops
    PROVE  Moved(answer, i) \in {i - 1, i}
<1>1. CASE \E s : Passed(answer, i, s)
  BY <1>1, MovedSpec
<1>2. CASE ~\E s : Passed(answer, i, s)
  BY <1>2, MovedSpec
<1>3. QED
  BY <1>1, <1>2

\* What a stop passes is not a stop.
LEMMA PassedBehind ==
    ASSUME NEW answer \in Seq(Atoms), NEW i \in 1 .. Len(answer), NEW s,
           Passed(answer, i, s)
    PROVE  answer[i] \in Behind /\ answer[i] \notin Stops /\ answer[i] \notin Spoken
<1>1. i \in s + 1 .. CitationsEnd(answer, s) /\ s \in 1 .. Len(answer)
  BY AnswerType, EndSpec DEF Passed, Stopped
<1>2. answer[i] \in Behind
  BY <1>1, EndSpec
<1>3. QED
  BY <1>2 DEF Behind, Placed, Cited, Spoken, Stops
\* No two atoms meet, ...
LEMMA MovedInjective ==
    ASSUME NEW answer \in Seq(Atoms),
           NEW i \in 1 .. Len(answer), NEW j \in 1 .. Len(answer),
           Moved(answer, i) = Moved(answer, j)
    PROVE  i = j
<1>0. Len(answer) \in Nat
  BY AnswerType
<1>1. ASSUME NEW x \in 1 .. Len(answer), NEW y \in 1 .. Len(answer), x < y,
             Moved(answer, x) = Moved(answer, y)
      PROVE  FALSE
  <2>1. CASE answer[x] \in Stops
    <3>1. Moved(answer, x) = CitationsEnd(answer, x) /\ CitationsEnd(answer, x) \in x .. Len(answer)
      BY <2>1, MovedSpec, EndSpec
    <3>2. CASE y <= CitationsEnd(answer, x)
      <4>1. Passed(answer, y, x)
        BY <1>1, <2>1, <3>2 DEF Passed, Stopped
      <4>2. Moved(answer, y) = y - 1 /\ answer[y] \notin Stops
        BY <4>1, MovedSpec, PassedBehind
      <4>3. QED
        <5>1. CitationsEnd(answer, x) = y - 1
          BY <1>1, <3>1, <4>2
        <5>2. CitationsEnd(answer, x) \in Nat
          BY <1>0, <3>1
        <5>3. QED
          BY <3>2, <5>1, <5>2
    <3>3. CASE ~(y <= CitationsEnd(answer, x))
      <4>1. CASE answer[y] \in Stops
        <5>1. Moved(answer, y) = CitationsEnd(answer, y) /\ CitationsEnd(answer, y) \in y .. Len(answer)
          BY <4>1, MovedSpec, EndSpec
        <5>2. CitationsEnd(answer, x) \in y .. Len(answer)
          BY <1>1, <3>1, <5>1
        <5>3. QED
          BY <1>0, <3>3, <5>2
      <4>2. CASE answer[y] \notin Stops /\ \E s : Passed(answer, y, s)
        <5>1. PICK s : Passed(answer, y, s)
          BY <4>2
        <5>2. Moved(answer, y) = y - 1
          BY <4>2, MovedSpec
        <5>3. CitationsEnd(answer, x) = y - 1
          BY <1>1, <3>1, <5>2
        <5>4. s \in 1 .. Len(answer) /\ s < y /\ y <= CitationsEnd(answer, s) /\ answer[s] \in Stops
          BY <5>1 DEF Passed, Stopped
        <5>5. s # x
          BY <1>0, <5>3, <5>4
        <5>6. CASE s < x
          <6>1. Passed(answer, x, s)
            <7>1. CitationsEnd(answer, s) \in s .. Len(answer)
              BY <5>4, EndSpec
            <7>2. QED
              BY <1>0, <1>1, <5>4, <5>6, <7>1 DEF Passed, Stopped
          <6>2. QED
            <7>1. answer[x] \notin Stops
              BY <6>1, PassedBehind
            <7>2. QED
              BY <2>1, <7>1
        <5>7. CASE x < s
          <6>1. Passed(answer, s, x)
            BY <1>0, <2>1, <5>3, <5>4, <5>7 DEF Passed, Stopped
          <6>2. QED
            BY <5>4, <6>1, PassedBehind
        <5>8. QED
          BY <1>0, <5>4, <5>5, <5>6, <5>7
      <4>3. CASE answer[y] \notin Stops /\ ~\E s : Passed(answer, y, s)
        <5>1. Moved(answer, y) = y
          BY <4>3, MovedSpec
        <5>2. CitationsEnd(answer, x) = y
          BY <1>1, <3>1, <5>1
        <5>3. QED
          BY <1>0, <3>3, <5>2
      <4>4. QED
        BY <4>1, <4>2, <4>3
    <3>4. QED
      BY <3>2, <3>3
  <2>2. CASE answer[x] \notin Stops
    <3>1. Moved(answer, x) \in {x - 1, x}
      BY <2>2, MovedNear
    <3>2. CASE answer[y] \in Stops
      <4>1. Moved(answer, y) = CitationsEnd(answer, y) /\ CitationsEnd(answer, y) \in y .. Len(answer)
        BY <3>2, MovedSpec, EndSpec
      <4>2. QED
        BY <1>0, <1>1, <3>1, <4>1
    <3>3. CASE answer[y] \notin Stops
      <4>1. Moved(answer, y) \in {y - 1, y}
        BY <3>3, MovedNear
      <4>2. x = y - 1 /\ Moved(answer, y) = y - 1 /\ Moved(answer, x) = x
        BY <1>0, <1>1, <3>1, <4>1, MovedSpec
      <4>3. PICK s : Passed(answer, y, s)
        BY <1>0, <3>3, <4>2, MovedSpec
      <4>4. Passed(answer, x, s)
        <5>1. s \in 1 .. Len(answer) /\ s < y /\ y <= CitationsEnd(answer, s) /\ answer[s] \in Stops
          BY <4>3 DEF Passed, Stopped
        <5>2. CitationsEnd(answer, s) \in s .. Len(answer)
          BY <5>1, EndSpec
        <5>3. QED
          BY <1>0, <2>2, <4>2, <5>1, <5>2 DEF Passed, Stopped
      <4>5. Moved(answer, x) = x - 1
        BY <2>2, <4>4, MovedSpec
      <4>6. QED
        BY <1>0, <4>2, <4>5
    <3>4. QED
      BY <3>2, <3>3
  <2>3. QED
    BY <2>1, <2>2
<1>2. QED
  BY <1>0, <1>1

\* ... and no place stays empty.
LEMMA MovedSurjective ==
    ASSUME NEW answer \in Seq(Atoms), NEW p \in 1 .. Len(answer)
    PROVE  \E i \in 1 .. Len(answer) : Moved(answer, i) = p
<1>0. Len(answer) \in Nat
  BY AnswerType
<1>1. CASE \E s : Stopped(answer, s) /\ s <= p /\ p < CitationsEnd(answer, s)
  <2>1. PICK s : Stopped(answer, s) /\ s <= p /\ p < CitationsEnd(answer, s)
    BY <1>1
  <2>2. s \in 1 .. Len(answer) /\ CitationsEnd(answer, s) \in s .. Len(answer)
    BY <2>1, EndSpec DEF Stopped
  <2>3. p + 1 \in 1 .. Len(answer) /\ Passed(answer, p + 1, s)
    BY <1>0, <2>1, <2>2 DEF Passed
  <2>4. answer[p + 1] \notin Stops
    BY <2>3, PassedBehind
  <2>5. Moved(answer, p + 1) = (p + 1) - 1
    BY <2>3, <2>4, MovedSpec
  <2>6. QED
    BY <2>3, <2>5
<1>2. CASE \E s : Stopped(answer, s) /\ p = CitationsEnd(answer, s)
  BY <1>2, MovedSpec DEF Stopped
<1>3. CASE ~\E s : Stopped(answer, s) /\ s <= p /\ p <= CitationsEnd(answer, s)
  <2>1. answer[p] \notin Stops
    <3>1. p <= CitationsEnd(answer, p)
      BY EndSpec
    <3>2. QED
      BY <1>3, <3>1 DEF Stopped
  <2>2. ~\E s : Passed(answer, p, s)
    BY <1>3 DEF Passed, Stopped
  <2>3. QED
    BY <2>1, <2>2, MovedSpec
<1>4. QED
  <2>1. \A s \in 1 .. Len(answer) : CitationsEnd(answer, s) \in s .. Len(answer)
    BY EndSpec
  <2>2. QED
    BY <1>0, <1>1, <1>2, <1>3, <2>1 DEF Stopped

LEMMA NormalizedSpec ==
    ASSUME NEW answer \in Seq(Atoms)
    PROVE  LET text == Normalized(answer)
           IN  /\ DOMAIN text = 1 .. Len(answer)
               /\ Len(text) = Len(answer)
               /\ \A i \in 1 .. Len(answer) : text[Moved(answer, i)] = answer[i]
               /\ \A p \in 1 .. Len(answer) :
                     \E i \in 1 .. Len(answer) : Moved(answer, i) = p /\ text[p] = answer[i]
<1> DEFINE At(p) == CHOOSE i \in 1 .. Len(answer) : Moved(answer, i) = p
           text == Normalized(answer)
<1>0. Len(answer) \in Nat
  BY AnswerType
<1>1. \A p \in 1 .. Len(answer) : At(p) \in 1 .. Len(answer) /\ Moved(answer, At(p)) = p
  BY MovedSurjective
<1>2. text = [p \in 1 .. Len(answer) |-> answer[At(p)]]
  BY DEF Normalized
<1> HIDE DEF At
<1>3. DOMAIN text = 1 .. Len(answer) /\ \A p \in 1 .. Len(answer) : text[p] = answer[At(p)]
  BY <1>2
<1>4. \A p \in 1 .. Len(answer) : answer[At(p)] \in Atoms
  BY <1>1, AnswerType
<1>5. text \in [1 .. Len(answer) -> Atoms]
  BY <1>2, <1>4
<1> HIDE DEF text
<1>6. text \in Seq(Atoms) /\ Len(text) = Len(answer)
  BY <1>0, <1>3, <1>5
<1>7. \A i \in 1 .. Len(answer) : At(Moved(answer, i)) = i
  BY <1>1, MovedSpec, MovedInjective
<1>8. \A i \in 1 .. Len(answer) : text[Moved(answer, i)] = answer[i]
  BY <1>3, <1>7, MovedSpec
<1>9. \A p \in 1 .. Len(answer) :
          \E i \in 1 .. Len(answer) : Moved(answer, i) = p /\ text[p] = answer[i]
  BY <1>1, <1>3
<1>10. QED
  BY <1>3, <1>6, <1>8, <1>9 DEF text
LEMMA SpokenStays ==
    ASSUME NEW answer \in Seq(Atoms), NEW i \in 1 .. Len(answer), answer[i] \in Spoken
    PROVE  /\ Moved(answer, i) = i
           /\ Normalized(answer)[i] = answer[i]
           /\ \A s : ~Passed(answer, i, s)
<1>1. \A s : ~Passed(answer, i, s)
  BY PassedBehind
<1>2. answer[i] \notin Stops
  BY DEF Spoken, Stops
<1>3. Moved(answer, i) = i
  BY <1>1, <1>2, MovedSpec
<1>4. Normalized(answer)[i] = answer[i]
  BY <1>3, NormalizedSpec
<1>5. QED
  BY <1>1, <1>3, <1>4

\* What is spoken is spoken before and after.
LEMMA SpokenOrigin ==
    ASSUME NEW answer \in Seq(Atoms), NEW p \in 1 .. Len(answer),
           Normalized(answer)[p] \in Spoken
    PROVE  answer[p] \in Spoken
<1>1. PICK i \in 1 .. Len(answer) : Moved(answer, i) = p /\ Normalized(answer)[p] = answer[i]
  BY NormalizedSpec
<1>2. Moved(answer, i) = i
  BY <1>1, SpokenStays
<1>3. QED
  BY <1>1, <1>2
-----------------------------------------------------------------------------
(* Claims.                                                                   *)

LEMMA ClaimSpec ==
    ASSUME NEW answer \in Seq(Atoms), NEW span \in Claims(answer)
    PROVE  LET text == Normalized(answer)
           IN  /\ span[1] \in 1 .. Len(answer) /\ span[2] \in 1 .. Len(answer)
               /\ \A q \in span[1] .. span[2] : text[q] \notin Separators
               /\ span[2] < Len(answer) => text[span[2] + 1] \in Separators
               /\ \E q \in span[1] .. span[2] : text[q] \in Spoken
<1> DEFINE text == Normalized(answer)
<1>1. Len(text) = Len(answer)
  BY NormalizedSpec
<1> HIDE DEF text
<1>2. QED
  BY <1>1 DEF Claims, text

\* Whatever is said belongs to a claim.
LEMMA ClaimExists ==
    ASSUME NEW answer \in Seq(Atoms), NEW i \in 1 .. Len(answer), answer[i] \in Spoken
    PROVE  \E span \in Claims(answer) : span[1] <= i /\ i <= span[2]
<1> DEFINE text == Normalized(answer)
           Starts == {x \in 1 .. i : \A q \in x .. i : text[q] \notin Separators}
           Ends == {y \in i .. Len(answer) : \A q \in i .. y : text[q] \notin Separators}
<1>0. Len(answer) \in Nat
  BY AnswerType
<1>1. text[i] \in Spoken /\ Len(text) = Len(answer)
  BY SpokenStays, NormalizedSpec
<1> HIDE DEF text
<1>2. text[i] \notin Separators
  BY <1>1 DEF Spoken, Separators, Stops
<1>3. Starts \in SUBSET Nat /\ i \in Starts
  BY <1>0, <1>2
<1>4. Ends \in SUBSET (0 .. Len(answer)) /\ i \in Ends
  BY <1>0, <1>2
<1>5. PICK x \in Starts : \A q \in Starts : x <= q
  BY <1>3, LeastExists
<1>6. PICK y \in Ends : \A q \in Ends : q <= y
  BY <1>0, <1>4, GreatestExists
<1>7. x \in 1 .. i /\ y \in i .. Len(answer)
  OBVIOUS
<1>8. \A q \in x .. y : text[q] \notin Separators
  <2>1. \A q \in x .. i : text[q] \notin Separators
    OBVIOUS
  <2>2. \A q \in i .. y : text[q] \notin Separators
    OBVIOUS
  <2>3. QED
    BY <1>0, <1>7, <2>1, <2>2
<1>9. x > 1 => text[x - 1] \in Separators
  <2>1. SUFFICES ASSUME x > 1, text[x - 1] \notin Separators PROVE FALSE
    OBVIOUS
  <2>2. x - 1 \in Starts
    BY <1>0, <1>7, <1>8, <2>1
  <2>3. QED
    BY <1>5, <1>7, <2>2
<1>10. y < Len(text) => text[y + 1] \in Separators
  <2>1. SUFFICES ASSUME y < Len(answer), text[y + 1] \notin Separators PROVE FALSE
    BY <1>1
  <2>2. y + 1 \in Ends
    BY <1>0, <1>7, <1>8, <2>1
  <2>3. QED
    BY <1>0, <1>6, <1>7, <2>2
<1>11. <<x, y>> \in Claims(answer)
  <2>1. x \in 1 .. Len(answer) /\ y \in 1 .. Len(answer) /\ x <= y /\ i \in x .. y
    BY <1>0, <1>7
  <2> HIDE DEF Starts, Ends
  <2>2. QED
    BY <1>1, <1>8, <1>9, <1>10, <2>1 DEF Claims, text
<1>12. QED
  <2>1. <<x, y>>[1] <= i /\ i <= <<x, y>>[2]
    BY <1>0, <1>7
  <2>2. QED
    BY <1>11, <2>1
-----------------------------------------------------------------------------
(* A citation that ends up in the claim of a word speaks for it, ...          *)

LEMMA CitedSpeaks ==
    ASSUME NEW answer \in Seq(Atoms), NEW i \in 1 .. Len(answer), answer[i] \in Spoken,
           NEW j \in 1 .. Len(answer), answer[j] = "cite",
           \A p \in 1 .. Len(answer) : answer[p] # "literal",
           \A q \in (i .. Moved(answer, j)) \cup (Moved(answer, j) .. i) :
               Normalized(answer)[q] \notin Separators
    PROVE  SpeaksFor(answer, i, j)
<1> DEFINE k == Moved(answer, j)
<1>0. /\ Len(answer) \in Nat /\ i # j
      /\ answer[j] \notin Separators /\ answer[i] \notin Separators
      /\ answer[j] \notin Stops
  BY AnswerType DEF Spoken, Separators, Stops
<1>1. \A p \in 1 .. Len(answer) :
          Moved(answer, p) \in (i .. k) \cup (k .. i) => answer[p] \notin Separators
  BY NormalizedSpec
<1>2. k \in 1 .. Len(answer) /\ k \in {j - 1, j}
  BY <1>0, MovedSpec
<1>3. k = j - 1 => \E s : Passed(answer, j, s)
  <2>1. (\E s : Passed(answer, j, s)) \/ k = j
    BY <1>0, MovedSpec
  <2>2. j # j - 1
    OBVIOUS
  <2> HIDE DEF k
  <2>3. QED
    BY <2>1, <2>2
<1> HIDE DEF k
<1>4. \A s \in 1 .. Len(answer) : answer[s] \in Stops =>
          /\ Moved(answer, s) = CitationsEnd(answer, s)
          /\ CitationsEnd(answer, s) \in s .. Len(answer)
          /\ s < i => CitationsEnd(answer, s) < i
  <2>1. SUFFICES ASSUME NEW s \in 1 .. Len(answer), answer[s] \in Stops
                 PROVE  /\ Moved(answer, s) = CitationsEnd(answer, s)
                        /\ CitationsEnd(answer, s) \in s .. Len(answer)
                        /\ s < i => CitationsEnd(answer, s) < i
    OBVIOUS
  <2>2. Moved(answer, s) = CitationsEnd(answer, s) /\ CitationsEnd(answer, s) \in s .. Len(answer)
    BY <2>1, MovedSpec, EndSpec
  <2>3. ~Passed(answer, i, s)
    BY SpokenStays
  <2>4. s < i => CitationsEnd(answer, s) < i
    BY <1>0, <2>1, <2>2, <2>3 DEF Passed, Stopped
  <2>5. QED
    BY <2>2, <2>4
<1>5. \A p \in 1 .. Len(answer) : answer[p] = "line" => Moved(answer, p) \in {p - 1, p}
  BY MovedNear DEF Stops
<1>6. CASE j < i
  <2>1. k = j
    <3>1. SUFFICES ASSUME k = j - 1 PROVE FALSE
      BY <1>2
    <3>2. PICK s : Passed(answer, j, s)
      BY <1>3, <3>1
    <3>3. s \in 1 .. Len(answer) /\ answer[s] \in Stops /\ s < j /\ j <= CitationsEnd(answer, s)
      BY <3>2 DEF Passed, Stopped
    <3>4. Moved(answer, s) = CitationsEnd(answer, s) /\ CitationsEnd(answer, s) < i
          /\ CitationsEnd(answer, s) \in s .. Len(answer)
      BY <1>0, <1>4, <1>6, <3>3
    <3>5. Moved(answer, s) \in k .. i
      BY <1>0, <3>1, <3>3, <3>4
    <3>6. QED
      BY <1>1, <3>3, <3>5 DEF Separators
  <2>2. ASSUME NEW p \in j .. i PROVE answer[p] \notin Separators
    <3>0. p \in 1 .. Len(answer)
      BY <1>0
    <3>1. CASE p \in {i, j}
      BY <1>0, <3>1
    <3>2. CASE p \notin {i, j} /\ answer[p] \in Stops
      <4>1. Moved(answer, p) \in k .. i
        <5>1. p < i /\ j < p
          BY <1>0, <1>6, <3>2
        <5>2. Moved(answer, p) = CitationsEnd(answer, p) /\ CitationsEnd(answer, p) < i
              /\ CitationsEnd(answer, p) \in p .. Len(answer)
          BY <1>4, <3>0, <3>2, <5>1
        <5>3. QED
          BY <1>0, <2>1, <5>1, <5>2
      <4>2. QED
        BY <1>1, <3>0, <4>1
    <3>3. CASE p \notin {i, j} /\ answer[p] = "line"
      <4>1. Moved(answer, p) \in k .. i
        BY <1>0, <1>5, <2>1, <3>0, <3>3
      <4>2. QED
        BY <1>1, <3>0, <4>1
    <3>4. QED
      BY <3>1, <3>2, <3>3 DEF Separators
  <2>3. InSentence(answer, i, j)
    BY <1>0, <1>6, <2>2 DEF InSentence, Separators, Stops
  <2>4. QED
    BY <2>3 DEF SpeaksFor
<1>7. CASE i < j
  <2>1. ASSUME NEW p \in i .. j PROVE answer[p] # "line"
    <3>1. SUFFICES ASSUME answer[p] = "line" PROVE FALSE
      OBVIOUS
    <3>2. p \in 1 .. Len(answer) /\ p # i /\ p # j
      BY <1>0, <3>1 DEF Separators
    <3>3. Moved(answer, p) \in i .. k
      BY <1>0, <1>2, <1>5, <3>1, <3>2
    <3>4. QED
      BY <1>1, <3>1, <3>2, <3>3 DEF Separators
  <2>2. ASSUME NEW p \in i .. j, answer[p] = "stop", NEW l \in p .. j
        PROVE  answer[l] \notin Said
    <3>0. answer[p] \in Stops
      BY <2>2 DEF Stops
    <3>1. p \in 1 .. Len(answer) /\ l \in 1 .. Len(answer) /\ p # i /\ p # j
      BY <1>0, <2>2, <3>0 DEF Separators
    <3>2. Moved(answer, p) = CitationsEnd(answer, p) /\ CitationsEnd(answer, p) \in p .. Len(answer)
      BY <1>4, <3>0, <3>1
    <3>3. Moved(answer, p) \notin i .. k
      BY <1>1, <3>0, <3>1 DEF Separators
    <3>4. j <= CitationsEnd(answer, p)
      BY <1>0, <1>2, <3>1, <3>2, <3>3
    <3>5. CASE l = p
      BY <2>2, <3>5 DEF Said, Separators, Stops
    <3>6. CASE l # p
      <4>1. l \in p + 1 .. CitationsEnd(answer, p)
        BY <1>0, <3>1, <3>2, <3>4, <3>6
      <4>2. answer[l] \in Behind
        BY <3>1, <4>1, EndSpec
      <4>3. answer[l] # "literal"
        BY <3>1
      <4>4. QED
        BY <4>2, <4>3 DEF Behind, Placed, Said, Separators
    <3>7. QED
      BY <3>5, <3>6
  <2>3. Unbroken(answer, i, j)
    BY <2>1, <2>2 DEF Unbroken
  <2>4. QED
    BY <1>7, <2>3 DEF SpeaksFor
<1>8. QED
  BY <1>0, <1>6, <1>7

(* ... and one that ends a sentence as the prompt asks is in its claim.       *)

LEMMA EndStaysClose ==
    ASSUME NEW answer \in Seq(Atoms), NEW i \in 1 .. Len(answer), answer[i] \in Spoken,
           NEW j \in i + 1 .. Len(answer), answer[j] = "cite", Unbroken(answer, i, j),
           \A p \in 1 .. Len(answer) : answer[p] # "dot",
           \A x, y \in i .. j : answer[x] = "stop" /\ answer[y] = "stop" => x = y
    PROVE  /\ Moved(answer, j) \in i .. j
           /\ \A q \in i .. Moved(answer, j) : Normalized(answer)[q] \notin Separators
<1> DEFINE k == Moved(answer, j)
<1>0. Len(answer) \in Nat /\ j \in 1 .. Len(answer)
  BY AnswerType
<1>1. k \in {j - 1, j}
  BY <1>0, MovedNear DEF Stops
<1>2. k \in i .. j
  BY <1>0, <1>1
<1> SUFFICES ASSUME NEW q \in i .. k, Normalized(answer)[q] \in Separators
             PROVE  FALSE
  BY <1>2
<1>3. q \in 1 .. Len(answer)
  BY <1>0, <1>2
<1>4. PICK p \in 1 .. Len(answer) : Moved(answer, p) = q /\ answer[p] \in Separators
  BY <1>3, NormalizedSpec
<1>5. p # j
  BY <1>4 DEF Separators, Stops
<1>6. Moved(answer, p) # k
  BY <1>0, <1>5, MovedInjective
<1>7. CASE answer[p] = "line"
  <2>1. q \in {p - 1, p}
    BY <1>4, <1>7, MovedNear DEF Stops
  <2>2. p \in i .. j
    BY <1>0, <1>1, <1>2, <1>4, <1>6, <2>1
  <2>3. QED
    BY <1>7, <2>2 DEF Unbroken
<1>8. CASE answer[p] = "stop"
  <2>1. q = CitationsEnd(answer, p) /\ q \in p .. Len(answer)
    <3>1. Moved(answer, p) = CitationsEnd(answer, p)
      BY <1>8, MovedSpec DEF Stops
    <3>2. CitationsEnd(answer, p) \in p .. Len(answer)
      BY EndSpec
    <3>3. QED
      BY <1>4, <3>1, <3>2
  <2>2. ~(p < i)
    <3>1. ~Passed(answer, i, p)
      BY SpokenStays
    <3>2. QED
      BY <1>0, <1>2, <1>8, <2>1, <3>1 DEF Passed, Stopped, Stops
  <2>3. p \in i .. j - 1
    BY <1>0, <1>2, <1>5, <2>1, <2>2
  <2>4. \A l \in p + 1 .. j : answer[l] \in Cited
    <3>1. SUFFICES ASSUME NEW l \in p + 1 .. j PROVE answer[l] \in Cited
      OBVIOUS
    <3>2. l \in i .. j /\ l \in p .. j /\ l # p /\ l \in 1 .. Len(answer) /\ p \in i .. j
      BY <1>0, <2>3
    <3>3. answer[l] # "line" /\ answer[l] \notin Said
      BY <1>8, <3>2 DEF Unbroken
    <3>4. answer[l] \notin Stops
      BY <1>8, <3>2 DEF Stops
    <3>5. answer[l] \in Atoms
      BY <3>2, AnswerType
    <3>6. QED
      BY <3>3, <3>4, <3>5 DEF Said, Separators
  <2>5. j <= CitationsEnd(answer, p)
    <3>1. j \in p + 1 .. Len(answer) /\ answer[j] \in Placed
      BY <1>0, <2>3, <2>4 DEF Placed
    <3>2. \A l \in p + 1 .. j : answer[l] \in Behind
      BY <2>4 DEF Behind, Placed
    <3>3. QED
      BY <3>1, <3>2, EndSpec
  <2>6. QED
    BY <1>0, <1>1, <1>2, <1>4, <1>6, <2>1, <2>5
<1>9. QED
  BY <1>3, <1>4, <1>7, <1>8 DEF Separators, Stops
-----------------------------------------------------------------------------
LEMMA SpokenSaid == Spoken \subseteq Said
BY DEF Said, Spoken, Atoms, Cited, Separators, Stops

LEMMA VerdictSpec ==
    ASSUME NEW answer
    PROVE  Verdict(answer) = "grounded"
               <=> ~Blank(answer) /\ ~Hedged(answer) /\ Complete(answer)
BY DEF Verdict

\* In a grounded answer of any length without the word CITATION each word with an
\* ASCII letter or digit has a citation that speaks for it (confidence.py:150-174).
THEOREM OnlySupportedPasses == \A answer \in Seq(Atoms) : OnlySupported(answer)
<1>1. SUFFICES ASSUME NEW answer \in Seq(Atoms), Verdict(answer) = "grounded",
                      ~Has(answer, Placeholders)
               PROVE  /\ Honest(answer)
                      /\ \A i \in DOMAIN answer : answer[i] \in Spoken =>
                            \E j \in DOMAIN answer : SpeaksFor(answer, i, j)
  BY DEF OnlySupported, CitedThroughout, Supported
<1>2. ~Hedged(answer) /\ Complete(answer) /\ DOMAIN answer = 1 .. Len(answer)
  BY <1>1, VerdictSpec, AnswerType
<1>3. /\ \A i \in 1 .. Len(answer) : answer[i] \notin {"ghost", "hedge"}
      /\ \A i \in 1 .. Len(answer) : answer[i] \notin Placeholders
      /\ Claims(answer) # {}
      /\ \A span \in Claims(answer) :
            \E q \in span[1] .. span[2] : Normalized(answer)[q] \in Counted
  BY <1>1, <1>2 DEF Complete, Hedged, Has
<1>4. \E i \in 1 .. Len(answer) : answer[i] \in Said
  <2>1. PICK span \in Claims(answer) : TRUE
    BY <1>3
  <2>2. PICK q \in span[1] .. span[2] : Normalized(answer)[q] \in Spoken
    BY ClaimSpec
  <2>3. q \in 1 .. Len(answer)
    BY ClaimSpec, AnswerType
  <2>4. answer[q] \in Spoken
    BY <2>2, <2>3, SpokenOrigin
  <2>5. QED
    BY <2>3, <2>4, SpokenSaid
<1>5. ASSUME NEW i \in 1 .. Len(answer), answer[i] \in Spoken
      PROVE  \E j \in 1 .. Len(answer) : SpeaksFor(answer, i, j)
  <2>1. PICK span \in Claims(answer) : span[1] <= i /\ i <= span[2]
    BY <1>5, ClaimExists
  <2>2. PICK q \in span[1] .. span[2] : Normalized(answer)[q] \in Counted
    BY <1>3
  <2>3. /\ span[1] \in 1 .. Len(answer) /\ span[2] \in 1 .. Len(answer)
        /\ \A r \in span[1] .. span[2] : Normalized(answer)[r] \notin Separators
    BY ClaimSpec
  <2>4. q \in 1 .. Len(answer)
    BY <2>3, AnswerType
  <2>5. PICK j \in 1 .. Len(answer) :
            Moved(answer, j) = q /\ Normalized(answer)[q] = answer[j]
    BY <2>4, NormalizedSpec
  <2>6. answer[j] = "cite"
    BY <1>3, <2>2, <2>5 DEF Counted, Placed, Cited, Placeholders
  <2>7. \A r \in (i .. q) \cup (q .. i) : Normalized(answer)[r] \notin Separators
    BY <2>1, <2>3, <2>4, AnswerType
  <2>8. SpeaksFor(answer, i, j)
    BY <1>3, <1>5, <2>5, <2>6, <2>7, CitedSpeaks DEF Placeholders
  <2>9. QED
    BY <2>8
<1>6. QED
  BY <1>2, <1>3, <1>4, <1>5 DEF Honest, Has

\* An answer of any length that follows the prompt's rules is accepted, if no dot
\* stands in a word and some word has an ASCII letter or digit (confidence.py:150-174).
THEOREM CompliantIsAccepted == \A answer \in Seq(Atoms) : CompliantPasses(answer)
<1>1. SUFFICES ASSUME NEW answer \in Seq(Atoms), Compliant(answer),
                      ~Has(answer, {"dot"}), Has(answer, Spoken)
               PROVE  Verdict(answer) = "grounded"
  BY DEF CompliantPasses
<1>2. /\ DOMAIN answer = 1 .. Len(answer) /\ Len(answer) \in Nat
      /\ \A i \in 1 .. Len(answer) : answer[i] \notin {"ghost", "hedge"}
      /\ \A i \in 1 .. Len(answer) : answer[i] # "dot"
      /\ \A i \in 1 .. Len(answer) : answer[i] \in Spoken => EndsCited(answer, i)
  BY <1>1, AnswerType, SpokenSaid DEF Compliant, Honest, Has
<1>3. PICK w \in 1 .. Len(answer) : answer[w] \in Spoken
  BY <1>1, <1>2 DEF Has
<1>4. ~Blank(answer) /\ ~Hedged(answer)
  BY <1>2, <1>3 DEF Blank, Hedged, Spoken
<1>5. \E i \in 1 .. Len(answer) : answer[i] \in Cited
  <2>1. PICK j \in w + 1 .. Len(answer) : answer[j] = "cite"
    BY <1>2, <1>3 DEF EndsCited
  <2>2. QED
    BY <1>2, <2>1 DEF Cited
<1>6. Claims(answer) # {}
  BY <1>3, ClaimExists
<1>7. ASSUME NEW span \in Claims(answer)
      PROVE  \E q \in span[1] .. span[2] : Normalized(answer)[q] \in Counted
  <2>1. /\ span[1] \in 1 .. Len(answer) /\ span[2] \in 1 .. Len(answer)
        /\ span[2] < Len(answer) => Normalized(answer)[span[2] + 1] \in Separators
    BY ClaimSpec
  <2>2. PICK i \in span[1] .. span[2] : Normalized(answer)[i] \in Spoken
    BY ClaimSpec
  <2>3. i \in 1 .. Len(answer) /\ answer[i] \in Spoken
    BY <1>2, <2>1, <2>2, SpokenOrigin
  <2>4. EndsCited(answer, i)
    BY <1>2, <2>3
  <2>5. PICK j \in i + 1 .. Len(answer) :
            /\ answer[j] = "cite"
            /\ Unbroken(answer, i, j)
            /\ \A x, y \in i .. j : answer[x] = "stop" /\ answer[y] = "stop" => x = y
    BY <2>4 DEF EndsCited
  <2> DEFINE k == Moved(answer, j)
  <2>6. k \in i .. j /\ \A q \in i .. k : Normalized(answer)[q] \notin Separators
    BY <1>2, <2>3, <2>5, EndStaysClose
  <2>7. j \in 1 .. Len(answer) /\ Normalized(answer)[k] = answer[j]
    <3>1. j \in 1 .. Len(answer)
      BY <1>2, <2>3
    <3>2. QED
      BY <3>1, NormalizedSpec
  <2> HIDE DEF k
  <2>8. k <= span[2]
    <3>1. SUFFICES ASSUME ~(k <= span[2]) PROVE FALSE
      OBVIOUS
    <3>2. span[2] < Len(answer) /\ span[2] + 1 \in i .. k
      BY <1>2, <2>1, <2>3, <2>6, <2>7, <3>1
    <3>3. QED
      BY <2>1, <2>6, <3>2
  <2>9. k \in span[1] .. span[2]
    BY <1>2, <2>1, <2>3, <2>6, <2>7, <2>8
  <2>10. QED
    BY <2>5, <2>7, <2>9 DEF Counted, Placed, Cited
<1>8. Complete(answer)
  BY <1>2, <1>5, <1>6, <1>7 DEF Complete
<1>9. QED
  BY <1>4, <1>8, VerdictSpec
=============================================================================
