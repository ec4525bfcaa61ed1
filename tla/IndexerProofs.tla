---------------------------- MODULE IndexerProofs ----------------------------
(***************************************************************************)
(* Theorems of Indexer for any tree, any chunking and any history of edits,  *)
(* failures, crashes and upgrades.  A run treats each path by itself: it     *)
(* leaves it alone, keeps its records, replaces them or drops them, and what *)
(* it did to one path no step on another disturbs.                           *)
(***************************************************************************)
EXTENDS Indexer, TLAPS

-----------------------------------------------------------------------------
(* What a run has done to a path so far.                                    *)

Wants(p, k) == <<p, k>> \in desired

AsBefore(p) == \A r \in Record : r.path = p => (r \in records <=> r \in before)

Untouched(p) == AsBefore(p) /\ \A k \in Chunks : ~Wants(p, k)

\* Passed over: its records are all of this release and of one content.
Skipped(p) ==
    \E h \in Contents :
        /\ ~rebuild
        /\ AsBefore(p)
        /\ \E r \in before : r.path = p
        /\ \A r \in before : r.path = p => r.hash = h /\ r.release = release
        /\ \A r \in before : r.path = p => Wants(p, r.chunk)
        /\ quiet => tree[p] = h

\* Read as content w and stored under the hash h taken before.
Stored(p) ==
    \E h \in Contents, w \in Contents \ Undecodable :
        /\ \A k \in Chunks : Wants(p, k) <=> k \in ChunksOf[release][w]
        /\ \A r \in Record : r.path = p =>
              (r \in records <=>
                  IF r.chunk \in ChunksOf[release][w] THEN r.hash = h /\ r.release = release
                                             ELSE r \in before)
        /\ quiet => tree[p] = h /\ tree[p] = w
        /\ ~torn => h = w

\* Not there when the tree was listed, or not readable.
Left(p) == Untouched(p) /\ (quiet => ~Indexable(p))

PathInv(p) ==
    IF p \in todo THEN Untouched(p) ELSE Skipped(p) \/ Stored(p) \/ Left(p)

-----------------------------------------------------------------------------
(* The invariant.                                                           *)

\* The collection R has only entries that their release makes of a decodable
\* content, and where all entries of a path are of one content and one release,
\* they are all of its chunks.
Honest(R) ==
    /\ \A r \in R : r.hash \notin Undecodable /\ r.chunk \in ChunksOf[r.release][r.hash]
    /\ \A p \in Paths, h \in Contents, e \in Releases :
          /\ \E r \in R : r.path = p
          /\ \A r \in R : r.path = p => r.hash = h /\ r.release = e
          => \A k \in ChunksOf[e][h] : \E r \in R : r.path = p /\ r.chunk = k

HonestInv == ~torn => Honest(records) /\ Honest(before)

ReadingInv ==
    IF pc = "reading"
    THEN /\ hashed \in [path : todo, hash : Contents]
         /\ quiet => tree[hashed.path] = hashed.hash
    ELSE hashed = Nothing

RunInv == pc \in {"scanning", "reading"} => \A p \in Paths : PathInv(p)

MarkInv ==
    pc = "marking" =>
        /\ \A r \in records : r.release = release
        /\ quiet /\ (rebuild \/ ~torn) => \A p \in Paths : PathExact(p)

IdleInv == pc = "idle" => before = {}

IInv ==
    /\ TypeOK
    /\ HonestInv
    /\ ReadingInv
    /\ RunInv
    /\ MarkInv
    /\ IdleInv

-----------------------------------------------------------------------------
(* Lemmas about the operators.                                              *)

LEMMA EntriesType ==
    ASSUME release \in Releases,
           NEW p \in Paths, NEW c \in Contents, NEW h \in Contents
    PROVE  /\ Entries(p, c, h) \subseteq Record
           /\ \A r \in Record :
                 r \in Entries(p, c, h) <=>
                    r.path = p /\ r.chunk \in ChunksOf[release][c] /\ r.hash = h /\ r.release = release
<1>1. ChunksOf[release][c] \subseteq Chunks
  BY ContentAssumption
<1>2. Entries(p, c, h) \subseteq Record
  <2> SUFFICES ASSUME NEW k \in Chunks
               PROVE  [path |-> p, chunk |-> k, hash |-> h, release |-> release] \in Record
    BY <1>1 DEF Entries
  <2>1. QED
    BY DEF Record
<1>3. ASSUME NEW r \in Record
      PROVE  r \in Entries(p, c, h) <=>
                r.path = p /\ r.chunk \in ChunksOf[release][c] /\ r.hash = h /\ r.release = release
  <2>1. r = [path |-> r.path, chunk |-> r.chunk, hash |-> r.hash,
           release |-> r.release]
    BY DEF Record
  <2>3. ASSUME r.path = p, r.chunk \in ChunksOf[release][c], r.hash = h, r.release = release
        PROVE  r \in Entries(p, c, h)
    BY <2>1, <2>3 DEF Entries
  <2>4. ASSUME r \in Entries(p, c, h)
        PROVE  r.path = p /\ r.chunk \in ChunksOf[release][c] /\ r.hash = h /\ r.release = release
    BY <2>4 DEF Entries
  <2>5. QED
    BY <2>3, <2>4
<1>4. QED
  BY <1>2, <1>3

\* Upserting the entries of a path replaces exactly the chunks they have.
LEMMA UpsertMember ==
    ASSUME release \in Releases, NEW R \in SUBSET Record,
           NEW p \in Paths, NEW c \in Contents, NEW h \in Contents
    PROVE  LET new == Entries(p, c, h) IN
           /\ Upsert(R, new) \subseteq Record
           /\ \A r \in Record :
                 r \in Upsert(R, new) <=>
                    IF r.path = p /\ r.chunk \in ChunksOf[release][c]
                    THEN r.hash = h /\ r.release = release ELSE r \in R
           /\ \A q \in Paths, k \in Chunks :
                 <<q, k>> \in Ids(new) <=> q = p /\ k \in ChunksOf[release][c]
<1> DEFINE new == Entries(p, c, h)
<1>1. ChunksOf[release][c] \subseteq Chunks
  BY ContentAssumption
<1>2. /\ new \subseteq Record
      /\ \A r \in Record : r \in new <=>
            r.path = p /\ r.chunk \in ChunksOf[release][c] /\ r.hash = h /\ r.release = release
  BY EntriesType
<1>3. ASSUME NEW q \in Paths, NEW k \in Chunks
      PROVE  <<q, k>> \in Ids(new) <=> q = p /\ k \in ChunksOf[release][c]
  <2>1. ASSUME <<q, k>> \in Ids(new) PROVE q = p /\ k \in ChunksOf[release][c]
    BY <1>2, <2>1 DEF Ids
  <2>2. ASSUME q = p, k \in ChunksOf[release][c] PROVE <<q, k>> \in Ids(new)
    <3>1. PICK r \in new : r = [path |-> p, chunk |-> k, hash |-> h, release |-> release]
      BY <2>2 DEF Entries
    <3>2. <<r.path, r.chunk>> = <<q, k>>
      BY <2>2, <3>1
    <3>3. QED
      BY <3>2 DEF Ids
  <2>3. QED
    BY <2>1, <2>2
<1> HIDE DEF new
<1>4. Upsert(R, new) \subseteq Record
  BY <1>2 DEF Upsert
<1>5. ASSUME NEW r \in Record
      PROVE  r \in Upsert(R, new) <=>
                IF r.path = p /\ r.chunk \in ChunksOf[release][c]
                THEN r.hash = h /\ r.release = release ELSE r \in R
  <2>1. r.path \in Paths /\ r.chunk \in Chunks
    BY DEF Record
  <2>2. r \in Upsert(R, new) <=>
            (r \in R /\ ~(r.path = p /\ r.chunk \in ChunksOf[release][c])) \/ r \in new
    BY <1>3, <2>1 DEF Upsert
  <2>3. QED
    BY <1>2, <2>2
<1>6. QED
  BY <1>3, <1>4, <1>5 DEF new

\* The records of a path are its entries, said record by record.
LEMMA EntriesOnly ==
    ASSUME release \in Releases, NEW R \in SUBSET Record,
           NEW p \in Paths, NEW c \in Contents, NEW h \in Contents
    PROVE  OfPath(R, p) = Entries(p, c, h) <=>
              \A r \in Record : r.path = p =>
                 (r \in R <=> r.chunk \in ChunksOf[release][c] /\ r.hash = h
                              /\ r.release = release)
<1>1. /\ Entries(p, c, h) \subseteq Record
      /\ \A r \in Record :
            r \in Entries(p, c, h) <=>
               r.path = p /\ r.chunk \in ChunksOf[release][c] /\ r.hash = h
               /\ r.release = release
  BY EntriesType
<1>2. OfPath(R, p) \subseteq Record /\ \A r \in Record : r \in OfPath(R, p) <=> r \in R /\ r.path = p
  BY DEF OfPath
<1>3. OfPath(R, p) = Entries(p, c, h) <=>
        \A r \in Record : r \in OfPath(R, p) <=> r \in Entries(p, c, h)
  BY <1>1, <1>2
<1>4. QED
  BY <1>1, <1>2, <1>3

LEMMA ExactRecords ==
    ASSUME TypeOK, NEW p \in Paths
    PROVE  PathExact(p) <=>
              \A r \in Record : r.path = p =>
                 (r \in records <=> /\ Indexable(p)
                                    /\ r.chunk \in ChunksOf[release][tree[p]]
                                    /\ r.hash = tree[p] /\ r.release = release)
<1>1. CASE Indexable(p)
  <2>1. tree[p] \in Contents
    BY <1>1 DEF Indexable
  <2>2. QED
    BY <1>1, <2>1, EntriesOnly DEF PathExact, TypeOK
<1>2. CASE ~Indexable(p)
  BY <1>2 DEF PathExact, OfPath, TypeOK
<1>3. QED
  BY <1>1, <1>2

LEMMA ExactNext ==
    ASSUME TypeOK, NEW p \in Paths, records' \in SUBSET Record,
           tree' = tree, release' = release,
           \A r \in Record : r.path = p =>
              (r \in records' <=> /\ Indexable(p)
                                  /\ r.chunk \in ChunksOf[release][tree[p]]
                                  /\ r.hash = tree[p] /\ r.release = release)
    PROVE  PathExact(p)'
<1>1. Indexable(p)' <=> Indexable(p)
  BY DEF Indexable
<1>2. CASE Indexable(p)
  <2>1. tree[p] \in Contents /\ Entries(p, tree[p], tree[p])' = Entries(p, tree[p], tree[p])
    BY <1>2 DEF Indexable, Entries
  <2>2. OfPath(records', p) = Entries(p, tree[p], tree[p])
    BY <1>2, <2>1, EntriesOnly DEF TypeOK
  <2>3. QED
    BY <1>1, <1>2, <2>1, <2>2 DEF PathExact
<1>3. CASE ~Indexable(p)
  <2>1. OfPath(records', p) = {}
    BY <1>3 DEF OfPath
  <2>2. QED
    BY <1>1, <1>3, <2>1 DEF PathExact
<1>4. QED
  BY <1>2, <1>3
-----------------------------------------------------------------------------
(* The steps.                                                               *)

LEMMA InitIInv == Init => IInv
BY DEF Init, IInv, TypeOK, HonestInv, Honest, ReadingInv, RunInv,
       MarkInv, IdleInv

\* What a step on one path does not disturb of another.
LEMMA OtherPath ==
    ASSUME NEW p \in Paths, PathInv(p), TypeOK,
           \A r \in Record : r.path = p => (r \in records' <=> r \in records),
           \A k \in Chunks : <<p, k>> \in desired' <=> <<p, k>> \in desired,
           p \in todo' <=> p \in todo,
           before' = before, rebuild' = rebuild, release' = release,
           quiet' => quiet /\ tree'[p] = tree[p],
           torn => torn'
    PROVE  PathInv(p)'
<1>1. AsBefore(p) => AsBefore(p)'
  BY DEF AsBefore
<1>2. Untouched(p) => Untouched(p)'
  BY <1>1 DEF Untouched, Wants
<1>3. Skipped(p) => Skipped(p)'
  <2> SUFFICES ASSUME Skipped(p) PROVE Skipped(p)'
    OBVIOUS
  <2>1. PICK h \in Contents :
          /\ ~rebuild
          /\ AsBefore(p)
          /\ \E r \in before : r.path = p
          /\ \A r \in before : r.path = p => r.hash = h /\ r.release = release
          /\ \A r \in before : r.path = p => Wants(p, r.chunk)
          /\ quiet => tree[p] = h
    BY DEF Skipped
  <2>2. \A r \in before : r.path = p => Wants(p, r.chunk)'
    BY <2>1 DEF Wants, TypeOK, Record
  <2>3. QED
    BY <1>1, <2>1, <2>2 DEF Skipped
<1>4. Stored(p) => Stored(p)'
  <2> SUFFICES ASSUME Stored(p) PROVE Stored(p)'
    OBVIOUS
  <2>1. PICK h \in Contents, w \in Contents \ Undecodable :
        /\ \A k \in Chunks : Wants(p, k) <=> k \in ChunksOf[release][w]
        /\ \A r \in Record : r.path = p =>
              (r \in records <=>
                  IF r.chunk \in ChunksOf[release][w] THEN r.hash = h /\ r.release = release
                                             ELSE r \in before)
        /\ quiet => tree[p] = h /\ tree[p] = w
        /\ ~torn => h = w
    BY DEF Stored
  <2>2. \A k \in Chunks : Wants(p, k)' <=> k \in ChunksOf[release][w]
    BY <2>1 DEF Wants
  <2>3. QED
    BY <2>1, <2>2 DEF Stored
<1>5. Left(p) => Left(p)'
  BY <1>2 DEF Left, Indexable
<1>6. QED
  BY <1>2, <1>3, <1>4, <1>5 DEF PathInv

LEMMA StartStep ==
    ASSUME IInv, NEW all \in BOOLEAN, Start(all)
    PROVE  IInv'
<1>1. TypeOK'
  BY DEF IInv, TypeOK, Start, indexVars
<1>2. HonestInv' /\ ReadingInv' /\ MarkInv' /\ IdleInv'
  BY DEF IInv, HonestInv, Honest, ReadingInv, MarkInv, IdleInv,
         Start, indexVars
<1>3. RunInv'
  <2> SUFFICES ASSUME NEW p \in Paths PROVE PathInv(p)'
    BY DEF RunInv
  <2>1. Untouched(p)'
    BY DEF Untouched, AsBefore, Wants, Start, indexVars
  <2>2. p \notin todo' => ~Indexable(p)'
    BY ContentAssumption DEF Start, Indexable
  <2>3. QED
    BY <2>1, <2>2 DEF PathInv, Left
<1>4. QED
  BY <1>1, <1>2, <1>3 DEF IInv

\* A visit that ends without a change to the collection.
LEMMA LeaveStep ==
    ASSUME IInv, NEW p \in todo, Leave(p), pc \in {"scanning", "reading"},
           pc' = "scanning", hashed' = Nothing, quiet' \in BOOLEAN,
           quiet' => quiet /\ ~Indexable(p)
    PROVE  IInv'
<1>1. p \in Paths
  BY DEF IInv, TypeOK
<1>2. TypeOK'
  BY DEF IInv, TypeOK, Leave, indexVars
<1>3. HonestInv' /\ ReadingInv' /\ MarkInv' /\ IdleInv'
  BY DEF IInv, HonestInv, Honest, ReadingInv, MarkInv, IdleInv,
         Leave, indexVars
<1>4. RunInv'
  <2> SUFFICES ASSUME NEW q \in Paths PROVE PathInv(q)'
    BY DEF RunInv
  <2>1. PathInv(q) /\ TypeOK
    BY DEF IInv, RunInv
  <2>2. CASE q = p
    <3>1. Untouched(p)
      BY <2>1, <2>2 DEF PathInv
    <3>2. Untouched(p)'
      BY <3>1 DEF Untouched, AsBefore, Wants, Leave, indexVars
    <3>3. quiet' => ~Indexable(p)'
      BY DEF Indexable, Leave
    <3>4. QED
      BY <2>2, <3>2, <3>3 DEF PathInv, Left, Leave
  <2>3. CASE q # p
    BY <2>1, <2>3, OtherPath DEF Leave, indexVars
  <2>4. QED
    BY <2>2, <2>3
<1>5. QED
  BY <1>2, <1>3, <1>4 DEF IInv

LEMMA SkipStep ==
    ASSUME IInv, NEW p \in Paths, Skip(p)
    PROVE  IInv'
<1>1. /\ p \in todo /\ tree[p] \in Contents /\ ~rebuild /\ pc = "scanning"
      /\ \E r \in before : r.path = p
      /\ \A r \in before : r.path = p => r.hash = tree[p] /\ r.release = release
  BY DEF Skip, IInv, TypeOK, Unchanged, OfPath
<1>2. \A q \in Paths, k \in Chunks :
        <<q, k>> \in desired' <=>
            <<q, k>> \in desired \/ \E r \in before : r.path = p /\ q = p /\ r.chunk = k
  BY DEF Skip, Ids, OfPath
<1>3. TypeOK'
  BY DEF IInv, TypeOK, Skip, Ids, OfPath, Record, indexVars
<1>4. HonestInv' /\ ReadingInv' /\ MarkInv' /\ IdleInv'
  BY DEF IInv, HonestInv, Honest, ReadingInv, MarkInv, IdleInv,
         Skip, indexVars
<1>5. RunInv'
  <2> SUFFICES ASSUME NEW q \in Paths PROVE PathInv(q)'
    BY DEF RunInv
  <2>1. PathInv(q) /\ TypeOK
    BY <1>1 DEF IInv, RunInv
  <2>2. CASE q = p
    <3>1. AsBefore(p)'
      BY <1>1, <2>1, <2>2 DEF PathInv, Untouched, AsBefore, Skip, indexVars
    <3>2. \A r \in before : r.path = p => Wants(p, r.chunk)'
      BY <1>2, <2>1 DEF Wants, TypeOK, Record
    <3>3. Skipped(p)'
      BY <1>1, <3>1, <3>2 DEF Skipped, Skip, indexVars
    <3>4. QED
      BY <2>2, <3>3 DEF PathInv, Skip
  <2>3. CASE q # p
    BY <1>2, <2>1, <2>3, OtherPath DEF Skip, indexVars
  <2>4. QED
    BY <2>2, <2>3
<1>6. QED
  BY <1>3, <1>4, <1>5 DEF IInv

LEMMA HashStep ==
    ASSUME IInv, NEW p \in Paths, Hash(p)
    PROVE  IInv'
<1>1. /\ p \in todo /\ tree[p] \in Contents /\ pc = "scanning" /\ pc' = "reading"
      /\ hashed' = [path |-> p, hash |-> tree[p]]
      /\ UNCHANGED <<tree, release, records, marker, rebuild, before, desired, todo, quiet, torn>>
  BY DEF Hash, IInv, TypeOK, indexVars
<1>2. TypeOK' /\ ReadingInv'
  BY <1>1 DEF IInv, TypeOK, ReadingInv
<1>3. HonestInv' /\ MarkInv' /\ IdleInv'
  BY <1>1 DEF IInv, HonestInv, Honest, MarkInv, IdleInv
<1>4. RunInv'
  <2> SUFFICES ASSUME NEW q \in Paths PROVE PathInv(q)'
    BY DEF RunInv
  <2>1. QED
    BY <1>1, OtherPath DEF IInv, RunInv
<1>5. QED
  BY <1>2, <1>3, <1>4 DEF IInv

LEMMA AbortStep ==
    ASSUME IInv, Abort
    PROVE  IInv'
<1>1. TypeOK'
  BY DEF IInv, TypeOK, Abort, End, indexVars
<1>2. HonestInv'
  BY DEF IInv, HonestInv, Honest, Abort, End, indexVars
<1>3. ReadingInv' /\ RunInv' /\ MarkInv' /\ IdleInv'
  BY DEF ReadingInv, RunInv, MarkInv, IdleInv, Abort, End
<1>4. QED
  BY <1>1, <1>2, <1>3 DEF IInv

LEMMA EditStep ==
    ASSUME IInv, NEW p \in Paths, NEW content \in Contents \cup {NoFile},
           Edit(p, content)
    PROVE  IInv'
<1>1. /\ tree' = [tree EXCEPT ![p] = content] /\ quiet' = FALSE
      /\ UNCHANGED <<release, records, marker, pc, rebuild, before, desired, todo, hashed, torn>>
  BY DEF Edit, indexVars, runVars
<1>2. TypeOK'
  BY <1>1 DEF IInv, TypeOK
<1>3. HonestInv' /\ ReadingInv' /\ MarkInv' /\ IdleInv'
  BY <1>1 DEF IInv, HonestInv, Honest, ReadingInv, MarkInv, IdleInv
<1>4. RunInv'
  <2> SUFFICES ASSUME NEW q \in Paths, pc \in {"scanning", "reading"} PROVE PathInv(q)'
    BY <1>1 DEF RunInv
  <2>1. QED
    BY <1>1, OtherPath DEF IInv, RunInv
<1>5. QED
  BY <1>2, <1>3, <1>4 DEF IInv

\* The path just stored: its records are those of its text, the others of
\* before, and no more than that is wanted of it.
LEMMA StoreStep ==
    ASSUME IInv, Store
    PROVE  IInv'
<1>1. PICK p \in Paths, h \in Contents, w \in Contents \ Undecodable :
          /\ hashed.path = p /\ hashed.hash = h /\ tree[p] = w
          /\ pc = "reading" /\ p \in todo /\ (quiet => w = h)
  BY DEF Store, Indexable, IInv, ReadingInv, TypeOK
<1>2. /\ pc' = "scanning" /\ todo' = todo \ {p} /\ hashed' = Nothing
      /\ torn' = (torn \/ h # w)
      /\ UNCHANGED <<tree, release, marker, rebuild, before, quiet>>
      /\ records' = Upsert(records, Entries(p, w, h))
      /\ desired' = desired \cup Ids(Entries(p, w, h))
  BY <1>1 DEF Store
<1>3. /\ records \in SUBSET Record /\ before \subseteq Record
      /\ desired \subseteq Paths \X Chunks /\ release \in Releases
  BY DEF IInv, TypeOK
<1>4. /\ records' \subseteq Record
      /\ \A r \in Record :
            r \in records' <=>
                IF r.path = p /\ r.chunk \in ChunksOf[release][w]
                THEN r.hash = h /\ r.release = release ELSE r \in records
      /\ \A q \in Paths, k \in Chunks :
            <<q, k>> \in desired' <=>
                <<q, k>> \in desired \/ (q = p /\ k \in ChunksOf[release][w])
  <2>0. w \in Contents /\ h \in Contents
    OBVIOUS
  <2>1. /\ Upsert(records, Entries(p, w, h)) \subseteq Record
        /\ \A r \in Record :
              r \in Upsert(records, Entries(p, w, h)) <=>
                  IF r.path = p /\ r.chunk \in ChunksOf[release][w]
                  THEN r.hash = h /\ r.release = release ELSE r \in records
        /\ \A q \in Paths, k \in Chunks :
              <<q, k>> \in Ids(Entries(p, w, h)) <=> q = p /\ k \in ChunksOf[release][w]
    BY <1>3, <2>0, UpsertMember
  <2>2. QED
    BY <1>2, <2>1
<1>5. desired' \subseteq Paths \X Chunks
  <2>1. Entries(p, w, h) \subseteq Record
    BY <1>1, <1>3, EntriesType
  <2>2. Ids(Entries(p, w, h)) \subseteq Paths \X Chunks
    BY <2>1 DEF Ids, Record
  <2>3. QED
    BY <1>2, <1>3, <2>2
<1>6. TypeOK'
  BY <1>1, <1>2, <1>4, <1>5 DEF IInv, TypeOK
<1>7. ReadingInv' /\ MarkInv' /\ IdleInv'
  BY <1>2 DEF ReadingInv, MarkInv, IdleInv
<1>9. HonestInv'
  <2> SUFFICES ASSUME ~torn' PROVE Honest(records') /\ Honest(before')
    BY DEF HonestInv, Honest
  <2>1. ~torn /\ h = w /\ Honest(records) /\ Honest(before)
    <3>1. ~torn /\ h = w
      BY <1>2
    <3>2. QED
      BY <3>1 DEF IInv, HonestInv
  <2>2. \A r \in records' : r.hash \notin Undecodable /\ r.chunk \in ChunksOf[r.release][r.hash]
    BY <1>1, <1>4, <2>1 DEF Honest
  <2>3. ASSUME NEW q \in Paths, NEW g \in Contents,
               \E r \in records' : r.path = q,
               NEW e \in Releases,
               \A r \in records' : r.path = q => r.hash = g /\ r.release = e,
               NEW k \in ChunksOf[e][g]
        PROVE  \E r \in records' : r.path = q /\ r.chunk = k
    <3>1. CASE q = p /\ g = w /\ e = release
      <4>1. [path |-> p, chunk |-> k, hash |-> h, release |-> release] \in Record
        BY <1>1, <1>3, <2>3, <3>1, ContentAssumption DEF Record
      <4>2. QED
        BY <1>4, <3>1, <4>1
    <3>2. CASE q = p /\ ~(g = w /\ e = release)
      <4>1. ChunksOf[release][w] = {}
        <5> SUFFICES ASSUME NEW j \in ChunksOf[release][w] PROVE FALSE
          OBVIOUS
        <5>1. [path |-> p, chunk |-> j, hash |-> h, release |-> release] \in Record
          BY <1>1, <1>3, ContentAssumption DEF Record
        <5>2. [path |-> p, chunk |-> j, hash |-> h, release |-> release] \in records'
          BY <1>4, <5>1
        <5>3. QED
          BY <2>1, <2>3, <3>2, <5>2
      <4>2. records' = records
        BY <1>3, <1>4, <4>1
      <4>3. QED
        BY <2>1, <2>3, <4>2 DEF Honest
    <3>3. CASE q # p
      <4>1. \A r \in Record : r.path = q => (r \in records' <=> r \in records)
        BY <1>4, <3>3
      <4>2. QED
        BY <1>3, <1>4, <2>1, <2>3, <4>1 DEF Honest
    <3>4. QED
      BY <3>1, <3>2, <3>3
  <2>4. Honest(records')
    BY <2>2, <2>3 DEF Honest
  <2>5. QED
    BY <1>2, <2>1, <2>4
<1>10. RunInv'
  <2> SUFFICES ASSUME NEW q \in Paths PROVE PathInv(q)'
    BY DEF RunInv
  <2>1. PathInv(q) /\ TypeOK
    BY <1>1 DEF IInv, RunInv
  <2>2. CASE q = p
    <3>1. AsBefore(p) /\ \A k \in Chunks : ~Wants(p, k)
      BY <1>1, <2>1, <2>2 DEF PathInv, Untouched
    <3>2. \A k \in Chunks : Wants(p, k)' <=> k \in ChunksOf[release][w]
      BY <1>1, <1>4, <3>1 DEF Wants
    <3>3. \A r \in Record : r.path = p =>
              (r \in records' <=>
                  IF r.chunk \in ChunksOf[release][w] THEN r.hash = h /\ r.release = release
                                             ELSE r \in before')
      BY <1>2, <1>4, <3>1 DEF AsBefore
    <3>4. (quiet' => tree'[p] = h /\ tree'[p] = w) /\ (~torn' => h = w)
      BY <1>1, <1>2
    <3>5. Stored(p)'
      BY <1>1, <1>2, <3>2, <3>3, <3>4 DEF Stored
    <3>6. QED
      BY <1>2, <2>2, <3>5 DEF PathInv
  <2>3. CASE q # p
    BY <1>2, <1>4, <2>1, <2>3, OtherPath
  <2>4. QED
    BY <2>2, <2>3
<1>11. QED
  BY <1>6, <1>7, <1>9, <1>10 DEF IInv

\* What the deletion leaves of a path.
LEMMA DeleteMember ==
    ASSUME IInv, DeleteStale, NEW r \in Record
    PROVE  r \in records' <=>
              r \in records /\ ((\E b \in before : b.path = r.path /\ b.chunk = r.chunk)
                                  => Wants(r.path, r.chunk))
BY DEF DeleteStale, Ids, Wants

LEMMA AllVisited ==
    ASSUME IInv, DeleteStale
    PROVE  \A p \in Paths : Skipped(p) \/ Stored(p) \/ Left(p)
BY DEF DeleteStale, IInv, RunInv, PathInv

LEMMA DeletedSkipped ==
    ASSUME IInv, DeleteStale, NEW p \in Paths, Skipped(p)
    PROVE  \A r \in Record : r.path = p => (r \in records' <=> r \in before)
<1>1. /\ AsBefore(p)
      /\ \A r \in before : r.path = p => Wants(p, r.chunk)
  BY DEF Skipped
<1>2. QED
  BY <1>1, DeleteMember DEF AsBefore

LEMMA DeletedLeft ==
    ASSUME IInv, DeleteStale, NEW p \in Paths, Left(p)
    PROVE  \A r \in Record : r.path = p => r \notin records'
<1>1. AsBefore(p) /\ \A k \in Chunks : ~Wants(p, k)
  BY DEF Left, Untouched
<1>2. QED
  BY <1>1, DeleteMember DEF AsBefore, Record

LEMMA DeletedStored ==
    ASSUME IInv, DeleteStale, NEW p \in Paths,
           NEW h \in Contents, NEW w \in Contents \ Undecodable,
           \A k \in Chunks : Wants(p, k) <=> k \in ChunksOf[release][w],
           \A r \in Record : r.path = p =>
              (r \in records <=>
                  IF r.chunk \in ChunksOf[release][w] THEN r.hash = h /\ r.release = release
                                             ELSE r \in before)
    PROVE  \A r \in Record : r.path = p =>
              (r \in records' <=> r.chunk \in ChunksOf[release][w] /\ r.hash = h /\ r.release = release)
<1> SUFFICES ASSUME NEW r \in Record, r.path = p
             PROVE  r \in records' <=> r.chunk \in ChunksOf[release][w] /\ r.hash = h /\ r.release = release
  OBVIOUS
<1>1. r.chunk \in Chunks
  BY DEF Record
<1>2. CASE r.chunk \in ChunksOf[release][w]
  BY <1>1, <1>2, DeleteMember
<1>3. CASE r.chunk \notin ChunksOf[release][w]
  <2>1. ~Wants(p, r.chunk)
    BY <1>1, <1>3
  <2>2. r \in records => r \in before
    BY <1>3
  <2>3. QED
    BY <1>3, <2>1, <2>2, DeleteMember
<1>4. QED
  BY <1>2, <1>3

\* What a path's records come to: the shape that Honest and PathExact ask for.
LEMMA StoredEntries ==
    ASSUME release \in Releases, NEW R \in SUBSET Record,
           NEW p \in Paths, NEW h \in Contents, NEW w \in Contents,
           \A r \in Record : r.path = p =>
              (r \in R <=> r.chunk \in ChunksOf[release][w] /\ r.hash = h /\ r.release = release)
    PROVE  \A k \in ChunksOf[release][w] : \E r \in R : r.path = p /\ r.chunk = k /\ r.hash = h
<1> SUFFICES ASSUME NEW k \in ChunksOf[release][w]
             PROVE  \E r \in R : r.path = p /\ r.chunk = k /\ r.hash = h
  OBVIOUS
<1> DEFINE e == [path |-> p, chunk |-> k, hash |-> h, release |-> release]
<1>1. e \in Record
  BY ContentAssumption DEF Record
<1>2. e.path = p /\ e.chunk = k /\ e.hash = h /\ e.release = release
  OBVIOUS
<1> HIDE DEF e
<1>3. e \in R
  BY <1>1, <1>2
<1>4. QED
  BY <1>2, <1>3

\* A path that was stored in a still tree is exact once the others are gone.
LEMMA DeletedExactly ==
    ASSUME IInv, DeleteStale, quiet, NEW p \in Paths, Stored(p)
    PROVE  PathExact(p)'
<1>1. PICK h \in Contents, w \in Contents \ Undecodable :
        /\ \A k \in Chunks : Wants(p, k) <=> k \in ChunksOf[release][w]
        /\ \A r \in Record : r.path = p =>
              (r \in records <=>
                  IF r.chunk \in ChunksOf[release][w] THEN r.hash = h /\ r.release = release
                                                      ELSE r \in before)
        /\ tree[p] = h /\ tree[p] = w
  BY DEF Stored
<1>2. \A r \in Record : r.path = p =>
        (r \in records' <=> r.chunk \in ChunksOf[release][w] /\ r.hash = h /\ r.release = release)
  BY <1>1, DeletedStored
<1>3. TypeOK /\ Indexable(p) /\ tree' = tree /\ release' = release /\ records' \in SUBSET Record
  BY <1>1 DEF IInv, TypeOK, Indexable, DeleteStale
<1>4. QED
  BY <1>1, <1>2, <1>3, ExactNext

\* One that was skipped is too, unless a file was torn.
LEMMA SkippedExactly ==
    ASSUME IInv, DeleteStale, quiet, ~torn, NEW p \in Paths, Skipped(p)
    PROVE  PathExact(p)'
<1>1. /\ TypeOK /\ tree' = tree /\ release' = release /\ records' \in SUBSET Record
      /\ Honest(before) /\ before \subseteq Record /\ release \in Releases
  BY DEF IInv, HonestInv, TypeOK, DeleteStale
<1>2. /\ tree[p] \in Contents
      /\ \E r \in before : r.path = p
      /\ \A r \in before : r.path = p => r.hash = tree[p] /\ r.release = release
  BY DEF Skipped
<1>3. Indexable(p)
  BY <1>1, <1>2 DEF Honest, Indexable
<1>4. \A r \in before : r.path = p => r.chunk \in ChunksOf[release][tree[p]]
  BY <1>1, <1>2 DEF Honest
<1>5. \A k \in ChunksOf[release][tree[p]] : \E r \in before : r.path = p /\ r.chunk = k
  BY <1>1, <1>2 DEF Honest
<1>6. ASSUME NEW r \in Record, r.path = p
      PROVE  r \in before <=> /\ r.chunk \in ChunksOf[release][tree[p]]
                              /\ r.hash = tree[p] /\ r.release = release
  <2>1. ASSUME r.chunk \in ChunksOf[release][tree[p]], r.hash = tree[p], r.release = release
        PROVE  r \in before
    <3>1. PICK t \in before : t.path = p /\ t.chunk = r.chunk
      BY <1>5, <2>1
    <3>2. t \in Record /\ t.hash = r.hash /\ t.release = r.release
      BY <1>1, <1>2, <2>1, <3>1
    <3>3. t = r
      BY <1>6, <3>1, <3>2 DEF Record
    <3>4. QED
      BY <3>3
  <2>2. QED
    BY <1>2, <1>4, <1>6, <2>1
<1>7. \A r \in Record : r.path = p => (r \in records' <=> r \in before)
  BY DeletedSkipped
<1>8. QED
  BY <1>1, <1>3, <1>6, <1>7, ExactNext

LEMMA DeleteStep ==
    ASSUME IInv, DeleteStale
    PROVE  IInv'
<1>1. /\ pc' = "marking" /\ pc = "scanning" /\ records' \subseteq records
      /\ UNCHANGED <<tree, release, marker, rebuild, before, desired, todo, hashed, quiet, torn>>
      /\ records' \subseteq Record /\ before \subseteq Record
  BY DEF DeleteStale, runVars, IInv, TypeOK
<1>2. TypeOK'
  BY <1>1 DEF IInv, TypeOK
<1>3. ReadingInv' /\ RunInv' /\ IdleInv'
  BY <1>1 DEF IInv, ReadingInv, RunInv, IdleInv
<1>4. \A r \in records' : r.release = release
  <2> SUFFICES ASSUME NEW r \in records' PROVE r.release = release
    OBVIOUS
  <2>1. r \in Record /\ r.path \in Paths
    BY <1>1 DEF Record
  <2>2. CASE Skipped(r.path)
    BY <2>1, <2>2, DeletedSkipped DEF Skipped
  <2>3. CASE Stored(r.path)
    BY <2>1, <2>3, DeletedStored DEF Stored
  <2>4. CASE Left(r.path)
    BY <2>1, <2>4, DeletedLeft
  <2>5. QED
    BY <2>1, <2>2, <2>3, <2>4, AllVisited
<1>5. ~torn => Honest(records')
  <2> SUFFICES ASSUME ~torn PROVE Honest(records')
    OBVIOUS
  <2>1. Honest(before)
    BY DEF IInv, HonestInv
  <2>2. ASSUME NEW p \in Paths
        PROVE  /\ \A r \in records' : r.path = p =>
                     r.hash \notin Undecodable /\ r.chunk \in ChunksOf[r.release][r.hash]
               /\ \A g \in Contents, e \in Releases :
                     /\ \E r \in records' : r.path = p
                     /\ \A r \in records' : r.path = p => r.hash = g /\ r.release = e
                     => \A k \in ChunksOf[e][g] :
                            \E r \in records' : r.path = p /\ r.chunk = k
    <3>1. CASE Skipped(p)
      <4>1. \A r \in Record : r.path = p => (r \in records' <=> r \in before)
        BY <3>1, DeletedSkipped
      <4>2. QED
        BY <1>1, <2>1, <2>2, <4>1 DEF Honest
    <3>2. CASE Left(p)
      BY <1>1, <2>2, <3>2, DeletedLeft
    <3>3. CASE Stored(p)
      <4>1. PICK h \in Contents, w \in Contents \ Undecodable :
              /\ \A k \in Chunks : Wants(p, k) <=> k \in ChunksOf[release][w]
              /\ \A r \in Record : r.path = p =>
                    (r \in records <=>
                        IF r.chunk \in ChunksOf[release][w] THEN r.hash = h /\ r.release = release
                                                   ELSE r \in before)
              /\ h = w
        BY <3>3 DEF Stored
      <4>2. \A r \in Record : r.path = p =>
              (r \in records' <=> r.chunk \in ChunksOf[release][w] /\ r.hash = h /\ r.release = release)
        BY <2>2, <4>1, DeletedStored
      <4>3. \A k \in ChunksOf[release][w] : \E r \in records' : r.path = p /\ r.chunk = k /\ r.hash = h
        <5>1. /\ records' \in SUBSET Record /\ release \in Releases
              /\ w \in Contents /\ h \in Contents
          BY <1>1 DEF IInv, TypeOK
        <5>2. QED
          BY <2>2, <4>2, <5>1, StoredEntries
      <4>4. QED
        BY <1>1, <4>1, <4>2, <4>3
    <3>4. QED
      BY <2>2, <3>1, <3>2, <3>3, AllVisited
  <2>3. QED
    BY <1>1, <2>2 DEF Honest, Record
<1>6. HonestInv'
  BY <1>1, <1>5 DEF IInv, HonestInv
<1>7. ASSUME quiet, rebuild \/ ~torn, NEW p \in Paths
      PROVE  PathExact(p)'
  <2>1. CASE Left(p)
    BY <1>1, <1>7, <2>1, DeletedLeft, ExactNext DEF Left, IInv
  <2>2. CASE Skipped(p)
    BY <1>1, <1>7, <2>2, SkippedExactly DEF Skipped
  <2>3. CASE Stored(p)
    BY <1>7, <2>3, DeletedExactly
  <2>4. QED
    BY <1>7, <2>1, <2>2, <2>3, AllVisited
<1>8. MarkInv'
  BY <1>1, <1>4, <1>7 DEF MarkInv
<1>9. QED
  BY <1>2, <1>3, <1>6, <1>8 DEF IInv

\* An exact index is an honest one, whatever was torn before.
LEMMA ExactIsHonest ==
    ASSUME TypeOK, \A p \in Paths : PathExact(p)
    PROVE  Honest(records)
<1>1. \A p \in Paths, r \in Record : r.path = p =>
        (r \in records <=> /\ Indexable(p)
                           /\ r.chunk \in ChunksOf[release][tree[p]]
                           /\ r.hash = tree[p] /\ r.release = release)
  BY ExactRecords
<1>2. records \subseteq Record /\ release \in Releases
  BY DEF TypeOK
<1>3. ASSUME NEW r \in records
      PROVE  r.hash \notin Undecodable /\ r.chunk \in ChunksOf[r.release][r.hash]
  BY <1>1, <1>2 DEF Record, Indexable
<1>4. ASSUME NEW p \in Paths, NEW h \in Contents, NEW e \in Releases,
             NEW r \in records, r.path = p,
             \A s \in records : s.path = p => s.hash = h /\ s.release = e,
             NEW k \in ChunksOf[e][h]
      PROVE  \E s \in records : s.path = p /\ s.chunk = k
  <2>1. Indexable(p) /\ tree[p] = h /\ release = e
    BY <1>1, <1>2, <1>4
  <2> DEFINE new == [path |-> p, chunk |-> k, hash |-> h, release |-> e]
  <2>2. new \in Record
    BY ContentAssumption DEF Record
  <2>3. new.path = p /\ new.chunk = k /\ new.hash = h /\ new.release = e
    OBVIOUS
  <2> HIDE DEF new
  <2>4. new \in records
    BY <1>1, <2>1, <2>2, <2>3
  <2>5. QED
    BY <2>3, <2>4
<1>5. QED
  BY <1>3, <1>4 DEF Honest

LEMMA MarkStep ==
    ASSUME IInv, Mark
    PROVE  IInv'
<1>1. /\ pc = "marking" /\ pc' = "idle" /\ rebuild' = FALSE /\ before' = {}
      /\ desired' = {} /\ todo' = {} /\ hashed' = Nothing
      /\ UNCHANGED <<tree, release, records, quiet>> /\ marker' = MarkOf[release]
      /\ torn' = (torn /\ ~(rebuild /\ quiet))
  BY DEF Mark, End
<1>2. TypeOK'
  BY <1>1 DEF IInv, TypeOK
<1>3. ~torn' => Honest(records)
  <2>1. CASE rebuild /\ quiet
    BY <1>1, <2>1, ExactIsHonest DEF IInv, MarkInv
  <2>2. CASE ~(rebuild /\ quiet)
    BY <1>1, <2>2 DEF IInv, HonestInv
  <2>3. QED
    BY <2>1, <2>2
<1>4. HonestInv'
  BY <1>1, <1>3 DEF HonestInv, Honest
<1>5. ReadingInv' /\ RunInv' /\ MarkInv' /\ IdleInv'
  BY <1>1 DEF IInv, ReadingInv, RunInv, MarkInv, IdleInv
<1>6. QED
  BY <1>2, <1>4, <1>5 DEF IInv

LEMMA UpgradeStep ==
    ASSUME IInv, Upgrade
    PROVE  IInv'
<1>1. /\ pc = "idle" /\ release' \in Releases /\ marker' \in {marker, MarkOf[release']}
      /\ UNCHANGED <<tree, records, pc, rebuild, before, desired, todo, hashed, quiet, torn>>
  BY DEF Upgrade, runVars
<1>2. TypeOK'
  BY <1>1 DEF IInv, TypeOK
<1>3. HonestInv'
  BY <1>1 DEF IInv, HonestInv, Honest
<1>4. ReadingInv' /\ RunInv' /\ MarkInv' /\ IdleInv'
  BY <1>1 DEF IInv, ReadingInv, RunInv, MarkInv, IdleInv
<1>5. QED
  BY <1>2, <1>3, <1>4 DEF IInv

LEMMA StepIInv == IInv /\ [Next]_vars => IInv'
<1> SUFFICES ASSUME IInv, [Next]_vars PROVE IInv'
  OBVIOUS
<1>1. ASSUME NEW p \in Paths, HashFails(p) PROVE IInv'
  BY <1>1, LeaveStep DEF HashFails, IInv, ReadingInv
<1>2. CASE ReadFails
  <2>1. hashed.path \in todo /\ pc = "reading" /\ quiet \in BOOLEAN
    BY <1>2 DEF ReadFails, IInv, ReadingInv, TypeOK
  <2>2. quiet' \in BOOLEAN /\ (quiet' => quiet /\ ~Indexable(hashed.path))
    BY <1>2, <2>1 DEF ReadFails, Indexable
  <2>3. \A p \in todo : p = hashed.path => IInv'
    BY <1>2, <2>1, <2>2, LeaveStep DEF ReadFails
  <2>4. QED
    BY <2>1, <2>3
<1>3. CASE UNCHANGED vars
  <2>1. \A p \in Paths : PathInv(p) => PathInv(p)'
    BY <1>3 DEF vars, PathInv, Untouched, Skipped, Stored, Left, AsBefore, Wants, Indexable
  <2>2. \A p \in Paths : PathExact(p) => PathExact(p)'
    BY <1>3 DEF vars, PathExact, Indexable, OfPath, Entries
  <2>3. TypeOK' /\ HonestInv' /\ ReadingInv' /\ IdleInv'
    BY <1>3 DEF vars, IInv, TypeOK, HonestInv, Honest, ReadingInv,
                IdleInv
  <2>4. RunInv' /\ MarkInv'
    BY <1>3, <2>1, <2>2 DEF vars, IInv, RunInv, MarkInv
  <2>5. QED
    BY <2>3, <2>4 DEF IInv
<1>4. QED
  BY <1>1, <1>2, <1>3, StartStep, SkipStep, HashStep, StoreStep, DeleteStep, MarkStep,
     AbortStep, EditStep, UpgradeStep DEF Next, Run, Visit

LEMMA Invariance == Spec => []IInv
BY InitIInv, StepIInv, PTL DEF Spec
-----------------------------------------------------------------------------
(* What follows.                                                            *)

THEOREM TypeCorrect == Spec => []TypeOK
<1>1. IInv => TypeOK
  BY DEF IInv
<1>2. QED
  BY <1>1, Invariance, PTL

\* A rebuild over a still tree repairs whatever earlier runs left.
THEOREM RebuildsAreExact == Spec => []RebuildExact
<1>1. IInv => RebuildExact
  BY DEF IInv, MarkInv, RebuildExact
<1>2. QED
  BY <1>1, Invariance, PTL

\* So does an incremental run over a still tree, which skips the files whose
\* hash it knows, unless a file was once hashed as one content and read as
\* another.
THEOREM IncrementalRunsAreExact == Spec => []IncrementalExact
<1>1. IInv => IncrementalExact
  BY DEF IInv, MarkInv, IncrementalExact
<1>2. QED
  BY <1>1, Invariance, PTL

(* The integrity report.                                                    *)

\* The steps that change the collection or what it is held against.
LEMMA IndexSteps ==
    ASSUME [Next]_vars
    PROVE  \/ Store \/ DeleteStale \/ Mark \/ Upgrade
           \/ UNCHANGED <<release, records, marker>>
BY DEF Next, Run, Visit, Start, HashFails, Skip, Hash, ReadFails, Abort, Edit, Leave,
       indexVars, runVars, vars

\* A finished run leaves the collection valid, and it stays so under its release,
\* runs that abort included.
THEOREM RunsLeaveValid == Spec => ValidAfterRun
<1>1. ASSUME IInv, [Next]_vars, Mark \/ IntegrityValid, release' = release
      PROVE  IntegrityValid'
  <2>1. CASE Mark
    BY <1>1, <2>1 DEF Mark, IntegrityValid, IInv, MarkInv
  <2>2. CASE IntegrityValid /\ Store
    <3>1. PICK p \in Paths, h \in Contents, w \in Contents :
            records' = Upsert(records, Entries(p, w, h)) /\ marker' = marker
      BY <1>1, <2>2 DEF Store, Indexable, IInv, ReadingInv, TypeOK
    <3>2. \A r \in records' : r.release = release
      BY <2>2, <3>1 DEF Upsert, Entries, IntegrityValid
    <3>3. QED
      BY <1>1, <2>2, <3>1, <3>2 DEF IntegrityValid
  <2>3. CASE IntegrityValid /\ DeleteStale
    BY <1>1, <2>3 DEF DeleteStale, IntegrityValid
  <2>4. CASE IntegrityValid /\ Upgrade
    BY <1>1, <2>4 DEF Upgrade
  <2>5. CASE IntegrityValid /\ UNCHANGED <<release, records, marker>>
    BY <2>5 DEF IntegrityValid
  <2>6. QED
    BY <1>1, <2>1, <2>2, <2>3, <2>4, <2>5, IndexSteps
<1>2. IInv /\ [Next]_vars =>
        [(Mark \/ IntegrityValid) /\ release' = release => IntegrityValid']_vars
  BY <1>1
<1>3. QED
  BY <1>2, Invariance, PTL DEF Spec, ValidAfterRun

(* A run over a still tree, one action at a time.                           *)

LEMMA StoreKeeps ==
    ASSUME IInv, Store, quiet', NEW p \in Paths
    PROVE  ~Loses(p) /\ (PathExact(p) => PathExact(p)')
<1>1. PICK q \in Paths, w \in Contents \ Undecodable :
        /\ tree[q] = w /\ Indexable(q)
        /\ records' = Upsert(records, Entries(q, w, w))
        /\ tree' = tree /\ release' = release
  BY DEF Store, Indexable, IInv, ReadingInv, TypeOK
<1>2. records \in SUBSET Record /\ TypeOK /\ release \in Releases
  BY DEF IInv, TypeOK
<1>3. /\ records' \subseteq Record
      /\ \A r \in Record :
            r \in records' <=>
                IF r.path = q /\ r.chunk \in ChunksOf[release][w]
                THEN r.hash = w /\ r.release = release ELSE r \in records
  <2>1. w \in Contents
    OBVIOUS
  <2>2. /\ Upsert(records, Entries(q, w, w)) \subseteq Record
        /\ \A r \in Record :
              r \in Upsert(records, Entries(q, w, w)) <=>
                  IF r.path = q /\ r.chunk \in ChunksOf[release][w]
                  THEN r.hash = w /\ r.release = release ELSE r \in records
    BY <1>2, <2>1, UpsertMember
  <2>3. QED
    BY <1>1, <2>2
<1>4. ~Loses(p)
  BY <1>1 DEF Loses, Upsert, Ids, OfPath
<1>5. ASSUME PathExact(p) PROVE PathExact(p)'
  <2>1. \A r \in Record : r.path = p =>
           (r \in records <=> /\ Indexable(p)
                              /\ r.chunk \in ChunksOf[release][tree[p]]
                              /\ r.hash = tree[p] /\ r.release = release)
    BY <1>2, <1>5, ExactRecords
  <2>2. \A r \in Record : r.path = p => (r \in records' <=> r \in records)
    BY <1>1, <1>3, <2>1
  <2>3. QED
    BY <1>1, <1>2, <1>3, <2>1, <2>2, ExactNext
<1>6. QED
  BY <1>4, <1>5

LEMMA DeleteKeeps ==
    ASSUME IInv, DeleteStale, quiet', NEW p \in Paths
    PROVE  (Loses(p) \/ PathExact(p)) => PathExact(p)'
<1>1. /\ records' \in SUBSET Record /\ records \subseteq Record
      /\ tree' = tree /\ release' = release /\ quiet /\ TypeOK
  BY DEF DeleteStale, IInv, TypeOK
<1>2. CASE Left(p)
  BY <1>1, <1>2, DeletedLeft, ExactNext DEF Left
<1>3. CASE Skipped(p)
  <2>1. \A r \in Record : r.path = p => (r \in records' <=> r \in records)
    BY <1>3, DeletedSkipped DEF Skipped, AsBefore
  <2>2. OfPath(records', p) = OfPath(records, p)
    BY <1>1, <2>1 DEF OfPath
  <2>3. ~Loses(p)
    BY <2>2 DEF Loses
  <2>4. PathExact(p) => PathExact(p)'
    BY <1>1, <2>2 DEF PathExact, Indexable, Entries
  <2>5. QED
    BY <2>3, <2>4
<1>4. CASE Stored(p)
  BY <1>1, <1>4, DeletedExactly
<1>5. QED
  BY <1>2, <1>3, <1>4, AllVisited

\* No step over a still tree takes an exactly indexed path out of the index, or a
\* chunk away before what replaces it: answers do not suffer from a run.
THEOREM RunsKeepServing == Spec => KeepsServing
<1>1. ASSUME IInv, [Next]_vars, quiet', release' = release, NEW p \in Paths,
             PathExact(p) \/ Loses(p)
      PROVE  PathExact(p)'
  <2>1. CASE Store
    BY <1>1, <2>1, StoreKeeps
  <2>2. CASE DeleteStale
    BY <1>1, <2>2, DeleteKeeps
  <2>3. CASE Upgrade
    BY <1>1, <2>3 DEF Upgrade
  <2>4. ASSUME NEW q \in Paths, NEW content \in Contents \cup {NoFile}, Edit(q, content)
        PROVE  FALSE
    BY <1>1, <2>4 DEF Edit
  <2>5. CASE UNCHANGED <<tree, records>>
    BY <1>1, <2>5 DEF PathExact, Loses, Indexable, Entries
  <2>6. \/ Store \/ DeleteStale \/ Upgrade \/ UNCHANGED <<tree, records>>
        \/ \E q \in Paths, content \in Contents \cup {NoFile} : Edit(q, content)
    BY <1>1 DEF Next, Run, Visit, Start, HashFails, Skip, Hash, ReadFails, Mark, Abort,
                Leave, indexVars, runVars, vars
  <2>7. QED
    BY <2>1, <2>2, <2>3, <2>4, <2>5, <2>6
<1>2. IInv /\ [Next]_vars =>
        [\A p \in Paths : /\ quiet' /\ release' = release
                          /\ PathExact(p) \/ Loses(p)
                          => PathExact(p)']_vars
  BY <1>1
<1>3. QED
  BY <1>2, Invariance, PTL DEF Spec, KeepsServing
=============================================================================
