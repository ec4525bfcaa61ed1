------------------------------- MODULE Indexer -------------------------------
(***************************************************************************)
(* The incremental indexer of Local RAG (services/local-rag/app/indexer.py,  *)
(* index_repository): it lists the source tree, hashes each file, skips the  *)
(* files whose hash and metadata are those of the index, reads, embeds and   *)
(* upserts the others, and deletes at the end what it did not want.  The     *)
(* tree may change under it, and a run may fail or die between any two steps, *)
(* undoing nothing.  IndexJob shows that there is one run at a time.         *)
(*                                                                           *)
(* A hash stands for the content it is taken of, and a chunk id for a path,  *)
(* a line range and a text.  Calls of the vector store are atomic.           *)
(* A definition named Wrong... is a plausible bug, used by no action.        *)
(***************************************************************************)
EXTENDS FiniteSets

CONSTANTS
    Paths,        \* paths that is_allowed lets through
    Contents,     \* what a file can hold
    NoFile,       \* the path holds no file
    Undecodable,  \* contents that are not UTF-8
    Chunks,       \* line range and text of a chunk
    Releases,     \* CHUNKING_VERSION, INDEX_SCHEMA_VERSION and EMBEDDING_MODEL,
                  \* of which two releases differ in one at least
    ChunksOf,     \* chunk_document: the chunks a release makes of each content
    MarkOf        \* schema and model, which the collection's metadata name too

ASSUME ContentAssumption ==
    /\ NoFile \notin Contents
    /\ Undecodable \subseteq Contents
    /\ ChunksOf \in [Releases -> [Contents -> SUBSET Chunks]]

VARIABLES
    tree,      \* the source tree
    release,   \* the one that runs
    records,   \* the collection: chunks with their path and metadata
    marker,    \* what the collection's own metadata name
    pc,        \* "idle", or where the run is
    rebuild,   \* the run's argument
    before,    \* the collection as the run found it
    desired,   \* ids the run wants to keep
    todo,      \* listed paths that are not yet visited
    hashed,    \* the path being visited and its hash
    quiet,     \* nothing changed in the tree, nor failed to be read, in this run
    torn       \* since the last exact rebuild a file changed between its hash
               \* and its read

indexVars == <<records, marker>>
runVars == <<rebuild, before, desired, todo, hashed>>
vars == <<tree, release, records, marker, pc, rebuild, before, desired, todo, hashed, quiet, torn>>

Record == [path : Paths, chunk : Chunks, hash : Contents, release : Releases]

Ids(R) == {<<r.path, r.chunk>> : r \in R}
OfPath(R, p) == {r \in R : r.path = p}

Indexable(p) == tree[p] \in Contents \ Undecodable

WrongEntriesBare(p, content, hash) ==
    {[path |-> p, chunk |-> k, hash |-> hash] : k \in ChunksOf[release][content]}

\* What chunk_document and the metadata make of a file.
Entries(p, content, hash) ==
    {[path |-> p, chunk |-> k, hash |-> hash, release |-> release] :
        k \in ChunksOf[release][content]}

Upsert(R, new) == {r \in R : <<r.path, r.chunk>> \notin Ids(new)} \cup new

WrongUnchangedAnyHash(p, hash) ==
    /\ \E r \in OfPath(before, p) : r.hash = hash
    /\ \A r \in OfPath(before, p) : r.release = release

WrongUnchangedSomeOld(p, hash) ==
    /\ \E r \in OfPath(before, p) : r.release = release
    /\ \A r \in OfPath(before, p) : r.hash = hash

\* The file need not be read: one stored hash, this one, and current metadata.
Unchanged(p, hash) ==
    /\ OfPath(before, p) # {}
    /\ \A r \in OfPath(before, p) : r.hash = hash /\ r.release = release

Nothing == [path |-> NoFile, hash |-> NoFile]

Init ==
    /\ tree \in [Paths -> Contents \cup {NoFile}]
    /\ release \in Releases
    /\ records = {}
    /\ marker = MarkOf[release]
    /\ pc = "idle"
    /\ rebuild = FALSE
    /\ before = {}
    /\ desired = {}
    /\ todo = {}
    /\ hashed = Nothing
    /\ quiet = TRUE
    /\ torn = FALSE
-----------------------------------------------------------------------------
\* The collection is read and the tree listed once, before the first file.
Start(all) ==
    /\ pc = "idle"
    /\ pc' = "scanning"
    /\ rebuild' = all
    /\ before' = records
    /\ desired' = {}
    /\ todo' = {p \in Paths : tree[p] # NoFile}
    /\ quiet' = TRUE
    /\ UNCHANGED <<tree, release, indexVars, hashed, torn>>

\* The file is gone, or cannot be read or decoded: the run goes on without it
\* and drops its chunks at the end.
Leave(p) ==
    /\ todo' = todo \ {p}
    /\ UNCHANGED <<tree, release, indexVars, rebuild, before, desired, torn>>

HashFails(p) ==
    /\ pc = "scanning"
    /\ p \in todo
    /\ Leave(p)
    /\ quiet' = FALSE
    /\ UNCHANGED <<pc, hashed>>

Skip(p) ==
    /\ pc = "scanning"
    /\ p \in todo
    /\ tree[p] # NoFile
    /\ Unchanged(p, tree[p]) /\ ~rebuild
    /\ desired' = desired \cup Ids(OfPath(before, p))
    /\ todo' = todo \ {p}
    /\ UNCHANGED <<tree, release, indexVars, pc, rebuild, before, hashed, quiet, torn>>

WrongHashDropsOld(p) ==
    /\ pc = "scanning"
    /\ p \in todo
    /\ tree[p] # NoFile
    /\ ~Unchanged(p, tree[p]) \/ rebuild
    /\ pc' = "reading"
    /\ hashed' = [path |-> p, hash |-> tree[p]]
    /\ records' = records \ OfPath(records, p)
    /\ UNCHANGED <<tree, release, marker, rebuild, before, desired, todo, quiet, torn>>

Hash(p) ==
    /\ pc = "scanning"
    /\ p \in todo
    /\ tree[p] # NoFile
    /\ ~Unchanged(p, tree[p]) \/ rebuild
    /\ pc' = "reading"
    /\ hashed' = [path |-> p, hash |-> tree[p]]
    /\ UNCHANGED <<tree, release, indexVars, rebuild, before, desired, todo, quiet, torn>>

\* read_text raises: the content is not UTF-8, or the file cannot be read.
ReadFails ==
    /\ pc = "reading"
    /\ pc' = "scanning"
    /\ Leave(hashed.path)
    /\ hashed' = Nothing
    /\ quiet' = (quiet /\ tree[hashed.path] \in Undecodable)

\* The text is read, chunked, embedded and upserted under the hash taken before.
\* What happens to the file after the read changes nothing in this step.
Store ==
    LET p == hashed.path
        new == Entries(p, tree[p], hashed.hash)
    IN  /\ pc = "reading"
        /\ Indexable(p)
        /\ pc' = "scanning"
        /\ records' = Upsert(records, new)
        /\ desired' = desired \cup Ids(new)
        /\ todo' = todo \ {p}
        /\ torn' = (torn \/ hashed.hash # tree[p])
        /\ hashed' = Nothing
        /\ UNCHANGED <<tree, release, marker, rebuild, before, quiet>>

WrongDeleteNothing ==
    /\ pc = "scanning"
    /\ todo = {}
    /\ pc' = "marking"
    /\ UNCHANGED <<tree, release, records, marker, runVars, quiet, torn>>

DeleteStale ==
    /\ pc = "scanning"
    /\ todo = {}
    /\ pc' = "marking"
    /\ records' = {r \in records : <<r.path, r.chunk>> \notin Ids(before) \ desired}
    /\ UNCHANGED <<tree, release, marker, runVars, quiet, torn>>

\* The run's local variables go with it.
End ==
    /\ pc' = "idle"
    /\ rebuild' = FALSE
    /\ before' = {}
    /\ desired' = {}
    /\ todo' = {}
    /\ hashed' = Nothing

Mark ==
    /\ pc = "marking"
    /\ End
    /\ marker' = MarkOf[release]
    /\ torn' = (torn /\ ~(rebuild /\ quiet))
    /\ UNCHANGED <<tree, release, records, quiet>>

\* An embedding call or the store raises, or the process dies.
Abort ==
    /\ pc # "idle"
    /\ End
    /\ UNCHANGED <<tree, release, indexVars, quiet, torn>>
-----------------------------------------------------------------------------
\* Somebody writes, replaces or removes a file.
Edit(p, content) ==
    /\ tree[p] # content
    /\ tree' = [tree EXCEPT ![p] = content]
    /\ quiet' = FALSE
    /\ UNCHANGED <<release, indexVars, pc, runVars, torn>>

\* The service is started with another release, or an earlier one again.  It
\* opens the collection with its own metadata, which a store may take over for
\* a collection that exists or ignore.
Upgrade ==
    /\ pc = "idle"
    /\ release' \in Releases \ {release}
    /\ marker' \in {marker, MarkOf[release']}
    /\ UNCHANGED <<tree, records, pc, runVars, quiet, torn>>

Visit(p) == HashFails(p) \/ Skip(p) \/ Hash(p)

Run ==
    \/ \E all \in BOOLEAN : Start(all)
    \/ \E p \in Paths : Visit(p)
    \/ ReadFails
    \/ Store
    \/ DeleteStale
    \/ Mark
    \/ Abort

Next ==
    \/ Run
    \/ \E p \in Paths : \E content \in Contents \cup {NoFile} : Edit(p, content)
    \/ Upgrade

Spec == Init /\ [][Next]_vars
-----------------------------------------------------------------------------
TypeOK ==
    /\ tree \in [Paths -> Contents \cup {NoFile}]
    /\ records \subseteq Record
    /\ release \in Releases
    /\ marker \in {MarkOf[e] : e \in Releases}
    /\ pc \in {"idle", "scanning", "reading", "marking"}
    /\ rebuild \in BOOLEAN
    /\ before \subseteq Record
    /\ desired \subseteq Paths \X Chunks
    /\ todo \subseteq Paths
    /\ hashed \in [path : Paths, hash : Contents] \cup {Nothing}
    /\ quiet \in BOOLEAN
    /\ torn \in BOOLEAN

\* The index of a path is what the running release makes of its file, all of
\* it and nothing else.
PathExact(p) ==
    OfPath(records, p) = IF Indexable(p) THEN Entries(p, tree[p], tree[p]) ELSE {}

\* Whatever failed, died or changed before, a rebuild over a tree that holds
\* still leaves exactly the index of the tree (what scripts/index-knowledge
\* rebuilds for).
RebuildExact ==
    pc = "marking" /\ rebuild /\ quiet => \A p \in Paths : PathExact(p)

\* So does an incremental run, as long as no file was hashed as one content
\* and read as another since the last such rebuild.
IncrementalExact ==
    pc = "marking" /\ quiet /\ ~torn => \A p \in Paths : PathExact(p)

\* What GET /index/integrity answers: inspect_collection.
IntegrityValid ==
    /\ marker = MarkOf[release]
    /\ \A r \in records : r.release = release

\* A run that finishes leaves a collection that the integrity report calls valid,
\* whichever releases and aborted runs left what it found, and no later run,
\* finished or not, makes it invalid until the release changes.
ValidAfterRun ==
    [][(Mark \/ IntegrityValid) /\ release' = release => IntegrityValid']_vars

\* A chunk leaves the index of a path in this step.
Loses(p) == ~(Ids(OfPath(records, p)) \subseteq Ids(OfPath(records', p)))

\* A run over a tree that holds still never interrupts the answers: a path that
\* is indexed exactly stays so, and the chunks of a changed file, or those of an
\* older release, go only when their replacements are all there.
KeepsServing ==
    [][\A p \in Paths : /\ quiet' /\ release' = release
                        /\ PathExact(p) \/ Loses(p)
                        => PathExact(p)']_vars
=============================================================================
