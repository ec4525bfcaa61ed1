# Formal models of the Aisha homelab services

TLA+ models of the parts of `homelab-bootstrap` whose correctness depends on
interleavings, failures and order, or whose algorithms are easy to get wrong
at a boundary: the chat gateway and its page, and Local RAG with its indexing,
admission control, question endpoints and text algorithms. TLC checks small
instances; TLAPS proves the main safety properties for every value of the
constants. Paths below are relative to the root of the repository.

## 1. The system

| Component | State | Operations | Hard behaviour |
|---|---|---|---|
| Chat gateway, `services/openclaw/server.js` | conversation files, `conversationLocks`, `activeGenerations` | list, create, fetch, delete a conversation; send a message; health | handlers interleave at every await; copies and retries of a send; disconnects; late replies; failing disk; crashes |
| Chat client, `services/openclaw/ui/app.js` | conversation shown, send in flight, visible notice, drafts, timers | send, stop, retry, load, create, delete, probe health | answers that arrive after the user moved on; what a retry repeats |
| Index jobs, `services/local-rag/app/index_jobs.py` | job status in memory and in a file | begin, succeed, fail, load at start | concurrent requests; a failing write between memory and file; restart in the middle of a run |
| Indexer, `app/indexer.py`, `app/index_schema.py` | the vector collection | incremental run, rebuild, integrity report | files that change during a run; runs that die halfway; schema upgrades |
| Resource controls, `app/resource_controls.py` | token buckets, slots in use | admit, reject, release | refill and rounding; a full table of buckets; a slot on every way out |
| Ask and stream, `app/main.py`, `app/streaming.py`, `app/metrics.py` | list of models, encoder and its lock, counters | search, ask, stream, health, metrics | threads and the event loop share the list; failed discoveries; disconnects; what is counted |
| Chunking, `app/chunking.py` | none | spans, sections, windows | boundaries of windows; line numbers; equal chunks |
| Retrieval and reranking, `app/retrieval.py`, `app/reranker.py` | none | candidate pool, scores, order, fallback | limits of the pool; scores of a failing reranker |
| Confidence and citations, `app/confidence.py` | none | evidence, refusals, claims, citations | answers that look cited and are not, and the reverse |
| Conversation, evaluation, authentication, `app/conversation.py`, `evaluation.py`, `auth.py` | none | rewrite a query, score recorded cases, compare a token | |
| Knowledge release, `scripts/sync-knowledge-source`, `scripts/index-knowledge` | a git worktree | check out a revision; rebuild and verify | which revision the index really holds |
| Installer, `install.sh`, `scripts/bootstrap.d/` | selected phases, what ran | discover, order, select, run | options that contradict each other; a phase that fails halfway and is run again |
| Secrets, tokens, backups, ingress (`scripts/`) | files, running services, published routes | restore, back up, reconfigure | a failure between two steps; two scripts at once |

How they meet: the browser talks to the gateway only. For each message the
gateway opens one `/ask/stream` request to Local RAG, whose resource controls
admit or reject it, and relays its events. `scripts/index-knowledge` posts to
`/index`; its handler brackets `index_repository` with `begin` and
`succeed`/`fail`, so `IndexJob` is what makes runs of `Indexer` exclusive.
Gateway and Local RAG share no state except that one request. Behind it a
question is retrieved and reranked in a thread, compared with the list of
models, answered by Ollama and judged by its citations, the same way by `/ask`
as a whole and by `/ask/stream` token by token. The installer and the other
scripts act on the host before and around these services.

What makes each part correct:

* gateway: no message or answer lost, doubled or brought back by an unlucky
  order; an answer the user saw is stored; limits hold up to what overlaps;
  nothing stays locked;
* index jobs: one run at a time, a status that tells the truth across crashes;
* indexer: after a run over a quiet tree the index is the tree's, whatever
  happened before, and searching never suffers from a run;
* resource controls: the documented rate, a bounded table, no slot lost;
* ask and stream: only whole, cited answers are called grounded; a model list
  counts no longer than its time to live; the counters are exact; every request
  ends;
* chunking: nothing that can be read is lost, a citation names the right lines,
  ids do not collide;
* retrieval, confidence, citations: the best match is kept, nearness alone is no
  evidence, no uncited claim passes and no answer that keeps the rules is refused;
* chat client: what it sends again is sent where it was sent before.

## 2. Modules

| Module | Role |
|---|---|
| `ChatGateway` | the gateway's conversations and sends |
| `AnswerLedger` | what stored conversations promise; `ChatGateway` implements it |
| `MCChatGateway` | small values for `ChatGateway`, and the scenarios of `GatewayLimits` |
| `ChatGatewayProofs`, `ChatGatewayAnswerProofs` | types, the lock and the content of files; generations, answers and `AnswerLedger` |
| `IndexJob`, `MCIndexJob`, `IndexJobProofs` | the index job |
| `Indexer`, `MCIndexer`, `IndexerProofs` | one collection, one tree, runs |
| `ResourceControl`, `MCResourceControl`, `ResourceControlProofs` | buckets and slots |
| `AskService`, `MCAskService`, `AskServiceProofs` | the question endpoints; uses the verdict of `Citations` |
| `Citations`, `CitationsProofs` | refusals, claims, citations, and a reader's notion of support |
| `Chunking` | spans, sections, windows |
| `Retrieval` | pool, hybrid order, reranker, confidence |
| `MCTextAlgorithms`, `TextAlgorithmsProofs` | documents, stores and answers for the three modules above, one input at a time |
| `ChatClient`, `MCChatClient` | what the page sends, and where to |

A definition named `Wrong...` is a plausible bug of the definition after it. No
specification uses it; put in that place, it breaks the property `PROJECT.json`
names, which shows that the property does depend on that piece of the code.

### ChatGateway

Node runs one callback at a time, so an action is what runs between two awaits.

| Model | Code (`server.js`) |
|---|---|
| `live`, `files` | the files; `writeConversation` (147-157) takes effect with its rename, so a temporary file is no state |
| `creating` | a create request between `countConversations` and its write |
| `blind` | only observes: creates that passed a reached limit because `countConversations` takes a directory it cannot read for an empty one (197-204) |
| `queue` | `conversationLocks`: `withConversationLock` chains promises, so sections run in the order they were chained; the head of the queue holds the lock |
| `active` | `activeGenerations` |
| `pc`, `local` | where a handler is, and its local variables |
| `sent`, `history`, `acked` | what went upstream, with which history, and who was sent a `result` event |

The send handler is split at its awaits: `AcceptSend`; the prepare section
(`PrepareMissing`, `PrepareReplay`, `PrepareFull`, or `PrepareDraft` and
`StorePrepared`/`StorePreparedFails`); `Dispatch` (the key, the close listener
and the fetch, in one callback); `NoStream` or `StreamOpens`; `TokenArrives`,
`ResultArrives`; `StreamFails`, `StreamStopped` or `StreamCompletes`; then
`SaveDropped`, or `SaveDraft` and `StoreReply`/`StoreReplyFails`; and `Finish`.
`ClientLeaves` may happen anywhere and is heard only by an attached listener.
`Crash` stands for the death of the process and its restart.

A message is a role, the `client_message_id` it belongs to, a status and the
ordinal of its push; texts, titles, models and times are left out. Clients may
send any member of `Sends` at any time once its conversation exists; a retry or
a copy is another member with the same conversation and message. Bounds:
`MaxCreators`, and two switches that are environment assumptions.
`DuplicatesOverlap` allows a copy into the window between the check of
`activeGenerations` and its update; `ReadErrors` allows a read of an existing
file, or of the directory, to fail.

### IndexJob

`begin`, `succeed` and `fail` hold the manager's lock over the change in memory
and the write of the file, so each is one step, with the outcomes of the write:
done, or raised after memory changed (`BeginNotSaved`, `saved = FALSE`).
`IndexEnds` is `index_repository` returning or raising. `Crash` loses memory
and threads. `_persist` flushes neither the temporary file nor its rename, so
`older` holds what may stand in the file's place after a power loss
(`PowerFails`): a version that was replaced since the last write-back of the kernel
(`Flush`), or a file without its data. `Restart` is the constructor. `told`
remembers the last run that a client was told had succeeded, and `rewound` that a
power loss took the file back and nothing was written since; both only observe.

### Indexer

A run is `Start` (read the collection, list the tree), one visit per path
(`HashFails`, `Skip`, or `Hash` followed by `Store` or `ReadFails`),
`DeleteStale`, and `Mark`. `Edit` changes the tree between any two steps, in
particular between the hash and the read of a file. `Abort` is an embedding
call or the store raising, or the process dying, and undoes nothing. `Upgrade`
starts the service with another release, or an earlier one again: another
`CHUNKING_VERSION`, schema or embedding model, and with it another
`chunk_document`. A hash stands for the content it was taken of, `ChunksOf`
for what each release makes of a content, and a chunk id for path, lines and
text, so records of two releases with the same hash may stand side by side.
`Upsert` is the store's own. `IntegrityValid` is what `inspect_collection`
answers. `quiet` and `torn` only observe: nothing changed or failed in this
run; a file was stored under another content's hash since the last exact
rebuild.

### ResourceControl

Tokens are counted in parts of `1/Minute`, so refilling is exact integer
arithmetic where the code uses floats. `Arrive` is a request through the rate
limiter and the slots (no await lies between them), `Leave` the `finally` of
the middleware. `since`, `admitted` and `retryAt` observe one client, `Watched`,
which stands for any; `OpenWindow` starts a window at any time.

### AskService

FastAPI runs `/ask` and `/health` in threads and `/ask/stream` on the event
loop, so an action is what a thread does between two looks at shared state, or
what the loop does between two awaits.

| Model | Code |
|---|---|
| `cache`, `looked`, `list` | `_available_models_cache`, and `now` and the answer of a discovery under way (`main.py:254-305`) |
| `loop` | the event loop, stopped by a stream whose discovery is a blocking call (`main.py:1010`); `OnLoop` says which steps wait for it |
| `encoders`, `locked` | `LocalReranker._encoder` and `_lock` (`reranker.py`) |
| `evidence`, `answer`, `sent`, `gone` | what `events()` knows of its stream, and whether its client has left |
| `count` | the counters of `MetricRegistry` that the endpoints change |
| `told`, `result` | outcomes; they only observe |

`Start`, `RetrievalFails` or `Retrieve`, `EnterLock` and `Build` (the second look
at the encoder, under the lock), `Assess`, then `Look`, `Fetch` and `Store` for
the models, and `Generate` for `/ask`, or `Open`, `Token` and `Finish`, `Break` or
`Leave` for a stream. `/ask` refuses a question without evidence before it looks
at the models and `/ask/stream` after: the order is the code's. `Judge` is the
verdict of `Citations` with its counter. `Change` installs or removes a model,
`Disconnect` is a client that leaves.

### Citations, Chunking, Retrieval

Texts are sequences of what the algorithms tell apart. An answer has words with
ASCII letters or digits and without, hedges, citations that are known or invented,
stops, dots that end no sentence, line ends, and the word CITATION by itself, in
brackets or in a longer word, since that is the placeholder of the code; a document
has a boundary, visible characters, blanks, line feeds and form feeds; a chunk in
the store has a distance, the tokens it matches and where the query occurs.

* `Citations` is pure. `Moved` is the rewriting that puts a stop behind its
  citations, `Claims` the segments of `claim_segments`, `Verdict` what both
  handlers make of an answer: a claim is cited if the placeholder is in it,
  wherever it came from. The properties are stated against definitions of
  their own, `SpeaksFor` and `EndsCited`, which know nothing of the rewriting.
* `Chunking` has an action per loop: `Extend` packs spans, `Whole` and `Long` end a
  section, `Cut` takes a window. `from`, `to`, `start` are Python offsets.
* `Retrieval` goes through `Query` (pool, prefix, hybrid order), `Fallback` or
  `ApplyScores`, and `AssessConfidence`. Chunks are matched with the rewritten
  query (`QueryTokens`, `conversation.py:44-61`: of a follow-up the turns
  before it too), and the coverage that counts for the confidence is of the
  question alone (`QuestionTokens`, `main.py:823`, 992); the threshold is the
  constant `MinConfidence`. Scores are integers in parts of 60 000, in which
  all quotients of the instance are exact; the sigmoid is its value at three
  scores. A sort is the sequence that has the order of its key, and the
  theorems first show that there is one.

### ChatClient

An action is what a handler of the page does between two awaits: `SendQuestion`
and its answers, failures, stop and 429; retry; the countdown; `New`, picking,
loading and deleting a conversation. A request the page gave up may still reach
the gateway, which stores the question under its `client_message_id`.

## 3. Runs

| Run | Result | Instance | States |
|---|---|---|---|
| `GatewayRaces` | passes | one conversation; two copies of one message and one of another; one deletion; overlap and read errors | 461 000 |
| `GatewayAnswers` | passes | two messages with a retry each, one deletion; no overlap, no read errors; three messages per file | 381 000 |
| `GatewayLimits` | passes | limits of one conversation and one message, one deletion, everything that can fail; four conversations, two creates at a time, beside one send, or two copies and another message in one conversation | 90 500 |
| `GatewayDuplicates` | violated | two copies, overlap | |
| `GatewayCancel` | violated | one send | |
| `IndexJob` | passes | three requests, failing writes, power loss | 12 300 |
| `IndexJobWedge` | violated | two requests, failing writes in `begin` | |
| `Indexer` | passes | two paths, two contents, two releases whose chunks overlap | 1 850 000 |
| `ResourceControl` | passes | three clients, two buckets, one slot, clock to 9 with a minute of 3 | 1 250 000 |
| `AskService` | passes | any two of a question, two streams and a health probe; one model besides the default, installed or removed once; a time to live of 2 within a clock to 4 | 450 000 |
| `TextAlgorithms` | passes | documents to 7 characters (5 with form feeds), windows of 3 with an overlap of 1; stores of three chunks, a query of three words, two of them the question's; answers to 5 atoms of 11 kinds | 1 350 000 |
| `ChatClient` | violated | one question, two conversation ids | |

What the violated runs show:

* `GatewayDuplicates`: the gateway's README (lines 27-29) says concurrent
  duplicates are rejected. A copy that arrives before line 629 of `server.js`
  is reached passes the check of line 523, and both generate. The stored
  conversation stays sound all the same (`GatewayRaces` allows the overlap).
* `GatewayCancel`: the README (lines 30-31) says a cancel aborts the
  generation. A cancel before line 679 is not heard.
* `IndexJobWedge`: one failing write in `begin` leaves the job "running"; every
  later request is refused as if another were at work, until a restart.
* `ChatClient`: the page says "retries are safe and will not duplicate your
  message" (`app.js:935`). `New` (1010-1022) forgets the conversation and leaves
  the notice of a failed send, whose Retry then asks in a new conversation what
  the first has stored. With the notice hidden, as loading a conversation does
  (613), the property holds in this instance.

Why the bounds are enough. Files of different conversations share nothing but
the conversation limit, so one conversation carries the races and four only
the limit; for the same reason `GatewayLimits` leaves out of its `LimitsNext`
the product of many creates with many sends, by holding back creates and
arriving requests and no step that carries fairness. The races need two copies
of a message (a third repeats what the second does), another message to be
lost or reordered, and a deletion. The limit of three messages in
`GatewayAnswers` lets both questions and an answer in, so that retries meet a
full file too, and `HistoryLimit = 1` cuts the history. An index run's fate
depends on whether another is at work and what the status file holds, which
three requests exhaust. Two paths let one file be torn or lost while the other
is kept; two contents with a common chunk let an upsert replace, add and leave
chunks, and so do two releases of one content, with an aborted migration
between them. Two requests meet in every shared piece of `AskService`; its
safety properties are proved below for any number. Its clock outlives a list
that was stored late, and its answers are one of each verdict. A document of
seven characters has a section of three windows with text around it, or two
sections with a long one between; an answer of five atoms has two claims, a
stop or line end between them and a citation for each (the proofs of these two
have no such bound). Three chunks are one more than the smaller pool and two
more than the smaller limit. The clock of `ResourceControl` covers the time in
which a bucket fills, becomes stale, and is used again. Symmetry is used for
copies of the same send, for paths, and for clients and requests that no
property names; no run that checks liveness uses it.

Deadlock is checked for `Indexer` and `ResourceControl`. The other instances
have finitely many requests, or one input, and stop when all is done.

Fairness. In `ChatGateway` every handler that can go on does (`Progress`): the
promise jobs and callbacks of Node run, disk calls return, and the 300 s timer
of line 631 aborts a stream that does not end by itself; nothing is assumed of
clients, and neither tokens nor results are promised. A fair `Progress` never
needs the failing alternatives, and may always take them. In `IndexJob`
`index_repository` returns or raises, threads are scheduled, and the container
is restarted when its process dies (`restart: unless-stopped` in
`compose/ai/local-rag.yml`). In `AskService` each request that can go on does:
threads and the event loop are scheduled, and every call to Ollama has a
timeout; tokens may stay away, clients need not leave and models need not
appear. A stream that stops the event loop holds it until its discovery ends,
and a thread that holds the encoder's lock until loading ends, so `RequestsEnd`
says that nobody waits for ever behind either. The other modules have no
liveness property.

## 4. Proofs

Every theorem holds for all values of the constants that satisfy the named
assumptions (`TasksAssumption`, `LimitsAssumption`, `EnvironmentAssumption`,
`FaultAssumption`, `ContentAssumption`, `SizesAssumption`, `RetrievalAssumption`,
`AskAssumption`), with any number of requests, paths, contents, clients, chunks or
characters. Every safety property of a passing run, action properties and the
refinement included, is a theorem. Each rests on inductive invariants: one holds
initially, every action preserves it, and it implies the properties.

* `ChatGatewayProofs` (`TypeInv`): besides the types, a handler that is inside
  a section, between the start of its read and the end of its write, is the
  head of its conversation's queue (`HoldersHaveTurn`), and a handler that
  persists a reply has chosen its status. Two handlers in a section of one
  conversation are then both the head of one queue: `WritersAreSerialized`. On
  top of `TypeInv`, `FileInv`: every file is well formed (finite, ordinals at
  most the push count, at most one question and one reply per message, a reply
  only behind its question, at most `MaxMessages` questions); the draft of a
  handler in a section is what rewriting the file as it is now gives
  (`DraftsCurrent`), since the head of the queue is the only writer; and from
  the store on, the question is in the file as long as there is a file
  (`HasQuestion`). From it follow `FilesAreSound`, `FilesAreBounded`, and the
  action properties `DeletedStaysDeleted` and `QuestionsAreKept`.
* `ChatGatewayAnswerProofs` goes on under `~DuplicatesOverlap` (see below),
  one invariant on top of the other. `KeyInv`: no two handlers work on copies
  of one send, and from the fetch on its key is registered;
  `OneGenerationAtATime`. `AnswerInv`: a handler prepares a message only while
  it is unanswered, until its own reply nobody stores one, and a complete
  reply it wrote is there; `AnsweredIsNotRegenerated` and `AnswersAreKept`.
  `ToldInv`: the history that a message was sent with is the history its
  question has now, because what a section writes for one message goes behind
  the questions of the others and changes none of the complete messages before
  them; `RetriesSendSameHistory`, and with it and readable files
  `AcknowledgedStaysStored`. `CountInv` counts the files together with the
  creates between their count and their write, those apart that a failed read
  let pass; `OvershootIsBounded` needs no hypothesis. `GatewayKeepsLedger` is
  the step simulation: `StepLedger` maps each step to a step of `AnswerLedger`
  or to none, by what it does to the one conversation it may change
  (`StoreRecords`, `GoneEmpty`).
* `IndexJobProofs` (`IInv`): a working handler owns the job (`RunOwnsJob`) and its
  run is the last begun; the last success that memory and the file name is at
  least the one told to a client; an idle status, in memory or in the file, names
  the last run begun; and without a file no run has begun. The last two hold unless
  a power loss took the file back and nothing was written since, which can leave
  the idle file of an earlier run: the code cannot tell, and no document promises
  that it can. Gives `RunsExclude`,
  `IdleIsHonest`, `SuccessIsDurable`.
* `IndexerProofs` (`IInv`): says of each path, by how far the run has come with
  it, what its records are: untouched, kept by a skip, as `Store` left them, or
  unwanted because the file was not there or not readable. Unless a file was
  torn, a path whose records are all of one hash and one release has all the chunks
  which that release makes of that content (`Honest`): this is what lets a run skip it,
  whatever releases and aborted runs came before. Gives `RebuildsAreExact`,
  `IncrementalRunsAreExact`, `RunsLeaveValid`, `RunsKeepServing`. Undecodable
  contents, left out of the run, are covered here.
* `ResourceControlProofs` (`IInv`): what `Watched` was admitted in the window plus
  what its bucket holds now is at most the capacity plus the rate times the
  window (`RateInv`), and the uncut line of the bucket reaches one token at
  `retryAt` and not a tick before (`RetryInv`), which is the arithmetic of
  rounding up behind `RetryAfterIsExact`. `TableIsBounded` and `SlotsAreHeld`
  count sets.
* `TextAlgorithmsProofs`, chunking: on the offsets, `Place` says where section and window lie.
  On top of it are inductive: `ChunksFit` and `PhrasesHeld` (a short phrase that
  begins before the window stands whole in a chunk already), since the next
  window goes back by the overlap; `LinesNamed` (the lines of a chunk enclose its
  text); and `FirstsRise` (each chunk begins on a later line than the one before,
  and all of them before the `Fence`, the line of the next window), which needs
  every line shorter than the window less the overlap. They give
  `PhrasesAreKept`, `LinesAreHeld` and `IdsAreDifferent`, of `Chunking` alone and, by
  `DocumentsAreChunked`, of the run's `TextSpec`.
* `TextAlgorithmsProofs`, retrieval: `SortExists` builds a sort of any finite set
  with a strict total order, from the number of elements before each; `Before` is
  such an order (`BeforeOrders`), and so is the reranker's. Scores are whole parts
  of `Unit` (`PartOfUnit`), and a chunk without a word of the query has at most 45
  of 100 of them, which the confidence weighs down to 36; a reranker's score of zero
  counts 40, so the theorem is about thresholds above 40. `RetrievalInv` says that
  the candidates stay in the order of their scores. `TheBestAreKept` and
  `NearnessIsNoEvidence` follow. Quotients are rounded down to a part of `Unit`
  where they are not exact.
* `CitationsProofs` first shows that `Moved` is a bijection, so that `Normalized` is
  a permutation of the answer; that words stay where they are (`SpokenStays`);
  and that every word lies in a claim (`ClaimExists`). `OnlySupportedPasses`
  then carries a citation found in a claim of the rewritten text back to the
  answer as it was written, unless it is the answer's own CITATION, and
  `CompliantIsAccepted` the other way, unless a dot cuts the claim. Together
  they are `JudgesRightly`, for answers of every length. Neither hypothesis can go:
  without them TLC finds a citation, a new line and "CITATIONS" grounded, and
  "...", a word and a citation refused.
* `AskServiceProofs` sorts the steps into kinds (`StepKinds`) and has an inductive
  invariant for each property on top of the types. `BuildInv`: who builds holds
  the lock and no encoder was there, hence `BuiltOnce`. `AnswersInv`: a stream under
  way has an answer of the model, and a grounded result is one with that
  verdict, hence `GroundedAnswersAreWhole` by `OnlySupportedPasses`. `CountsInv`:
  nobody has an outcome before the end, and only probes are told a list; the
  questions are then the disjoint union of those counted by outcome and
  `Unaccounted` (`Accounts`), hence `CountsAreExact`. `ModelsInv`: what a
  list says of a model was so when its request looked or since, unless a
  discovery failed since (`Says`), hence `ModelsAreBelieved`.

`TypeOK` is a theorem in every module that has proofs about a specification;
only two runs check it besides.

Two hypotheses. `~DuplicatesOverlap` says that no copy of a send arrives while
another is between its check of `activeGenerations` and its update, while it waits
for the lock and its file; the page sends a message again only after the first
attempt ended or was given up. `~ReadErrors` says that a file that exists can be
read. Both are states of the world and not of the code, so they are named in
the theorems that need them and nowhere else. They are needed: with the switch on, TLC
violates `OneGeneration` (`GatewayDuplicates`), and in the same way `NoRegeneration`,
`AnswersKept`, `AcknowledgedIsStored`, `KeepsLedger` and, with four sends,
`RetrySameHistory`; with read errors it violates `AcknowledgedIsStored`. What
`GatewayRaces` checks with both on is proved with both on.

Checked by TLC only: the liveness properties (`SendsSettle`, `JobSettles`,
`RequestsEnd`), since liveness under fairness is out of the prover's reach. No
module uses recursion.

## 5. Limits of the models

* The store and the file system are taken at their word: an upsert, a delete
  and a rename are atomic. A power loss is modelled for the status file only.
* Records without metadata, from before the index had any, are not modelled;
  a run deletes them with the other ids that it does not want.
* A file that changes between its hash and its read is stored under the wrong hash,
  and skipped while it has the content of that hash: `IncrementalExact` excepts
  such a torn file until a rebuild. A file that cannot be read is dropped by the run
  and comes back with the next one that can read it.
* Float rounding in the token bucket is not modelled.
* `AcknowledgedIsStored` and what follows it assume that an existing file can
  be read: with a read error `persistReply` drops the answer silently.
* While the directory cannot be read every create passes, and the conversations
  that come of it have no bound; `ConversationOvershoot` bounds the others.
* After a power loss the status file may be that of an earlier run, idle although
  a later run changed the index: `IdleNamesLastRun` and `SuccessDurable` except it.
* `RateHolds` excludes the case in which a full table pushed out a bucket that
  was not stale; the window starts again there.
* `IdsDiffer` is about chunk ids as path, lines and text (`indexer.py:203-218`) in
  one document with short lines. Two windows of one long line with the same text
  do get one id: the store then refuses the batch.
* `LinesHold` excludes form feeds: `splitlines` breaks lines there and
  `count("\n")` does not, so the lines of a citation may be too high behind one.
* `ModelsBelieved` counts a failed discovery as an answer, as the code does: after
  one, installed models are refused until the list is too old.
* `JudgedRight` and `GroundedIsWhole` except what `Citations` shows the code to get
  wrong by its own tests. A claim with the word CITATION in it, or without an ASCII
  letter or digit, passes uncited when there is a citation elsewhere in the answer
  (`confidence.py:156`, 174), although `test_uncited_claim_is_rejected`
  (`test_confidence.py:107`). A dot within a word ("v1.2", "...") ends a claim
  before its citation (33), and the answer is refused although the prompt's rule, to
  end every sentence with a citation (`main.py:555`), is kept. A refusal
  phrase is recognised wherever it occurs, except that the marker of
  insufficient context followed by a citation is judged as a claim.
* `Retrieval` abstracts texts to what matches. `EvidenceNeeded` is about the words of
  the query: a follow-up none of whose own words occurs may pass on those of the
  turns before it, as the code has it. A question of stopwords alone counts
  them as significant; a NaN of the reranker, which `clamp` turns into 1, is not
  modelled. The prefix is applied after the pool was taken, so matches under it
  that are further away are not found.
* Of the outcomes of a question, a rejection with 422, a failure of the vector store
  and a client that left have no counter in the metrics: `OutcomesCounted` says that
  the requests counted exceed the outcomes counted by these and those under way.
* `Leave` of `ResourceControl` is every way out of the middleware at once.

Not modelled, and why:

* gateway: listing, fetching, health aggregation, request bodies and static files
  change no state the properties speak of;
* chat client: drafts, models, rendering, health probes, the embedding protocol.
  Older answers of a probe or a load may overwrite newer ones (`app.js:430`, 633),
  and what is typed while a send fails is overwritten (796); no document
  promises an order there;
* `conversation.py` but for the tokens of the rewritten query, which are in
  `Retrieval`, `auth.py` (comparison of a token),
  `evaluation.py` (an offline report): pure, and nothing in them is shared;
* metrics: latencies, which only add up, and the snapshot;
* the knowledge release scripts, the installer, the bootstrap phases, secrets,
  backups, ingress and service control, Compose files and units: sequential
  scripts whose effects are those of the tools they call. What could go wrong in
  them is one failing between two steps or two of them at once, and nothing in the
  repository starts two that collide on purpose.

## 6. Plan

Done: `ChatGateway` with `AnswerLedger`, `IndexJob`, `Indexer`,
`ResourceControl`, `AskService`, `Citations`, `Chunking`, `Retrieval`, `ChatClient`,
and the proofs above. Next, in this order:

1. `SecretsRestore` and `DockerPhase`: scripts that stop between two steps and run
   again.
