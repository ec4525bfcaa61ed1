----------------------------- MODULE ChatGateway -----------------------------
(***************************************************************************)
(* The Aisha chat gateway (services/openclaw/server.js): conversations kept *)
(* as files, a promise chain per conversation that serialises the sections  *)
(* which rewrite a file, a set of generation keys in memory, and one        *)
(* handler per POST .../messages that waits for the disk, for the lock and  *)
(* for the Local RAG stream.                                                *)
(*                                                                          *)
(* Node runs one callback at a time, so an action is what runs between two  *)
(* awaits.  Every member of Sends is one POST request; a retry is another   *)
(* member with the same conversation and client_message_id.                 *)
(*                                                                          *)
(* A definition named Wrong... is a plausible bug, used by no action: put in *)
(* the place of the definition that follows it, it must break a property.   *)
(***************************************************************************)
EXTENDS Naturals, FiniteSets, Sequences

CONSTANTS
    Conversations,      \* conversation ids (random UUIDs, never reused)
    Messages,           \* client_message_id values
    Sends,              \* POST /api/conversations/<id>/messages requests
    Deletes,            \* DELETE /api/conversations/<id> requests
    ConvOf,             \* the conversation a request names
    MsgOf,              \* the client_message_id a send carries
    MaxConversations,   \* MAX_CONVERSATIONS
    MaxMessages,        \* MAX_MESSAGES_PER_CONVERSATION
    HistoryLimit,       \* MAX_HISTORY_MESSAGES
    MaxCreators,        \* bound: create requests in flight together
    DuplicatesOverlap,  \* may a copy of a send arrive while another copy is
                        \* still being prepared (lines 523-629)?
    ReadErrors          \* may readFile or JSON.parse fail on an existing file,
                        \* and readdir on the directory?

Tasks == Sends \cup Deletes

ASSUME TasksAssumption ==
    /\ Sends \cap Deletes = {}
    /\ ConvOf \in [Tasks -> Conversations]
    /\ MsgOf \in [Sends -> Messages]

ASSUME LimitsAssumption ==
    /\ MaxConversations \in Nat
    /\ MaxMessages \in Nat
    /\ HistoryLimit \in Nat
    /\ MaxCreators \in Nat \ {0}

ASSUME EnvironmentAssumption ==
    /\ DuplicatesOverlap \in BOOLEAN
    /\ ReadErrors \in BOOLEAN

VARIABLES
    live,       \* conversations whose file exists
    files,      \* the content of each file
    creating,   \* progress of the create request that owns each id
    blind,      \* those of them that passed a reached limit unseen
    queue,      \* conversationLocks: sections waiting for a conversation
    active,     \* activeGenerations
    pc,         \* where each handler is
    local,      \* the local variables of each send's handler
    sent,       \* sends that reached the upstream fetch
    history,    \* the history each of them carried
    acked       \* sends whose client was sent a result event

diskVars == <<live, files>>
sentVars == <<sent, history>>
vars == <<live, files, creating, blind, queue, active, pc, local, sent, history, acked>>

-----------------------------------------------------------------------------
(* Conversation files.  The messages array is the set of its messages, each *)
(* with its push ordinal: push appends, filter removes, neither reorders.   *)

Message == [role : {"user", "assistant"}, re : Messages,
            status : {"sent", "stopped", "complete"}, at : Nat]

File == [msgs : SUBSET Message, pushes : Nat]

EmptyFile == [msgs |-> {}, pushes |-> 0]

Push(f, role, m, status) ==
    [msgs |-> f.msgs \cup {[role |-> role, re |-> m, status |-> status,
                            at |-> f.pushes + 1]},
     pushes |-> f.pushes + 1]

Questions(f, m) == {x \in f.msgs : x.role = "user" /\ x.re = m}
Replies(f, m) == {x \in f.msgs : x.role = "assistant" /\ x.re = m}

\* findReply returns the first reply; only a complete one is replayed.
Answered(f, m) ==
    \E x \in Replies(f, m) : /\ x.status = "complete"
                             /\ \A y \in Replies(f, m) : x.at <= y.at

WrongFullOffByOne(f) == Cardinality(f.msgs) > MaxMessages

\* The limit guards new questions only, not retries and not replies.
Full(f) == Cardinality(f.msgs) >= MaxMessages

WrongPreparedDropsQuestion(f, m) ==
    IF Questions(f, m) # {}
    THEN [f EXCEPT !.msgs = {x \in @ : x.re = m => x.status = "complete"}]
    ELSE Push(f, "user", m, "sent")

WrongPreparedKeepsStopped(f, m) ==
    IF Questions(f, m) # {} THEN f ELSE Push(f, "user", m, "sent")

\* A retry drops what an earlier attempt left; a new question is pushed.
Prepared(f, m) ==
    IF Questions(f, m) # {}
    THEN [f EXCEPT !.msgs = {x \in @ : x \in Replies(f, m) => x.status = "complete"}]
    ELSE Push(f, "user", m, "sent")

WrongWithReplyAlone(f, m, status) ==
    Push([f EXCEPT !.msgs = {x \in @ : x.role = "user"}], "assistant", m, status)

\* persistReply replaces every earlier reply to the message.
WithReply(f, m, status) ==
    Push([f EXCEPT !.msgs = @ \ Replies(f, m)], "assistant", m, status)

WrongPrecedingStopped(f, m) ==
    {x \in f.msgs : \A q \in Questions(f, m) : x.at < q.at}

\* buildHistory: what precedes the question, incomplete answers left out.
Preceding(f, m) ==
    {x \in f.msgs : /\ \A q \in Questions(f, m) : x.at < q.at
                    /\ x.role = "assistant" => x.status = "complete"}

HistoryOf(f, m) ==
    LET H == Preceding(f, m)
    IN  {x \in H : Cardinality({y \in H : y.at > x.at}) < HistoryLimit}

-----------------------------------------------------------------------------
Key(s) == <<ConvOf[s], MsgOf[s]>>

FileOf(s) == files[ConvOf[s]]

Preparing == {"queued", "loaded", "stored"}
Generating == {"fetching", "streaming", "saving", "saveLoaded", "saveStored"}
InSection == {"loaded", "stored", "saveLoaded", "saveStored"}

Goto(t, from, to) == pc[t] = from /\ pc' = [pc EXCEPT ![t] = to]

\* withConversationLock: a section starts when all earlier ones have settled.
Enqueue(t) == queue' = [queue EXCEPT ![ConvOf[t]] = Append(@, t)]

WrongHasTurnUnordered(t) == queue[ConvOf[t]] # <<>>
HasTurn(t) == queue[ConvOf[t]] # <<>> /\ Head(queue[ConvOf[t]]) = t

WrongReleaseForgotten(t) == UNCHANGED queue
Release(t) == queue' = [queue EXCEPT ![ConvOf[t]] = Tail(@)]

\* The handler's local variables, dropped when it ends.
Fresh == [gone |-> FALSE,       \* the client closed the connection
          closed |-> FALSE,     \* ... and the handler saw it: clientClosed
          partial |-> FALSE,    \* collectedTokens is not empty
          result |-> FALSE,     \* finalResult is set
          reply |-> "none",     \* the status of the reply being persisted
          draft |-> EmptyFile]  \* the conversation a section is to write

\* A handler returns: before the try block, and after its finally block, which
\* removes the key whoever added it.
Return(s, from) ==
    /\ Goto(s, from, "done")
    /\ local' = [local EXCEPT ![s] = Fresh]

WrongReturnForgetsAll(s, from) ==
    /\ Return(s, from)
    /\ active' = active \ ({ConvOf[s]} \X Messages)

ReturnAndForget(s, from) ==
    /\ Return(s, from)
    /\ active' = active \ {Key(s)}

\* The result event is written while the handler believes the client is there.
TellResult(s) ==
    acked' = IF local[s].reply = "complete" /\ ~local[s].closed
             THEN acked \cup {s} ELSE acked

Init ==
    /\ live = {}
    /\ files = [c \in Conversations |-> EmptyFile]
    /\ creating = [c \in Conversations |-> "unborn"]
    /\ blind = {}
    /\ queue = [c \in Conversations |-> <<>>]
    /\ active = {}
    /\ pc = [t \in Tasks |-> "idle"]
    /\ local = [s \in Sends |-> Fresh]
    /\ sent = {}
    /\ history = [s \in Sends |-> {}]
    /\ acked = {}
-----------------------------------------------------------------------------
(* POST /api/conversations: the limit is checked before the write's await.  *)

Counted == {c \in Conversations : creating[c] = "counted"}

\* readdir throws: the conversations are counted as none, and a limit that is
\* reached is not seen.
CountFails(c) ==
    /\ ReadErrors
    /\ 0 < MaxConversations
    /\ Cardinality(live) >= MaxConversations
    /\ blind' = blind \cup {c}

WrongCountOffByOne(c) ==
    /\ creating[c] = "unborn"
    /\ Cardinality(Counted) < MaxCreators
    /\ \/ Cardinality(live) <= MaxConversations /\ UNCHANGED blind
       \/ CountFails(c)
    /\ creating' = [creating EXCEPT ![c] = "counted"]
    /\ UNCHANGED <<diskVars, queue, active, pc, local, sentVars, acked>>

CountConversations(c) ==
    /\ creating[c] = "unborn"
    /\ Cardinality(Counted) < MaxCreators
    /\ \/ Cardinality(live) < MaxConversations /\ UNCHANGED blind
       \/ CountFails(c)
    /\ creating' = [creating EXCEPT ![c] = "counted"]
    /\ UNCHANGED <<diskVars, queue, active, pc, local, sentVars, acked>>

WriteNewConversation(c) ==
    /\ creating[c] = "counted"
    /\ creating' = [creating EXCEPT ![c] = "born"]
    /\ live' = live \cup {c}
    /\ files' = [files EXCEPT ![c] = EmptyFile]
    /\ UNCHANGED <<blind, queue, active, pc, local, sentVars, acked>>

\* mkdir, writeFile or rename throws: a 500, and the id is never used.
NewConversationFails(c) ==
    /\ creating[c] = "counted"
    /\ creating' = [creating EXCEPT ![c] = "unborn"]
    /\ blind' = blind \ {c}
    /\ UNCHANGED <<diskVars, queue, active, pc, local, sentVars, acked>>

(* DELETE /api/conversations/<id>.                                          *)

DeleteArrives(d) ==
    /\ creating[ConvOf[d]] = "born"
    /\ Goto(d, "idle", "queued")
    /\ Enqueue(d)
    /\ UNCHANGED <<diskVars, creating, blind, active, local, sentVars, acked>>

\* unlink, or its failure, reported as 404.
DeleteRuns(d) ==
    /\ HasTurn(d)
    /\ Goto(d, "queued", "done")
    /\ Release(d)
    /\ \/ /\ live' = live \ {ConvOf[d]}
          /\ files' = [files EXCEPT ![ConvOf[d]] = EmptyFile]
       \/ UNCHANGED diskVars
    /\ UNCHANGED <<creating, blind, active, local, sentVars, acked>>
-----------------------------------------------------------------------------
(* POST /api/conversations/<id>/messages, up to the upstream fetch.         *)

\* With ~DuplicatesOverlap the client never sends a copy into the window in
\* which the first copy is not yet in activeGenerations.
MayArrive(s) ==
    /\ pc[s] = "idle"
    /\ creating[ConvOf[s]] = "born"
    /\ \/ DuplicatesOverlap
       \/ \A t \in Sends : Key(t) = Key(s) => pc[t] \notin Preparing

\* 422: an invalid body; 409: the key is in activeGenerations; 503: no readable
\* Local RAG token.
Refuse(s) ==
    /\ MayArrive(s)
    /\ Goto(s, "idle", "done")
    /\ UNCHANGED <<diskVars, creating, blind, queue, active, local, sentVars, acked>>

WrongAcceptUnchecked(s) ==
    /\ MayArrive(s)
    /\ Goto(s, "idle", "queued")
    /\ Enqueue(s)
    /\ UNCHANGED <<diskVars, creating, blind, active, local, sentVars, acked>>

AcceptSend(s) ==
    /\ MayArrive(s)
    /\ Key(s) \notin active
    /\ Goto(s, "idle", "queued")
    /\ Enqueue(s)
    /\ UNCHANGED <<diskVars, creating, blind, active, local, sentVars, acked>>

WrongCanReadDeleted(s) == TRUE
CanRead(s) == ConvOf[s] \in live
ReadsNothing(s) == ConvOf[s] \notin live \/ ReadErrors

\* The section returns without writing, and the handler answers at once.
EndPrepare(s) ==
    /\ HasTurn(s)
    /\ Return(s, "queued")
    /\ Release(s)
    /\ UNCHANGED <<diskVars, creating, blind, active, sentVars>>

PrepareMissing(s) ==
    /\ ReadsNothing(s)
    /\ EndPrepare(s)
    /\ UNCHANGED acked

PrepareReplay(s) ==
    /\ CanRead(s)
    /\ Questions(FileOf(s), MsgOf[s]) # {}
    /\ Answered(FileOf(s), MsgOf[s])
    /\ EndPrepare(s)
    /\ acked' = acked \cup {s}

PrepareFull(s) ==
    /\ CanRead(s)
    /\ Questions(FileOf(s), MsgOf[s]) = {}
    /\ Full(FileOf(s))
    /\ EndPrepare(s)
    /\ UNCHANGED acked

PrepareDraft(s) ==
    /\ CanRead(s)
    /\ IF Questions(FileOf(s), MsgOf[s]) # {}
       THEN ~Answered(FileOf(s), MsgOf[s])
       ELSE ~Full(FileOf(s))
    /\ HasTurn(s)
    /\ Goto(s, "queued", "loaded")
    /\ local' = [local EXCEPT ![s].draft = Prepared(FileOf(s), MsgOf[s])]
    /\ UNCHANGED <<diskVars, creating, blind, queue, active, sentVars, acked>>

\* writeConversation takes effect with its rename, which also creates the
\* file; the temporary file is invisible to every reader.
WriteDraft(s) ==
    /\ live' = live \cup {ConvOf[s]}
    /\ files' = [files EXCEPT ![ConvOf[s]] = local[s].draft]

StorePrepared(s) ==
    /\ Goto(s, "loaded", "stored")
    /\ WriteDraft(s)
    /\ UNCHANGED <<creating, blind, queue, active, local, sentVars, acked>>

\* mkdir, writeFile or rename throws: the handler ends with a 500.
StorePreparedFails(s) ==
    /\ Return(s, "loaded")
    /\ Release(s)
    /\ UNCHANGED <<diskVars, creating, blind, active, sentVars, acked>>

\* The rename's callback: the section settles, the key is registered, the
\* close listener is attached and the fetch starts.
Dispatch(s) ==
    /\ Goto(s, "stored", "fetching")
    /\ Release(s)
    /\ active' = active \cup {Key(s)}
    /\ sent' = sent \cup {s}
    /\ history' = [history EXCEPT ![s] = HistoryOf(local[s].draft, MsgOf[s])]
    /\ local' = [local EXCEPT ![s].draft = EmptyFile]
    /\ UNCHANGED <<diskVars, creating, blind, acked>>
-----------------------------------------------------------------------------
(* The upstream stream.                                                     *)

\* The connection fails or is aborted, or the answer is not a 2xx.
NoStream(s) ==
    /\ ReturnAndForget(s, "fetching")
    /\ UNCHANGED <<diskVars, creating, blind, queue, sentVars, acked>>

StreamOpens(s) ==
    /\ Goto(s, "fetching", "streaming")
    /\ UNCHANGED <<diskVars, creating, blind, queue, active, local, sentVars, acked>>

Receive(s, field) ==
    /\ pc[s] = "streaming"
    /\ local' = [local EXCEPT ![s][field] = TRUE]
    /\ UNCHANGED <<diskVars, creating, blind, queue, active, pc, sentVars, acked>>

TokenArrives(s) == Receive(s, "partial")
ResultArrives(s) == Receive(s, "result")

\* An error event; or a stream that is cut or ends without a result, while the
\* client is there or before any text came.  Nothing is persisted and the
\* message can be retried.
StreamFails(s) ==
    /\ ReturnAndForget(s, "streaming")
    /\ UNCHANGED <<diskVars, creating, blind, queue, sentVars, acked>>

Save(s, status) ==
    /\ Goto(s, "streaming", "saving")
    /\ local' = [local EXCEPT ![s].reply = status]
    /\ Enqueue(s)
    /\ UNCHANGED <<diskVars, creating, blind, active, sentVars, acked>>

WrongStoppedUnmarked(s) == local[s].closed /\ local[s].partial /\ Save(s, "none")

\* finishStoppedPartial after the client left: the collected text is kept,
\* even when a result was already received.
StreamStopped(s) == local[s].closed /\ local[s].partial /\ Save(s, "stopped")

StreamCompletes(s) == local[s].result /\ Save(s, "complete")
-----------------------------------------------------------------------------
(* persistReply and the end of the handler.                                 *)

\* The conversation is gone (or unreadable): the reply is dropped, and the
\* client still gets its result event.
SaveDropped(s) ==
    /\ HasTurn(s)
    /\ ReadsNothing(s)
    /\ ReturnAndForget(s, "saving")
    /\ Release(s)
    /\ TellResult(s)
    /\ UNCHANGED <<diskVars, creating, blind, sentVars>>

SaveDraft(s) ==
    /\ HasTurn(s)
    /\ CanRead(s)
    /\ Goto(s, "saving", "saveLoaded")
    /\ local' = [local EXCEPT ![s].draft =
                      WithReply(FileOf(s), MsgOf[s], local[s].reply)]
    /\ UNCHANGED <<diskVars, creating, blind, queue, active, sentVars, acked>>

StoreReply(s) ==
    /\ Goto(s, "saveLoaded", "saveStored")
    /\ WriteDraft(s)
    /\ UNCHANGED <<creating, blind, queue, active, local, sentVars, acked>>

WrongStoreReplyIgnored(s) ==
    /\ ReturnAndForget(s, "saveLoaded")
    /\ Release(s)
    /\ TellResult(s)
    /\ UNCHANGED <<diskVars, creating, blind, sentVars>>

\* The write throws: the response ends without a result event.
StoreReplyFails(s) ==
    /\ ReturnAndForget(s, "saveLoaded")
    /\ Release(s)
    /\ UNCHANGED <<diskVars, creating, blind, sentVars, acked>>

Finish(s) ==
    /\ ReturnAndForget(s, "saveStored")
    /\ Release(s)
    /\ TellResult(s)
    /\ UNCHANGED <<diskVars, creating, blind, sentVars>>
-----------------------------------------------------------------------------
\* The browser goes away.  Only a listener attached by then hears of it.
ClientLeaves(s) ==
    /\ pc[s] \notin {"idle", "done"}
    /\ ~local[s].gone
    /\ local' = [local EXCEPT ![s].gone = TRUE,
                             ![s].closed = pc[s] \in Generating]
    /\ UNCHANGED <<diskVars, creating, blind, queue, active, pc, sentVars, acked>>

\* The process dies and is restarted: memory is lost, files stay.
Crash ==
    /\ \/ \E t \in Tasks : pc[t] \notin {"idle", "done"}
       \/ Counted # {}
    /\ pc' = [t \in Tasks |-> IF pc[t] = "idle" THEN "idle" ELSE "done"]
    /\ creating' = [c \in Conversations |->
                        IF creating[c] = "counted" THEN "unborn" ELSE creating[c]]
    /\ blind' = blind \ Counted
    /\ queue' = [c \in Conversations |-> <<>>]
    /\ active' = {}
    /\ local' = [s \in Sends |-> Fresh]
    /\ UNCHANGED <<diskVars, sentVars, acked>>

Create(c) ==
    CountConversations(c) \/ WriteNewConversation(c) \/ NewConversationFails(c)

Delete(d) == DeleteArrives(d) \/ DeleteRuns(d)

Arrive(s) == Refuse(s) \/ AcceptSend(s)

Prepare(s) ==
    \/ PrepareMissing(s) \/ PrepareReplay(s) \/ PrepareFull(s) \/ PrepareDraft(s)
    \/ StorePrepared(s) \/ StorePreparedFails(s) \/ Dispatch(s)

Chunk(s) == TokenArrives(s) \/ ResultArrives(s)

EndStream(s) == StreamFails(s) \/ StreamStopped(s) \/ StreamCompletes(s)

Persist(s) ==
    \/ SaveDropped(s) \/ SaveDraft(s) \/ StoreReply(s) \/ StoreReplyFails(s)
    \/ Finish(s)

Send(s) ==
    \/ Arrive(s) \/ Prepare(s) \/ NoStream(s) \/ StreamOpens(s) \/ Chunk(s)
    \/ EndStream(s) \/ Persist(s) \/ ClientLeaves(s)

Next ==
    \/ \E c \in Conversations : Create(c)
    \/ \E d \in Deletes : Delete(d)
    \/ \E s \in Sends : Send(s)
    \/ Crash

Spec == Init /\ [][Next]_vars

(* Disk callbacks, promise continuations and the 300 s upstream timer, which *)
(* aborts a fetch or stream that does not end by itself.                     *)
Progress(s) ==
    Prepare(s) \/ NoStream(s) \/ StreamOpens(s) \/ EndStream(s) \/ Persist(s)

Fairness ==
    /\ \A d \in Deletes : WF_vars(DeleteRuns(d))
    /\ \A s \in Sends : WF_vars(Progress(s))

FairSpec == Spec /\ Fairness
-----------------------------------------------------------------------------
(* Correctness.                                                             *)

Statuses == {"idle", "done"} \cup Preparing \cup Generating

Local == [gone : BOOLEAN, closed : BOOLEAN, partial : BOOLEAN, result : BOOLEAN,
          reply : {"none", "stopped", "complete"}, draft : File]

\* Every variable keeps the shape its code gives it.
TypeOK ==
    /\ live \subseteq Conversations
    /\ files \in [Conversations -> File]
    /\ creating \in [Conversations -> {"unborn", "counted", "born"}]
    /\ blind \subseteq Conversations
    /\ queue \in [Conversations -> Seq(Tasks)]
    /\ active \subseteq Conversations \X Messages
    /\ pc \in [Tasks -> Statuses]
    /\ \A d \in Deletes : pc[d] \in {"idle", "queued", "done"}
    /\ local \in [Sends -> Local]
    /\ sent \subseteq Sends
    /\ history \in [Sends -> SUBSET Message]
    /\ acked \subseteq Sends

\* "Serialized writers so concurrent requests never interleave conversation
\* writes" (server.js:76): two handlers are never between the read and the
\* write of the same file.
WritersSerialized ==
    \A s, t \in Sends : /\ pc[s] \in InSection
                        /\ pc[t] \in InSection
                        /\ ConvOf[s] = ConvOf[t]
                        => s = t

\* However copies and retries of a send interleave, its conversation holds
\* one user message for it (the find in the prepare section), ...
QuestionsUnique ==
    \A c \in Conversations, m \in Messages :
        \A x, y \in Questions(files[c], m) : x = y

\* ... a message has at most one reply, stopped or complete (persistReply), ...
RepliesUnique ==
    \A c \in Conversations, m \in Messages :
        \A x, y \in Replies(files[c], m) : x = y

\* ... and a reply stands behind the question it answers: a late one never
\* lands in a file that does not hold its question.
RepliesFollowQuestion ==
    \A c \in Conversations, m \in Messages :
        \A x \in Replies(files[c], m) : \E q \in Questions(files[c], m) : q.at < x.at

\* A file is a conversation: for each message one question, then at most one
\* reply, whatever copies, retries, late answers and deletions raced to write it.
FilesSound == QuestionsUnique /\ RepliesUnique /\ RepliesFollowQuestion

\* Retries and replies skip the length check, yet a conversation outgrows its
\* limit by at most one reply per question.
FilesBounded ==
    \A c \in Conversations :
        /\ Cardinality({x \in files[c].msgs : x.role = "user"}) <= MaxMessages
        /\ Cardinality(files[c].msgs) <= 2 * MaxMessages

\* The count in handleCreateConversation is stale by the time of the write, and
\* a directory that cannot be read counts as empty (server.js:202).  The limit
\* is exceeded by the creates that overlap, and by those that passed it on a
\* failed read, one each; deletions and crashes in between add nothing.
ConversationOvershoot ==
    Cardinality(live \ blind) + Cardinality(Counted \ blind)
        <= MaxConversations + MaxCreators - 1

\* A reply that arrives after the conversation was deleted does not bring its
\* file back.
NoResurrection ==
    [][\A c \in Conversations :
          creating[c] = "born" /\ c \notin live => c \notin live']_vars

\* A question once stored stays until its conversation is deleted.
QuestionsKept ==
    [][\A c \in live \cap live' :
          \A x \in files[c].msgs : x.role = "user" => x \in files'[c].msgs]_vars

\* At most one handler generates an answer to a message at a time: concurrent
\* duplicates are rejected (services/openclaw/README.md:29).
OneGeneration ==
    \A s, t \in Sends : /\ pc[s] \in Generating
                        /\ pc[t] \in Generating
                        /\ Key(s) = Key(t)
                        => s = t

\* "retries replay the stored answer instead of regenerating" (services/openclaw/README.md:28):
\* no generation runs for a message whose complete answer is stored.
NoRegeneration ==
    \A s \in Sends : pc[s] \in {"fetching", "streaming"} =>
        ~Answered(FileOf(s), MsgOf[s])

\* A complete answer is never replaced or dropped by a later attempt.
AnswersKept ==
    [][\A c \in live \cap live' :
          \A x \in files[c].msgs : x.status = "complete" => x \in files'[c].msgs]_vars

\* A client that was sent a result event finds that answer in the
\* conversation afterwards, crashes included, until the conversation is deleted.
AcknowledgedIsStored ==
    \A s \in acked : ConvOf[s] \in live => Answered(FileOf(s), MsgOf[s])

\* A retry asks the model with the history of the first attempt, whatever
\* was answered, stopped or retried in the conversation in between.
RetrySameHistory ==
    \A s, t \in sent : Key(s) = Key(t) => history[s] = history[t]

\* The browser's cancel aborts the upstream generation (services/openclaw/README.md:30).
CancelAborts ==
    \A s \in Sends : /\ pc[s] \in {"fetching", "streaming"}
                     /\ local[s].gone
                     => local[s].closed

\* Again and again every send has been served to its end and no message is
\* left "already being processed": no lock, key or handler is lost on the way,
\* whatever fails, overlaps, is deleted or crashes.
SendsSettle ==
    []<>(/\ active = {}
         /\ \A s \in Sends : pc[s] \in {"idle", "done"}
         /\ \A c \in Conversations : queue[c] = <<>>)

-----------------------------------------------------------------------------
(* The ledger the files amount to.                                          *)

ConversationState(c) ==
    IF creating[c] # "born" THEN "absent"
    ELSE IF c \in live THEN "open" ELSE "deleted"

EntryOf(c, m) ==
    IF Questions(files[c], m) = {} THEN "none"
    ELSE IF Replies(files[c], m) = {} THEN "asked"
    ELSE IF Answered(files[c], m) THEN "answered" ELSE "stopped"

Ledger == INSTANCE AnswerLedger WITH
    conversation <- [c \in Conversations |-> ConversationState(c)],
    entry <- [c \in Conversations |-> [m \in Messages |-> EntryOf(c, m)]]

\* Every step of the gateway is a step of the ledger or changes nothing in it:
\* a question is entered once, an answer is final, a deletion too.
KeepsLedger == Ledger!LSpec
=============================================================================
