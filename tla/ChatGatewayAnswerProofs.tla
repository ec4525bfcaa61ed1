----------------------- MODULE ChatGatewayAnswerProofs -----------------------
(***************************************************************************)
(* What becomes of the answers in every behaviour of ChatGateway in which no *)
(* copy of a send arrives while another is being prepared: one generation at *)
(* a time, an answer stored once and for all, the same history for a retry.  *)
(* It ends with the implementation of AnswerLedger.                          *)
(***************************************************************************)
EXTENDS ChatGatewayProofs

-----------------------------------------------------------------------------
(* Which step does what.                                                    *)

\* The steps that add or change a handler's place, one handler at a time.
LEMMA HandlerSteps ==
    ASSUME TypeInv, [Next]_vars, NEW s \in Sends
    PROVE  \/ pc'[s] = pc[s] /\ local'[s].reply = local[s].reply
           \/ pc'[s] \in {"idle", "queued", "done"}
           \/ PrepareDraft(s) \/ StorePrepared(s) \/ Dispatch(s) \/ StreamOpens(s)
           \/ \E status \in {"stopped", "complete"} : Save(s, status)
           \/ SaveDraft(s) \/ StoreReply(s)
<1>1. /\ s \in Tasks /\ pc \in [Tasks -> Statuses] /\ local \in [Sends -> Local]
      /\ \A d \in Deletes : d # s
  BY SendFacts, TasksAssumption DEF TypeInv, TypeOK
<1>2. ASSUME NEW c \in Conversations, Create(c)
      PROVE  pc' = pc /\ local' = local
  BY <1>2 DEF Create, CountConversations, WriteNewConversation, NewConversationFails
<1>3. ASSUME NEW d \in Deletes, Delete(d)
      PROVE  pc'[s] = pc[s] /\ local' = local
  BY <1>1, <1>3 DEF Delete, DeleteArrives, DeleteRuns, Goto
<1>4. CASE Crash
  BY <1>1, <1>4 DEF Crash
<1>5. ASSUME NEW t \in Sends, Send(t), t # s
      PROVE  pc'[s] = pc[s] /\ local'[s] = local[s]
  <2>1. CASE Arrive(t)
    BY <1>1, <1>5, <2>1 DEF Arrive, Refuse, AcceptSend, Goto
  <2>2. CASE Prepare(t)
    BY <1>1, <1>5, <2>2
       DEF Prepare, PrepareMissing, PrepareReplay, PrepareFull, EndPrepare, PrepareDraft,
           StorePrepared, StorePreparedFails, Dispatch, Return, Goto
  <2>3. CASE NoStream(t) \/ StreamOpens(t) \/ Chunk(t) \/ EndStream(t) \/ ClientLeaves(t)
    BY <1>1, <1>5, <2>3
       DEF NoStream, StreamOpens, Chunk, TokenArrives, ResultArrives, Receive, EndStream,
           StreamFails, StreamStopped, StreamCompletes, Save, ClientLeaves,
           ReturnAndForget, Return, Goto
  <2>4. CASE Persist(t)
    BY <1>1, <1>5, <2>4
       DEF Persist, SaveDropped, SaveDraft, StoreReply, StoreReplyFails, Finish,
           ReturnAndForget, Return, Goto
  <2>5. QED
    BY <1>5, <2>1, <2>2, <2>3, <2>4 DEF Send
<1>6. CASE Arrive(s)
  BY <1>1, <1>6 DEF Arrive, Refuse, AcceptSend, Goto
<1>7. CASE \E from \in Statuses : Return(s, from)
  BY <1>1, <1>7 DEF Return, Goto
<1>8. CASE Prepare(s)
  <2>1. {"queued", "loaded"} \subseteq Statuses
    BY DEF Statuses, Preparing
  <2>2. QED
    BY <1>7, <1>8, <2>1
       DEF Prepare, PrepareMissing, PrepareReplay, PrepareFull, EndPrepare,
           StorePreparedFails
<1>9. CASE NoStream(s) \/ EndStream(s) \/ Persist(s)
  <2>1. {"fetching", "streaming", "saving", "saveLoaded", "saveStored"} \subseteq Statuses
    BY DEF Statuses, Generating
  <2>2. QED
    BY <1>7, <1>9, <2>1
       DEF NoStream, EndStream, StreamFails, StreamStopped, StreamCompletes, Persist,
           SaveDropped, StoreReplyFails, Finish, ReturnAndForget
<1>10. CASE Chunk(s) \/ ClientLeaves(s)
  BY <1>1, <1>10 DEF Chunk, TokenArrives, ResultArrives, Receive, ClientLeaves, Local
<1>11. CASE UNCHANGED vars
  BY <1>11 DEF vars
<1>12. ASSUME Send(s)
       PROVE  \/ pc'[s] = pc[s] /\ local'[s].reply = local[s].reply
              \/ pc'[s] \in {"idle", "queued", "done"}
              \/ PrepareDraft(s) \/ StorePrepared(s) \/ Dispatch(s) \/ StreamOpens(s)
              \/ \E status \in {"stopped", "complete"} : Save(s, status)
              \/ SaveDraft(s) \/ StoreReply(s)
  BY <1>6, <1>8, <1>9, <1>10, <1>12 DEF Send
<1>13. QED
  BY <1>2, <1>3, <1>4, <1>5, <1>11, <1>12 DEF Next

\* A handler's step is the handler's alone.
LEMMA OthersStay ==
    ASSUME TypeInv, NEW s \in Sends, Send(s)
    PROVE  \E to \in Statuses : pc' = [pc EXCEPT ![s] = to]
<1>1. pc \in [Tasks -> Statuses] /\ s \in Tasks
  BY SendFacts DEF TypeInv, TypeOK
<1>2. /\ "done" \in Statuses /\ "queued" \in Statuses /\ "loaded" \in Statuses
      /\ "stored" \in Statuses /\ "fetching" \in Statuses /\ "streaming" \in Statuses
      /\ "saving" \in Statuses /\ "saveLoaded" \in Statuses /\ "saveStored" \in Statuses
  BY DEF Statuses, Preparing, Generating
<1>3. CASE Arrive(s)
  BY <1>2, <1>3 DEF Arrive, Refuse, AcceptSend, Goto
<1>4. CASE Prepare(s)
  BY <1>2, <1>4
     DEF Prepare, PrepareMissing, PrepareReplay, PrepareFull, EndPrepare, PrepareDraft,
         StorePrepared, StorePreparedFails, Dispatch, Return, Goto
<1>5. CASE Chunk(s) \/ ClientLeaves(s)
  <2>1. pc' = [pc EXCEPT ![s] = pc[s]] /\ pc[s] \in Statuses
    BY <1>1, <1>5 DEF Chunk, TokenArrives, ResultArrives, Receive, ClientLeaves
  <2>2. QED
    BY <2>1
<1>6. CASE NoStream(s) \/ StreamOpens(s) \/ EndStream(s)
  BY <1>2, <1>6
     DEF NoStream, StreamOpens, EndStream, StreamFails, StreamStopped, StreamCompletes,
         Save, ReturnAndForget, Return, Goto
<1>7. CASE Persist(s)
  BY <1>2, <1>7
     DEF Persist, SaveDropped, SaveDraft, StoreReply, StoreReplyFails, Finish,
         ReturnAndForget, Return, Goto
<1>8. QED
  BY <1>3, <1>4, <1>5, <1>6, <1>7 DEF Send

-----------------------------------------------------------------------------
(* A key belongs to one handler from its arrival to its return.             *)

Busy == Preparing \cup Generating

\* No two handlers work on copies of one send ...
OneBusy ==
    \A s, t \in Sends : pc[s] \in Busy /\ pc[t] \in Busy /\ Key(s) = Key(t) => s = t

\* ... and from the fetch on the key is registered.
KeysHeld == \A s \in Sends : pc[s] \in Generating => Key(s) \in active

KeyInv == OneBusy /\ KeysHeld

LEMMA InitKeyInv == Init => KeyInv
BY SendFacts DEF Init, KeyInv, OneBusy, KeysHeld, Busy, Preparing, Generating

\* What a step of the handler does to activeGenerations.
LEMMA KeySteps ==
    ASSUME TypeInv, NEW s \in Sends, Send(s)
    PROVE  \/ AcceptSend(s)
           \/ /\ pc'[s] \in Busy => pc[s] \in Busy
              /\ pc'[s] \in Generating => pc[s] \in Generating \/ Key(s) \in active'
              /\ active \subseteq active'
           \/ pc[s] \in Generating /\ pc'[s] = "done" /\ active' = active \ {Key(s)}
<1>1. pc \in [Tasks -> Statuses] /\ s \in Tasks
  BY SendFacts DEF TypeInv, TypeOK
<1>2. CASE Refuse(s)
  BY <1>1, <1>2 DEF Refuse, Goto, Busy, Preparing, Generating
<1>3. CASE Prepare(s)
  BY <1>1, <1>3
     DEF Prepare, PrepareMissing, PrepareReplay, PrepareFull, EndPrepare, PrepareDraft,
         StorePrepared, StorePreparedFails, Dispatch, Return, Goto, Busy, Preparing,
         Generating
<1>4. CASE Chunk(s) \/ ClientLeaves(s)
  BY <1>1, <1>4 DEF Chunk, TokenArrives, ResultArrives, Receive, ClientLeaves
<1>5. CASE NoStream(s) \/ StreamOpens(s) \/ EndStream(s)
  BY <1>1, <1>5
     DEF NoStream, StreamOpens, EndStream, StreamFails, StreamStopped, StreamCompletes,
         Save, ReturnAndForget, Return, Goto, Busy, Preparing, Generating
<1>6. CASE Persist(s)
  BY <1>1, <1>6
     DEF Persist, SaveDropped, SaveDraft, StoreReply, StoreReplyFails, Finish,
         ReturnAndForget, Return, Goto, Busy, Preparing, Generating
<1>7. QED
  BY <1>2, <1>3, <1>4, <1>5, <1>6 DEF Send, Arrive

LEMMA SendKeyStep ==
    ASSUME ~DuplicatesOverlap, TypeInv, KeyInv, NEW s \in Sends, Send(s)
    PROVE  KeyInv'
<1>1. /\ s \in Tasks /\ Sends \subseteq Tasks /\ pc \in [Tasks -> Statuses]
      /\ \A t \in Sends : Key(t)' = Key(t)
  BY SendFacts DEF TypeInv, TypeOK, Tasks, Key
<1>2. PICK to \in Statuses : pc' = [pc EXCEPT ![s] = to]
  BY OthersStay
<1>3. pc'[s] = to /\ \A t \in Sends : t # s => pc'[t] = pc[t]
  BY <1>1, <1>2
<1>4. CASE AcceptSend(s)
  <2>1. /\ to = "queued" /\ active' = active /\ Key(s) \notin active
        /\ \A t \in Sends : Key(t) = Key(s) => pc[t] \notin Preparing
    BY <1>1, <1>3, <1>4 DEF AcceptSend, MayArrive, Goto
  <2>2. \A t \in Sends : Key(t) = Key(s) => pc[t] \notin Busy
    BY <2>1 DEF KeyInv, KeysHeld, Busy
  <2>3. OneBusy'
    BY <1>1, <1>3, <2>2 DEF KeyInv, OneBusy
  <2>4. KeysHeld'
    BY <1>1, <1>3, <2>1 DEF KeyInv, KeysHeld, Generating
  <2>5. QED
    BY <2>3, <2>4 DEF KeyInv
<1>5. CASE /\ pc'[s] \in Busy => pc[s] \in Busy
           /\ pc'[s] \in Generating => pc[s] \in Generating \/ Key(s) \in active'
           /\ active \subseteq active'
  <2>1. OneBusy'
    BY <1>1, <1>3, <1>5 DEF KeyInv, OneBusy
  <2>2. KeysHeld'
    BY <1>1, <1>3, <1>5 DEF KeyInv, KeysHeld
  <2>3. QED
    BY <2>1, <2>2 DEF KeyInv
<1>6. CASE pc[s] \in Generating /\ pc'[s] = "done" /\ active' = active \ {Key(s)}
  <2>1. "done" \notin Busy /\ "done" \notin Generating /\ Generating \subseteq Busy
    BY DEF Busy, Preparing, Generating
  <2>2. OneBusy'
    BY <1>1, <1>3, <1>6, <2>1 DEF KeyInv, OneBusy
  <2>3. \A t \in Sends : t # s /\ pc[t] \in Generating => Key(t) # Key(s)
    BY <1>6, <2>1 DEF KeyInv, OneBusy
  <2>4. KeysHeld'
    BY <1>1, <1>3, <1>6, <2>1, <2>3 DEF KeyInv, KeysHeld
  <2>5. QED
    BY <2>2, <2>4 DEF KeyInv
<1>7. QED
  BY <1>4, <1>5, <1>6, KeySteps

LEMMA StepKeyInv ==
    ASSUME ~DuplicatesOverlap, TypeInv, KeyInv, [Next]_vars
    PROVE  KeyInv'
<1>1. Sends \subseteq Tasks /\ \A s \in Sends : Key(s)' = Key(s)
  BY DEF Tasks, Key
<1>2. CASE active' = active /\ \A s \in Sends : pc'[s] = pc[s]
  BY <1>1, <1>2 DEF KeyInv, OneBusy, KeysHeld
<1>3. ASSUME NEW c \in Conversations, Create(c) PROVE KeyInv'
  BY <1>2, <1>3 DEF Create, CountConversations, WriteNewConversation, NewConversationFails
<1>4. ASSUME NEW d \in Deletes, Delete(d) PROVE KeyInv'
  <2>1. \A s \in Sends : pc'[s] = pc[s]
    BY <1>4, TasksAssumption
       DEF Delete, DeleteArrives, DeleteRuns, Goto, TypeInv, TypeOK, Tasks
  <2>2. QED
    BY <1>2, <1>4, <2>1 DEF Delete, DeleteArrives, DeleteRuns
<1>5. CASE Crash
  <2>1. \A s \in Sends : pc'[s] \in {"idle", "done"}
    BY <1>1, <1>5 DEF Crash
  <2>2. QED
    BY <2>1 DEF KeyInv, OneBusy, KeysHeld, Busy, Preparing, Generating
<1>6. CASE UNCHANGED vars
  BY <1>2, <1>6 DEF vars
<1>7. QED
  BY <1>3, <1>4, <1>5, <1>6, SendKeyStep DEF Next

\* Concurrent duplicates are rejected: two handlers never generate an answer to
\* the same message, if no copy of a send comes while another is being prepared.
THEOREM OneGenerationAtATime ==
    ASSUME ~DuplicatesOverlap
    PROVE  Spec => []OneGeneration
<1>1. KeyInv => OneGeneration
  BY DEF KeyInv, OneBusy, OneGeneration, Busy
<1>2. TypeInv /\ KeyInv /\ [Next]_vars => KeyInv'
  BY StepKeyInv
<1>3. QED
  BY <1>1, <1>2, InitTypeInv, InitKeyInv, StepTypeInv, PTL DEF Spec

-----------------------------------------------------------------------------
(* What a rewrite does to the messages of a file.                           *)

\* Whether a message is answered is a matter of its replies.
LEMMA AnsweredByReplies ==
    ASSUME NEW f, NEW g, NEW m, Replies(f, m) = Replies(g, m)
    PROVE  Answered(f, m) <=> Answered(g, m)
BY DEF Answered

LEMMA OneReply ==
    ASSUME NEW f \in File, NEW m \in Messages, WellFormed(f)
    PROVE  /\ \A x, y \in Replies(f, m) : x = y
           /\ \A x \in Replies(f, m) : x.status = "complete" => Answered(f, m)
           /\ Questions(f, m) = {} => Replies(f, m) = {}
<1>1. \A x, y \in Replies(f, m) : x = y
  BY DEF Replies, WellFormed
<1>2. \A x \in f.msgs : x.at \in Nat
  BY DEF File, Message
<1>3. ASSUME NEW x \in Replies(f, m), x.status = "complete" PROVE Answered(f, m)
  BY <1>1, <1>2, <1>3 DEF Answered, Replies
<1>4. Questions(f, m) = {} => Replies(f, m) = {}
  BY DEF Questions, Replies, WellFormed
<1>5. QED
  BY <1>1, <1>3, <1>4

\* What g keeps of f when only message m is worked on: all but its incomplete
\* replies, and what is new stands behind everything else.
Extends(f, g, m) ==
    /\ \A x \in f.msgs : x \in g.msgs \/ (x \in Replies(f, m) /\ x.status # "complete")
    /\ \A x \in g.msgs : x \in f.msgs \/ (x.re = m /\ x.at = f.pushes + 1)

LEMMA PreparedExtends ==
    ASSUME NEW f \in File, NEW m \in Messages, WellFormed(f), ~Answered(f, m)
    PROVE  /\ Extends(f, Prepared(f, m), m)
           /\ Replies(Prepared(f, m), m) = {}
<1>1. CASE Questions(f, m) # {}
  <2>1. Prepared(f, m).msgs = {x \in f.msgs : x \in Replies(f, m) => x.status = "complete"}
    BY <1>1 DEF Prepared, File
  <2>2. \A x \in Replies(f, m) : x.status # "complete"
    BY OneReply
  <2>3. Replies(Prepared(f, m), m) = {}
    BY <2>1, <2>2 DEF Replies
  <2>4. Extends(f, Prepared(f, m), m)
    BY <2>1 DEF Extends
  <2>5. QED
    BY <2>3, <2>4
<1>2. CASE Questions(f, m) = {}
  <2> DEFINE q == [role |-> "user", re |-> m, status |-> "sent", at |-> f.pushes + 1]
  <2>1. Prepared(f, m).msgs = f.msgs \cup {q} /\ q.role = "user" /\ q.re = m
        /\ q.at = f.pushes + 1
    BY <1>2 DEF Prepared, Push
  <2>2. Replies(f, m) = {}
    BY <1>2, OneReply
  <2>3. Replies(Prepared(f, m), m) = {}
    BY <2>1, <2>2 DEF Replies
  <2>4. Extends(f, Prepared(f, m), m)
    BY <2>1 DEF Extends
  <2>5. QED
    BY <2>3, <2>4
<1>3. QED
  BY <1>1, <1>2

LEMMA WithReplyExtends ==
    ASSUME NEW f \in File, NEW m \in Messages, Replies(f, m) = {},
           NEW status \in {"stopped", "complete"}
    PROVE  /\ Extends(f, WithReply(f, m, status), m)
           /\ Replies(WithReply(f, m, status), m) # {}
           /\ Answered(WithReply(f, m, status), m) <=> status = "complete"
<1> DEFINE r == [role |-> "assistant", re |-> m, status |-> status, at |-> f.pushes + 1]
           g == WithReply(f, m, status)
<1>1. /\ g.msgs = f.msgs \cup {r} /\ r.role = "assistant" /\ r.re = m
      /\ r.at = f.pushes + 1 /\ r.status = status /\ r.at \in Nat
  BY DEF WithReply, Push, File
<1> HIDE DEF r
<1>2. Replies(g, m) = {r}
  BY <1>1 DEF Replies
<1>3. Extends(f, g, m)
  BY <1>1 DEF Extends
<1>4. Answered(g, m) <=> status = "complete"
  BY <1>1, <1>2 DEF Answered
<1>5. QED
  BY <1>2, <1>3, <1>4

\* The other messages keep their questions and replies.
LEMMA ExtendsOthers ==
    ASSUME NEW f, NEW g, NEW m, NEW n, Extends(f, g, m), n # m
    PROVE  Replies(g, n) = Replies(f, n) /\ Questions(g, n) = Questions(f, n)
BY DEF Extends, Replies, Questions

\* What precedes a stored question never changes.
LEMMA ExtendsHistory ==
    ASSUME NEW f \in File, NEW g \in File, NEW m, NEW n \in Messages, Extends(f, g, m),
           WellFormed(f), Questions(f, n) # {}, Questions(g, n) = Questions(f, n)
    PROVE  HistoryOf(g, n) = HistoryOf(f, n)
<1>1. PICK q \in Questions(f, n) : TRUE
  OBVIOUS
<1>2. /\ q.at <= f.pushes /\ q.at \in Nat /\ f.pushes \in Nat
      /\ \A x \in f.msgs : x.at \in Nat
  BY <1>1 DEF Questions, WellFormed, File, Message
<1>3. \A x \in g.msgs : x \notin f.msgs => ~(x.at < q.at)
  BY <1>2 DEF Extends
<1>4. \A x \in f.msgs : x \notin g.msgs => x.role = "assistant" /\ x.status # "complete"
  BY DEF Extends, Replies
<1>5. Preceding(g, n) = Preceding(f, n)
  BY <1>1, <1>3, <1>4 DEF Preceding
<1>6. QED
  BY <1>5 DEF HistoryOf

-----------------------------------------------------------------------------
(* The invariant of the answers.                                            *)

\* A handler prepares a message only when it is not answered yet ...
LoadedUnanswered ==
    \A s \in Sends : pc[s] = "loaded" => ~Answered(FileOf(s), MsgOf[s])

\* ... from then on it alone can reply to it ...
NoReplyYet ==
    \A s \in Sends :
        pc[s] \in {"stored", "fetching", "streaming", "saving", "saveLoaded"}
            => Replies(FileOf(s), MsgOf[s]) = {}

\* ... and once its complete reply is written the message is answered.
SavedIsThere ==
    \A s \in Sends : pc[s] = "saveStored" /\ local[s].reply = "complete" =>
        Answered(FileOf(s), MsgOf[s])

AnswerInv == LoadedUnanswered /\ NoReplyYet /\ SavedIsThere

LEMMA InitAnswerInv == Init => AnswerInv
BY SendFacts DEF Init, AnswerInv, LoadedUnanswered, NoReplyYet, SavedIsThere

\* Both writes of a section extend the file.
LEMMA StoreExtends ==
    ASSUME TypeInv, FileInv, AnswerInv, NEW s \in Sends, StorePrepared(s) \/ StoreReply(s)
    PROVE  /\ live' = live
           /\ \A c \in Conversations : c # ConvOf[s] => files'[c] = files[c]
           /\ Extends(FileOf(s), files'[ConvOf[s]], MsgOf[s])
           /\ Questions(files'[ConvOf[s]], MsgOf[s]) # {}
           /\ StorePrepared(s) => Replies(files'[ConvOf[s]], MsgOf[s]) = {}
           /\ StoreReply(s) =>
                 /\ Replies(FileOf(s), MsgOf[s]) = {}
                 /\ Replies(files'[ConvOf[s]], MsgOf[s]) # {}
                 /\ (Answered(files'[ConvOf[s]], MsgOf[s]) <=> local[s].reply = "complete")
<1>1. /\ ConvOf[s] \in Conversations /\ MsgOf[s] \in Messages
      /\ FileOf(s) \in File /\ WellFormed(FileOf(s))
      /\ files \in [Conversations -> File] /\ FileOf(s) = files[ConvOf[s]]
  BY SendFacts DEF TypeInv, TypeOK, FileOf, FileInv, FilesWellFormed
<1>2. Rewrites(s) /\ live' = live
  BY StoreIsRewrite
<1>3. /\ \A c \in Conversations : c # ConvOf[s] => files'[c] = files[c]
      /\ Questions(files'[ConvOf[s]], MsgOf[s]) # {}
  BY <1>2, RewriteKeeps
<1>4. CASE StorePrepared(s)
  <2>1. pc[s] = "loaded" /\ ~StoreReply(s)
    BY <1>4 DEF StorePrepared, StoreReply, Goto
  <2>2. files'[ConvOf[s]] = Prepared(FileOf(s), MsgOf[s])
    BY <1>1, <1>2, <2>1 DEF Rewrites
  <2>3. ~Answered(FileOf(s), MsgOf[s])
    BY <2>1 DEF AnswerInv, LoadedUnanswered
  <2>4. /\ Extends(FileOf(s), files'[ConvOf[s]], MsgOf[s])
        /\ Replies(files'[ConvOf[s]], MsgOf[s]) = {}
    BY <1>1, <2>2, <2>3, PreparedExtends
  <2>5. QED
    BY <1>2, <1>3, <2>1, <2>4
<1>5. CASE StoreReply(s)
  <2>1. pc[s] = "saveLoaded" /\ ~StorePrepared(s)
    BY <1>5 DEF StorePrepared, StoreReply, Goto
  <2>2. /\ files'[ConvOf[s]] = WithReply(FileOf(s), MsgOf[s], local[s].reply)
        /\ local[s].reply \in {"stopped", "complete"}
    BY <1>1, <1>2, <2>1 DEF Rewrites
  <2>3. Replies(FileOf(s), MsgOf[s]) = {}
    BY <2>1 DEF AnswerInv, NoReplyYet
  <2>4. /\ Extends(FileOf(s), files'[ConvOf[s]], MsgOf[s])
        /\ Replies(files'[ConvOf[s]], MsgOf[s]) # {}
        /\ (Answered(files'[ConvOf[s]], MsgOf[s]) <=> local[s].reply = "complete")
    BY <1>1, <2>2, <2>3, WithReplyExtends
  <2>5. QED
    BY <1>2, <1>3, <2>1, <2>3, <2>4
<1>6. QED
  BY <1>4, <1>5

\* FileSteps, with the actions that rewrite a file.
LEMMA DiskSteps ==
    ASSUME [Next]_vars
    PROVE  \/ UNCHANGED diskVars
           \/ \E c \in Conversations : WriteNewConversation(c)
           \/ \E d \in Deletes : /\ DeleteRuns(d)
                                 /\ live' = live \ {ConvOf[d]}
                                 /\ files' = [files EXCEPT ![ConvOf[d]] = EmptyFile]
           \/ \E s \in Sends : StorePrepared(s) \/ StoreReply(s)
<1>1. ASSUME NEW c \in Conversations, Create(c)
      PROVE  UNCHANGED diskVars \/ WriteNewConversation(c)
  BY <1>1 DEF Create, CountConversations, NewConversationFails
<1>2. ASSUME NEW d \in Deletes, Delete(d)
      PROVE  \/ UNCHANGED diskVars
             \/ /\ DeleteRuns(d)
                /\ live' = live \ {ConvOf[d]}
                /\ files' = [files EXCEPT ![ConvOf[d]] = EmptyFile]
  BY <1>2 DEF Delete, DeleteArrives, DeleteRuns
<1>3. QED
  BY <1>1, <1>2, OtherSteps

\* Nobody writes the file of a handler that is in its section.
LEMMA SavedUntouched ==
    ASSUME TypeInv, FileInv, [Next]_vars, NEW s \in Sends, pc[s] \in InSection,
           ~StorePrepared(s), ~StoreReply(s)
    PROVE  files'[ConvOf[s]] = files[ConvOf[s]]
<1>1. /\ ConvOf[s] \in Conversations /\ s \in Tasks /\ HasTurn(s)
      /\ creating[ConvOf[s]] = "born"
      /\ files \in [Conversations -> File] /\ Sends \subseteq Tasks
      /\ \A d \in Deletes : d # s /\ d \in Tasks /\ ConvOf[d] \in Conversations
  BY SendFacts, StartedIsBorn, TasksAssumption
     DEF TypeInv, TypeOK, HoldersHaveTurn, InSection, Tasks
<1>2. ASSUME NEW c \in Conversations, WriteNewConversation(c)
      PROVE  files'[ConvOf[s]] = files[ConvOf[s]]
  BY <1>1, <1>2 DEF WriteNewConversation
<1>3. ASSUME NEW d \in Deletes, DeleteRuns(d),
             files' = [files EXCEPT ![ConvOf[d]] = EmptyFile]
      PROVE  files'[ConvOf[s]] = files[ConvOf[s]]
  BY <1>1, <1>3 DEF DeleteRuns, HasTurn
<1>4. ASSUME NEW t \in Sends, StorePrepared(t) \/ StoreReply(t)
      PROVE  files'[ConvOf[s]] = files[ConvOf[s]]
  <2>1. HasTurn(t) /\ t # s
    BY <1>4 DEF StorePrepared, StoreReply, Goto, TypeInv, HoldersHaveTurn, InSection
  <2>2. ConvOf[t] # ConvOf[s]
    BY <1>1, <2>1 DEF HasTurn
  <2>3. QED
    BY <1>1, <1>4, <2>2 DEF StorePrepared, StoreReply, WriteDraft
<1>5. QED
  BY <1>2, <1>3, <1>4, DiskSteps DEF diskVars

\* What a step does to the replies of a message some handler is busy with:
\* nothing, unless the conversation goes or the step is that handler's write.
LEMMA OwnReplies ==
    ASSUME TypeInv, FileInv, KeyInv, AnswerInv, [Next]_vars, NEW s \in Sends, pc[s] \in Busy
    PROVE  \/ Replies(files'[ConvOf[s]], MsgOf[s]) = Replies(FileOf(s), MsgOf[s])
           \/ Replies(files'[ConvOf[s]], MsgOf[s]) = {}
           \/ StorePrepared(s) \/ StoreReply(s)
<1>1. /\ ConvOf[s] \in Conversations /\ MsgOf[s] \in Messages
      /\ files \in [Conversations -> File] /\ FileOf(s) = files[ConvOf[s]]
      /\ Replies(EmptyFile, MsgOf[s]) = {}
  BY SendFacts DEF TypeInv, TypeOK, FileOf, Replies, EmptyFile
<1>2. CASE UNCHANGED diskVars
  BY <1>1, <1>2 DEF diskVars
<1>3. ASSUME NEW c \in Conversations, WriteNewConversation(c)
      PROVE  \/ Replies(files'[ConvOf[s]], MsgOf[s]) = Replies(FileOf(s), MsgOf[s])
             \/ Replies(files'[ConvOf[s]], MsgOf[s]) = {}
  BY <1>1, <1>3 DEF WriteNewConversation
<1>4. ASSUME NEW d \in Deletes, files' = [files EXCEPT ![ConvOf[d]] = EmptyFile]
      PROVE  \/ Replies(files'[ConvOf[s]], MsgOf[s]) = Replies(FileOf(s), MsgOf[s])
             \/ Replies(files'[ConvOf[s]], MsgOf[s]) = {}
  BY <1>1, <1>4
<1>5. ASSUME NEW t \in Sends, StorePrepared(t) \/ StoreReply(t), t # s
      PROVE  Replies(files'[ConvOf[s]], MsgOf[s]) = Replies(FileOf(s), MsgOf[s])
  <2>1. pc[t] \in Busy
    BY <1>5 DEF StorePrepared, StoreReply, Goto, Busy, Preparing, Generating
  <2>2. Key(t) # Key(s)
    BY <1>5, <2>1 DEF KeyInv, OneBusy
  <2>3. /\ \A c \in Conversations : c # ConvOf[t] => files'[c] = files[c]
        /\ Extends(FileOf(t), files'[ConvOf[t]], MsgOf[t])
    BY <1>5, StoreExtends
  <2>4. CASE ConvOf[s] # ConvOf[t]
    BY <1>1, <2>3, <2>4
  <2>5. CASE ConvOf[s] = ConvOf[t]
    <3>1. MsgOf[s] # MsgOf[t]
      BY <2>2, <2>5 DEF Key
    <3>2. QED
      BY <2>3, <2>5, <3>1, ExtendsOthers DEF FileOf
  <2>6. QED
    BY <2>4, <2>5
<1>6. QED
  BY <1>2, <1>3, <1>4, <1>5, DiskSteps

LEMMA StepAnswerInv ==
    ASSUME TypeInv, FileInv, KeyInv, AnswerInv, [Next]_vars
    PROVE  AnswerInv'
<1> DEFINE Held == {"stored", "fetching", "streaming", "saving", "saveLoaded"}
<1>1. SUFFICES ASSUME NEW s \in Sends
               PROVE  /\ pc'[s] = "loaded" => ~Answered(files'[ConvOf[s]], MsgOf[s])
                      /\ pc'[s] \in Held => Replies(files'[ConvOf[s]], MsgOf[s]) = {}
                      /\ pc'[s] = "saveStored" /\ local'[s].reply = "complete" =>
                            Answered(files'[ConvOf[s]], MsgOf[s])
  BY DEF AnswerInv, LoadedUnanswered, NoReplyYet, SavedIsThere, FileOf
<1>2. /\ s \in Tasks /\ pc \in [Tasks -> Statuses] /\ local \in [Sends -> Local]
      /\ ConvOf[s] \in Conversations /\ MsgOf[s] \in Messages
      /\ FileOf(s) = files[ConvOf[s]] /\ FileOf(s) \in File /\ WellFormed(FileOf(s))
  BY SendFacts DEF TypeInv, TypeOK, FileOf, FileInv, FilesWellFormed
<1>3. CASE pc'[s] = pc[s] /\ local'[s].reply = local[s].reply
  <2>1. ~StorePrepared(s) /\ ~StoreReply(s)
    BY <1>2, <1>3 DEF StorePrepared, StoreReply, Goto
  <2>2. CASE pc[s] \in {"loaded"} \cup Held
    <3>1. pc[s] \in Busy
      BY <2>2 DEF Busy, Preparing, Generating
    <3>2. \/ Replies(files'[ConvOf[s]], MsgOf[s]) = Replies(FileOf(s), MsgOf[s])
          \/ Replies(files'[ConvOf[s]], MsgOf[s]) = {}
      BY <2>1, <3>1, OwnReplies
    <3>3. pc[s] = "loaded" => ~Answered(files'[ConvOf[s]], MsgOf[s])
      BY <3>2, AnsweredByReplies DEF AnswerInv, LoadedUnanswered, Answered
    <3>4. pc[s] \in Held => Replies(files'[ConvOf[s]], MsgOf[s]) = {}
      BY <3>2 DEF AnswerInv, NoReplyYet
    <3>5. QED
      BY <1>3, <2>2, <3>3, <3>4
  <2>3. CASE pc[s] = "saveStored"
    <3>1. files'[ConvOf[s]] = files[ConvOf[s]]
      BY <2>1, <2>3, SavedUntouched DEF InSection
    <3>2. QED
      BY <1>2, <1>3, <2>3, <3>1 DEF AnswerInv, SavedIsThere
  <2>4. QED
    BY <1>3, <2>2, <2>3
<1>4. CASE pc'[s] \in {"idle", "queued", "done"}
  BY <1>4
<1>5. CASE PrepareDraft(s)
  <2>1. files' = files /\ pc'[s] = "loaded"
    BY <1>2, <1>5 DEF PrepareDraft, Goto, diskVars
  <2>2. Questions(FileOf(s), MsgOf[s]) = {} => ~Answered(FileOf(s), MsgOf[s])
    BY <1>2, OneReply DEF Answered
  <2>3. QED
    BY <1>2, <1>5, <2>1, <2>2 DEF PrepareDraft
<1>6. CASE StorePrepared(s)
  <2>1. Replies(files'[ConvOf[s]], MsgOf[s]) = {}
    BY <1>6, StoreExtends
  <2>2. pc'[s] = "stored"
    BY <1>2, <1>6 DEF StorePrepared, Goto
  <2>3. QED
    BY <2>1, <2>2
<1>7. CASE Dispatch(s) \/ StreamOpens(s) \/ SaveDraft(s)
           \/ \E status \in {"stopped", "complete"} : Save(s, status)
  <2>1. /\ pc[s] \in Held /\ pc'[s] \in Held /\ files' = files
    BY <1>2, <1>7 DEF Dispatch, StreamOpens, SaveDraft, Save, Goto, diskVars
  <2>2. QED
    BY <1>2, <2>1 DEF AnswerInv, NoReplyYet
<1>8. CASE StoreReply(s)
  <2>1. Answered(files'[ConvOf[s]], MsgOf[s]) <=> local[s].reply = "complete"
    BY <1>8, StoreExtends
  <2>2. pc'[s] = "saveStored" /\ local' = local
    BY <1>2, <1>8 DEF StoreReply, Goto
  <2>3. QED
    BY <2>1, <2>2
<1>9. QED
  BY <1>3, <1>4, <1>5, <1>6, <1>7, <1>8, HandlerSteps

LEMMA AnswerInvariant ==
    ASSUME ~DuplicatesOverlap
    PROVE  Spec => [](TypeInv /\ FileInv /\ KeyInv /\ AnswerInv)
<1>1. TypeInv /\ FileInv /\ KeyInv /\ AnswerInv /\ [Next]_vars
          => TypeInv' /\ FileInv' /\ KeyInv' /\ AnswerInv'
  BY StepTypeInv, StepFileInv, StepKeyInv, StepAnswerInv
<1>2. Init => TypeInv /\ FileInv /\ KeyInv /\ AnswerInv
  BY InitTypeInv, InitFileInv, InitKeyInv, InitAnswerInv
<1>3. QED
  BY <1>1, <1>2, PTL DEF Spec

\* Retries replay the stored answer: no generation runs for a message whose
\* complete answer is in the conversation.
THEOREM AnsweredIsNotRegenerated ==
    ASSUME ~DuplicatesOverlap
    PROVE  Spec => []NoRegeneration
<1>1. AnswerInv => NoRegeneration
  BY DEF AnswerInv, NoReplyYet, NoRegeneration, Answered
<1>2. QED
  BY <1>1, AnswerInvariant, PTL

\* A step keeps every question and every complete answer.
LEMMA CompleteStays ==
    ASSUME TypeInv, FileInv, KeyInv, AnswerInv, [Next]_vars,
           NEW c \in live, c \in live'
    PROVE  /\ \A x \in files[c].msgs : x.status = "complete" => x \in files'[c].msgs
           /\ \A m \in Messages :
                 Answered(files[c], m) => Answered(files'[c], m)
<1>1. /\ c \in Conversations /\ files \in [Conversations -> File] /\ creating[c] = "born"
      /\ files' \in [Conversations -> File] /\ WellFormed(files'[c])
  BY StepTypeInv, StepFileInv DEF TypeInv, TypeOK, FileInv, Born, FilesWellFormed
<1>2. \A x \in files[c].msgs : x.status = "complete" => x \in files'[c].msgs
  <2> SUFFICES ASSUME NEW x \in files[c].msgs, x.status = "complete"
               PROVE  x \in files'[c].msgs
    OBVIOUS
  <2>1. ASSUME NEW e \in Conversations, WriteNewConversation(e) PROVE x \in files'[c].msgs
    BY <1>1, <2>1 DEF WriteNewConversation
  <2>2. ASSUME NEW d \in Deletes, live' = live \ {ConvOf[d]},
               files' = [files EXCEPT ![ConvOf[d]] = EmptyFile]
        PROVE  x \in files'[c].msgs
    BY <1>1, <2>2
  <2>3. ASSUME NEW s \in Sends, StorePrepared(s) \/ StoreReply(s)
        PROVE  x \in files'[c].msgs
    BY <1>1, <2>3, StoreExtends DEF Extends, FileOf
  <2>4. QED
    BY <2>1, <2>2, <2>3, DiskSteps DEF diskVars
<1>3. ASSUME NEW m \in Messages, Answered(files[c], m) PROVE Answered(files'[c], m)
  <2>1. PICK x \in Replies(files[c], m) : x.status = "complete"
    BY <1>3 DEF Answered
  <2>2. x \in Replies(files'[c], m)
    BY <1>2, <2>1 DEF Replies
  <2>3. QED
    BY <1>1, <2>1, <2>2, OneReply
<1>4. QED
  BY <1>2, <1>3

\* A complete answer survives every later attempt, reply, failure and crash.
THEOREM AnswersAreKept ==
    ASSUME ~DuplicatesOverlap
    PROVE  Spec => AnswersKept
<1>1. TypeInv /\ FileInv /\ KeyInv /\ AnswerInv /\ [Next]_vars =>
        [\A c \in live \cap live' :
            \A x \in files[c].msgs : x.status = "complete" => x \in files'[c].msgs]_vars
  BY CompleteStays
<1>2. QED
  BY <1>1, AnswerInvariant, PTL DEF Spec, AnswersKept

-----------------------------------------------------------------------------
(* What clients were told, and what the model was sent.                     *)

\* The handlers of sends create no conversation.
LEMMA SendKeepsCreating ==
    ASSUME NEW s \in Sends, Send(s)
    PROVE  creating' = creating /\ blind' = blind
BY DEF Send, Arrive, Refuse, AcceptSend, Prepare, PrepareMissing, PrepareReplay,
       PrepareFull, EndPrepare, PrepareDraft, StorePrepared, StorePreparedFails,
       Dispatch, NoStream, StreamOpens, Chunk, TokenArrives, ResultArrives, Receive,
       EndStream, StreamFails, StreamStopped, StreamCompletes, Save, Persist,
       SaveDropped, SaveDraft, StoreReply, StoreReplyFails, Finish, ClientLeaves

\* A deletion is final, and so is a creation.
LEMMA BornStays ==
    ASSUME TypeInv, [Next]_vars, NEW c \in Conversations, creating[c] = "born"
    PROVE  creating'[c] = "born"
<1>1. creating \in [Conversations -> {"unborn", "counted", "born"}]
  BY DEF TypeInv, TypeOK
<1>2. CASE creating' = creating
  BY <1>2
<1>3. ASSUME NEW e \in Conversations, Create(e) PROVE creating'[c] = "born"
  BY <1>1, <1>3 DEF Create, CountConversations, WriteNewConversation, NewConversationFails
<1>4. ASSUME NEW d \in Deletes, Delete(d) PROVE creating'[c] = "born"
  BY <1>2, <1>4 DEF Delete, DeleteArrives, DeleteRuns
<1>5. CASE Crash
  BY <1>1, <1>5 DEF Crash
<1>6. QED
  BY <1>2, <1>3, <1>4, <1>5, SendKeepsCreating DEF Next, vars

LEMMA GoneStays ==
    ASSUME TypeInv, FileInv, [Next]_vars, NEW c \in Conversations, creating[c] = "born",
           c \in live'
    PROVE  c \in live
BY FileSteps DEF diskVars, WriteNewConversation

\* The steps that tell a client its result, and the one that sends a history.
LEMMA TellingSteps ==
    ASSUME [Next]_vars
    PROVE  /\ \/ acked' = acked
              \/ \E s \in Sends :
                    /\ acked' = acked \cup {s}
                    /\ \/ PrepareReplay(s)
                       \/ SaveDropped(s)
                       \/ Finish(s) /\ local[s].reply = "complete"
           /\ UNCHANGED sentVars \/ \E s \in Sends : Dispatch(s)
<1>1. ASSUME NEW c \in Conversations, Create(c) PROVE UNCHANGED <<acked, sentVars>>
  BY <1>1 DEF Create, CountConversations, WriteNewConversation, NewConversationFails
<1>2. ASSUME NEW d \in Deletes, Delete(d) PROVE UNCHANGED <<acked, sentVars>>
  BY <1>2 DEF Delete, DeleteArrives, DeleteRuns
<1>3. ASSUME Crash \/ UNCHANGED vars PROVE UNCHANGED <<acked, sentVars>>
  BY <1>3 DEF Crash, vars, sentVars
<1>4. ASSUME NEW s \in Sends, Send(s)
      PROVE  /\ \/ acked' = acked
                \/ /\ acked' = acked \cup {s}
                   /\ \/ PrepareReplay(s)
                      \/ SaveDropped(s)
                      \/ Finish(s) /\ local[s].reply = "complete"
             /\ UNCHANGED sentVars \/ Dispatch(s)
  BY <1>4
     DEF Send, Arrive, Refuse, AcceptSend, Prepare, PrepareMissing, PrepareReplay,
         PrepareFull, EndPrepare, PrepareDraft, StorePrepared, StorePreparedFails,
         Dispatch, NoStream, StreamOpens, Chunk, TokenArrives, ResultArrives, Receive,
         EndStream, StreamFails, StreamStopped, StreamCompletes, Save, Persist,
         SaveDropped, SaveDraft, StoreReply, StoreReplyFails, Finish, TellResult,
         ClientLeaves
<1>5. QED
  BY <1>1, <1>2, <1>3, <1>4 DEF Next

\* Only sends to a created conversation were answered or passed on ...
HeardOf == \A s \in sent \cup acked : creating[ConvOf[s]] = "born"

\* ... and the history of a message is the one its question has now.
HistoryCurrent ==
    \A s \in sent : ConvOf[s] \in live =>
        /\ Questions(FileOf(s), MsgOf[s]) # {}
        /\ history[s] = HistoryOf(FileOf(s), MsgOf[s])

ToldInv == HeardOf /\ HistoryCurrent /\ RetrySameHistory

LEMMA InitToldInv == Init => ToldInv
BY DEF Init, ToldInv, HeardOf, HistoryCurrent, RetrySameHistory

LEMMA StepHeardOf ==
    ASSUME TypeInv, FileInv, HeardOf, [Next]_vars
    PROVE  HeardOf'
<1> SUFFICES ASSUME NEW s \in sent' \cup acked' PROVE creating'[ConvOf[s]] = "born"
  BY DEF HeardOf
<1>1. CASE s \in sent \cup acked
  <2>1. ConvOf[s] \in Conversations
    BY <1>1, SendFacts DEF TypeInv, TypeOK
  <2>2. QED
    BY <1>1, <2>1, BornStays DEF HeardOf
<1>2. CASE s \notin sent \cup acked
  <2>1. s \in Sends /\ (Dispatch(s) \/ PrepareReplay(s) \/ SaveDropped(s) \/ Finish(s))
    BY <1>2, TellingSteps DEF Dispatch, sentVars
  <2>2. pc[s] # "idle" /\ s \in Tasks /\ ConvOf[s] \in Conversations
    BY <2>1, SendFacts
       DEF Dispatch, PrepareReplay, EndPrepare, SaveDropped, Finish, ReturnAndForget,
           Return, Goto
  <2>3. QED
    BY <2>2, StartedIsBorn, BornStays
<1>3. QED
  BY <1>1, <1>2

\* The history of a message that was sent stays what it is, step by step.
LEMMA HistoryStays ==
    ASSUME TypeInv, FileInv, KeyInv, AnswerInv, [Next]_vars,
           NEW c \in live, c \in live', NEW m \in Messages, Questions(files[c], m) # {}
    PROVE  /\ Questions(files'[c], m) # {}
           /\ HistoryOf(files'[c], m) = HistoryOf(files[c], m)
<1>1. /\ c \in Conversations /\ files \in [Conversations -> File] /\ creating[c] = "born"
      /\ files' \in [Conversations -> File] /\ WellFormed(files[c]) /\ WellFormed(files'[c])
  BY StepTypeInv, StepFileInv DEF TypeInv, TypeOK, FileInv, Born, FilesWellFormed
<1>2. CASE files'[c] = files[c]
  BY <1>2
<1>3. ASSUME NEW e \in Conversations, WriteNewConversation(e) PROVE files'[c] = files[c]
  BY <1>1, <1>3 DEF WriteNewConversation
<1>4. ASSUME NEW d \in Deletes, live' = live \ {ConvOf[d]},
             files' = [files EXCEPT ![ConvOf[d]] = EmptyFile]
      PROVE  files'[c] = files[c]
  BY <1>1, <1>4
<1>5. ASSUME NEW s \in Sends, StorePrepared(s) \/ StoreReply(s), c = ConvOf[s]
      PROVE  /\ Questions(files'[c], m) # {}
             /\ HistoryOf(files'[c], m) = HistoryOf(files[c], m)
  <2>1. Extends(files[c], files'[c], MsgOf[s])
    BY <1>5, StoreExtends DEF FileOf
  <2>2. Questions(files[c], m) \subseteq Questions(files'[c], m)
    BY <1>1, <1>5, StoreIsRewrite, RewriteKeeps
  <2>3. \A x, y \in Questions(files'[c], m) : x = y
    BY <1>1 DEF WellFormed, Questions
  <2>4. Questions(files'[c], m) = Questions(files[c], m)
    BY <2>2, <2>3
  <2>5. QED
    BY <1>1, <2>1, <2>4, ExtendsHistory
<1>6. ASSUME NEW s \in Sends, StorePrepared(s) \/ StoreReply(s), c # ConvOf[s]
      PROVE  files'[c] = files[c]
  BY <1>1, <1>6, StoreExtends
<1>7. QED
  BY <1>2, <1>3, <1>4, <1>5, <1>6, DiskSteps DEF diskVars

LEMMA StepHistoryCurrent ==
    ASSUME TypeInv, FileInv, KeyInv, AnswerInv, ToldInv, [Next]_vars
    PROVE  HistoryCurrent' /\ RetrySameHistory'
<1>1. /\ sent \subseteq Sends /\ \A s \in Sends : ConvOf[s] \in Conversations
      /\ \A s \in Sends : MsgOf[s] \in Messages
      /\ history \in [Sends -> SUBSET Message] /\ local \in [Sends -> Local]
  BY SendFacts DEF TypeInv, TypeOK
<1>2. ASSUME NEW s \in sent, ConvOf[s] \in live'
      PROVE  /\ ConvOf[s] \in live
             /\ Questions(files'[ConvOf[s]], MsgOf[s]) # {}
             /\ history[s] = HistoryOf(files'[ConvOf[s]], MsgOf[s])
  <2>1. ConvOf[s] \in live
    BY <1>1, <1>2, GoneStays DEF ToldInv, HeardOf
  <2>2. /\ Questions(files[ConvOf[s]], MsgOf[s]) # {}
        /\ history[s] = HistoryOf(files[ConvOf[s]], MsgOf[s])
    BY <2>1 DEF ToldInv, HistoryCurrent, FileOf
  <2>3. QED
    BY <1>1, <1>2, <2>1, <2>2, HistoryStays
<1>3. CASE UNCHANGED sentVars
  <2>1. sent' = sent /\ history' = history
    BY <1>3 DEF sentVars
  <2>2. HistoryCurrent'
    BY <1>2, <2>1 DEF HistoryCurrent, FileOf
  <2>3. RetrySameHistory'
    BY <2>1 DEF ToldInv, RetrySameHistory, Key
  <2>4. QED
    BY <2>2, <2>3
<1>4. ASSUME NEW s \in Sends, Dispatch(s)
      PROVE  HistoryCurrent' /\ RetrySameHistory'
  <2>1. /\ sent' = sent \cup {s} /\ live' = live /\ files' = files
        /\ history' = [history EXCEPT ![s] = HistoryOf(local[s].draft, MsgOf[s])]
        /\ pc[s] = "stored"
    BY <1>4 DEF Dispatch, Goto, diskVars
  <2>2. ConvOf[s] \in live /\ local[s].draft = FileOf(s)
    BY <2>1 DEF FileInv, DraftsCurrent
  <2>3. Questions(FileOf(s), MsgOf[s]) # {}
    BY <2>1, <2>2 DEF FileInv, HasQuestion
  <2>4. /\ history'[s] = HistoryOf(FileOf(s), MsgOf[s])
        /\ \A t \in Sends : t # s => history'[t] = history[t]
    BY <1>1, <2>1, <2>2
  <2>5. HistoryCurrent'
    <3> SUFFICES ASSUME NEW t \in sent', ConvOf[t] \in live
                 PROVE  /\ Questions(files[ConvOf[t]], MsgOf[t]) # {}
                        /\ history'[t] = HistoryOf(files[ConvOf[t]], MsgOf[t])
      BY <2>1 DEF HistoryCurrent, FileOf
    <3>1. CASE t = s
      BY <2>3, <2>4, <3>1 DEF FileOf
    <3>2. CASE t # s
      BY <1>1, <2>1, <2>4, <3>2 DEF ToldInv, HistoryCurrent, FileOf
    <3>3. QED
      BY <3>1, <3>2
  <2>6. \A t \in sent : Key(t) = Key(s) => history[t] = HistoryOf(FileOf(s), MsgOf[s])
    BY <2>2 DEF ToldInv, HistoryCurrent, FileOf, Key
  <2>7. RetrySameHistory'
    <3> SUFFICES ASSUME NEW t \in sent', NEW u \in sent', Key(t) = Key(u)
                 PROVE  history'[t] = history'[u]
      BY DEF RetrySameHistory, Key
    <3>1. t \in sent \cup {s} /\ u \in sent \cup {s}
      BY <2>1
    <3>2. QED
      BY <1>1, <2>4, <2>6, <3>1 DEF ToldInv, RetrySameHistory
  <2>8. QED
    BY <2>5, <2>7
<1>5. QED
  BY <1>3, <1>4, TellingSteps

LEMMA StepToldInv ==
    ASSUME TypeInv, FileInv, KeyInv, AnswerInv, ToldInv, [Next]_vars
    PROVE  ToldInv'
BY StepHeardOf, StepHistoryCurrent DEF ToldInv

LEMMA ToldInvariant ==
    ASSUME ~DuplicatesOverlap
    PROVE  Spec => []ToldInv
<1>1. TypeInv /\ FileInv /\ KeyInv /\ AnswerInv /\ ToldInv /\ [Next]_vars => ToldInv'
  BY StepToldInv
<1>2. QED
  BY <1>1, InitToldInv, AnswerInvariant, PTL DEF Spec

\* Every attempt at a message asks the model with the same history, whatever
\* was stored, stopped, retried or deleted in the conversation in between.
THEOREM RetriesSendSameHistory ==
    ASSUME ~DuplicatesOverlap
    PROVE  Spec => []RetrySameHistory
<1>1. ToldInv => RetrySameHistory
  BY DEF ToldInv
<1>2. QED
  BY <1>1, ToldInvariant, PTL

LEMMA StepAcknowledged ==
    ASSUME ~ReadErrors, TypeInv, FileInv, KeyInv, AnswerInv, ToldInv,
           AcknowledgedIsStored, [Next]_vars
    PROVE  AcknowledgedIsStored'
<1> SUFFICES ASSUME NEW s \in acked', ConvOf[s] \in live'
             PROVE  Answered(files'[ConvOf[s]], MsgOf[s])
  BY DEF AcknowledgedIsStored, FileOf
<1>1. CASE s \in acked
  <2>1. ConvOf[s] \in Conversations /\ MsgOf[s] \in Messages
    BY <1>1, SendFacts DEF TypeInv, TypeOK
  <2>2. ConvOf[s] \in live
    BY <1>1, <2>1, GoneStays DEF ToldInv, HeardOf
  <2>3. Answered(files[ConvOf[s]], MsgOf[s])
    BY <1>1, <2>2 DEF AcknowledgedIsStored, FileOf
  <2>4. QED
    BY <2>1, <2>2, <2>3, CompleteStays
<1>2. CASE s \notin acked
  <2>1. \/ PrepareReplay(s)
        \/ SaveDropped(s)
        \/ Finish(s) /\ local[s].reply = "complete"
    BY <1>2, TellingSteps
  <2>2. files' = files /\ live' = live
    BY <2>1 DEF PrepareReplay, EndPrepare, SaveDropped, Finish, diskVars
  <2>3. CASE PrepareReplay(s)
    BY <2>2, <2>3 DEF PrepareReplay, FileOf
  <2>4. CASE SaveDropped(s)
    BY <2>2, <2>4 DEF SaveDropped, ReadsNothing
  <2>5. CASE Finish(s) /\ local[s].reply = "complete"
    <3>1. s \in Sends
      BY <1>2, TellingSteps
    <3>2. pc[s] = "saveStored"
      BY <2>5 DEF Finish, ReturnAndForget, Return, Goto
    <3>3. QED
      BY <2>2, <2>5, <3>1, <3>2 DEF AnswerInv, SavedIsThere, FileOf
  <2>6. QED
    BY <2>1, <2>3, <2>4, <2>5
<1>3. QED
  BY <1>1, <1>2

\* A client that was sent a result event finds the answer stored from then on,
\* until the conversation is deleted, as long as files can be read.
THEOREM AcknowledgedStaysStored ==
    ASSUME ~DuplicatesOverlap, ~ReadErrors
    PROVE  Spec => []AcknowledgedIsStored
<1>1. Init => AcknowledgedIsStored
  BY DEF Init, AcknowledgedIsStored
<1>2. TypeInv /\ FileInv /\ KeyInv /\ AnswerInv /\ ToldInv /\ AcknowledgedIsStored
          /\ [Next]_vars => AcknowledgedIsStored'
  BY StepAcknowledged
<1>3. QED
  BY <1>1, <1>2, AnswerInvariant, ToldInvariant, PTL DEF Spec

-----------------------------------------------------------------------------
(* The conversation limit.                                                  *)

\* The conversations on disk and the creates under way that were counted.
Seen == live \ blind
Coming == Counted \ blind

CountInv ==
    /\ IsFiniteSet(live)
    /\ IsFiniteSet(Counted)
    /\ Cardinality(Counted) <= MaxCreators
    /\ ConversationOvershoot

LEMMA InitCountInv == Init => CountInv
<1> SUFFICES ASSUME Init PROVE CountInv
  OBVIOUS
<1>1. live = {} /\ Counted = {} /\ live \ blind = {} /\ Counted \ blind = {}
  BY DEF Init, Counted
<1>2. QED
  BY <1>1, FS_EmptySet, LimitsAssumption DEF CountInv, ConversationOvershoot

LEMMA SeenSizes ==
    ASSUME CountInv
    PROVE  /\ IsFiniteSet(Seen) /\ Cardinality(Seen) \in Nat
           /\ IsFiniteSet(Coming) /\ Cardinality(Coming) \in Nat
           /\ Cardinality(Seen) <= Cardinality(live) /\ Cardinality(live) \in Nat
           /\ Cardinality(Coming) <= Cardinality(Counted) /\ Cardinality(Counted) \in Nat
           /\ Cardinality(Seen) + Cardinality(Coming) <= MaxConversations + MaxCreators - 1
<1>1. Seen \subseteq live /\ Coming \subseteq Counted
  BY DEF Seen, Coming
<1>2. QED
  BY <1>1, FS_Subset, FS_CardinalityType
     DEF CountInv, ConversationOvershoot, Seen, Coming

\* Fewer of each kind keep the limit.
LEMMA FewerCount ==
    ASSUME CountInv, IsFiniteSet(live'), IsFiniteSet(Counted'),
           Cardinality(Counted') <= MaxCreators,
           Seen' \subseteq Seen, Coming' \subseteq Coming
    PROVE  CountInv'
<1>1. /\ Cardinality(Seen') <= Cardinality(Seen) /\ Cardinality(Seen') \in Nat
      /\ Cardinality(Coming') <= Cardinality(Coming) /\ Cardinality(Coming') \in Nat
  BY SeenSizes, FS_Subset, FS_CardinalityType
<1>2. Cardinality(Seen') + Cardinality(Coming') <= MaxConversations + MaxCreators - 1
  BY <1>1, SeenSizes, LimitsAssumption
<1>3. QED
  BY <1>2 DEF CountInv, ConversationOvershoot, Seen, Coming

\* A create is counted while there is room for it on disk, or goes unseen.
LEMMA CountStep ==
    ASSUME TypeInv, FileInv, CountInv, NEW c \in Conversations, CountConversations(c)
    PROVE  CountInv'
<1>1. /\ live' = live /\ Counted' = Counted \cup {c} /\ c \notin Counted /\ c \notin live
  BY DEF CountConversations, diskVars, Counted, TypeInv, TypeOK, FileInv, Born
<1>2. /\ IsFiniteSet(Counted \cup {c})
      /\ Cardinality(Counted \cup {c}) = Cardinality(Counted) + 1
  BY <1>1, FS_AddElement DEF CountInv
<1>3. Cardinality(Counted) + 1 <= MaxCreators
  BY SeenSizes, LimitsAssumption DEF CountConversations
<1>4. IsFiniteSet(live') /\ IsFiniteSet(Counted') /\ Cardinality(Counted') <= MaxCreators
  BY <1>1, <1>2, <1>3 DEF CountInv
<1>5. CASE CountFails(c)
  <2>1. Seen' \subseteq Seen /\ Coming' \subseteq Coming
    BY <1>1, <1>5 DEF CountFails, Seen, Coming
  <2>2. QED
    BY <1>4, <2>1, FewerCount
<1>6. CASE Cardinality(live) < MaxConversations /\ blind' = blind
  <2>1. Seen' = Seen /\ Coming' \subseteq Coming \cup {c} /\ c \notin Coming
    BY <1>1, <1>6 DEF Seen, Coming
  <2>2. /\ IsFiniteSet(Coming \cup {c})
        /\ Cardinality(Coming \cup {c}) = Cardinality(Coming) + 1
    BY <2>1, SeenSizes, FS_AddElement
  <2>3. Cardinality(Coming') <= Cardinality(Coming) + 1 /\ Cardinality(Coming') \in Nat
    BY <2>1, <2>2, FS_Subset, FS_CardinalityType
  <2>4. Cardinality(Seen') + Cardinality(Coming') <= MaxConversations + MaxCreators - 1
    BY <1>3, <1>6, <2>1, <2>3, SeenSizes, LimitsAssumption
  <2>5. QED
    BY <1>4, <2>4 DEF CountInv, ConversationOvershoot, Seen, Coming
<1>7. QED
  BY <1>5, <1>6 DEF CountConversations

\* The write turns one that is counted into one on disk.
LEMMA WriteCountStep ==
    ASSUME TypeInv, FileInv, CountInv, NEW c \in Conversations, WriteNewConversation(c)
    PROVE  CountInv'
<1>1. /\ live' = live \cup {c} /\ Counted' = Counted \ {c} /\ c \in Counted
      /\ blind' = blind
  BY DEF WriteNewConversation, Counted, TypeInv, TypeOK
<1>2. c \notin live
  BY <1>1 DEF FileInv, Born, Counted
<1>3. IsFiniteSet(live \cup {c})
  BY <1>2, FS_AddElement DEF CountInv
<1>4. IsFiniteSet(Counted \ {c}) /\ Cardinality(Counted \ {c}) <= Cardinality(Counted)
  <2>1. Counted \ {c} \subseteq Counted
    OBVIOUS
  <2>2. QED
    BY <2>1, FS_Subset DEF CountInv
<1>5. Cardinality(Counted \ {c}) <= MaxCreators /\ Cardinality(Counted \ {c}) \in Nat
  BY <1>4, SeenSizes, FS_CardinalityType, LimitsAssumption DEF CountInv
<1>6. IsFiniteSet(live') /\ IsFiniteSet(Counted') /\ Cardinality(Counted') <= MaxCreators
  BY <1>1, <1>3, <1>4, <1>5
<1>7. CASE c \in blind
  <2>1. Seen' \subseteq Seen /\ Coming' \subseteq Coming
    BY <1>1, <1>7 DEF Seen, Coming
  <2>2. QED
    BY <1>6, <2>1, FewerCount
<1>8. CASE c \notin blind
  <2>1. Seen' = Seen \cup {c} /\ Coming' = Coming \ {c} /\ c \in Coming /\ c \notin Seen
    BY <1>1, <1>2, <1>8 DEF Seen, Coming
  <2>2. /\ Cardinality(Seen') = Cardinality(Seen) + 1
        /\ Cardinality(Coming') = Cardinality(Coming) - 1
    BY <2>1, SeenSizes, FS_AddElement, FS_RemoveElement
  <2>3. Cardinality(Seen') + Cardinality(Coming') <= MaxConversations + MaxCreators - 1
    BY <2>2, SeenSizes, LimitsAssumption
  <2>4. QED
    BY <1>6, <2>3 DEF CountInv, ConversationOvershoot, Seen, Coming
<1>9. QED
  BY <1>7, <1>8

\* What else happens to creates and files only takes some away.
LEMMA OtherCountStep ==
    ASSUME TypeInv, FileInv, [Next]_vars,
           \A c \in Conversations : ~CountConversations(c),
           \A c \in Conversations : ~WriteNewConversation(c)
    PROVE  /\ live' \subseteq live /\ Counted' \subseteq Counted
           /\ blind \ blind' \subseteq Counted /\ Counted' \cap (blind \ blind') = {}
<1>1. /\ creating \in [Conversations -> {"unborn", "counted", "born"}]
      /\ live' \subseteq live
  BY FileSteps DEF TypeInv, TypeOK, diskVars
<1>2. ASSUME NEW c \in Conversations, NewConversationFails(c)
      PROVE  Counted' = Counted \ {c} /\ blind' = blind \ {c} /\ c \in Counted
  BY <1>1, <1>2 DEF NewConversationFails, Counted
<1>3. ASSUME NEW d \in Deletes, Delete(d) PROVE creating' = creating /\ blind' = blind
  BY <1>3 DEF Delete, DeleteArrives, DeleteRuns
<1>4. CASE Crash
  <2>1. Counted' = {} /\ blind' = blind \ Counted
    BY <1>1, <1>4 DEF Crash, Counted
  <2>2. QED
    BY <1>1, <2>1
<1>5. CASE creating' = creating /\ blind' = blind
  BY <1>1, <1>5 DEF Counted
<1>6. ASSUME NEW c \in Conversations, Create(c) PROVE NewConversationFails(c)
  BY <1>6 DEF Create
<1>7. QED
  BY <1>1, <1>2, <1>3, <1>4, <1>5, <1>6, SendKeepsCreating DEF Next, vars

LEMMA StepCountInv ==
    ASSUME TypeInv, FileInv, CountInv, [Next]_vars
    PROVE  CountInv'
<1>1. CASE \E c \in Conversations : CountConversations(c)
  BY <1>1, CountStep
<1>2. CASE \E c \in Conversations : WriteNewConversation(c)
  BY <1>2, WriteCountStep
<1>3. CASE /\ \A c \in Conversations : ~CountConversations(c)
           /\ \A c \in Conversations : ~WriteNewConversation(c)
  <2>1. /\ live' \subseteq live /\ Counted' \subseteq Counted
        /\ blind \ blind' \subseteq Counted /\ Counted' \cap (blind \ blind') = {}
    BY <1>3, OtherCountStep
  <2>2. live \cap Counted = {}
    BY DEF FileInv, Born, Counted
  <2>3. Seen' \subseteq Seen /\ Coming' \subseteq Coming
    BY <2>1, <2>2 DEF Seen, Coming
  <2>4. IsFiniteSet(live') /\ IsFiniteSet(Counted') /\ Cardinality(Counted') <= Cardinality(Counted)
    BY <2>1, FS_Subset DEF CountInv
  <2>5. Cardinality(Counted') <= MaxCreators
    BY <2>4, SeenSizes, FS_CardinalityType, LimitsAssumption DEF CountInv
  <2>6. QED
    BY <2>3, <2>4, <2>5, FewerCount
<1>4. QED
  BY <1>1, <1>2, <1>3

\* Creates that overlap exceed MAX_CONVERSATIONS, by no more than their number
\* less one, besides those that a directory that could not be read let pass.
THEOREM OvershootIsBounded == Spec => []ConversationOvershoot
<1>1. CountInv => ConversationOvershoot
  BY DEF CountInv
<1>2. TypeInv /\ FileInv /\ CountInv /\ [Next]_vars => CountInv'
  BY StepCountInv
<1>3. QED
  BY <1>1, <1>2, InitCountInv, FileInvariant, PTL DEF Spec

-----------------------------------------------------------------------------
(* The gateway implements AnswerLedger.                                     *)

\* A conversation without a file has no content in the model either.
GoneEmpty == \A c \in Conversations : c \notin live => files[c] = EmptyFile

LEMMA InitGoneEmpty == Init => GoneEmpty
BY DEF Init, GoneEmpty

LEMMA StepGoneEmpty ==
    ASSUME TypeInv, FileInv, GoneEmpty, [Next]_vars
    PROVE  GoneEmpty'
<1>1. files \in [Conversations -> File]
  BY DEF TypeInv, TypeOK
<1>2. CASE UNCHANGED diskVars
  BY <1>2 DEF diskVars, GoneEmpty
<1>3. ASSUME NEW c \in Conversations, WriteNewConversation(c) PROVE GoneEmpty'
  BY <1>1, <1>3 DEF WriteNewConversation, GoneEmpty
<1>4. ASSUME NEW d \in Deletes, live' = live \ {ConvOf[d]},
             files' = [files EXCEPT ![ConvOf[d]] = EmptyFile]
      PROVE  GoneEmpty'
  BY <1>1, <1>4 DEF GoneEmpty
<1>5. ASSUME NEW s \in Sends, StorePrepared(s) \/ StoreReply(s) PROVE GoneEmpty'
  BY <1>1, <1>5 DEF StorePrepared, StoreReply, WriteDraft, GoneEmpty
<1>6. QED
  BY <1>2, <1>3, <1>4, <1>5, DiskSteps

\* EntryOf, of a file.
Entry(f, m) ==
    IF Questions(f, m) = {} THEN "none"
    ELSE IF Replies(f, m) = {} THEN "asked"
    ELSE IF Answered(f, m) THEN "answered" ELSE "stopped"

LEMMA SameEntry ==
    ASSUME NEW f, NEW g, NEW m, Questions(f, m) = Questions(g, m),
           Replies(f, m) = Replies(g, m)
    PROVE  Entry(f, m) = Entry(g, m)
BY AnsweredByReplies DEF Entry

LEMMA NoEntries ==
    ASSUME NEW m
    PROVE  Entry(EmptyFile, m) = "none"
BY DEF Entry, EmptyFile, Questions

\* The ledger the files amount to, now and after a step.
conversations == [c \in Conversations |-> ConversationState(c)]
entries == [c \in Conversations |-> [m \in Messages |-> EntryOf(c, m)]]

LEMMA EntriesAre ==
    /\ entries = [c \in Conversations |-> [m \in Messages |-> Entry(files[c], m)]]
    /\ entries' = [c \in Conversations |-> [m \in Messages |-> Entry(files'[c], m)]]
BY DEF entries, EntryOf, Entry

\* Being created is all that creating says to the ledger.
LEMMA ConversationsAre ==
    /\ conversations = [c \in Conversations |->
           IF creating[c] # "born" THEN "absent" ELSE IF c \in live THEN "open" ELSE "deleted"]
    /\ conversations' = [c \in Conversations |->
           IF creating'[c] # "born" THEN "absent" ELSE IF c \in live' THEN "open" ELSE "deleted"]
BY DEF conversations, ConversationState

LEMMA InitLedger == Init => Ledger!LInit
<1> SUFFICES ASSUME Init PROVE Ledger!LInit
  OBVIOUS
<1>1. conversations = [c \in Conversations |-> "absent"]
  BY ConversationsAre DEF Init
<1>2. entries = [c \in Conversations |-> [m \in Messages |-> "none"]]
  BY EntriesAre, NoEntries DEF Init
<1>3. QED
  BY <1>1, <1>2 DEF Ledger!LInit, conversations, entries

\* A write of a section records one entry.
LEMMA StoreRecords ==
    ASSUME TypeInv, FileInv, AnswerInv, NEW s \in Sends, StorePrepared(s) \/ StoreReply(s)
    PROVE  LET c == ConvOf[s]
               m == MsgOf[s]
           IN  \/ UNCHANGED <<conversations, entries>>
               \/ Ledger!Ask(c, m) \/ Ledger!Retry(c, m)
               \/ Ledger!Answer(c, m) \/ Ledger!Stop(c, m)
<1> DEFINE c == ConvOf[s]
           m == MsgOf[s]
           to == Entry(files'[c], m)
<1>1. /\ c \in Conversations /\ m \in Messages /\ FileOf(s) = files[c]
      /\ files[c] \in File /\ WellFormed(files[c])
      /\ files \in [Conversations -> File]
  BY SendFacts DEF TypeInv, TypeOK, FileOf, FileInv, FilesWellFormed
<1>2. /\ live' = live /\ creating' = creating
      /\ \A e \in Conversations : e # c => files'[e] = files[e]
      /\ Extends(files[c], files'[c], m)
      /\ Questions(files'[c], m) # {}
  BY <1>1, StoreExtends DEF StorePrepared, StoreReply
<1>3. c \in live /\ creating[c] = "born"
  BY DEF StorePrepared, StoreReply, Goto, FileInv, DraftsCurrent, Born
<1>4. conversations' = conversations /\ conversations[c] = "open"
  BY <1>1, <1>2, <1>3, ConversationsAre
<1>5. \A n \in Messages : n # m => Entry(files'[c], n) = Entry(files[c], n)
  BY <1>2, ExtendsOthers, SameEntry
<1>6. entries' = [entries EXCEPT ![c][m] = to]
  <2>1. \A e \in Conversations, n \in Messages :
            Entry(files'[e], n) = IF e = c /\ n = m THEN to ELSE Entry(files[e], n)
    BY <1>2, <1>5
  <2> HIDE DEF to
  <2>2. entries' = [e \in Conversations |-> [n \in Messages |->
                       IF e = c /\ n = m THEN to ELSE Entry(files[e], n)]]
    BY <2>1, EntriesAre
  <2>3. [entries EXCEPT ![c][m] = to]
            = [e \in Conversations |-> [n \in Messages |->
                  IF e = c /\ n = m THEN to ELSE Entry(files[e], n)]]
    BY <1>1, EntriesAre
  <2>4. QED
    BY <2>2, <2>3
<1>7. entries[c][m] = Entry(files[c], m)
  BY <1>1, EntriesAre
<1> HIDE DEF to
<1>8. CASE StorePrepared(s)
  <2>1. to = "asked"
    BY <1>2, <1>8, StoreExtends DEF Entry, to
  <2>2. ~Answered(files[c], m)
    BY <1>1, <1>8 DEF StorePrepared, Goto, AnswerInv, LoadedUnanswered
  <2>3. Entry(files[c], m) \in {"none", "asked", "stopped"}
    BY <2>2 DEF Entry
  <2>4. CASE Entry(files[c], m) = "none"
    BY <1>4, <1>6, <1>7, <2>1, <2>4
       DEF Ledger!Ask, Ledger!Record, conversations, entries
  <2>5. CASE Entry(files[c], m) = "stopped"
    BY <1>4, <1>6, <1>7, <2>1, <2>5
       DEF Ledger!Retry, Ledger!Record, conversations, entries
  <2>6. CASE Entry(files[c], m) = "asked"
    <3>1. Entry(files'[c], m) = Entry(files[c], m)
      BY <2>1, <2>6 DEF to
    <3>2. \A e \in Conversations, n \in Messages :
              Entry(files'[e], n) = Entry(files[e], n)
      BY <1>2, <1>5, <3>1
    <3>3. entries' = entries
      BY <3>2, EntriesAre
    <3>4. QED
      BY <1>4, <3>3
  <2>7. QED
    BY <2>3, <2>4, <2>5, <2>6
<1>9. CASE StoreReply(s)
  <2>1. pc[s] = "saveLoaded" /\ Replies(files[c], m) = {}
    BY <1>1, <1>9, StoreExtends DEF StoreReply, Goto
  <2>2. Questions(files[c], m) # {}
    BY <1>1, <1>3, <2>1 DEF FileInv, HasQuestion, Generating
  <2>3. entries[c][m] = "asked"
    BY <1>7, <2>1, <2>2 DEF Entry
  <2>4. to \in {"answered", "stopped"}
    BY <1>2, <1>9, StoreExtends DEF Entry, to
  <2>5. CASE to = "answered"
    BY <1>4, <1>6, <2>3, <2>5
       DEF Ledger!Answer, Ledger!Record, conversations, entries
  <2>6. CASE to = "stopped"
    BY <1>4, <1>6, <2>3, <2>6
       DEF Ledger!Stop, Ledger!Record, conversations, entries
  <2>7. QED
    BY <2>4, <2>5, <2>6
<1>10. QED
  BY <1>8, <1>9

LEMMA StepLedger ==
    ASSUME TypeInv, FileInv, AnswerInv, GoneEmpty, [Next]_vars
    PROVE  Ledger!LNext \/ UNCHANGED <<conversations, entries>>
<1>1. /\ creating \in [Conversations -> {"unborn", "counted", "born"}]
      /\ files \in [Conversations -> File]
  BY DEF TypeInv, TypeOK
<1>2. ASSUME NEW c \in Conversations, WriteNewConversation(c)
      PROVE  Ledger!Open(c)
  <2>1. c \notin live /\ files[c] = EmptyFile /\ creating[c] = "counted"
    BY <1>2 DEF WriteNewConversation, FileInv, Born, GoneEmpty
  <2>2. /\ files' = files
        /\ live' = live \cup {c}
        /\ creating' = [creating EXCEPT ![c] = "born"]
    BY <1>1, <1>2, <2>1 DEF WriteNewConversation
  <2>3. conversations[c] = "absent"
    BY <2>1, ConversationsAre
  <2>4. conversations' = [conversations EXCEPT ![c] = "open"]
    BY <1>1, <2>2, ConversationsAre
  <2>5. entries' = entries
    BY <2>2, EntriesAre
  <2>6. QED
    BY <2>3, <2>4, <2>5 DEF Ledger!Open, conversations, entries
<1>3. ASSUME NEW d \in Deletes, DeleteRuns(d), live' = live \ {ConvOf[d]},
             files' = [files EXCEPT ![ConvOf[d]] = EmptyFile]
      PROVE  \/ UNCHANGED <<conversations, entries>>
             \/ \E c \in Conversations : Ledger!Erase(c)
  <2> DEFINE c == ConvOf[d]
  <2>1. c \in Conversations /\ creating' = creating
    BY <1>3, TasksAssumption DEF DeleteRuns, Tasks
  <2>2. CASE c \notin live
    <3>1. live' = live /\ files' = files
      BY <1>1, <1>3, <2>1, <2>2 DEF GoneEmpty
    <3>2. QED
      BY <2>1, <3>1, ConversationsAre, EntriesAre
  <2>3. CASE c \in live
    <3>1. creating[c] = "born"
      BY <2>3 DEF FileInv, Born
    <3>2. /\ conversations[c] = "open"
          /\ conversations' = [conversations EXCEPT ![c] = "deleted"]
      BY <1>3, <2>1, <2>3, <3>1, ConversationsAre
    <3>3. files'[c] = EmptyFile /\ \A e \in Conversations : e # c => files'[e] = files[e]
      BY <1>1, <1>3, <2>1
    <3>4. entries' = [entries EXCEPT ![c] = [m \in Messages |-> "none"]]
      BY <2>1, <3>3, EntriesAre, NoEntries
    <3>5. Ledger!Erase(c)
      BY <3>2, <3>4 DEF Ledger!Erase, conversations, entries
    <3>6. QED
      BY <2>1, <3>5
  <2>4. QED
    BY <2>2, <2>3
<1>4. ASSUME UNCHANGED diskVars, \A c \in Conversations : ~WriteNewConversation(c)
      PROVE  UNCHANGED <<conversations, entries>>
  <2>1. live' = live /\ files' = files
    BY <1>4 DEF diskVars
  <2>2. \A c \in Conversations : creating'[c] = "born" => creating[c] = "born"
    <3>1. ASSUME NEW c \in Conversations, Create(c)
          PROVE  CountConversations(c) \/ NewConversationFails(c)
      BY <1>4, <3>1 DEF Create
    <3>2. ASSUME NEW c \in Conversations, CountConversations(c) \/ NewConversationFails(c)
          PROVE  \A e \in Conversations : creating'[e] = "born" => creating[e] = "born"
      BY <1>1, <3>2 DEF CountConversations, NewConversationFails
    <3>3. ASSUME NEW d \in Deletes, Delete(d) PROVE creating' = creating
      BY <3>3 DEF Delete, DeleteArrives, DeleteRuns
    <3>4. CASE Crash
      BY <1>1, <3>4 DEF Crash
    <3>5. QED
      BY <3>1, <3>2, <3>3, <3>4, SendKeepsCreating DEF Next, vars
  <2>3. \A c \in Conversations : creating'[c] = "born" <=> creating[c] = "born"
    BY <2>2, BornStays
  <2>4. QED
    BY <2>1, <2>3, ConversationsAre, EntriesAre
<1>5. ASSUME NEW s \in Sends, StorePrepared(s) \/ StoreReply(s)
      PROVE  Ledger!LNext \/ UNCHANGED <<conversations, entries>>
  <2>1. ConvOf[s] \in Conversations /\ MsgOf[s] \in Messages
    BY SendFacts
  <2>2. QED
    BY <1>5, <2>1, StoreRecords DEF Ledger!LNext
<1>6. QED
  <2>1. CASE \E c \in Conversations : WriteNewConversation(c)
    BY <1>2, <2>1 DEF Ledger!LNext
  <2>2. CASE \E d \in Deletes : /\ DeleteRuns(d)
                                /\ live' = live \ {ConvOf[d]}
                                /\ files' = [files EXCEPT ![ConvOf[d]] = EmptyFile]
    BY <1>3, <2>2 DEF Ledger!LNext
  <2>3. QED
    BY <1>4, <1>5, <2>1, <2>2, DiskSteps

\* Every step of the gateway, a crash included, is a step of the ledger or none
\* of its business: a question is entered once, an attempt that was stopped can
\* be withdrawn, an answer and a deletion are final.
THEOREM GatewayKeepsLedger ==
    ASSUME ~DuplicatesOverlap
    PROVE  Spec => KeepsLedger
<1>1. TypeInv /\ FileInv /\ KeyInv /\ AnswerInv /\ GoneEmpty /\ [Next]_vars
          => GoneEmpty' /\ [Ledger!LNext]_(Ledger!ledgerVars)
  BY StepGoneEmpty, StepLedger DEF Ledger!ledgerVars, conversations, entries
<1>2. QED
  BY <1>1, InitLedger, InitGoneEmpty, AnswerInvariant, PTL
     DEF Spec, KeepsLedger, Ledger!LSpec
=============================================================================
