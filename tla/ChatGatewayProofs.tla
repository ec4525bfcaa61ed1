-------------------------- MODULE ChatGatewayProofs --------------------------
(***************************************************************************)
(* Proofs about ChatGateway for every set of conversations, messages and    *)
(* requests, every limit, and both settings of the environment constants.   *)
(***************************************************************************)
EXTENDS ChatGateway, FiniteSetTheorems, TLAPS

(* What the file operations return.                                         *)

LEMMA PushType ==
    ASSUME NEW f \in File, NEW role \in {"user", "assistant"}, NEW m \in Messages,
           NEW status \in {"sent", "stopped", "complete"}
    PROVE  Push(f, role, m, status) \in File
<1> DEFINE new == [role |-> role, re |-> m, status |-> status, at |-> f.pushes + 1]
<1>1. new \in Message
  BY DEF File, Message
<1>2. QED
  BY <1>1 DEF Push, File

LEMMA PreparedType ==
    ASSUME NEW f \in File, NEW m \in Messages
    PROVE  Prepared(f, m) \in File
<1>1. CASE Questions(f, m) # {}
  BY <1>1 DEF Prepared, File
<1>2. CASE Questions(f, m) = {}
  BY <1>2, PushType DEF Prepared
<1>3. QED
  BY <1>1, <1>2

LEMMA WithReplyType ==
    ASSUME NEW f \in File, NEW m \in Messages, NEW status \in {"stopped", "complete"}
    PROVE  WithReply(f, m, status) \in File
<1>1. [f EXCEPT !.msgs = @ \ Replies(f, m)] \in File
  BY DEF File
<1>2. QED
  BY <1>1, PushType DEF WithReply

LEMMA HistoryType ==
    ASSUME NEW f \in File, NEW m \in Messages
    PROVE  HistoryOf(f, m) \subseteq Message
BY DEF HistoryOf, Preceding, File

LEMMA EmptyFileType == EmptyFile \in File
BY DEF EmptyFile, File

LEMMA FreshType == Fresh \in Local
BY EmptyFileType DEF Fresh, Local

(* The variables that several actions change the same way.                  *)

LEMMA LocalOne ==
    ASSUME TypeOK, NEW s \in Sends, NEW r \in Local
    PROVE  [local EXCEPT ![s] = r] \in [Sends -> Local]
<1>1. local \in [Sends -> Local]
  BY DEF TypeOK
<1>2. QED
  BY <1>1

LEMMA LocalDraftType ==
    ASSUME TypeOK, NEW s \in Sends, NEW f \in File
    PROVE  [local EXCEPT ![s].draft = f] \in [Sends -> Local]
<1>1. local[s] \in Local
  BY DEF TypeOK
<1>2. [local[s] EXCEPT !.draft = f] \in Local
  BY <1>1 DEF Local
<1>3. QED
  BY <1>2, LocalOne

LEMMA LocalReplyType ==
    ASSUME TypeOK, NEW s \in Sends, NEW status \in {"stopped", "complete"}
    PROVE  [local EXCEPT ![s].reply = status] \in [Sends -> Local]
<1>1. local[s] \in Local
  BY DEF TypeOK
<1>2. [local[s] EXCEPT !.reply = status] \in Local
  BY <1>1 DEF Local
<1>3. QED
  BY <1>2, LocalOne

LEMMA LocalFreshType ==
    ASSUME TypeOK, NEW s \in Sends
    PROVE  [local EXCEPT ![s] = Fresh] \in [Sends -> Local]
BY FreshType, LocalOne

LEMMA LocalReceiveType ==
    ASSUME TypeOK, NEW s \in Sends
    PROVE  /\ [local EXCEPT ![s]["partial"] = TRUE] \in [Sends -> Local]
           /\ [local EXCEPT ![s]["result"] = TRUE] \in [Sends -> Local]
<1>1. local[s] \in Local
  BY DEF TypeOK
<1>2. /\ [local[s] EXCEPT !["partial"] = TRUE] \in Local
      /\ [local[s] EXCEPT !["result"] = TRUE] \in Local
  BY <1>1 DEF Local
<1>3. QED
  BY <1>2, LocalOne

LEMMA LocalGoneType ==
    ASSUME TypeOK, NEW s \in Sends, NEW b \in BOOLEAN
    PROVE  [local EXCEPT ![s].gone = TRUE, ![s].closed = b] \in [Sends -> Local]
<1>1. local \in [Sends -> Local] /\ local[s] \in Local
  BY DEF TypeOK
<1> DEFINE first == [local[s] EXCEPT !.gone = TRUE]
           second == [first EXCEPT !.closed = b]
<1>2. first \in Local
  BY <1>1 DEF Local
<1>3. second \in Local
  <2> HIDE DEF first
  <2>1. CASE b = TRUE
    BY <1>2, <2>1 DEF Local
  <2>2. CASE b = FALSE
    BY <1>2, <2>2 DEF Local
  <2>3. QED
    BY <2>1, <2>2
<1>4. [local EXCEPT ![s].gone = TRUE, ![s].closed = b] = [local EXCEPT ![s] = second]
  BY <1>1
<1> HIDE DEF first, second
<1>5. QED
  BY <1>3, <1>4, LocalOne

LEMMA SendGotoType ==
    ASSUME TypeOK, NEW s \in Sends, NEW to \in Statuses, NEW from, Goto(s, from, to)
    PROVE  /\ pc' \in [Tasks -> Statuses]
           /\ \A d \in Deletes : pc'[d] \in {"idle", "queued", "done"}
           /\ pc'[s] = to
           /\ \A t \in Tasks : t # s => pc'[t] = pc[t]
BY TasksAssumption DEF TypeOK, Goto, Tasks

\* A section that joins the queue disturbs no holder's turn.
LEMMA EnqueueTurns ==
    ASSUME TypeOK, NEW t \in Tasks, Enqueue(t)
    PROVE  /\ queue' \in [Conversations -> Seq(Tasks)]
           /\ \A u \in Tasks : HasTurn(u) => HasTurn(u)'
<1>1. ConvOf[t] \in Conversations /\ queue \in [Conversations -> Seq(Tasks)]
  BY TasksAssumption DEF TypeOK
<1>2. queue' \in [Conversations -> Seq(Tasks)]
  BY <1>1 DEF Enqueue
<1>3. ASSUME NEW u \in Tasks, HasTurn(u)
      PROVE  HasTurn(u)'
  <2>1. ConvOf[u] \in Conversations
    BY TasksAssumption
  <2>2. CASE ConvOf[u] = ConvOf[t]
    BY <1>1, <1>3, <2>2 DEF Enqueue, HasTurn
  <2>3. CASE ConvOf[u] # ConvOf[t]
    BY <1>1, <1>3, <2>1, <2>3 DEF Enqueue, HasTurn
  <2>4. QED
    BY <2>2, <2>3
<1>4. QED
  BY <1>2, <1>3

\* A section that settles passes on the turn of its own conversation only.
LEMMA ReleaseTurns ==
    ASSUME TypeOK, NEW t \in Tasks, HasTurn(t), Release(t)
    PROVE  /\ queue' \in [Conversations -> Seq(Tasks)]
           /\ \A u \in Tasks : HasTurn(u) /\ u # t => HasTurn(u)'
<1>1. ConvOf[t] \in Conversations
  BY TasksAssumption
<1>2. queue' \in [Conversations -> Seq(Tasks)]
  BY <1>1 DEF Release, HasTurn, TypeOK
<1>3. ASSUME NEW u \in Tasks, HasTurn(u), u # t
      PROVE  HasTurn(u)'
  <2>1. ConvOf[u] \in Conversations /\ ConvOf[u] # ConvOf[t]
    BY <1>3, TasksAssumption DEF HasTurn
  <2>2. QED
    BY <1>1, <1>3, <2>1 DEF Release, HasTurn, TypeOK
<1>4. QED
  BY <1>2, <1>3
-----------------------------------------------------------------------------
(* Type correctness, strengthened by what the lock gives a handler and by    *)
(* what a handler that persists a reply holds.                               *)

\* Only the first section of a conversation's queue runs.
HoldersHaveTurn == \A s \in Sends : pc[s] \in InSection => HasTurn(s)

\* A handler that persists a reply has chosen its status.
SavingHasStatus ==
    \A s \in Sends : pc[s] \in {"saving", "saveLoaded", "saveStored"} =>
        local[s].reply \in {"stopped", "complete"}

TypeInv == TypeOK /\ HoldersHaveTurn /\ SavingHasStatus

LEMMA InitTypeInv == Init => TypeInv
BY EmptyFileType, FreshType, TasksAssumption
   DEF Init, TypeInv, TypeOK, SavingHasStatus, HoldersHaveTurn, Statuses,
       Preparing, InSection, Tasks

LEMMA ConversationStepsType ==
    ASSUME TypeInv, NEW c \in Conversations, Create(c)
    PROVE  TypeInv'
<1>1. CASE CountConversations(c)
  <2>1. /\ creating' \in [Conversations -> {"unborn", "counted", "born"}]
        /\ blind' \subseteq Conversations
    BY <1>1 DEF CountConversations, CountFails, TypeInv, TypeOK
  <2>2. UNCHANGED <<live, files, queue, active, pc, local, sent, history, acked>>
    BY <1>1 DEF CountConversations, diskVars, sentVars
  <2>3. QED
    BY <2>1, <2>2 DEF TypeInv, TypeOK, HoldersHaveTurn, HasTurn, SavingHasStatus
<1>2. CASE WriteNewConversation(c)
  BY <1>2, EmptyFileType
     DEF WriteNewConversation, TypeInv, TypeOK, HoldersHaveTurn, HasTurn, SavingHasStatus, sentVars
<1>3. CASE NewConversationFails(c)
  BY <1>3 DEF NewConversationFails, TypeInv, TypeOK, HoldersHaveTurn, HasTurn, SavingHasStatus,
       diskVars, sentVars
<1>4. QED
  BY <1>1, <1>2, <1>3 DEF Create

LEMMA DeleteStepsType ==
    ASSUME TypeInv, NEW d \in Deletes, Delete(d)
    PROVE  TypeInv'
<1>1. /\ d \in Tasks /\ d \notin Sends /\ ConvOf[d] \in Conversations
      /\ Sends \subseteq Tasks
  BY TasksAssumption DEF Tasks
<1>2. CASE DeleteArrives(d)
  <2>1. /\ queue' \in [Conversations -> Seq(Tasks)]
        /\ \A u \in Tasks : HasTurn(u) => HasTurn(u)'
    BY <1>1, <1>2, EnqueueTurns DEF DeleteArrives, TypeInv
  <2>2. TypeOK'
    BY <1>1, <1>2, <2>1
       DEF DeleteArrives, Goto, TypeInv, TypeOK, diskVars, sentVars, Statuses,
           Preparing
  <2>3. HoldersHaveTurn' /\ SavingHasStatus'
    BY <1>1, <1>2, <2>1
       DEF DeleteArrives, Goto, TypeInv, TypeOK, SavingHasStatus,
           HoldersHaveTurn
  <2>4. QED
    BY <2>2, <2>3 DEF TypeInv
<1>3. CASE DeleteRuns(d)
  <2>1. /\ queue' \in [Conversations -> Seq(Tasks)]
        /\ \A u \in Tasks : HasTurn(u) /\ u # d => HasTurn(u)'
    BY <1>1, <1>3, ReleaseTurns DEF DeleteRuns, TypeInv
  <2>2. live' \subseteq Conversations /\ files' \in [Conversations -> File]
    BY <1>1, <1>3, EmptyFileType DEF DeleteRuns, TypeInv, TypeOK, diskVars
  <2>3. TypeOK'
    BY <1>1, <1>3, <2>1, <2>2
       DEF DeleteRuns, Goto, TypeInv, TypeOK, sentVars, Statuses
  <2>4. HoldersHaveTurn' /\ SavingHasStatus'
    BY <1>1, <1>3, <2>1
       DEF DeleteRuns, Goto, TypeInv, TypeOK, SavingHasStatus, HoldersHaveTurn
  <2>5. QED
    BY <2>3, <2>4 DEF TypeInv
<1>4. QED
  BY <1>2, <1>3 DEF Delete

LEMMA SendFacts ==
    ASSUME NEW s \in Sends
    PROVE  /\ s \in Tasks
           /\ ConvOf[s] \in Conversations
           /\ MsgOf[s] \in Messages
           /\ Key(s) \in Conversations \X Messages
BY TasksAssumption DEF Tasks, Key

\* A handler outside its section, and its queue untouched: the holders keep
\* their turn, and only s has changed.
LEMMA QuietStep ==
    ASSUME TypeInv, NEW s \in Sends, NEW to \in Statuses, NEW from,
           Goto(s, from, to), local' \in [Sends -> Local],
           \A t \in Sends : t # s => local'[t] = local[t],
           \A u \in Tasks : HasTurn(u) /\ u # s => HasTurn(u)',
           to \in InSection => HasTurn(s)',
           to \in {"saving", "saveLoaded", "saveStored"}
               => local'[s].reply \in {"stopped", "complete"}
    PROVE  HoldersHaveTurn' /\ SavingHasStatus'
<1>1. /\ s \in Tasks /\ Sends \subseteq Tasks
      /\ \A t \in Tasks : pc'[t] = IF t = s THEN to ELSE pc[t]
  BY SendGotoType, SendFacts DEF TypeInv, Tasks
<1>2. HoldersHaveTurn'
  BY <1>1 DEF HoldersHaveTurn, TypeInv
<1>3. SavingHasStatus'
  BY <1>1 DEF SavingHasStatus, TypeInv
<1>4. QED
  BY <1>2, <1>3

LEMMA ArriveType ==
    ASSUME TypeInv, NEW s \in Sends, Arrive(s)
    PROVE  TypeInv'
<1>1. TypeOK /\ local \in [Sends -> Local]
  BY DEF TypeInv, TypeOK
<1>2. "done" \in Statuses /\ "queued" \in Statuses
  BY DEF Statuses, Preparing
<1>3. CASE Refuse(s)
  <2>1. \A u \in Tasks : HasTurn(u) => HasTurn(u)'
    BY <1>3 DEF Refuse, HasTurn
  <2>2. HoldersHaveTurn' /\ SavingHasStatus'
    BY <1>1, <1>2, <1>3, <2>1, QuietStep DEF Refuse, InSection
  <2>3. TypeOK'
    BY <1>1, <1>2, <1>3, SendGotoType
       DEF Refuse, TypeOK, diskVars, sentVars
  <2>4. QED
    BY <2>2, <2>3 DEF TypeInv
<1>4. CASE AcceptSend(s)
  <2>1. /\ queue' \in [Conversations -> Seq(Tasks)]
        /\ \A u \in Tasks : HasTurn(u) => HasTurn(u)'
    BY <1>1, <1>4, EnqueueTurns, SendFacts DEF AcceptSend
  <2>2. HoldersHaveTurn' /\ SavingHasStatus'
    BY <1>1, <1>2, <1>4, <2>1, QuietStep DEF AcceptSend, InSection
  <2>3. TypeOK'
    BY <1>1, <1>2, <1>4, <2>1, SendGotoType
       DEF AcceptSend, TypeOK, diskVars, sentVars
  <2>4. QED
    BY <2>2, <2>3 DEF TypeInv
<1>5. QED
  BY <1>3, <1>4 DEF Arrive

\* What a section returning without a write, or a failed write, does.
LEMMA LeaveSectionType ==
    ASSUME TypeInv, NEW s \in Sends, NEW from, NEW to \in Statuses,
           to \notin InSection, to \notin {"saving", "saveLoaded", "saveStored"},
           Goto(s, from, to), HasTurn(s), Release(s),
           local' \in [Sends -> Local],
           \A t \in Sends : t # s => local'[t] = local[t],
           live' \subseteq Conversations, files' \in [Conversations -> File],
           active' \subseteq Conversations \X Messages, sent' \subseteq Sends,
           history' \in [Sends -> SUBSET Message], acked' \subseteq Sends,
           creating' = creating, blind' = blind
    PROVE  TypeInv'
<1>1. TypeOK
  BY DEF TypeInv
<1>2. /\ queue' \in [Conversations -> Seq(Tasks)]
      /\ \A u \in Tasks : HasTurn(u) /\ u # s => HasTurn(u)'
  BY <1>1, ReleaseTurns, SendFacts
<1>3. HoldersHaveTurn' /\ SavingHasStatus'
  BY <1>2, QuietStep
<1>4. TypeOK'
  BY <1>1, <1>2, SendGotoType DEF TypeOK
<1>5. QED
  BY <1>3, <1>4 DEF TypeInv

LEMMA PrepareType ==
    ASSUME TypeInv, NEW s \in Sends, Prepare(s)
    PROVE  TypeInv'
<1>1. /\ TypeOK
      /\ live \subseteq Conversations /\ files \in [Conversations -> File]
      /\ active \subseteq Conversations \X Messages /\ sent \subseteq Sends
      /\ history \in [Sends -> SUBSET Message] /\ acked \subseteq Sends
      /\ local \in [Sends -> Local]
  BY DEF TypeInv, TypeOK
<1>2. /\ ConvOf[s] \in Conversations /\ MsgOf[s] \in Messages /\ s \in Tasks
      /\ Key(s) \in Conversations \X Messages
  BY SendFacts
<1>3. /\ {"done", "loaded", "stored", "fetching"} \subseteq Statuses
      /\ "done" \notin InSection /\ "fetching" \notin InSection
      /\ "loaded" \in InSection /\ "stored" \in InSection
  BY DEF Statuses, Preparing, Generating, InSection
<1>4. [local EXCEPT ![s] = Fresh] \in [Sends -> Local]
  BY <1>1, LocalFreshType
<1>5. CASE EndPrepare(s) /\ acked' \in {acked, acked \cup {s}}
  BY <1>1, <1>3, <1>4, <1>5, LeaveSectionType
     DEF EndPrepare, Return, diskVars, sentVars
<1>6. CASE PrepareDraft(s)
  <2>1. [local EXCEPT ![s].draft = Prepared(FileOf(s), MsgOf[s])] \in [Sends -> Local]
    BY <1>1, <1>2, PreparedType, LocalDraftType DEF FileOf
  <2>2. HoldersHaveTurn' /\ SavingHasStatus'
    <3>1. \A u \in Tasks : HasTurn(u) => HasTurn(u)'
      BY <1>6 DEF PrepareDraft, HasTurn
    <3>2. QED
      BY <1>1, <1>2, <1>3, <1>6, <2>1, <3>1, QuietStep DEF PrepareDraft
  <2>3. TypeOK'
    BY <1>1, <1>3, <1>6, <2>1, SendGotoType
       DEF PrepareDraft, TypeOK, diskVars, sentVars
  <2>4. QED
    BY <2>2, <2>3 DEF TypeInv
<1>7. CASE StorePrepared(s)
  <2>1. HasTurn(s)
    BY <1>3, <1>7 DEF StorePrepared, Goto, TypeInv, HoldersHaveTurn
  <2>2. \A u \in Tasks : HasTurn(u) => HasTurn(u)'
    BY <1>7 DEF StorePrepared, HasTurn
  <2>3. HoldersHaveTurn' /\ SavingHasStatus'
    BY <1>1, <1>2, <1>3, <1>7, <2>1, <2>2, QuietStep DEF StorePrepared
  <2>4. live' \subseteq Conversations /\ files' \in [Conversations -> File]
    BY <1>1, <1>2, <1>7 DEF StorePrepared, WriteDraft, Local
  <2>5. TypeOK'
    BY <1>1, <1>3, <1>7, <2>4, SendGotoType
       DEF StorePrepared, TypeOK, sentVars
  <2>6. QED
    BY <2>3, <2>5 DEF TypeInv
<1>8. CASE StorePreparedFails(s)
  <2>1. HasTurn(s)
    BY <1>3, <1>8 DEF StorePreparedFails, Return, Goto, TypeInv, HoldersHaveTurn
  <2>2. QED
    BY <1>1, <1>3, <1>4, <1>8, <2>1, LeaveSectionType
       DEF StorePreparedFails, Return, diskVars, sentVars
<1>9. CASE Dispatch(s)
  <2>1. HasTurn(s)
    BY <1>3, <1>9 DEF Dispatch, Goto, TypeInv, HoldersHaveTurn
  <2>2. local' \in [Sends -> Local] /\ \A t \in Sends : t # s => local'[t] = local[t]
    BY <1>1, <1>9, LocalDraftType, EmptyFileType DEF Dispatch
  <2>3. history' \in [Sends -> SUBSET Message]
    <3>1. local[s].draft \in File
      BY <1>1 DEF Local
    <3>2. QED
      BY <1>1, <1>2, <1>9, <3>1, HistoryType DEF Dispatch
  <2>4. active' \subseteq Conversations \X Messages /\ sent' \subseteq Sends
    BY <1>1, <1>2, <1>9 DEF Dispatch
  <2>5. QED
    BY <1>1, <1>3, <1>9, <2>1, <2>2, <2>3, <2>4, LeaveSectionType
       DEF Dispatch, diskVars
<1>10. QED
  BY <1>5, <1>6, <1>7, <1>8, <1>9
     DEF Prepare, PrepareMissing, PrepareReplay, PrepareFull

LEMMA StreamType ==
    ASSUME TypeInv, NEW s \in Sends,
           NoStream(s) \/ StreamOpens(s) \/ Chunk(s) \/ EndStream(s)
    PROVE  TypeInv'
<1>1. TypeOK /\ local \in [Sends -> Local] /\ active \subseteq Conversations \X Messages
  BY DEF TypeInv, TypeOK
<1>2. s \in Tasks
  BY SendFacts
<1>3. /\ {"done", "streaming", "saving"} \subseteq Statuses
      /\ "done" \notin InSection /\ "streaming" \notin InSection
      /\ "saving" \notin InSection
  BY DEF Statuses, Generating, InSection
<1>4. CASE /\ \E from \in {"fetching", "streaming"} : ReturnAndForget(s, from)
           /\ UNCHANGED <<diskVars, creating, blind, queue, sentVars, acked>>
  <2>1. PICK from \in {"fetching", "streaming"} : ReturnAndForget(s, from)
    BY <1>4
  <2>2. local' \in [Sends -> Local] /\ \A t \in Sends : t # s => local'[t] = local[t]
    BY <1>1, <2>1, LocalFreshType DEF ReturnAndForget, Return
  <2>3. \A u \in Tasks : HasTurn(u) => HasTurn(u)'
    BY <1>4 DEF HasTurn
  <2>4. HoldersHaveTurn' /\ SavingHasStatus'
    BY <1>3, <2>1, <2>2, <2>3, QuietStep DEF ReturnAndForget, Return
  <2>5. TypeOK'
    BY <1>1, <1>3, <1>4, <2>1, <2>2, SendGotoType
       DEF ReturnAndForget, Return, TypeOK, diskVars, sentVars
  <2>6. QED
    BY <2>4, <2>5 DEF TypeInv
<1>5. CASE StreamOpens(s)
  <2>1. \A u \in Tasks : HasTurn(u) => HasTurn(u)'
    BY <1>5 DEF StreamOpens, HasTurn
  <2>2. HoldersHaveTurn' /\ SavingHasStatus'
    BY <1>1, <1>3, <1>5, <2>1, QuietStep DEF StreamOpens
  <2>3. TypeOK'
    BY <1>1, <1>3, <1>5, SendGotoType DEF StreamOpens, TypeOK, diskVars, sentVars
  <2>4. QED
    BY <2>2, <2>3 DEF TypeInv
<1>6. CASE Chunk(s)
  <2>1. local' \in [Sends -> Local]
    BY <1>1, <1>6, LocalReceiveType DEF Chunk, TokenArrives, ResultArrives, Receive
  <2>2. \A t \in Sends : local'[t].reply = local[t].reply
    BY <1>1, <1>6 DEF Chunk, TokenArrives, ResultArrives, Receive, Local
  <2>3. TypeOK'
    BY <1>1, <1>6, <2>1
       DEF Chunk, TokenArrives, ResultArrives, Receive, TypeOK, diskVars, sentVars
  <2>4. HoldersHaveTurn' /\ SavingHasStatus'
    BY <1>6, <2>2
       DEF Chunk, TokenArrives, ResultArrives, Receive, TypeInv, HoldersHaveTurn,
           HasTurn, SavingHasStatus
  <2>5. QED
    BY <2>3, <2>4 DEF TypeInv
<1>7. CASE \E status \in {"stopped", "complete"} : Save(s, status)
  <2>1. PICK status \in {"stopped", "complete"} : Save(s, status)
    BY <1>7
  <2>2. /\ queue' \in [Conversations -> Seq(Tasks)]
        /\ \A u \in Tasks : HasTurn(u) => HasTurn(u)'
    BY <1>1, <1>2, <2>1, EnqueueTurns DEF Save
  <2>3. /\ local' \in [Sends -> Local]
        /\ local'[s].reply \in {"stopped", "complete"}
        /\ \A t \in Sends : t # s => local'[t] = local[t]
    BY <1>1, <2>1, LocalReplyType DEF Save, Local
  <2>4. HoldersHaveTurn' /\ SavingHasStatus'
    BY <1>3, <2>1, <2>2, <2>3, QuietStep DEF Save
  <2>5. TypeOK'
    BY <1>1, <1>3, <2>1, <2>2, <2>3, SendGotoType
       DEF Save, TypeOK, diskVars, sentVars
  <2>6. QED
    BY <2>4, <2>5 DEF TypeInv
<1>8. QED
  BY <1>4, <1>5, <1>6, <1>7
     DEF NoStream, EndStream, StreamFails, StreamStopped, StreamCompletes

LEMMA PersistType ==
    ASSUME TypeInv, NEW s \in Sends, Persist(s)
    PROVE  TypeInv'
<1>1. /\ TypeOK
      /\ live \subseteq Conversations /\ files \in [Conversations -> File]
      /\ active \subseteq Conversations \X Messages /\ sent \subseteq Sends
      /\ history \in [Sends -> SUBSET Message] /\ acked \subseteq Sends
      /\ local \in [Sends -> Local]
  BY DEF TypeInv, TypeOK
<1>2. ConvOf[s] \in Conversations /\ MsgOf[s] \in Messages /\ s \in Tasks
  BY SendFacts
<1>3. /\ {"done", "saveLoaded", "saveStored"} \subseteq Statuses
      /\ "done" \notin InSection
      /\ "saveLoaded" \in InSection /\ "saveStored" \in InSection
  BY DEF Statuses, Generating, InSection
<1>4. CASE /\ \E from \in {"saving", "saveLoaded", "saveStored"} :
                 ReturnAndForget(s, from) /\ HasTurn(s)
           /\ Release(s)
           /\ acked' \in {acked, acked \cup {s}}
           /\ UNCHANGED <<diskVars, creating, blind, sentVars>>
  <2>1. PICK from \in {"saving", "saveLoaded", "saveStored"} :
               ReturnAndForget(s, from) /\ HasTurn(s)
    BY <1>4
  <2>2. local' \in [Sends -> Local] /\ \A t \in Sends : t # s => local'[t] = local[t]
    BY <1>1, <2>1, LocalFreshType DEF ReturnAndForget, Return
  <2>3. QED
    BY <1>1, <1>3, <1>4, <2>1, <2>2, LeaveSectionType
       DEF ReturnAndForget, Return, diskVars, sentVars
<1>5. CASE SaveDropped(s)
  BY <1>4, <1>5 DEF SaveDropped, TellResult
<1>6. CASE SaveDraft(s)
  <2>1. local[s].reply \in {"stopped", "complete"}
    BY <1>6 DEF SaveDraft, Goto, TypeInv, SavingHasStatus
  <2>2. /\ local' \in [Sends -> Local]
        /\ local'[s].reply = local[s].reply
        /\ \A t \in Sends : t # s => local'[t] = local[t]
    <3>1. WithReply(FileOf(s), MsgOf[s], local[s].reply) \in File
      BY <1>1, <1>2, <2>1, WithReplyType DEF FileOf
    <3>2. local' \in [Sends -> Local]
      BY <1>1, <1>6, <3>1, LocalDraftType DEF SaveDraft
    <3>3. QED
      BY <1>1, <1>6, <3>2 DEF SaveDraft, Local
  <2>3. \A u \in Tasks : HasTurn(u) => HasTurn(u)'
    BY <1>6 DEF SaveDraft, HasTurn
  <2>4. HoldersHaveTurn' /\ SavingHasStatus'
    BY <1>2, <1>3, <1>6, <2>1, <2>2, <2>3, QuietStep DEF SaveDraft
  <2>5. TypeOK'
    BY <1>1, <1>3, <1>6, <2>2, SendGotoType DEF SaveDraft, TypeOK, diskVars, sentVars
  <2>6. QED
    BY <2>4, <2>5 DEF TypeInv
<1>7. CASE StoreReply(s)
  <2>1. HasTurn(s) /\ local[s].reply \in {"stopped", "complete"}
    BY <1>3, <1>7 DEF StoreReply, Goto, TypeInv, HoldersHaveTurn, SavingHasStatus
  <2>2. \A u \in Tasks : HasTurn(u) => HasTurn(u)'
    BY <1>7 DEF StoreReply, HasTurn
  <2>3. HoldersHaveTurn' /\ SavingHasStatus'
    BY <1>1, <1>2, <1>3, <1>7, <2>1, <2>2, QuietStep DEF StoreReply
  <2>4. live' \subseteq Conversations /\ files' \in [Conversations -> File]
    BY <1>1, <1>2, <1>7 DEF StoreReply, WriteDraft, Local
  <2>5. TypeOK'
    BY <1>1, <1>3, <1>7, <2>4, SendGotoType DEF StoreReply, TypeOK, sentVars
  <2>6. QED
    BY <2>3, <2>5 DEF TypeInv
<1>8. CASE StoreReplyFails(s) \/ Finish(s)
  <2>1. HasTurn(s)
    BY <1>3, <1>8
       DEF StoreReplyFails, Finish, ReturnAndForget, Return, Goto, TypeInv,
           HoldersHaveTurn
  <2>2. QED
    BY <1>4, <1>8, <2>1 DEF StoreReplyFails, Finish, TellResult
<1>9. QED
  BY <1>5, <1>6, <1>7, <1>8 DEF Persist

LEMMA ClientLeavesType ==
    ASSUME TypeInv, NEW s \in Sends, ClientLeaves(s)
    PROVE  TypeInv'
<1>1. TypeOK /\ local \in [Sends -> Local]
  BY DEF TypeInv, TypeOK
<1>2. (pc[s] \in Generating) \in BOOLEAN
  OBVIOUS
<1>3. local' \in [Sends -> Local]
  BY <1>1, <1>2, LocalGoneType DEF ClientLeaves
<1>4. \A t \in Sends : local'[t].reply = local[t].reply
  BY <1>1 DEF ClientLeaves, Local
<1>5. TypeOK'
  BY <1>1, <1>3 DEF ClientLeaves, TypeOK, diskVars, sentVars
<1>6. HoldersHaveTurn' /\ SavingHasStatus'
  BY <1>4 DEF ClientLeaves, TypeInv, HoldersHaveTurn, HasTurn, SavingHasStatus
<1>7. QED
  BY <1>5, <1>6 DEF TypeInv

LEMMA CrashType ==
    ASSUME TypeInv, Crash
    PROVE  TypeInv'
<1>1. /\ pc' \in [Tasks -> Statuses]
      /\ \A d \in Deletes : pc'[d] \in {"idle", "queued", "done"}
      /\ \A t \in Tasks : pc'[t] \in {"idle", "done"}
  BY TasksAssumption DEF Crash, Statuses, Tasks
<1>2. /\ creating' \in [Conversations -> {"unborn", "counted", "born"}]
      /\ queue' \in [Conversations -> Seq(Tasks)]
      /\ local' \in [Sends -> Local]
      /\ active' \subseteq Conversations \X Messages
  BY FreshType DEF Crash, TypeInv, TypeOK
<1>3. TypeOK'
  BY <1>1, <1>2 DEF Crash, TypeInv, TypeOK, diskVars, sentVars
<1>4. HoldersHaveTurn' /\ SavingHasStatus'
  BY <1>1, SendFacts DEF HoldersHaveTurn, SavingHasStatus, InSection
<1>5. QED
  BY <1>3, <1>4 DEF TypeInv

LEMMA StepTypeInv == TypeInv /\ [Next]_vars => TypeInv'
<1> SUFFICES ASSUME TypeInv, [Next]_vars PROVE TypeInv'
  OBVIOUS
<1>1. ASSUME NEW c \in Conversations, Create(c) PROVE TypeInv'
  BY <1>1, ConversationStepsType
<1>2. ASSUME NEW d \in Deletes, Delete(d) PROVE TypeInv'
  BY <1>2, DeleteStepsType
<1>3. ASSUME NEW s \in Sends, Send(s) PROVE TypeInv'
  BY <1>3, ArriveType, PrepareType, StreamType, PersistType, ClientLeavesType
     DEF Send
<1>4. CASE UNCHANGED vars
  BY <1>4 DEF vars, TypeInv, TypeOK, HoldersHaveTurn, HasTurn, SavingHasStatus
<1>5. QED
  BY <1>1, <1>2, <1>3, <1>4, CrashType DEF Next

\* Every variable of the gateway keeps its shape in every behaviour.
THEOREM TypeCorrect == Spec => []TypeOK
<1>1. TypeInv => TypeOK
  BY DEF TypeInv
<1>2. QED
  BY <1>1, InitTypeInv, StepTypeInv, PTL DEF Spec

\* The promise chain serialises the writers of a conversation: two handlers are
\* never both between the read and the write of one file.
THEOREM WritersAreSerialized == Spec => []WritersSerialized
<1>1. TypeInv => WritersSerialized
  BY SendFacts DEF TypeInv, HoldersHaveTurn, HasTurn, WritersSerialized
<1>2. QED
  BY <1>1, InitTypeInv, StepTypeInv, PTL DEF Spec

-----------------------------------------------------------------------------
(* What the conversation files hold in every behaviour, races between copies *)
(* of a send, failed writes, deletions and crashes included.                 *)

Asked(f) == {x \in f.msgs : x.role = "user"}

\* A file as the gateway leaves it.
WellFormed(f) ==
    /\ IsFiniteSet(f.msgs)
    /\ \A x \in f.msgs : x.at <= f.pushes /\ (x.role = "user" <=> x.status = "sent")
    /\ \A x, y \in f.msgs : x.role = y.role /\ x.re = y.re => x = y
    /\ \A x \in f.msgs : x.role = "assistant" =>
          \E q \in f.msgs : q.role = "user" /\ q.re = x.re /\ q.at < x.at
    /\ Cardinality(Asked(f)) <= MaxMessages

LEMMA EmptyWellFormed == WellFormed(EmptyFile)
<1>1. Asked(EmptyFile) = {} /\ EmptyFile.msgs = {}
  BY DEF EmptyFile, Asked
<1>2. QED
  BY <1>1, FS_EmptySet, LimitsAssumption DEF WellFormed

LEMMA AskedFinite ==
    ASSUME NEW f \in File, IsFiniteSet(f.msgs)
    PROVE  /\ IsFiniteSet(Asked(f)) /\ Cardinality(Asked(f)) \in Nat
           /\ Cardinality(f.msgs) \in Nat
           /\ Cardinality(Asked(f)) <= Cardinality(f.msgs)
BY FS_Subset, FS_CardinalityType DEF Asked

\* A question that is not there yet is pushed behind everything else.
LEMMA PushQuestion ==
    ASSUME NEW f \in File, NEW m \in Messages, WellFormed(f),
           Questions(f, m) = {}, ~Full(f)
    PROVE  WellFormed(Push(f, "user", m, "sent"))
<1> DEFINE q == [role |-> "user", re |-> m, status |-> "sent", at |-> f.pushes + 1]
           g == Push(f, "user", m, "sent")
<1>1. /\ g.msgs = f.msgs \cup {q} /\ g.pushes = f.pushes + 1 /\ f.pushes \in Nat
      /\ \A x \in f.msgs : x \in Message /\ x.at <= f.pushes /\ x.at \in Nat
  BY DEF Push, WellFormed, File, Message
<1>2. \A x \in f.msgs : ~(x.role = "user" /\ x.re = m)
  BY DEF Questions
<1>3. IsFiniteSet(g.msgs)
  <2>1. IsFiniteSet(f.msgs)
    BY DEF WellFormed
  <2>2. IsFiniteSet(f.msgs \cup {q})
    BY <2>1, FS_AddElement
  <2>3. QED
    BY <1>1, <2>2
<1>4. Asked(g) = Asked(f) \cup {q}
  BY <1>1 DEF Asked
<1>5. Cardinality(Asked(g)) <= MaxMessages
  <2>1. IsFiniteSet(f.msgs)
    BY DEF WellFormed
  <2>2. /\ IsFiniteSet(Asked(f)) /\ Cardinality(Asked(f)) \in Nat
        /\ Cardinality(f.msgs) \in Nat
        /\ Cardinality(Asked(f)) <= Cardinality(f.msgs)
    BY <2>1, AskedFinite
  <2>3. Cardinality(Asked(f) \cup {q})
            = IF q \in Asked(f) THEN Cardinality(Asked(f)) ELSE Cardinality(Asked(f)) + 1
    BY <2>2, FS_AddElement
  <2>4. QED
    BY <1>4, <2>2, <2>3, LimitsAssumption DEF Full
<1>6. \A x \in g.msgs : x.at <= g.pushes /\ (x.role = "user" <=> x.status = "sent")
  BY <1>1 DEF WellFormed
<1>7. \A x, y \in g.msgs : x.role = y.role /\ x.re = y.re => x = y
  BY <1>1, <1>2 DEF WellFormed
<1>8. \A x \in g.msgs : x.role = "assistant" =>
          \E p \in g.msgs : p.role = "user" /\ p.re = x.re /\ p.at < x.at
  BY <1>1 DEF WellFormed
<1>9. QED
  BY <1>3, <1>5, <1>6, <1>7, <1>8 DEF WellFormed

\* Dropping replies leaves a well-formed file with the same questions.
LEMMA DropReplies ==
    ASSUME NEW f \in File, WellFormed(f), NEW S \in SUBSET f.msgs,
           \A x \in f.msgs : x.role = "user" => x \in S
    PROVE  /\ WellFormed([f EXCEPT !.msgs = S])
           /\ \A m \in Messages : Questions([f EXCEPT !.msgs = S], m) = Questions(f, m)
<1> DEFINE g == [f EXCEPT !.msgs = S]
<1>1. g.msgs = S /\ g.pushes = f.pushes
  BY DEF File
<1>2. IsFiniteSet(S)
  BY FS_Subset DEF WellFormed
<1>3. Asked(g) = Asked(f)
  BY <1>1 DEF Asked
<1>4. \A x \in S : x.role = "assistant" =>
          \E q \in S : q.role = "user" /\ q.re = x.re /\ q.at < x.at
  BY DEF WellFormed
<1>5. WellFormed(g)
  BY <1>1, <1>2, <1>3, <1>4 DEF WellFormed
<1>6. \A m \in Messages : Questions(g, m) = Questions(f, m)
  BY <1>1 DEF Questions
<1>7. QED
  BY <1>5, <1>6

LEMMA PreparedWellFormed ==
    ASSUME NEW f \in File, NEW m \in Messages, WellFormed(f),
           Questions(f, m) = {} => ~Full(f)
    PROVE  /\ WellFormed(Prepared(f, m))
           /\ Questions(Prepared(f, m), m) # {}
           /\ \A x \in f.msgs : x.role = "user" \/ x.status = "complete"
                 => x \in Prepared(f, m).msgs
<1>1. CASE Questions(f, m) # {}
  <2> DEFINE S == {x \in f.msgs : x \in Replies(f, m) => x.status = "complete"}
  <2>1. Prepared(f, m) = [f EXCEPT !.msgs = S] /\ Prepared(f, m).msgs = S
    BY <1>1 DEF Prepared, File
  <2>2. \A x \in f.msgs : x.role = "user" \/ x.status = "complete" => x \in S
    BY DEF Replies
  <2>3. S \in SUBSET f.msgs /\ \A x \in f.msgs : x.role = "user" => x \in S
    BY <2>2
  <2>4. /\ WellFormed([f EXCEPT !.msgs = S])
        /\ \A n \in Messages : Questions([f EXCEPT !.msgs = S], n) = Questions(f, n)
    BY <2>3, DropReplies
  <2>5. QED
    BY <1>1, <2>1, <2>2, <2>4
<1>2. CASE Questions(f, m) = {}
  <2>1. Prepared(f, m) = Push(f, "user", m, "sent")
    BY <1>2 DEF Prepared
  <2> DEFINE q == [role |-> "user", re |-> m, status |-> "sent", at |-> f.pushes + 1]
  <2>2. /\ Prepared(f, m).msgs = f.msgs \cup {q}
        /\ q \in Prepared(f, m).msgs /\ q.role = "user" /\ q.re = m
    BY <2>1 DEF Push
  <2>3. WellFormed(Prepared(f, m))
    BY <1>2, <2>1, PushQuestion
  <2>4. QED
    BY <2>2, <2>3 DEF Questions
<1>3. QED
  BY <1>1, <1>2

LEMMA WithReplyWellFormed ==
    ASSUME NEW f \in File, NEW m \in Messages, NEW status \in {"stopped", "complete"},
           WellFormed(f), Questions(f, m) # {}
    PROVE  /\ WellFormed(WithReply(f, m, status))
           /\ \A n \in Messages : Questions(WithReply(f, m, status), n) = Questions(f, n)
           /\ \A x \in f.msgs : x \notin Replies(f, m) => x \in WithReply(f, m, status).msgs
<1> DEFINE S == f.msgs \ Replies(f, m)
           e == [f EXCEPT !.msgs = S]
           r == [role |-> "assistant", re |-> m, status |-> status,
                 at |-> f.pushes + 1]
           g == WithReply(f, m, status)
<1>1. \A x \in f.msgs : x.role = "user" => x \in S
  BY DEF Replies
<1>2. WellFormed(e) /\ \A n \in Messages : Questions(e, n) = Questions(f, n)
  BY <1>1, DropReplies
<1>3. e.msgs = S /\ e.pushes = f.pushes /\ f.pushes \in Nat
  BY DEF File
<1>4. g.msgs = S \cup {r} /\ g.pushes = f.pushes + 1
  BY <1>3 DEF WithReply, Push
<1>5. \A x \in S : x \in Message /\ x.at <= f.pushes /\ x.at \in Nat
  BY DEF WellFormed, File, Message
<1>6. PICK q \in S : q.role = "user" /\ q.re = m
  BY <1>1 DEF Questions
<1>7. IsFiniteSet(g.msgs)
  <2>1. IsFiniteSet(S)
    BY <1>2, <1>3 DEF WellFormed
  <2>2. IsFiniteSet(S \cup {r})
    BY <2>1, FS_AddElement
  <2>3. QED
    BY <1>4, <2>2
<1>8. Asked(g) = Asked(e)
  BY <1>3, <1>4 DEF Asked
<1>9. \A x \in g.msgs : x.at <= g.pushes /\ (x.role = "user" <=> x.status = "sent")
  BY <1>3, <1>4, <1>5 DEF WellFormed
<1>10. \A x, y \in g.msgs : x.role = y.role /\ x.re = y.re => x = y
  <2>1. \A x \in S : ~(x.role = "assistant" /\ x.re = m)
    BY DEF Replies
  <2>2. QED
    BY <1>2, <1>3, <1>4, <2>1 DEF WellFormed
<1>11. \A x \in g.msgs : x.role = "assistant" =>
          \E p \in g.msgs : p.role = "user" /\ p.re = x.re /\ p.at < x.at
  <2>1. \A x \in S : x.role = "assistant" =>
          \E p \in S : p.role = "user" /\ p.re = x.re /\ p.at < x.at
    BY <1>2, <1>3 DEF WellFormed
  <2>2. q.at < r.at
    BY <1>3, <1>5
  <2>3. QED
    BY <1>4, <1>6, <2>1, <2>2
<1>12. WellFormed(g)
  BY <1>2, <1>7, <1>8, <1>9, <1>10, <1>11 DEF WellFormed
<1>13. \A n \in Messages : Questions(g, n) = Questions(f, n)
  BY <1>2, <1>3, <1>4 DEF Questions
<1>14. QED
  BY <1>4, <1>12, <1>13
-----------------------------------------------------------------------------
(* The inductive invariant.                                                 *)

\* Handlers hold a turn only on conversations that were created.
Born ==
    /\ \A c \in live : creating[c] = "born"
    /\ \A t \in Tasks : pc[t] # "idle" => creating[ConvOf[t]] = "born"

\* What a handler is about to write was computed from the file as it is now:
\* nobody else can have changed it since it was read.
DraftsCurrent ==
    \A s \in Sends :
        /\ pc[s] = "loaded" =>
              /\ ConvOf[s] \in live
              /\ local[s].draft = Prepared(FileOf(s), MsgOf[s])
              /\ Questions(FileOf(s), MsgOf[s]) = {}
                    => ~Full(FileOf(s))
        /\ pc[s] = "saveLoaded" =>
              /\ ConvOf[s] \in live
              /\ local[s].draft = WithReply(FileOf(s), MsgOf[s], local[s].reply)
        /\ pc[s] \in {"stored", "saveStored"} =>
              /\ ConvOf[s] \in live
              /\ local[s].draft = FileOf(s)

\* From the store on, the question is in the file as long as there is one.
HasQuestion ==
    \A s \in Sends :
        pc[s] \in {"stored"} \cup Generating /\ ConvOf[s] \in live
            => Questions(FileOf(s), MsgOf[s]) # {}

FilesWellFormed == \A c \in Conversations : WellFormed(files[c])

FileInv == Born /\ DraftsCurrent /\ HasQuestion /\ FilesWellFormed

\* What a step may do to the files: nothing, create one, delete one, or rewrite
\* one in the ways the two sections do.
Rewrites(s) ==
    \/ /\ pc[s] = "loaded"
       /\ files' = [files EXCEPT ![ConvOf[s]] = Prepared(@, MsgOf[s])]
       /\ Questions(FileOf(s), MsgOf[s]) = {}
             => ~Full(FileOf(s))
    \/ /\ pc[s] = "saveLoaded"
       /\ files' = [files EXCEPT ![ConvOf[s]] =
                        WithReply(@, MsgOf[s], local[s].reply)]
       /\ Questions(FileOf(s), MsgOf[s]) # {}
       /\ local[s].reply \in {"stopped", "complete"}

\* A rewrite keeps the file well formed and every question in it.
LEMMA RewriteKeeps ==
    ASSUME TypeInv, FileInv, NEW s \in Sends, Rewrites(s)
    PROVE  /\ FilesWellFormed'
           /\ \A c \in Conversations, m \in Messages :
                 Questions(files[c], m) \subseteq Questions(files'[c], m)
           /\ Questions(files'[ConvOf[s]], MsgOf[s]) # {}
           /\ \A c \in Conversations : c # ConvOf[s] => files'[c] = files[c]
<1>1. /\ ConvOf[s] \in Conversations /\ MsgOf[s] \in Messages
      /\ files \in [Conversations -> File] /\ FileOf(s) \in File
      /\ FileOf(s) = files[ConvOf[s]]
      /\ \A c \in Conversations : WellFormed(files[c]) /\ files[c] \in File
  BY SendFacts DEF TypeInv, TypeOK, FileOf, FileInv, FilesWellFormed
<1>2. \A c \in Conversations : c # ConvOf[s] => files'[c] = files[c]
  BY <1>1 DEF Rewrites
<1>3. /\ WellFormed(files'[ConvOf[s]])
      /\ \A m \in Messages : Questions(FileOf(s), m) \subseteq Questions(files'[ConvOf[s]], m)
      /\ Questions(files'[ConvOf[s]], MsgOf[s]) # {}
  <2>1. CASE pc[s] = "loaded"
    <3>1. /\ files'[ConvOf[s]] = Prepared(FileOf(s), MsgOf[s])
          /\ Questions(FileOf(s), MsgOf[s]) = {}
                => ~Full(FileOf(s))
      BY <1>1, <2>1 DEF Rewrites
    <3>2. QED
      BY <1>1, <3>1, PreparedWellFormed DEF Questions
  <2>2. CASE pc[s] = "saveLoaded"
    <3>1. /\ files'[ConvOf[s]] = WithReply(FileOf(s), MsgOf[s], local[s].reply)
          /\ Questions(FileOf(s), MsgOf[s]) # {}
          /\ local[s].reply \in {"stopped", "complete"}
      BY <1>1, <2>2 DEF Rewrites
    <3>2. QED
      BY <1>1, <3>1, WithReplyWellFormed
  <2>3. QED
    BY <2>1, <2>2 DEF Rewrites
<1>4. QED
  BY <1>1, <1>2, <1>3 DEF FilesWellFormed

LEMMA InitFileInv == Init => FileInv
BY EmptyWellFormed, SendFacts
   DEF Init, FileInv, Born, DraftsCurrent, HasQuestion, FilesWellFormed,
       Generating, Tasks

\* A step of one handler that leaves the files alone.
LEMMA QuietFileStep ==
    ASSUME TypeInv, FileInv, NEW s \in Sends, NEW to \in Statuses, NEW from,
           Goto(s, from, to), UNCHANGED <<diskVars, creating, blind>>,
           creating[ConvOf[s]] = "born",
           \A t \in Sends : t # s => local'[t] = local[t],
           to \notin {"loaded", "stored", "saveLoaded", "saveStored"},
           to \in Generating /\ ConvOf[s] \in live =>
               Questions(FileOf(s), MsgOf[s]) # {}
    PROVE  FileInv'
<1>1. /\ s \in Tasks /\ Sends \subseteq Tasks
      /\ \A t \in Tasks : pc'[t] = IF t = s THEN to ELSE pc[t]
      /\ \A t \in Sends : FileOf(t)' = FileOf(t)
      /\ live' = live /\ files' = files /\ creating' = creating
  BY SendGotoType, SendFacts DEF TypeInv, Tasks, diskVars, FileOf
<1>2. Born'
  BY <1>1 DEF FileInv, Born
<1>3. DraftsCurrent'
  BY <1>1 DEF FileInv, DraftsCurrent
<1>4. HasQuestion'
  BY <1>1 DEF FileInv, HasQuestion
<1>5. FilesWellFormed'
  BY <1>1 DEF FileInv, FilesWellFormed
<1>6. QED
  BY <1>2, <1>3, <1>4, <1>5 DEF FileInv

LEMMA StartedIsBorn ==
    ASSUME FileInv, NEW t \in Tasks, pc[t] # "idle"
    PROVE  creating[ConvOf[t]] = "born"
BY DEF FileInv, Born

\* A handler computes its draft from the file it has the turn on.
LEMMA DraftStep ==
    ASSUME TypeInv, FileInv, NEW s \in Sends, PrepareDraft(s) \/ SaveDraft(s)
    PROVE  FileInv'
<1>1. /\ s \in Tasks /\ Sends \subseteq Tasks
      /\ pc[s] \in {"queued", "saving"}
      /\ pc' = [pc EXCEPT ![s] = IF pc[s] = "queued" THEN "loaded" ELSE "saveLoaded"]
      /\ live' = live /\ files' = files /\ creating' = creating
      /\ \A t \in Sends : FileOf(t)' = FileOf(t)
      /\ ConvOf[s] \in live
      /\ pc \in [Tasks -> Statuses] /\ local \in [Sends -> Local]
  BY SendFacts
     DEF PrepareDraft, SaveDraft, Goto, diskVars, CanRead, TypeInv, TypeOK, Tasks,
         FileOf
<1>2. \A t \in Sends : t # s => local'[t] = local[t]
  BY <1>1 DEF PrepareDraft, SaveDraft
<1>3. Born'
  BY <1>1 DEF FileInv, Born
<1>4. DraftsCurrent'
  <2> SUFFICES ASSUME NEW t \in Sends
               PROVE  /\ pc'[t] = "loaded" =>
                            /\ ConvOf[t] \in live
                            /\ local'[t].draft = Prepared(FileOf(t), MsgOf[t])
                            /\ Questions(FileOf(t), MsgOf[t]) = {}
                                  => ~Full(FileOf(t))
                      /\ pc'[t] = "saveLoaded" =>
                            /\ ConvOf[t] \in live
                            /\ local'[t].draft = WithReply(FileOf(t), MsgOf[t], local'[t].reply)
                      /\ pc'[t] \in {"stored", "saveStored"} =>
                            /\ ConvOf[t] \in live
                            /\ local'[t].draft = FileOf(t)
    BY <1>1 DEF DraftsCurrent
  <2>1. CASE t # s
    BY <1>1, <1>2, <2>1 DEF FileInv, DraftsCurrent
  <2>2. CASE t = s /\ PrepareDraft(s)
    BY <1>1, <2>2 DEF PrepareDraft, Goto, Local
  <2>3. CASE t = s /\ SaveDraft(s)
    BY <1>1, <2>3 DEF SaveDraft, Goto, Local
  <2>4. QED
    BY <2>1, <2>2, <2>3
<1>5. HasQuestion'
  <2>1. pc[s] = "saving" => Questions(FileOf(s), MsgOf[s]) # {}
    BY <1>1 DEF FileInv, HasQuestion, Generating
  <2>2. QED
    BY <1>1, <2>1 DEF FileInv, HasQuestion, Generating
<1>6. FilesWellFormed'
  BY <1>1 DEF FileInv, FilesWellFormed
<1>7. QED
  BY <1>3, <1>4, <1>5, <1>6 DEF FileInv

\* The write of a section is a rewrite of the file as it is now.
LEMMA StoreIsRewrite ==
    ASSUME TypeInv, FileInv, NEW s \in Sends, StorePrepared(s) \/ StoreReply(s)
    PROVE  /\ Rewrites(s)
           /\ live' = live
           /\ files'[ConvOf[s]] = local[s].draft
<1>1. /\ files \in [Conversations -> File] /\ ConvOf[s] \in Conversations
      /\ pc[s] \in {"loaded", "saveLoaded"}
      /\ live' = live \cup {ConvOf[s]}
      /\ files' = [files EXCEPT ![ConvOf[s]] = local[s].draft]
  BY SendFacts DEF TypeInv, TypeOK, StorePrepared, StoreReply, Goto, WriteDraft
<1>2. CASE pc[s] = "loaded"
  BY <1>1, <1>2 DEF FileInv, DraftsCurrent, FileOf, Rewrites
<1>3. CASE pc[s] = "saveLoaded"
  <2>1. /\ ConvOf[s] \in live
        /\ local[s].draft = WithReply(FileOf(s), MsgOf[s], local[s].reply)
    BY <1>3 DEF FileInv, DraftsCurrent
  <2>2. Questions(FileOf(s), MsgOf[s]) # {}
    BY <1>3, <2>1 DEF FileInv, HasQuestion, Generating
  <2>3. local[s].reply \in {"stopped", "complete"}
    BY <1>3 DEF TypeInv, SavingHasStatus
  <2>4. QED
    BY <1>1, <1>3, <2>1, <2>2, <2>3 DEF FileOf, Rewrites
<1>4. QED
  BY <1>1, <1>2, <1>3

LEMMA StoreStep ==
    ASSUME TypeInv, FileInv, NEW s \in Sends, StorePrepared(s) \/ StoreReply(s)
    PROVE  FileInv'
<1>1. /\ Rewrites(s) /\ live' = live /\ files'[ConvOf[s]] = local[s].draft
  BY StoreIsRewrite
<1>2. /\ FilesWellFormed'
      /\ \A c \in Conversations, m \in Messages :
            Questions(files[c], m) \subseteq Questions(files'[c], m)
      /\ Questions(files'[ConvOf[s]], MsgOf[s]) # {}
      /\ \A c \in Conversations : c # ConvOf[s] => files'[c] = files[c]
  BY <1>1, RewriteKeeps
<1>3. /\ s \in Tasks /\ Sends \subseteq Tasks /\ pc[s] \in {"loaded", "saveLoaded"}
      /\ pc' = [pc EXCEPT ![s] = IF pc[s] = "loaded" THEN "stored" ELSE "saveStored"]
      /\ creating' = creating /\ local' = local
      /\ pc \in [Tasks -> Statuses]
  BY SendFacts DEF StorePrepared, StoreReply, Goto, Tasks, TypeInv, TypeOK
<1>4. ConvOf[s] \in live
  BY <1>3 DEF FileInv, DraftsCurrent
<1>5. \A t \in Sends : t # s /\ pc[t] \in InSection => ConvOf[t] # ConvOf[s]
  BY <1>3, SendFacts DEF TypeInv, HoldersHaveTurn, HasTurn, InSection
<1>6. Born'
  BY <1>1, <1>3 DEF FileInv, Born
<1>7. DraftsCurrent'
  <2> SUFFICES ASSUME NEW t \in Sends, pc'[t] \in InSection
               PROVE  /\ pc'[t] = "loaded" =>
                            /\ ConvOf[t] \in live
                            /\ local[t].draft = Prepared(files'[ConvOf[t]], MsgOf[t])
                            /\ Questions(files'[ConvOf[t]], MsgOf[t]) = {}
                                  => ~Full(files'[ConvOf[t]])
                      /\ pc'[t] = "saveLoaded" =>
                            /\ ConvOf[t] \in live
                            /\ local[t].draft =
                                  WithReply(files'[ConvOf[t]], MsgOf[t], local[t].reply)
                      /\ pc'[t] \in {"stored", "saveStored"} =>
                            /\ ConvOf[t] \in live
                            /\ local[t].draft = files'[ConvOf[t]]
    BY <1>1, <1>3 DEF DraftsCurrent, InSection, FileOf
  <2>1. CASE t = s
    BY <1>1, <1>3, <1>4, <2>1
  <2>2. CASE t # s
    <3>1. pc'[t] = pc[t] /\ files'[ConvOf[t]] = FileOf(t)
      BY <1>2, <1>3, <1>5, <2>2, SendFacts DEF FileOf
    <3>2. QED
      BY <3>1 DEF FileInv, DraftsCurrent
  <2>3. QED
    BY <2>1, <2>2
<1>8. HasQuestion'
  <2> SUFFICES ASSUME NEW t \in Sends, pc'[t] \in {"stored"} \cup Generating,
                      ConvOf[t] \in live
               PROVE  Questions(files'[ConvOf[t]], MsgOf[t]) # {}
    BY <1>1, <1>3 DEF HasQuestion, FileOf
  <2>1. CASE t = s
    BY <1>2, <2>1
  <2>2. CASE t # s
    <3>1. Questions(files[ConvOf[t]], MsgOf[t]) # {}
      BY <1>3, <2>2 DEF FileInv, HasQuestion, FileOf
    <3>2. QED
      BY <1>2, <3>1, SendFacts
  <2>3. QED
    BY <2>1, <2>2
<1>9. QED
  BY <1>2, <1>6, <1>7, <1>8 DEF FileInv

LEMMA SendFileStep ==
    ASSUME TypeInv, FileInv, NEW s \in Sends, Send(s)
    PROVE  FileInv'
<1>1. /\ s \in Tasks /\ local \in [Sends -> Local]
      /\ {"done", "queued", "fetching", "streaming", "saving"} \subseteq Statuses
      /\ "done" \notin Generating /\ "queued" \notin Generating
  BY SendFacts DEF TypeInv, TypeOK, Statuses, Preparing, Generating
<1>2. CASE Arrive(s)
  BY <1>1, <1>2, QuietFileStep
     DEF Arrive, Refuse, AcceptSend, MayArrive, diskVars
<1>3. CASE \E from \in {"queued", "loaded", "fetching", "streaming", "saving",
                        "saveLoaded", "saveStored"} :
              Return(s, from) /\ UNCHANGED <<diskVars, creating, blind>>
  <2>1. PICK from \in {"queued", "loaded", "fetching", "streaming", "saving",
                       "saveLoaded", "saveStored"} :
              Return(s, from) /\ UNCHANGED <<diskVars, creating, blind>>
    BY <1>3
  <2>2. Goto(s, from, "done") /\ \A t \in Sends : t # s => local'[t] = local[t]
    BY <1>1, <2>1 DEF Return
  <2>3. creating[ConvOf[s]] = "born"
    BY <1>1, <2>1, StartedIsBorn DEF Return, Goto
  <2>4. QED
    BY <1>1, <2>1, <2>2, <2>3, QuietFileStep
<1>4. CASE EndPrepare(s) \/ StorePreparedFails(s)
  BY <1>3, <1>4 DEF EndPrepare, StorePreparedFails
<1>5. CASE Dispatch(s) \/ StreamOpens(s)
           \/ \E status \in {"stopped", "complete"} : Save(s, status)
  <2> DEFINE to == IF pc[s] = "stored" THEN "fetching"
                   ELSE IF pc[s] = "fetching" THEN "streaming" ELSE "saving"
  <2>1. /\ Goto(s, pc[s], to) /\ pc[s] \in {"stored", "fetching", "streaming"}
        /\ \A t \in Sends : t # s => local'[t] = local[t]
        /\ UNCHANGED <<diskVars, creating, blind>>
    BY <1>1, <1>5 DEF Dispatch, StreamOpens, Save, Goto
  <2>2. ConvOf[s] \in live => Questions(FileOf(s), MsgOf[s]) # {}
    BY <2>1 DEF FileInv, HasQuestion, Generating
  <2>3. creating[ConvOf[s]] = "born"
    BY <1>1, <2>1, StartedIsBorn
  <2>4. QED
    BY <1>1, <2>1, <2>2, <2>3, QuietFileStep
<1>6. CASE Chunk(s) \/ ClientLeaves(s)
  <2>1. /\ \A t \in Sends : /\ local'[t].draft = local[t].draft
                            /\ local'[t].reply = local[t].reply
        /\ pc' = pc /\ live' = live /\ files' = files /\ creating' = creating
    BY <1>1, <1>6
       DEF Chunk, TokenArrives, ResultArrives, Receive, ClientLeaves, Local, diskVars
  <2>2. QED
    BY <2>1 DEF FileInv, Born, DraftsCurrent, HasQuestion, FilesWellFormed, FileOf
<1>7. CASE NoStream(s) \/ StreamFails(s) \/ SaveDropped(s) \/ StoreReplyFails(s)
           \/ Finish(s)
  BY <1>3, <1>7
     DEF NoStream, StreamFails, SaveDropped, StoreReplyFails, Finish, ReturnAndForget
<1>8. QED
  BY <1>2, <1>4, <1>5, <1>6, <1>7, DraftStep, StoreStep
     DEF Send, Prepare, PrepareMissing, PrepareReplay, PrepareFull, EndStream,
         StreamStopped, StreamCompletes, Persist

\* No task holds a turn on a conversation that is being created.
LEMMA CreateFileStep ==
    ASSUME TypeInv, FileInv, NEW c \in Conversations, Create(c)
    PROVE  FileInv'
<1>1. /\ \A s \in Sends : ConvOf[s] = c => pc[s] = "idle"
      /\ \A t \in Tasks : ConvOf[t] \in Conversations
      /\ Sends \subseteq Tasks
      /\ creating \in [Conversations -> {"unborn", "counted", "born"}]
      /\ files \in [Conversations -> File] /\ live \subseteq Conversations
  BY TasksAssumption
     DEF FileInv, Born, Create, CountConversations, WriteNewConversation, NewConversationFails, TypeInv,
         TypeOK, Tasks
<1>2. /\ \A d \in Conversations : d # c => files'[d] = files[d]
      /\ pc' = pc /\ local' = local
      /\ \A d \in Conversations : d # c => (d \in live' <=> d \in live)
      /\ files'[c] \in {files[c], EmptyFile}
      /\ creating[c] \in {"unborn", "counted"}
      /\ c \in live' => creating'[c] = "born"
      /\ \A d \in Conversations : d # c => creating'[d] = creating[d]
  BY <1>1 DEF Create, CountConversations, WriteNewConversation, NewConversationFails, diskVars, FileInv, Born
<1>3. Born'
  BY <1>1, <1>2 DEF FileInv, Born, Create, CountConversations,
                    WriteNewConversation, NewConversationFails, diskVars
<1>4. DraftsCurrent' /\ HasQuestion'
  <2>1. \A s \in Sends : pc[s] # "idle" =>
            /\ ConvOf[s] # c /\ FileOf(s)' = FileOf(s)
            /\ (ConvOf[s] \in live' <=> ConvOf[s] \in live)
    BY <1>1, <1>2 DEF FileOf
  <2>2. QED
    BY <1>2, <2>1 DEF FileInv, DraftsCurrent, HasQuestion, Generating
<1>5. FilesWellFormed'
  BY <1>2, EmptyWellFormed DEF FileInv, FilesWellFormed
<1>6. QED
  BY <1>3, <1>4, <1>5 DEF FileInv

\* A delete runs in its turn, so no section is between its read and its write.
LEMMA DeleteFileStep ==
    ASSUME TypeInv, FileInv, NEW d \in Deletes, Delete(d)
    PROVE  FileInv'
<1>1. /\ d \in Tasks /\ d \notin Sends /\ ConvOf[d] \in Conversations
      /\ Sends \subseteq Tasks /\ pc \in [Tasks -> Statuses]
      /\ files \in [Conversations -> File] /\ live \subseteq Conversations
      /\ \A s \in Sends : ConvOf[s] \in Conversations
  BY TasksAssumption DEF Tasks, TypeInv, TypeOK
<1>2. /\ creating' = creating /\ local' = local
      /\ \A s \in Sends : pc'[s] = pc[s]
      /\ creating[ConvOf[d]] = "born"
      /\ \A t \in Tasks : t # d => pc'[t] = pc[t]
  BY <1>1, StartedIsBorn DEF Delete, DeleteArrives, DeleteRuns, Goto
<1>3. Born' /\ live' \subseteq live
  BY <1>1, <1>2
     DEF FileInv, Born, Delete, DeleteArrives, DeleteRuns, diskVars
<1>4. CASE UNCHANGED diskVars
  BY <1>2, <1>3, <1>4
     DEF diskVars, FileInv, DraftsCurrent, HasQuestion, FilesWellFormed, FileOf
<1>5. CASE HasTurn(d) /\ live' = live \ {ConvOf[d]}
           /\ files' = [files EXCEPT ![ConvOf[d]] = EmptyFile]
  <2>1. \A s \in Sends : pc[s] \in InSection => ConvOf[s] # ConvOf[d]
    BY <1>1, <1>5 DEF TypeInv, HoldersHaveTurn, HasTurn
  <2>2. \A s \in Sends : ConvOf[s] # ConvOf[d] =>
            FileOf(s)' = FileOf(s) /\ (ConvOf[s] \in live' <=> ConvOf[s] \in live)
    BY <1>1, <1>5 DEF FileOf
  <2>3. DraftsCurrent'
    BY <1>2, <2>1, <2>2 DEF FileInv, DraftsCurrent, InSection
  <2>4. HasQuestion'
    BY <1>2, <1>5, <2>2 DEF FileInv, HasQuestion
  <2>5. FilesWellFormed'
    BY <1>1, <1>5, EmptyWellFormed DEF FileInv, FilesWellFormed
  <2>6. QED
    BY <1>3, <2>3, <2>4, <2>5 DEF FileInv
<1>6. QED
  BY <1>4, <1>5 DEF Delete, DeleteArrives, DeleteRuns

LEMMA CrashFileStep ==
    ASSUME TypeInv, FileInv, Crash
    PROVE  FileInv'
<1>1. /\ live' = live /\ files' = files
      /\ \A t \in Tasks : pc'[t] \in {"idle", "done"} /\ (pc'[t] # "idle" => pc[t] # "idle")
      /\ \A c \in Conversations : creating[c] = "born" => creating'[c] = "born"
      /\ \A t \in Tasks : ConvOf[t] \in Conversations
      /\ live \subseteq Conversations /\ Sends \subseteq Tasks
  BY TasksAssumption DEF Crash, diskVars, TypeInv, TypeOK, Tasks
<1>2. Born'
  BY <1>1 DEF FileInv, Born
<1>3. DraftsCurrent' /\ HasQuestion' /\ FilesWellFormed'
  BY <1>1 DEF DraftsCurrent, HasQuestion, Generating, FileInv, FilesWellFormed
<1>4. QED
  BY <1>2, <1>3 DEF FileInv

LEMMA StepFileInv == TypeInv /\ FileInv /\ [Next]_vars => FileInv'
<1> SUFFICES ASSUME TypeInv, FileInv, [Next]_vars PROVE FileInv'
  OBVIOUS
<1>1. ASSUME NEW c \in Conversations, Create(c) PROVE FileInv'
  BY <1>1, CreateFileStep
<1>2. ASSUME NEW d \in Deletes, Delete(d) PROVE FileInv'
  BY <1>2, DeleteFileStep
<1>3. ASSUME NEW s \in Sends, Send(s) PROVE FileInv'
  BY <1>3, SendFileStep
<1>4. CASE UNCHANGED vars
  BY <1>4 DEF vars, FileInv, Born, DraftsCurrent, HasQuestion, FilesWellFormed, FileOf
<1>5. QED
  BY <1>1, <1>2, <1>3, <1>4, CrashFileStep DEF Next

LEMMA FileInvariant == Spec => [](TypeInv /\ FileInv)
BY InitTypeInv, InitFileInv, StepTypeInv, StepFileInv, PTL DEF Spec
-----------------------------------------------------------------------------
(* What follows.                                                            *)

\* One question per client_message_id and at most one reply, which stands
\* behind it, whatever races: theorem of the find in the prepare section, of
\* persistReply's filter and of the lock around both.
THEOREM FilesAreSound == Spec => []FilesSound
<1>1. FileInv => QuestionsUnique
  BY DEF FileInv, FilesWellFormed, WellFormed, QuestionsUnique, Questions
<1>2. FileInv => RepliesUnique
  BY DEF FileInv, FilesWellFormed, WellFormed, RepliesUnique, Replies
<1>3. FileInv => RepliesFollowQuestion
  <2> SUFFICES ASSUME FileInv, NEW c \in Conversations, NEW m \in Messages,
                      NEW x \in Replies(files[c], m)
               PROVE  \E q \in Questions(files[c], m) : q.at < x.at
    BY DEF RepliesFollowQuestion
  <2>1. x \in files[c].msgs /\ x.role = "assistant" /\ x.re = m
    BY DEF Replies
  <2>2. PICK q \in files[c].msgs : q.role = "user" /\ q.re = m /\ q.at < x.at
    BY <2>1 DEF FileInv, FilesWellFormed, WellFormed
  <2>3. q \in Questions(files[c], m)
    BY <2>2 DEF Questions
  <2>4. QED
    BY <2>2, <2>3
<1>4. FileInv => FilesSound
  BY <1>1, <1>2, <1>3 DEF FilesSound
<1>5. QED
  BY <1>4, FileInvariant, PTL

\* A well-formed file holds at most one reply per question.
LEMMA WellFormedBounded ==
    ASSUME NEW f \in File, WellFormed(f)
    PROVE  Cardinality(f.msgs) <= 2 * MaxMessages
<1> DEFINE R == {x \in f.msgs : x.role = "assistant"}
           questionOf == [x \in R |-> CHOOSE q \in Asked(f) : q.re = x.re]
<1>1. IsFiniteSet(f.msgs) /\ f.msgs = Asked(f) \cup R /\ R \subseteq f.msgs
  BY DEF WellFormed, Asked, File, Message
<1>2. /\ IsFiniteSet(Asked(f)) /\ Cardinality(Asked(f)) \in Nat
      /\ Cardinality(Asked(f)) <= MaxMessages
  BY <1>1, AskedFinite DEF WellFormed
<1>3. \A x \in R : \E q \in Asked(f) : q.re = x.re
  BY DEF WellFormed, Asked
<1>4. \A x \in R : questionOf[x] \in Asked(f) /\ questionOf[x].re = x.re
  BY <1>3
<1>5. questionOf \in [R -> Asked(f)]
  BY <1>4
<1>6. \A x, y \in R : x.re = y.re => x = y
  BY DEF WellFormed
<1> HIDE DEF questionOf
<1>7. \A x, y \in R : questionOf[x] = questionOf[y] => x = y
  <2> SUFFICES ASSUME NEW x \in R, NEW y \in R, questionOf[x] = questionOf[y]
               PROVE  x = y
    OBVIOUS
  <2>1. questionOf[x].re = x.re /\ questionOf[y].re = y.re
    BY <1>4
  <2>2. QED
    BY <2>1, <1>6
<1>8. questionOf \in Injection(R, Asked(f))
  BY <1>5, <1>7 DEF Injection, IsInjective
<1>9. IsFiniteSet(R) /\ Cardinality(R) <= Cardinality(Asked(f))
  BY <1>2, <1>8, FS_Injection
<1>10. Cardinality(R) \in Nat /\ Cardinality(Asked(f) \cap R) \in Nat
  BY <1>9, <1>2, FS_CardinalityType, FS_Intersection
<1>11. Cardinality(f.msgs) = Cardinality(Asked(f)) + Cardinality(R)
                              - Cardinality(Asked(f) \cap R)
  BY <1>1, <1>2, <1>9, FS_Union
<1>12. QED
  BY <1>2, <1>9, <1>10, <1>11, LimitsAssumption

\* A conversation outgrows MAX_MESSAGES_PER_CONVERSATION by replies only, and
\* by at most one for each of its questions.
THEOREM FilesAreBounded == Spec => []FilesBounded
<1>1. TypeInv /\ FileInv => FilesBounded
  <2> SUFFICES ASSUME TypeInv, FileInv, NEW c \in Conversations
               PROVE  /\ Cardinality({x \in files[c].msgs : x.role = "user"}) <= MaxMessages
                      /\ Cardinality(files[c].msgs) <= 2 * MaxMessages
    BY DEF FilesBounded
  <2>1. files[c] \in File /\ WellFormed(files[c])
    BY DEF TypeInv, TypeOK, FileInv, FilesWellFormed
  <2>2. QED
    BY <2>1, WellFormedBounded DEF WellFormed, Asked
<1>2. QED
  BY <1>1, FileInvariant, PTL

\* The steps that leave every file alone.
LEMMA OtherSteps ==
    ASSUME [Next]_vars,
           \A c \in Conversations : ~Create(c),
           \A d \in Deletes : ~Delete(d),
           \A s \in Sends : ~StorePrepared(s) /\ ~StoreReply(s)
    PROVE  UNCHANGED diskVars
BY DEF Next, Send, Arrive, Refuse, AcceptSend, Prepare, PrepareMissing, PrepareReplay,
       PrepareFull, EndPrepare, PrepareDraft, StorePreparedFails, Dispatch, NoStream,
       StreamOpens, Chunk, TokenArrives, ResultArrives, Receive, EndStream,
       StreamFails, StreamStopped, StreamCompletes, Save, Persist, SaveDropped,
       SaveDraft, StoreReplyFails, Finish, ClientLeaves, Crash, vars, diskVars

\* What any step does to the files.
LEMMA FileSteps ==
    ASSUME TypeInv, FileInv, [Next]_vars
    PROVE  \/ UNCHANGED diskVars
           \/ \E c \in Conversations : WriteNewConversation(c)
           \/ \E d \in Deletes : /\ live' = live \ {ConvOf[d]}
                                 /\ files' = [files EXCEPT ![ConvOf[d]] = EmptyFile]
           \/ \E s \in Sends : Rewrites(s) /\ live' = live
<1>1. ASSUME NEW c \in Conversations, Create(c)
      PROVE  UNCHANGED diskVars \/ WriteNewConversation(c)
  BY <1>1 DEF Create, CountConversations, NewConversationFails
<1>2. ASSUME NEW d \in Deletes, Delete(d)
      PROVE  \/ UNCHANGED diskVars
             \/ /\ live' = live \ {ConvOf[d]}
                /\ files' = [files EXCEPT ![ConvOf[d]] = EmptyFile]
  BY <1>2 DEF Delete, DeleteArrives, DeleteRuns
<1>3. ASSUME NEW s \in Sends, StorePrepared(s) \/ StoreReply(s)
      PROVE  Rewrites(s) /\ live' = live
  BY <1>3, StoreIsRewrite
<1>4. QED
  BY <1>1, <1>2, <1>3, OtherSteps

\* A deleted conversation stays deleted, late replies notwithstanding.
THEOREM DeletedStaysDeleted == Spec => NoResurrection
<1>1. TypeInv /\ FileInv /\ [Next]_vars =>
        [\A c \in Conversations :
            creating[c] = "born" /\ c \notin live => c \notin live']_vars
  <2> SUFFICES ASSUME TypeInv, FileInv, [Next]_vars, NEW c \in Conversations,
                      creating[c] = "born", c \notin live
               PROVE  c \notin live'
    OBVIOUS
  <2>1. QED
    BY FileSteps DEF diskVars, WriteNewConversation
<1>2. QED
  BY <1>1, FileInvariant, PTL DEF Spec, NoResurrection

\* A stored question survives every retry, reply, failure and crash.
THEOREM QuestionsAreKept == Spec => QuestionsKept
<1>1. TypeInv /\ FileInv /\ [Next]_vars =>
        [\A c \in live \cap live' :
            \A x \in files[c].msgs : x.role = "user" => x \in files'[c].msgs]_vars
  <2> SUFFICES ASSUME TypeInv, FileInv, [Next]_vars, NEW c \in live, c \in live',
                      NEW x \in files[c].msgs, x.role = "user"
               PROVE  x \in files'[c].msgs
    OBVIOUS
  <2>1. c \in Conversations /\ files \in [Conversations -> File] /\ creating[c] = "born"
    BY DEF TypeInv, TypeOK, FileInv, Born
  <2>2. CASE UNCHANGED diskVars
    BY <2>2 DEF diskVars
  <2>3. ASSUME NEW e \in Conversations, WriteNewConversation(e) PROVE x \in files'[c].msgs
    BY <2>1, <2>3 DEF WriteNewConversation
  <2>4. ASSUME NEW d \in Deletes, live' = live \ {ConvOf[d]},
               files' = [files EXCEPT ![ConvOf[d]] = EmptyFile]
        PROVE  x \in files'[c].msgs
    BY <2>1, <2>4
  <2>5. ASSUME NEW s \in Sends, Rewrites(s) PROVE x \in files'[c].msgs
    <3>1. x.re \in Messages
      BY <2>1 DEF File, Message
    <3>2. Questions(files[c], x.re) \subseteq Questions(files'[c], x.re)
      BY <2>1, <2>5, <3>1, RewriteKeeps
    <3>3. QED
      BY <3>2 DEF Questions
  <2>6. QED
    BY <2>2, <2>3, <2>4, <2>5, FileSteps
<1>2. QED
  BY <1>1, FileInvariant, PTL DEF Spec, QuestionsKept
=============================================================================
