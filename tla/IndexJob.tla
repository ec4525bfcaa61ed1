------------------------------ MODULE IndexJob ------------------------------
(***************************************************************************)
(* The index job of Local RAG (services/local-rag/app/index_jobs.py) and the *)
(* POST /index handler around it (main.py).  Handlers run in the server's    *)
(* thread pool; begin, succeed and fail each hold the manager's lock over the *)
(* change in memory and the write of the status file, so each is one step.   *)
(* The process may die between any two steps and is started again, and so may *)
(* the host, which loses what it had not flushed.                            *)
(*                                                                           *)
(* A definition named Wrong... is a plausible bug, used by no action.        *)
(***************************************************************************)
EXTENDS Naturals

CONSTANTS
    Requests,       \* POST /index requests, each handled once
    FailingWrites,  \* where _persist may raise: "begin", "settle"
    PowerLoss       \* may the host lose its power?

ASSUME FaultAssumption ==
    /\ FailingWrites \subseteq {"begin", "settle"}
    /\ PowerLoss \in BOOLEAN

VARIABLES
    up,      \* the service runs
    state,   \* IndexJobManager._state
    disk,    \* the status file
    older,   \* what a power loss may leave in its place: the versions whose
             \* replacement was not flushed, or an unreadable file
    rewound, \* a power loss put an older file in the place of the last one written
    pc,      \* where each handler is
    runOf,   \* the number of the run a handler performs
    begun,   \* runs begun so far
    told     \* the last run reported as indexed, its status file not lost since

fileVars == <<disk, older, rewound>>
runVars == <<runOf, begun>>
vars == <<up, state, fileVars, pc, runVars, told>>

\* success is the run of last_success_at and last_result, 0 when there is none.
State == [status : {"idle", "running", "failed"},
          lastRun : {"none", "succeeded", "failed", "interrupted", "status_read_failed"},
          success : Nat]

Default == [status |-> "idle", lastRun |-> "none", success |-> 0]

Ended(s, how) == [s EXCEPT !.status = "failed", !.lastRun = how]

\* _load: an unreadable file costs the history, not the start of the service.
Loaded ==
    CASE disk.file = "absent" -> Default
      [] disk.file = "corrupt" -> Ended(Default, "status_read_failed")
      [] disk.file = "written" -> disk.state

Disk == [file : {"absent", "corrupt", "written"}, state : State]
Absent == [file |-> "absent", state |-> Default]
Corrupt == [file |-> "corrupt", state |-> Default]
Written(s) == [file |-> "written", state |-> s]

\* _persist writes a temporary file and renames it, and flushes neither.
Save(s) ==
    /\ disk' = Written(s)
    /\ older' = older \cup {disk, Corrupt}
    /\ rewound' = FALSE

Working(r) == pc[r] \in {"indexing", "indexed", "raised"}

Goto(r, from, to) == up /\ pc[r] = from /\ pc' = [pc EXCEPT ![r] = to]

Init ==
    /\ up = TRUE
    /\ state = Default
    /\ disk = Absent
    /\ older = {}
    /\ rewound = FALSE
    /\ pc = [r \in Requests |-> "idle"]
    /\ runOf = [r \in Requests |-> 0]
    /\ begun = 0
    /\ told = 0
-----------------------------------------------------------------------------
\* IndexJobAlreadyRunning, answered with 409.
Refuse(r) ==
    /\ state.status = "running"
    /\ Goto(r, "idle", "done")
    /\ UNCHANGED <<up, state, fileVars, runVars, told>>

WrongBeginUnguarded(r) ==
    /\ Goto(r, "idle", "indexing")
    /\ state' = [state EXCEPT !.status = "running"]
    /\ Save(state')
    /\ begun' = begun + 1
    /\ runOf' = [runOf EXCEPT ![r] = begun + 1]
    /\ UNCHANGED <<up, told>>

Begin(r) ==
    /\ state.status # "running"
    /\ Goto(r, "idle", "indexing")
    /\ state' = [state EXCEPT !.status = "running"]
    /\ Save(state')
    /\ begun' = begun + 1
    /\ runOf' = [runOf EXCEPT ![r] = begun + 1]
    /\ UNCHANGED <<up, told>>

\* The status is "running" in memory before _persist raises; the exception is
\* not IndexJobAlreadyRunning, so the handler ends without a run.
BeginNotSaved(r) ==
    /\ "begin" \in FailingWrites
    /\ state.status # "running"
    /\ Goto(r, "idle", "done")
    /\ state' = [state EXCEPT !.status = "running"]
    /\ UNCHANGED <<up, fileVars, runVars, told>>

\* index_repository returns or raises.
IndexEnds(r) ==
    /\ \/ Goto(r, "indexing", "indexed")
       \/ Goto(r, "indexing", "raised")
    /\ UNCHANGED <<up, state, fileVars, runVars, told>>

\* succeed and fail refuse when no job is running; the handler then ends with
\* a 500, as it does when _persist raises after the change in memory.
Settle(s, saved) ==
    /\ saved \/ "settle" \in FailingWrites
    /\ IF state.status = "running"
       THEN state' = s /\ IF saved THEN Save(s) ELSE UNCHANGED fileVars
       ELSE UNCHANGED <<state, fileVars>>

Succeeded(r) == [status |-> "idle", lastRun |-> "succeeded", success |-> runOf[r]]

WrongSucceedTellsFirst(r) ==
    \E saved \in BOOLEAN :
        /\ Goto(r, "indexed", "done")
        /\ Settle(Succeeded(r), saved)
        /\ told' = runOf[r]
        /\ UNCHANGED <<up, runVars>>

Succeed(r) ==
    \E saved \in BOOLEAN :
        /\ Goto(r, "indexed", "done")
        /\ Settle(Succeeded(r), saved)
        /\ told' = IF saved /\ state.status = "running" THEN runOf[r] ELSE told
        /\ UNCHANGED <<up, runVars>>

WrongFailIdle(r) ==
    \E saved \in BOOLEAN :
        /\ Goto(r, "raised", "done")
        /\ Settle([state EXCEPT !.status = "idle", !.lastRun = "failed"], saved)
        /\ UNCHANGED <<up, runVars, told>>

Fail(r) ==
    \E saved \in BOOLEAN :
        /\ Goto(r, "raised", "done")
        /\ Settle(Ended(state, "failed"), saved)
        /\ UNCHANGED <<up, runVars, told>>
-----------------------------------------------------------------------------
\* Memory and threads are lost.
Dies ==
    /\ up' = FALSE
    /\ state' = Default
    /\ pc' = [r \in Requests |-> IF pc[r] = "idle" THEN "idle" ELSE "done"]

\* The process dies; what it wrote is the kernel's.
Crash ==
    /\ up
    /\ Dies
    /\ UNCHANGED <<fileVars, runVars, told>>

\* The host dies: the last rename may be undone, and those before it, or have
\* happened without the data.
PowerFails ==
    /\ PowerLoss
    /\ Dies
    /\ \E survivor \in older \cup {disk} :
          /\ disk' = survivor
          /\ IF survivor = disk THEN UNCHANGED <<rewound, told>>
             ELSE rewound' = TRUE /\ told' = 0
    /\ older' = {}
    /\ UNCHANGED runVars

\* The kernel writes the file and its directory back.
Flush ==
    /\ older # {}
    /\ older' = {}
    /\ UNCHANGED <<up, state, disk, rewound, pc, runVars, told>>

WrongRestartAsFound ==
    /\ ~up
    /\ up' = TRUE
    /\ state' = Loaded
    /\ UNCHANGED <<fileVars, pc, runVars, told>>

\* The constructor.  When its _persist raises, the service does not start.
Restart ==
    /\ ~up
    /\ up' = TRUE
    /\ IF Loaded.status = "running"
       THEN state' = Ended(Loaded, "interrupted") /\ Save(state')
       ELSE state' = Loaded /\ UNCHANGED fileVars
    /\ UNCHANGED <<pc, runVars, told>>

Request(r) ==
    \/ Refuse(r) \/ Begin(r) \/ BeginNotSaved(r) \/ IndexEnds(r)
    \/ Succeed(r) \/ Fail(r)

Next ==
    \/ \E r \in Requests : Request(r)
    \/ Crash
    \/ PowerFails
    \/ Flush
    \/ Restart

Spec == Init /\ [][Next]_vars

(* A run ends by itself (every embedding call has a timeout), threads are    *)
(* scheduled, and the container is restarted when its process dies.          *)
Fairness ==
    /\ \A r \in Requests : WF_vars(IndexEnds(r) \/ Succeed(r) \/ Fail(r))
    /\ WF_vars(Restart)

FairSpec == Spec /\ Fairness
-----------------------------------------------------------------------------
TypeOK ==
    /\ up \in BOOLEAN
    /\ state \in State
    /\ disk \in Disk
    /\ older \subseteq Disk
    /\ rewound \in BOOLEAN
    /\ pc \in [Requests -> {"idle", "indexing", "indexed", "raised", "done"}]
    /\ runOf \in [Requests -> Nat]
    /\ begun \in Nat
    /\ told \in Nat

\* At most one request is inside index_repository or about to report it,
\* whatever failed before, and the job in memory is its: succeed and fail are
\* never refused with "No indexing job is running".
RunOwnsJob ==
    \A r \in Requests : Working(r) =>
        /\ up /\ state.status = "running"
        /\ \A t \in Requests : Working(t) => t = r

\* An idle status names the last run that touched the index: what
\* scripts/index-knowledge:78 takes as proof of its own run's success.  Only a
\* power loss that takes the file back behind the last one written can break
\* it, until the next run begins; no death of the process and no failed write.
IdleNamesLastRun ==
    up /\ state.status = "idle" /\ ~rewound => state.success = begun

\* A run whose success was answered stays in the status file through deaths of
\* the process, failed writes and later runs, failed or interrupted, until a
\* power loss takes the file back.
SuccessDurable ==
    disk.file = "written" => disk.state.success >= told

\* A job with a run behind it is settled, by its handler or by the restart
\* after a crash, and stops refusing others.
JobSettles ==
    (state.status = "running" /\ \E r \in Requests : Working(r))
        ~> (up /\ state.status # "running")

\* "A repository indexing job is already running." (index_jobs.py:105): a
\* request is refused only while another one is at work.
RefusedOnlyWhileWorking ==
    [][\A r \in Requests : Refuse(r) => \E t \in Requests : Working(t)]_vars
=============================================================================
