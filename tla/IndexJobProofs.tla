--------------------------- MODULE IndexJobProofs ---------------------------
(***************************************************************************)
(* Theorems of IndexJob for any set of requests, whichever writes fail and   *)
(* wherever the process or the host dies.  The run that a working handler     *)
(* owns is the last one begun, and the status file is never ahead of the      *)
(* index: unless a power loss took it back, it says "idle" only when it names  *)
(* the last run begun.                                                       *)
(***************************************************************************)
EXTENDS IndexJob, TLAPS

\* At the restart the file is believed, so what memory must satisfy the file
\* must satisfy too.
FileHonest ==
    /\ disk.file = "absent" /\ ~rewound => begun = 0
    /\ disk.file # "written" => told = 0
    /\ disk.file = "written" =>
          /\ disk.state.success >= told
          /\ disk.state.status = "idle" /\ ~rewound => disk.state.success = begun

MemoryHonest ==
    /\ told <= begun
    /\ up => state.success >= told
    /\ up /\ state.status = "idle" /\ ~rewound => state.success = begun

LastRunWorks == \A r \in Requests : Working(r) => runOf[r] = begun

IInv == TypeOK /\ RunOwnsJob /\ LastRunWorks /\ FileHonest /\ MemoryHonest

\* Every version that _persist leaves is one.
LEMMA VersionTypes ==
    /\ Default \in State /\ Absent \in Disk /\ Corrupt \in Disk
    /\ \A s \in State : /\ Written(s) \in Disk
                       /\ Written(s).file = "written" /\ Written(s).state = s
BY DEF Default, State, Disk, Absent, Corrupt, Written

LEMMA InitIInv == Init => IInv
<1>1. SUFFICES ASSUME Init PROVE IInv
  OBVIOUS
<1>2. \A r \in Requests : ~Working(r)
  BY <1>1 DEF Init, Working
<1>3. TypeOK
  BY <1>1, VersionTypes DEF Init, TypeOK
<1>4. FileHonest /\ MemoryHonest
  BY <1>1 DEF Init, FileHonest, MemoryHonest, Absent, Default
<1>5. QED
  BY <1>2, <1>3, <1>4 DEF IInv, RunOwnsJob, LastRunWorks

LEMMA EndedState ==
    ASSUME NEW s \in State, NEW how \in {"failed", "interrupted", "status_read_failed"}
    PROVE  /\ Ended(s, how) \in State
           /\ Ended(s, how).status = "failed"
           /\ Ended(s, how).success = s.success
BY DEF Ended, State

\* Loaded is what the file or its absence stands for.
LEMMA LoadedState ==
    ASSUME IInv
    PROVE  /\ Loaded \in State
           /\ Loaded.success >= told
           /\ Loaded.status = "idle" /\ ~rewound => Loaded.success = begun
<1>1. Default \in State /\ Default.success = 0 /\ Default.status = "idle"
  BY DEF Default, State
<1>2. CASE disk.file = "absent"
  BY <1>1, <1>2 DEF Loaded, IInv, FileHonest, TypeOK, Disk
<1>3. CASE disk.file = "corrupt"
  BY <1>1, <1>3, EndedState DEF Loaded, IInv, FileHonest, TypeOK, Disk
<1>4. CASE disk.file = "written"
  BY <1>4 DEF Loaded, IInv, FileHonest, TypeOK, Disk
<1>5. QED
  BY <1>2, <1>3, <1>4 DEF IInv, TypeOK, Disk

LEMMA BeginStep ==
    ASSUME IInv, NEW r \in Requests, Begin(r) \/ BeginNotSaved(r) \/ Refuse(r)
    PROVE  IInv'
<1>1. CASE BeginNotSaved(r) \/ Refuse(r)
  BY <1>1 DEF IInv, TypeOK, RunOwnsJob, LastRunWorks, FileHonest, MemoryHonest,
              BeginNotSaved, Refuse, Goto, Working, State, runVars, fileVars
<1>2. CASE Begin(r)
  <2>1. PICK s \in State :
            /\ state' = s /\ s.status = "running" /\ s.success = state.success
            /\ Save(s)
    <3>1. [state EXCEPT !.status = "running"] \in State
      BY DEF IInv, TypeOK, State
    <3>2. QED
      BY <1>2, <3>1 DEF Begin, State
  <2>2. disk' = Written(s) /\ older' = older \cup {disk, Corrupt} /\ rewound' = FALSE
    BY <2>1 DEF Save
  <2>3. /\ begun' = begun + 1 /\ up' = up /\ told' = told
        /\ runOf' = [runOf EXCEPT ![r] = begun + 1]
        /\ pc' = [pc EXCEPT ![r] = "indexing"] /\ up /\ pc[r] = "idle"
        /\ state.status # "running"
    BY <1>2 DEF Begin, Goto
  <2>4. TypeOK'
    <3>1. disk' \in Disk /\ older' \subseteq Disk /\ rewound' \in BOOLEAN
      BY <2>1, <2>2, VersionTypes DEF IInv, TypeOK
    <3>2. /\ pc' \in [Requests -> {"idle", "indexing", "indexed", "raised", "done"}]
          /\ runOf' \in [Requests -> Nat] /\ begun' \in Nat
      BY <2>3 DEF IInv, TypeOK
    <3>3. QED
      BY <2>1, <2>3, <3>1, <3>2 DEF IInv, TypeOK
  <2>5. RunOwnsJob' /\ LastRunWorks'
    BY <2>1, <2>3 DEF IInv, TypeOK, RunOwnsJob, LastRunWorks, Working
  <2>6. FileHonest' /\ MemoryHonest'
    BY <2>1, <2>2, <2>3, VersionTypes DEF IInv, TypeOK, FileHonest, MemoryHonest
  <2>7. QED
    BY <2>4, <2>5, <2>6 DEF IInv
<1>3. QED
  BY <1>1, <1>2

LEMMA EndStep ==
    ASSUME IInv, NEW r \in Requests, IndexEnds(r)
    PROVE  IInv'
BY DEF IInv, TypeOK, RunOwnsJob, LastRunWorks, FileHonest, MemoryHonest, IndexEnds,
       Goto, Working, runVars, fileVars

\* The settling handler finds its own job running.
LEMMA SettleStep ==
    ASSUME IInv, NEW r \in Requests, Succeed(r) \/ Fail(r)
    PROVE  IInv'
<1>1. /\ Working(r) /\ up /\ state.status = "running" /\ runOf[r] = begun
      /\ pc' = [pc EXCEPT ![r] = "done"] /\ up' = up
      /\ UNCHANGED <<runOf, begun>> /\ state \in State /\ begun \in Nat
      /\ told \in Nat /\ told <= begun /\ state.success >= told
  BY DEF Succeed, Fail, Goto, Working, IInv, RunOwnsJob, LastRunWorks, TypeOK,
         MemoryHonest, runVars
<1>2. PICK s \in State, saved \in BOOLEAN :
          /\ state' = s
          /\ IF saved THEN Save(s) ELSE UNCHANGED fileVars
          /\ s.status = "failed" \/ (s.status = "idle" /\ s.success = begun)
          /\ \/ told' = told /\ s.success >= told
             \/ saved /\ told' = begun /\ s.success = begun
  <2>1. CASE Succeed(r)
    <3>1. Succeeded(r) \in State /\ Succeeded(r).status = "idle"
          /\ Succeeded(r).success = begun
      BY <1>1 DEF Succeeded, State
    <3>2. QED
      BY <1>1, <2>1, <3>1 DEF Succeed, Settle
  <2>2. CASE Fail(r)
    <3>1. Ended(state, "failed") \in State /\ Ended(state, "failed").status = "failed"
          /\ Ended(state, "failed").success = state.success
      BY <1>1, EndedState
    <3>2. QED
      BY <1>1, <2>2, <3>1 DEF Fail, Settle
  <2>3. QED
    BY <2>1, <2>2
<1>3. \/ UNCHANGED <<disk, older, rewound>> /\ ~saved
      \/ /\ disk' = Written(s) /\ older' = older \cup {disk, Corrupt}
         /\ rewound' = FALSE
  BY <1>2 DEF Save, fileVars
<1>4. TypeOK'
  BY <1>1, <1>2, <1>3, VersionTypes DEF IInv, TypeOK
<1>5. RunOwnsJob' /\ LastRunWorks'
  BY <1>1 DEF IInv, TypeOK, RunOwnsJob, LastRunWorks, Working
<1>6. FileHonest'
  BY <1>1, <1>2, <1>3, VersionTypes DEF IInv, TypeOK, FileHonest
<1>7. MemoryHonest'
  BY <1>1, <1>2, <1>3 DEF IInv, TypeOK, MemoryHonest
<1>8. QED
  BY <1>4, <1>5, <1>6, <1>7 DEF IInv

LEMMA CrashStep ==
    ASSUME IInv, Crash \/ PowerFails
    PROVE  IInv'
<1>1. /\ up' = FALSE /\ state' = Default /\ UNCHANGED <<runOf, begun>>
      /\ pc' = [r \in Requests |-> IF pc[r] = "idle" THEN "idle" ELSE "done"]
  BY DEF Crash, PowerFails, Dies, runVars
<1>2. \/ UNCHANGED <<disk, older, rewound, told>>
      \/ older' = {} /\ disk' = disk /\ rewound' = rewound /\ told' = told
      \/ older' = {} /\ disk' \in older /\ rewound' = TRUE /\ told' = 0
  <2>1. CASE Crash
    BY <2>1 DEF Crash, fileVars
  <2>2. CASE PowerFails
    <3>1. PICK survivor \in older \cup {disk} :
              /\ disk' = survivor
              /\ IF survivor = disk THEN UNCHANGED <<rewound, told>>
                 ELSE rewound' = TRUE /\ told' = 0
      BY <2>2 DEF PowerFails
    <3>2. older' = {}
      BY <2>2 DEF PowerFails
    <3>3. CASE survivor = disk
      BY <3>1, <3>2, <3>3
    <3>4. CASE survivor # disk
      BY <3>1, <3>2, <3>4
    <3>5. QED
      BY <3>3, <3>4
  <2>3. QED
    BY <2>1, <2>2
<1>3. TypeOK'
  <2>1. pc' \in [Requests -> {"idle", "indexing", "indexed", "raised", "done"}]
    BY <1>1
  <2>2. older' \subseteq Disk /\ rewound' \in BOOLEAN /\ told' \in Nat
    <3>1. older \subseteq Disk /\ rewound \in BOOLEAN /\ told \in Nat
      BY DEF IInv, TypeOK
    <3>2. older' = older \/ older' = {}
      BY <1>2
    <3>3. (rewound' = rewound \/ rewound' = TRUE) /\ (told' = told \/ told' = 0)
      BY <1>2
    <3>4. rewound' \in BOOLEAN
      BY <3>1, <3>3, Zenon
    <3>5. older' \subseteq Disk /\ told' \in Nat
      BY <3>1, <3>2, <3>3
    <3>6. QED
      BY <3>4, <3>5
  <2>4. disk' \in older \cup {disk}
    BY <1>2
  <2>5. disk' \in Disk
    BY <2>4 DEF IInv, TypeOK
  <2>3. QED
    BY <1>1, <2>1, <2>2, <2>5, VersionTypes DEF IInv, TypeOK
<1>4. RunOwnsJob' /\ LastRunWorks'
  BY <1>1 DEF IInv, TypeOK, RunOwnsJob, LastRunWorks, Working
<1>5. FileHonest' /\ MemoryHonest'
  <2>1. CASE told' = 0 /\ rewound' = TRUE /\ disk' \in older
    <3>1. disk'.file = "written" => disk'.state.success \in Nat
      BY <2>1 DEF IInv, TypeOK, Disk, State
    <3>2. QED
      BY <1>1, <2>1, <3>1 DEF IInv, TypeOK, FileHonest, MemoryHonest
  <2>2. CASE UNCHANGED <<disk, rewound, told>>
    BY <1>1, <2>2 DEF IInv, TypeOK, FileHonest, MemoryHonest
  <2>3. QED
    BY <1>2, <2>1, <2>2
<1>6. QED
  BY <1>3, <1>4, <1>5 DEF IInv

LEMMA FlushStep ==
    ASSUME IInv, Flush
    PROVE  IInv'
BY DEF IInv, TypeOK, RunOwnsJob, LastRunWorks, FileHonest, MemoryHonest, Flush, Working,
       runVars

LEMMA RestartStep ==
    ASSUME IInv, Restart
    PROVE  IInv'
<1>1. /\ Loaded \in State /\ Loaded.success >= told
      /\ Loaded.status = "idle" /\ ~rewound => Loaded.success = begun
  BY LoadedState
<1>2. /\ Ended(Loaded, "interrupted") \in State
      /\ Ended(Loaded, "interrupted").status = "failed"
      /\ Ended(Loaded, "interrupted").success = Loaded.success
  BY <1>1, EndedState
<1>3. ~up /\ up' = TRUE /\ UNCHANGED <<pc, runOf, begun, told>>
  BY DEF Restart, runVars
<1>4. \A r \in Requests : ~Working(r)
  BY <1>3 DEF IInv, RunOwnsJob
<1>5. \/ state' = Loaded /\ UNCHANGED <<disk, older, rewound>>
      \/ /\ state' = Ended(Loaded, "interrupted")
         /\ disk' = Written(Ended(Loaded, "interrupted"))
         /\ older' = older \cup {disk, Corrupt} /\ rewound' = FALSE
  BY DEF Restart, Save, fileVars
<1>6. TypeOK'
  BY <1>1, <1>2, <1>3, <1>5, VersionTypes DEF IInv, TypeOK
<1>7. RunOwnsJob' /\ LastRunWorks'
  BY <1>3, <1>4 DEF RunOwnsJob, LastRunWorks, Working
<1>8. FileHonest'
  BY <1>1, <1>2, <1>3, <1>5, VersionTypes DEF IInv, FileHonest
<1>9. MemoryHonest'
  BY <1>1, <1>2, <1>3, <1>5 DEF IInv, MemoryHonest
<1>10. QED
  BY <1>6, <1>7, <1>8, <1>9 DEF IInv

LEMMA StepIInv == IInv /\ [Next]_vars => IInv'
<1> SUFFICES ASSUME IInv, [Next]_vars PROVE IInv'
  OBVIOUS
<1>1. ASSUME NEW r \in Requests, Request(r) PROVE IInv'
  BY <1>1, BeginStep, EndStep, SettleStep DEF Request
<1>2. CASE UNCHANGED vars
  BY <1>2 DEF vars, IInv, TypeOK, RunOwnsJob, LastRunWorks, FileHonest, MemoryHonest,
              Working, fileVars, runVars
<1>3. QED
  BY <1>1, <1>2, CrashStep, FlushStep, RestartStep DEF Next

LEMMA Invariance == Spec => []IInv
BY InitIInv, StepIInv, PTL DEF Spec
-----------------------------------------------------------------------------
THEOREM TypeCorrect == Spec => []TypeOK
<1>1. IInv => TypeOK
  BY DEF IInv
<1>2. QED
  BY <1>1, Invariance, PTL

\* At most one indexing run, and succeed and fail are never refused.
THEOREM RunsExclude == Spec => []RunOwnsJob
<1>1. IInv => RunOwnsJob
  BY DEF IInv
<1>2. QED
  BY <1>1, Invariance, PTL

\* An idle status is about the last run that touched the index, unless a power
\* loss took the status file back.
THEOREM IdleIsHonest == Spec => []IdleNamesLastRun
<1>1. IInv => IdleNamesLastRun
  BY DEF IInv, MemoryHonest, IdleNamesLastRun
<1>2. QED
  BY <1>1, Invariance, PTL

\* An answered success is not forgotten by later failures, deaths of the process
\* or restarts.
THEOREM SuccessIsDurable == Spec => []SuccessDurable
<1>1. IInv => SuccessDurable
  BY DEF IInv, FileHonest, SuccessDurable
<1>2. QED
  BY <1>1, Invariance, PTL
=============================================================================
