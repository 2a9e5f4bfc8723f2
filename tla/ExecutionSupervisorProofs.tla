------------------------ MODULE ExecutionSupervisorProofs ------------------------
(***************************************************************************)
(* Proofs about ExecutionSupervisor, for any number of starts and tools:   *)
(* types, mutual exclusion, and a heartbeat that names no ghost.           *)
(***************************************************************************)
EXTENDS ExecutionSupervisor, TLAPS

\* Who is inside holds the lock.
MutexInv == \A p \in Pids : pc[p] \in Inside => mutex = p

\* Who may be named, with a status other than STOPPED, by the temporary file and
\* by the heartbeat: a process that was inside and has not written STOPPED over
\* it.  Neither part is inductive alone: every rename turns what is known about
\* the temporary file into what is known about the heartbeat.
Nameable(file, steps) ==
    file \in Beats /\ file.status # "STOPPED" => pc[file.pid] \in steps

FileInv ==
    /\ Nameable(temporary, Inside \cup {"UNWIND", "SILENT", "DEAD"})
    /\ Nameable(heartbeat, Inside \cup {"UNWIND", "P_STOP", "SILENT", "DEAD"})

Inductive == TypeOK /\ MutexInv /\ FileInv

-----------------------------------------------------------------------------
\* A written file is a heartbeat of the process that wrote it.
LEMMA WriteType ==
    ASSUME TypeOK, NEW p \in Pids, NEW status \in Statuses, NEW step \in Steps,
           Write(p, status, step)
    PROVE  TypeOK'
  <1>1. [pid |-> p, status |-> status] \in Beats
    BY DEF Beats
  <1> QED BY <1>1 DEF Write, Goto, TypeOK, Files

\* Both outcomes of a rename keep the types.
LEMMA RenameType ==
    ASSUME TypeOK, NEW p \in Pids, NEW done \in Steps, NEW failed \in Steps,
           Rename(p, done, failed)
    PROVE  TypeOK'
  BY DEF Rename, Goto, TypeOK, Files

\* So does a step that only goes on.
LEMMA MovesType ==
    ASSUME TypeOK, NEW p \in Pids, NEW from, NEW to \in Steps, Moves(p, from, to)
    PROVE  TypeOK'
  BY DEF Moves, Goto, TypeOK

\* A write changes what the temporary file says, of the writer only.
LEMMA WriteFiles ==
    ASSUME TypeOK, FileInv, NEW p \in Pids, NEW status \in Statuses, NEW step \in Steps,
           Write(p, status, step),
           \/ pc[p] \in Inside /\ step \in Inside
           \/ status = "STOPPED" /\ pc[p] = "UNWIND" /\ step = "P_STOP"
    PROVE  FileInv'
  <1> USE DEF Inside, Announced
  <1>1. heartbeat' = heartbeat /\ pc' = [pc EXCEPT ![p] = step]
        /\ temporary' = [pid |-> p, status |-> status]
    BY DEF Write, Goto
  <1>2. temporary'.pid = p /\ temporary'.status = status
    BY <1>1
  <1>3. pc \in [Pids -> Steps]
    BY DEF TypeOK
  <1>4. Nameable(temporary, Inside \cup {"UNWIND", "SILENT", "DEAD"})'
    BY <1>1, <1>2, <1>3 DEF Nameable
  <1>5. heartbeat \in Beats => heartbeat.pid \in Pids
    BY DEF Beats
  <1>6. Nameable(heartbeat, Inside \cup {"UNWIND", "P_STOP", "SILENT", "DEAD"})'
    BY <1>1, <1>3, <1>5 DEF Nameable, FileInv
  <1> QED BY <1>4, <1>6 DEF FileInv

\* A rename makes the heartbeat say what the temporary file said.
LEMMA RenameFiles ==
    ASSUME TypeOK, FileInv, NEW p \in Pids, NEW done \in Steps, NEW failed \in Steps,
           Rename(p, done, failed),
           \/ pc[p] \in Inside /\ done \in Inside /\ failed \in Inside
           \/ pc[p] = "P_STOP" /\ done = "EXIT" /\ failed = "SILENT"
    PROVE  FileInv'
  <1> USE DEF Inside, Announced
  <1>1. pc \in [Pids -> Steps]
    BY DEF TypeOK
  <1>2. /\ temporary \in Beats => temporary.pid \in Pids
        /\ heartbeat \in Beats => heartbeat.pid \in Pids
    BY DEF Beats
  <1>3. CASE heartbeat' = temporary /\ temporary' = Nobody /\ pc' = [pc EXCEPT ![p] = done]
    <2>1. Nameable(temporary, Inside \cup {"UNWIND", "SILENT", "DEAD"})'
      BY <1>3, ProcessesAssumption DEF Nameable
    <2>2. Nameable(heartbeat, Inside \cup {"UNWIND", "P_STOP", "SILENT", "DEAD"})'
      BY <1>1, <1>2, <1>3 DEF Nameable, FileInv
    <2> QED BY <2>1, <2>2 DEF FileInv
  <1>4. CASE UNCHANGED <<temporary, heartbeat>> /\ pc' = [pc EXCEPT ![p] = failed]
    BY <1>1, <1>2, <1>4 DEF Nameable, FileInv
  <1> QED BY <1>3, <1>4 DEF Rename, Goto

\* Steps that leave the files alone and do not bring a stopped process back.
LEMMA OtherFiles ==
    ASSUME TypeOK, FileInv, NEW p \in Pids, NEW to \in Steps,
           UNCHANGED <<temporary, heartbeat>>, Goto(p, to),
           \/ pc[p] \notin Inside \cup {"UNWIND", "P_STOP", "SILENT", "DEAD"}
           \/ pc[p] \in Inside /\ to \in Inside \cup {"UNWIND"}
           \/ to = "DEAD"
    PROVE  FileInv'
  <1> USE DEF Inside, Announced
  <1>1. pc \in [Pids -> Steps]
    BY DEF TypeOK
  <1>2. /\ temporary \in Beats => temporary.pid \in Pids
        /\ heartbeat \in Beats => heartbeat.pid \in Pids
    BY DEF Beats
  <1> QED BY <1>1, <1>2 DEF Nameable, FileInv, Goto

-----------------------------------------------------------------------------
\* Every step of run_forever keeps the invariant.
LEMMA RunStep ==
    ASSUME Inductive, NEW p \in Pids, Run(p)
    PROVE  Inductive'
  <1> USE DEF Steps, Inside, Announced, Leaving, Statuses
  <1>0. TypeOK /\ MutexInv /\ FileInv /\ pc \in [Pids -> Steps]
    BY DEF Inductive, TypeOK
  <1>m. ASSUME NEW to, pc' = [pc EXCEPT ![p] = to], mutex' = mutex, pc[p] \in Inside \/ to \notin Inside
        PROVE  MutexInv'
    BY <1>0, <1>m DEF MutexInv
  <1>1. CASE TakeMutex(p)
    <2>1. TypeOK'
      BY <1>0, <1>1 DEF TakeMutex, Goto, TypeOK
    <2>2. MutexInv'
      BY <1>0, <1>1, ProcessesAssumption DEF TakeMutex, Goto, MutexInv
    <2>3. FileInv'
      BY <1>0, <1>1, OtherFiles DEF TakeMutex
    <2> QED BY <2>1, <2>2, <2>3 DEF Inductive
  <1>2. CASE MutexHeld(p) \/ Unauthorized(p)
    <2>1. Moves(p, "ENTER", "UNWIND")
      BY <1>2 DEF MutexHeld, Unauthorized
    <2>2. MutexInv'
      BY <2>1, <1>m DEF Moves, Goto
    <2>3. FileInv'
      BY <1>0, <2>1, OtherFiles DEF Moves
    <2> QED BY <1>0, <2>1, <2>2, <2>3, MovesType DEF Inductive
  <1>3. ASSUME NEW status \in Statuses, NEW step \in Inside, pc[p] \in Inside, Write(p, status, step)
        PROVE  Inductive'
    <2>1. MutexInv'
      BY <1>3, <1>m DEF Write, Goto
    <2>2. FileInv'
      BY <1>0, <1>3, WriteFiles
    <2> QED BY <1>0, <1>3, <2>1, <2>2, WriteType DEF Inductive
  <1>4. ASSUME NEW done \in Inside, NEW failed \in Inside, pc[p] \in Inside, Rename(p, done, failed)
        PROVE  Inductive'
    <2>1. MutexInv'
      BY <1>4, <1>m DEF Rename, Goto
    <2>2. FileInv'
      BY <1>0, <1>4, RenameFiles
    <2> QED BY <1>0, <1>4, <2>1, <2>2, RenameType DEF Inductive
  <1>5. CASE CaughtUp(p) \/ WaitStep(p) \/ CycleDone(p) \/ CycleFails(p)
    BY <1>5, <1>3 DEF CaughtUp, WaitStep, CycleDone, CycleFails
  <1>6. CASE Started(p) \/ Waited(p) \/ CyclePublished(p) \/ FailPublished(p)
    BY <1>6, <1>4 DEF Started, Waited, CyclePublished, FailPublished
  <1>7. CASE Raise(p)
    <2>1. PICK step \in {"CATCHUP", "WAIT", "CYCLE"} : Moves(p, step, "FAILED")
      BY <1>7 DEF Raise
    <2>2. MutexInv'
      BY <2>1, <1>m DEF Moves, Goto
    <2>3. FileInv'
      BY <1>0, <2>1, OtherFiles DEF Moves
    <2> QED BY <1>0, <2>1, <2>2, <2>3, MovesType DEF Inductive
  <1>8. CASE ReleaseMutex(p)
    <2>1. TypeOK'
      BY <1>0, <1>8 DEF ReleaseMutex, Goto, TypeOK
    <2>2. MutexInv'
      BY <1>0, <1>8, ProcessesAssumption DEF ReleaseMutex, Goto, MutexInv
    <2>3. FileInv'
      BY <1>0, <1>8, OtherFiles DEF ReleaseMutex
    <2> QED BY <2>1, <2>2, <2>3 DEF Inductive
  <1>9. CASE WriteStopped(p)
    <2>1. MutexInv'
      BY <1>9, <1>m DEF WriteStopped, Write, Goto
    <2>2. FileInv'
      BY <1>0, <1>9, WriteFiles DEF WriteStopped
    <2> QED BY <1>0, <1>9, <2>1, <2>2, WriteType DEF WriteStopped, Inductive
  <1>10. CASE Stopped(p)
    <2>1. MutexInv'
      BY <1>10, <1>m DEF Stopped, Rename, Goto
    <2>2. FileInv'
      BY <1>0, <1>10, RenameFiles DEF Stopped
    <2> QED BY <1>0, <1>10, <2>1, <2>2, RenameType DEF Stopped, Inductive
  <1>11. CASE Exit(p)
    <2>1. PICK step \in {"EXIT", "SILENT"} : Moves(p, step, "DEAD")
      BY <1>11 DEF Exit
    <2>2. MutexInv'
      BY <2>1, <1>m DEF Moves, Goto
    <2>3. FileInv'
      BY <1>0, <2>1, OtherFiles DEF Moves
    <2> QED BY <1>0, <2>1, <2>2, <2>3, MovesType DEF Inductive
  <1> QED BY <1>1, <1>2, <1>5, <1>6, <1>7, <1>8, <1>9, <1>10, <1>11 DEF Run

\* Every step of the specification keeps the invariant.
LEMMA InductiveStep == Inductive /\ [Next]_vars => Inductive'
  <1> SUFFICES ASSUME Inductive, [Next]_vars PROVE Inductive'
    OBVIOUS
  <1> USE DEF Steps, Inside, Announced, Leaving
  <1>0. TypeOK /\ MutexInv /\ FileInv /\ pc \in [Pids -> Steps]
    BY DEF Inductive, TypeOK
  <1>1. ASSUME NEW p \in Pids, Start(p) PROVE Inductive'
    <2>1. Moves(p, "NEW", "ENTER")
      BY <1>1 DEF Start
    <2>2. MutexInv'
      BY <1>0, <2>1 DEF Moves, Goto, MutexInv
    <2>3. FileInv'
      BY <1>0, <2>1, OtherFiles DEF Moves
    <2> QED BY <1>0, <2>1, <2>2, <2>3, MovesType DEF Inductive
  <1>2. ASSUME NEW p \in Pids, Run(p) PROVE Inductive'
    BY <1>2, RunStep
  <1>3. ASSUME NEW p \in Pids, Crash(p) PROVE Inductive'
    <2>1. TypeOK'
      BY <1>0, <1>3 DEF Crash, Goto, TypeOK
    <2>2. MutexInv'
      BY <1>0, <1>3, ProcessesAssumption DEF Crash, Goto, MutexInv
    <2>3. FileInv'
      BY <1>0, <1>3, OtherFiles DEF Crash
    <2> QED BY <2>1, <2>2, <2>3 DEF Inductive
  <1>4. ASSUME NEW tool \in Tools, Grant(tool) \/ ToolEnds(tool) PROVE Inductive'
    <2>1. UNCHANGED <<pc, mutex, temporary, heartbeat>> /\ granted' \in SUBSET Tools
      BY <1>0, <1>4 DEF Grant, ToolEnds, TypeOK
    <2> QED BY <1>0, <2>1 DEF Inductive, TypeOK, MutexInv, FileInv, Nameable
  <1>5. CASE PowerLoss
    <2>1. \A p \in Pids : pc'[p] \in {"NEW", "DEAD"} /\ (pc'[p] = "NEW" => pc[p] = "NEW")
      BY <1>0, <1>5 DEF PowerLoss, Alive
    <2>2. TypeOK'
      BY <1>0, <1>5 DEF PowerLoss, Alive, TypeOK, Files
    <2>3. MutexInv'
      BY <2>1 DEF MutexInv
    <2>4. temporary' \in {temporary, Damaged} /\ heartbeat' \in {heartbeat, Damaged}
      BY <1>5 DEF PowerLoss
    <2>5. Nameable(temporary, Inside \cup {"UNWIND", "SILENT", "DEAD"})'
      <3>1. temporary' \in Beats => temporary' = temporary /\ temporary'.pid \in Pids
        BY <2>4, ProcessesAssumption DEF Beats
      <3> QED BY <1>0, <2>1, <3>1 DEF FileInv, Nameable
    <2>6. Nameable(heartbeat, Inside \cup {"UNWIND", "P_STOP", "SILENT", "DEAD"})'
      <3>1. heartbeat' \in Beats => heartbeat' = heartbeat /\ heartbeat'.pid \in Pids
        BY <2>4, ProcessesAssumption DEF Beats
      <3> QED BY <1>0, <2>1, <3>1 DEF FileInv, Nameable
    <2> QED BY <2>2, <2>3, <2>5, <2>6 DEF Inductive, FileInv
  <1>6. CASE UNCHANGED vars
    BY <1>0, <1>6 DEF vars, Inductive, TypeOK, MutexInv, FileInv, Nameable
  <1> QED BY <1>1, <1>2, <1>3, <1>4, <1>5, <1>6 DEF Next

\* Whoever is inside holds the lock, and the two files name only processes that
\* got inside, in every reachable state.
THEOREM InductiveInvariant == Spec => []Inductive
  <1>1. Init => Inductive
    BY ProcessesAssumption
    DEF Init, Inductive, TypeOK, MutexInv, FileInv, Nameable, Files, Steps, Inside, Announced
  <1> QED BY <1>1, InductiveStep, PTL DEF Spec

\* Files, lock and steps keep their types (run_forever, _publish).
THEOREM TypeCorrect == Spec => []TypeOK
  <1>1. Inductive => TypeOK
    BY DEF Inductive
  <1> QED BY <1>1, InductiveInvariant, PTL

\* However often it is started, one process at most monitors and trades
\* (ObservationMutex around run_forever).
THEOREM MutualExclusion == Spec => []OneSupervisor
  <1>1. Inductive => OneSupervisor
    BY DEF Inductive, MutexInv, OneSupervisor
  <1> QED BY <1>1, InductiveInvariant, PTL

\* Refused starts and mixed-up renames never make a stopped supervisor look alive
\* (_publish, run_forever).
THEOREM NoGhost == Spec => []HeartbeatIsNoGhost
  <1>1. Inductive => HeartbeatIsNoGhost
    BY DEF Inductive, FileInv, Nameable, HeartbeatIsNoGhost, BeatAlive, Alive, Inside, Announced
  <1> QED BY <1>1, InductiveInvariant, PTL
=============================================================================
