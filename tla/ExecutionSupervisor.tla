--------------------------- MODULE ExecutionSupervisor ---------------------------
(***************************************************************************)
(* Who may run: run_forever of monitoring/weltrade_execution_supervisor.py *)
(* with its mutex (ObservationMutex) and its heartbeat file, started any   *)
(* number of times, and the operator tools that look at the heartbeat to   *)
(* find out whether a supervisor is running.                               *)
(*                                                                         *)
(* The heartbeat is published by writing a temporary file and renaming it. *)
(* All processes use the same temporary name.                              *)
(***************************************************************************)
CONSTANTS
    Pids,         \* processes that run tools/run_weltrade_execution_supervisor.py
    Resolvers,    \* runs of tools/resolve_intent.py
    Repairs,      \* runs of tools/inspect_close_history.py --reconcile
    Nobody,       \* no process; also the absent file
    Damaged       \* a file that does not parse

VARIABLES
    pc,           \* where each process is in run_forever
    mutex,        \* the process that holds the lock file
    temporary,    \* the temporary heartbeat file
    heartbeat,    \* the heartbeat file
    granted       \* tools that passed their check

vars == <<pc, mutex, temporary, heartbeat, granted>>

Tools    == Resolvers \cup Repairs
Statuses == {"STARTING", "RUNNING", "BLOCKED", "STOPPED"}
Beats    == [pid : Pids, status : Statuses]
Files    == Beats \cup {Nobody, Damaged}

ASSUME ProcessesAssumption ==
    /\ Nobody \notin Pids
    /\ Nobody \notin Beats /\ Damaged \notin Beats /\ Nobody # Damaged
    /\ Resolvers \cap Repairs = {}

\* Steps inside the mutex.  A process in a P_ step is between write and rename.
Announced == {"WAIT", "P_WAIT", "CYCLE", "P_CYCLE"}
Inside    == Announced \cup {"CATCHUP", "P_START", "P_FAIL", "FAILED"}
\* SILENT: the last publication raised.
Leaving   == {"UNWIND", "P_STOP", "EXIT", "SILENT"}
Steps     == Inside \cup Leaving \cup {"NEW", "ENTER", "DEAD"}

Alive(p) == pc[p] \notin {"NEW", "DEAD"}

Init ==
    /\ pc = [p \in Pids |-> "NEW"]
    /\ mutex = Nobody
    /\ temporary = Nobody
    /\ heartbeat = Nobody
    /\ granted = {}

-----------------------------------------------------------------------------
Goto(p, step) == pc' = [pc EXCEPT ![p] = step]

\* _publish: write_text, then replace.
Write(p, status, step) ==
    /\ temporary' = [pid |-> p, status |-> status]
    /\ Goto(p, step)
    /\ UNCHANGED <<mutex, heartbeat, granted>>

\* Faulty variant: the heartbeat of another process is left alone.
RenameUnlessForeign(p, done, failed) ==
    /\ IF temporary = Nobody \/ (heartbeat \in Beats /\ heartbeat.pid # p)
       THEN Goto(p, done) /\ UNCHANGED <<temporary, heartbeat>>
       ELSE /\ heartbeat' = temporary
            /\ temporary' = Nobody
            /\ Goto(p, done)
    /\ UNCHANGED <<mutex, granted>>

\* The rename moves whatever the file holds by then.  It raises if another
\* process renamed the file meanwhile, or on any other error of the file system
\* (a reader that has the heartbeat open).
Rename(p, done, failed) ==
    /\ \/ /\ temporary # Nobody
          /\ heartbeat' = temporary
          /\ temporary' = Nobody
          /\ Goto(p, done)
       \/ Goto(p, failed) /\ UNCHANGED <<temporary, heartbeat>>
    /\ UNCHANGED <<mutex, granted>>

Moves(p, from, to) ==
    /\ pc[p] = from
    /\ Goto(p, to)
    /\ UNCHANGED <<mutex, temporary, heartbeat, granted>>

-----------------------------------------------------------------------------
(***************************************************************************)
(* run_forever                                                             *)
(***************************************************************************)
Start(p) == Moves(p, "NEW", "ENTER")

\* _require_process_authorization raised.
Unauthorized(p) == Moves(p, "ENTER", "UNWIND")

\* Faulty variant: the lock is taken without looking.
TakeMutexBlindly(p) ==
    /\ pc[p] = "ENTER"
    /\ mutex' = p
    /\ Goto(p, "CATCHUP")
    /\ UNCHANGED <<temporary, heartbeat, granted>>

TakeMutex(p) ==
    /\ pc[p] = "ENTER"
    /\ mutex = Nobody
    /\ mutex' = p
    /\ Goto(p, "CATCHUP")
    /\ UNCHANGED <<temporary, heartbeat, granted>>

\* SupervisorAlreadyRunning.
MutexHeld(p) == mutex # Nobody /\ Moves(p, "ENTER", "UNWIND")

\* The catch-up monitor run is over: STARTING.
CaughtUp(p) == pc[p] = "CATCHUP" /\ Write(p, "STARTING", "P_START")
Started(p)  == pc[p] = "P_START" /\ Rename(p, "WAIT", "FAILED")

\* Every ten seconds _wait_for_cycle publishes the status of the last cycle, or
\* BLOCKED at the position limit.  Nobody tells the first three statuses apart.
WaitStep(p) ==
    /\ pc[p] = "WAIT"
    /\ \E status \in Statuses \ {"STOPPED"} : Write(p, status, "P_WAIT")

Waited(p) == pc[p] = "P_WAIT" /\ \E step \in {"WAIT", "CYCLE"} : Rename(p, step, "FAILED")

\* run_cycle_once returned, or met a position limit and is retried.
CycleDone(p) ==
    /\ pc[p] = "CYCLE"
    /\ \E status \in {"RUNNING", "BLOCKED"} : Write(p, status, "P_CYCLE")

CyclePublished(p) == pc[p] = "P_CYCLE" /\ Rename(p, "WAIT", "FAILED")

\* Any other end of a cycle: BLOCKED, then the exception.
CycleFails(p)    == pc[p] = "CYCLE" /\ Write(p, "BLOCKED", "P_FAIL")
FailPublished(p) == pc[p] = "P_FAIL" /\ Rename(p, "FAILED", "FAILED")

\* The monitor, the preflight or the authorization check raised, or the task
\* was cancelled, which "except Exception" of the cycle does not catch.
Raise(p) == \E step \in {"CATCHUP", "WAIT", "CYCLE"} : Moves(p, step, "FAILED")

\* The with statement releases the lock before the finally clause publishes.
ReleaseMutex(p) ==
    /\ pc[p] = "FAILED"
    /\ mutex' = Nobody
    /\ Goto(p, "UNWIND")
    /\ UNCHANGED <<temporary, heartbeat, granted>>

\* Faulty variants: a process that stops says that it is blocked; it puts the
\* reason where the status belongs.
WriteBlocked(p) == pc[p] = "UNWIND" /\ Write(p, "BLOCKED", "P_STOP")
WriteReason(p)  == pc[p] = "UNWIND" /\ Write(p, "CancelledError", "P_STOP")

\* finally: STOPPED, also from a process that never held the mutex.
WriteStopped(p) == pc[p] = "UNWIND" /\ Write(p, "STOPPED", "P_STOP")
Stopped(p)      == pc[p] = "P_STOP" /\ Rename(p, "EXIT", "SILENT")

Exit(p) == Moves(p, "EXIT", "DEAD") \/ Moves(p, "SILENT", "DEAD")

\* The system releases the lock of a process that dies.
Crash(p) ==
    /\ Alive(p)
    /\ mutex' = IF mutex = p THEN Nobody ELSE mutex
    /\ Goto(p, "DEAD")
    /\ UNCHANGED <<temporary, heartbeat, granted>>

\* A power loss ends every process; a file that was written but not flushed may
\* come back damaged.
PowerLoss ==
    /\ pc' = [p \in Pids |-> IF Alive(p) THEN "DEAD" ELSE pc[p]]
    /\ mutex' = Nobody
    /\ temporary' \in {temporary} \cup (IF temporary # Nobody THEN {Damaged} ELSE {})
    /\ heartbeat' \in {heartbeat} \cup (IF heartbeat # Nobody THEN {Damaged} ELSE {})
    /\ granted' = {}

-----------------------------------------------------------------------------
(***************************************************************************)
(* The tools                                                               *)
(***************************************************************************)
BeatAlive == heartbeat \in Beats /\ Alive(heartbeat.pid)

\* _supervisor_is_running; the repair tool looks at the process only, and it
\* cannot run without a heartbeat file.  Neither passes a damaged one.
MayRun(tool) ==
    /\ heartbeat # Damaged
    /\ IF tool \in Resolvers
       THEN ~ (BeatAlive /\ heartbeat.status # "STOPPED")
       ELSE heartbeat # Nobody /\ ~ BeatAlive

Grant(tool) ==
    /\ tool \notin granted
    /\ MayRun(tool)
    /\ granted' = granted \cup {tool}
    /\ UNCHANGED <<pc, mutex, temporary, heartbeat>>

ToolEnds(tool) ==
    /\ tool \in granted
    /\ granted' = granted \ {tool}
    /\ UNCHANGED <<pc, mutex, temporary, heartbeat>>

-----------------------------------------------------------------------------
Run(p) ==
    \/ TakeMutex(p) \/ MutexHeld(p) \/ Unauthorized(p)
    \/ CaughtUp(p) \/ Started(p) \/ WaitStep(p) \/ Waited(p)
    \/ CycleDone(p) \/ CyclePublished(p) \/ CycleFails(p) \/ FailPublished(p)
    \/ Raise(p) \/ ReleaseMutex(p) \/ WriteStopped(p) \/ Stopped(p) \/ Exit(p)

Next ==
    \/ \E p \in Pids : Start(p) \/ Run(p) \/ Crash(p)
    \/ \E tool \in Tools : Grant(tool) \/ ToolEnds(tool)
    \/ PowerLoss

Spec == Init /\ [][Next]_vars

-----------------------------------------------------------------------------
(***************************************************************************)
(* Properties                                                              *)
(***************************************************************************)
\* Files, lock and local variables keep their types.
TypeOK ==
    /\ pc \in [Pids -> Steps]
    /\ mutex \in Pids \cup {Nobody}
    /\ temporary \in Files
    /\ heartbeat \in Files
    /\ granted \in SUBSET Tools

\* Only one process monitors and trades, across crashes and refused starts
\* (ObservationMutex, run_forever).
OneSupervisor ==
    \A p, q \in Pids : pc[p] \in Inside /\ pc[q] \in Inside => p = q

\* A heartbeat that names a living process with any status but STOPPED comes
\* from a process that got past the mutex and has not said goodbye: refused
\* starts and files renamed by the wrong process never make a stopped supervisor
\* look alive, unless its own last publication raised (_publish,
\* read_execution_heartbeat).
HeartbeatIsNoGhost ==
    BeatAlive /\ heartbeat.status # "STOPPED" =>
        pc[heartbeat.pid] \in Inside \cup {"UNWIND", "P_STOP", "SILENT"}

\* A running supervisor gets the heartbeat back after other starts overwrote
\* it, or it stops (_wait_for_cycle publishes in every step).
HeartbeatReturns ==
    \A p \in Pids :
        pc[p] \in Inside ~> \/ heartbeat \in Beats /\ heartbeat.pid = p /\ heartbeat.status # "STOPPED"
                            \/ pc[p] \notin Inside

\* What the tools' checks claim, "Supervisor must be stopped" and "Execution
\* supervisor may be running; recovery is blocked": no tool gets past its check
\* while a supervisor that announced itself is at work (_supervisor_is_running,
\* main of inspect_close_history).
ToolsRunAlone ==
    [][\A tool \in Tools, p \in Pids :
          tool \in granted' \ granted => pc[p] \notin Announced]_vars
=============================================================================
