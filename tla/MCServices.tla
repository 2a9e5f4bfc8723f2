----------------------------- MODULE MCServices -----------------------------
(***************************************************************************)
(* The two long-running processes of an installation, the execution        *)
(* supervisor and the observers, each on a small instance, in one state    *)
(* space: part names the one a behaviour is about and never changes; the   *)
(* other rests in its initial state.  Three starts of the supervisor, so   *)
(* that one can run while another is refused and a third follows.          *)
(***************************************************************************)
EXTENDS ExecutionSupervisor, ObservationDaemon

CONSTANTS p1, p2, p3, resolve, repair

ASSUME ServicesAssumption == ObserverAssumption

VARIABLE part

serviceVars == <<part, vars, observationVars>>

ServicesInit == part \in {"supervisor", "observer"} /\ Init /\ ObservationInit

ServicesNext ==
    \/ part = "supervisor" /\ Next /\ UNCHANGED <<part, observationVars>>
    \/ part = "observer" /\ ObservationNext /\ UNCHANGED <<part, vars>>

\* A started supervisor goes on, as its loop waits for nothing but time; so
\* does an observer, and candles keep closing.
ServicesSpec ==
    /\ ServicesInit /\ [][ServicesNext]_serviceVars
    /\ \A p \in Pids : WF_vars(part = "supervisor" /\ Run(p))
    /\ WF_observationVars(part = "observer" /\ BarCloses)
    /\ \A o \in Observers : WF_observationVars(part = "observer" /\ ObserverStep(o))
=============================================================================
