-------------------------- MODULE MCExecutionSupervisor --------------------------
(***************************************************************************)
(* An instance of ExecutionSupervisor for the operator's tools: two starts *)
(* of the supervisor and one run of each tool.                             *)
(***************************************************************************)
EXTENDS ExecutionSupervisor

CONSTANTS p1, p2, resolve, repair
=============================================================================
