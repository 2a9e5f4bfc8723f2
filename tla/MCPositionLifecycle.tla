--------------------------- MODULE MCPositionLifecycle ---------------------------
(***************************************************************************)
(* Instances of PositionLifecycle.                                         *)
(*   repair:  one position of three lots, followed by the supervisor and   *)
(*            by a repair tool that runs concurrently with it.             *)
(*   cycle:   two watchlist pairs, the supervisor and a repair tool.       *)
(*   closes:  a supervised and a preview position, under fairness.         *)
(*   preview: a watchlist pair and the order of the preview tool.          *)
(***************************************************************************)
EXTENDS PositionLifecycle

CONSTANTS t1, t2, sup, tool
=============================================================================
