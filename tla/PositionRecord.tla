------------------------------ MODULE PositionRecord ------------------------------
(***************************************************************************)
(* What the ledger promises of a position, without processes, snapshots,   *)
(* histories, claims, crashes and halts: a fill is entered once, with the  *)
(* volume the broker has; what the ledger shows of an open position lies   *)
(* between that and what was entered; doubt changes nothing else; a close  *)
(* is confirmed only when nothing is left and is never taken back; and     *)
(* each alert goes out once, while it is true.                             *)
(*                                                                         *)
(* What is shown may grow again: a second reader with an older snapshot    *)
(* may write last.                                                         *)
(***************************************************************************)
EXTENDS Naturals

CONSTANTS Tickets, Volume

VARIABLES
    opened,     \* the positions the broker opened
    held,       \* what is left of each at the broker
    row,        \* NONE, OPEN or CLOSED in the ledger
    entered,    \* the volume the row was entered with
    shown,      \* what the ledger says is left
    verdict,    \* NONE, PARTIAL, UNCONFIRMED or CONFIRMED
    told        \* how often each alert went out

vars == <<opened, held, row, entered, shown, verdict, told>>

Alerts == {"OPENED", "CLOSED", "UNCONFIRMED"} \X Tickets

Init ==
    /\ opened = {}
    /\ held = [t \in Tickets |-> 0]
    /\ row = [t \in Tickets |-> "NONE"]
    /\ entered = held
    /\ shown = held
    /\ verdict = row
    /\ told = [n \in Alerts |-> 0]

\* The broker opens a position once, and what is left of it only shrinks.
Open(t) ==
    /\ t \notin opened
    /\ opened' = opened \cup {t}
    /\ held' = [held EXCEPT ![t] = Volume]
    /\ UNCHANGED <<row, entered, shown, verdict, told>>

Shrink(t) ==
    /\ \E v \in 0 .. Volume : v < held[t] /\ held' = [held EXCEPT ![t] = v]
    /\ UNCHANGED <<opened, row, entered, shown, verdict, told>>

Enter(t) ==
    /\ row[t] = "NONE" /\ held[t] > 0
    /\ row' = [row EXCEPT ![t] = "OPEN"]
    /\ entered' = [entered EXCEPT ![t] = held[t]]
    /\ shown' = [shown EXCEPT ![t] = held[t]]
    /\ UNCHANGED <<opened, held, verdict, told>>

Show(t) ==
    /\ row[t] = "OPEN"
    /\ \E v \in 1 .. Volume :
          /\ held[t] <= v /\ v < entered[t]
          /\ shown' = [shown EXCEPT ![t] = v]
    /\ verdict' = [verdict EXCEPT ![t] = "PARTIAL"]
    /\ UNCHANGED <<opened, held, row, entered, told>>

Doubt(t) ==
    /\ row[t] = "OPEN"
    /\ verdict' = [verdict EXCEPT ![t] = "UNCONFIRMED"]
    /\ UNCHANGED <<opened, held, row, entered, shown, told>>

Close(t) ==
    /\ row[t] = "OPEN" /\ held[t] = 0
    /\ row' = [row EXCEPT ![t] = "CLOSED"]
    /\ shown' = [shown EXCEPT ![t] = 0]
    /\ verdict' = [verdict EXCEPT ![t] = "CONFIRMED"]
    /\ UNCHANGED <<opened, held, entered, told>>

Tell(n, t) ==
    /\ told[<<n, t>>] = 0
    /\ told' = [told EXCEPT ![<<n, t>>] = 1]
    /\ UNCHANGED <<opened, held, row, entered, shown, verdict>>

TellOpened(t)      == row[t] # "NONE" /\ Tell("OPENED", t)
TellClosed(t)      == row[t] = "CLOSED" /\ verdict[t] = "CONFIRMED" /\ Tell("CLOSED", t)
TellUnconfirmed(t) == row[t] = "OPEN" /\ verdict[t] = "UNCONFIRMED" /\ Tell("UNCONFIRMED", t)

Next ==
    \E t \in Tickets :
        \/ Open(t) \/ Shrink(t) \/ Enter(t) \/ Show(t) \/ Doubt(t) \/ Close(t)
        \/ TellOpened(t) \/ TellClosed(t) \/ TellUnconfirmed(t)

Spec == Init /\ [][Next]_vars
=============================================================================
