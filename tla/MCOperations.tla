---------------------------- MODULE MCOperations ----------------------------
(***************************************************************************)
(* Operations on small instances of its components.                        *)
(***************************************************************************)
EXTENDS Operations

\* The last one has its stop at its entry.
FourPlans ==
    {[side |-> "BUY", entry |-> 3, stop |-> 2, take |-> 4],
     [side |-> "SELL", entry |-> 2, stop |-> 3, take |-> 1],
     [side |-> "BUY", entry |-> 4, stop |-> 1, take |-> 5],
     [side |-> "BUY", entry |-> 3, stop |-> 3, take |-> 4]}

\* A close, the scheduled update, a simulated close, a health event.
ChannelSlot == [id |-> 2, kind |-> "CHANNEL_UPDATE", simulated |-> FALSE]
FourAlerts ==
    {[id |-> 1, kind |-> "POSITION_CLOSED", simulated |-> FALSE], ChannelSlot,
     [id |-> 3, kind |-> "POSITION_CLOSED", simulated |-> TRUE],
     [id |-> 4, kind |-> "RUNTIME_HEALTH", simulated |-> FALSE]}

SeedPairs == {<<"A", "M1">>, <<"B", "M1">>}
ThreePairs == SeedPairs \cup {<<"A", "M5">>}

FourPrices == 1 .. 4
LossOrProfit == {-4, 1}
=============================================================================
