-------------------------------- MODULE RiskDay --------------------------------
(***************************************************************************)
(* The daily risk state of a trading cycle: the broker's closed trades of  *)
(* the day, the process-wide risk engine rebuilt from them                 *)
(* (risk/risk_engine.py, risk/risk_controller.py), the quantity it         *)
(* authorizes (risk/position_sizing.py, risk/simulation_contract.py), the  *)
(* second reading just before submission (main.py) and the fill of the     *)
(* simulation broker (broker/simulation_gateway.py).                       *)
(*                                                                         *)
(* Trades close at the broker while the cycle waits, and the UTC day may   *)
(* change between any two steps.  Cash is counted in whole units; a Cent   *)
(* is the grain stakes are rounded to.                                     *)
(***************************************************************************)
EXTENDS Integers, Sequences, FiniteSets

CONSTANTS
    InitialBalance,
    RiskShare,          \* max_risk_percent
    Profits,            \* what a trade may close with
    StopDistances,      \* |entry - stop_loss| of a plan; 0 is malformed
    MinimumQuantity, Increment, Cent,
    MaxTradesDaily, MaxDailyLoss,
    HistoryLimit,       \* count=500 of a history request
    MaxDay, MaxFills    \* bounds

\* What the code and its configuration guarantee of these values.
RiskDayAssumption ==
    /\ {InitialBalance, MinimumQuantity, Increment, Cent, MaxTradesDaily, MaxDailyLoss,
        HistoryLimit} \subseteq Nat \ {0}
    /\ RiskShare \in 1 .. 100 /\ {MaxDay, MaxFills} \subseteq Nat
    /\ Profits \subseteq Int /\ StopDistances \subseteq Nat

Venues == {"simulation", "deriv_demo", "deriv"}

VARIABLES
    riskVenue,        \* the broker this process trades with
    today,        \* the UTC date
    cash,         \* the account balance
    linked,       \* SimulationGateway._connected
    fills,        \* orders filled so far: SimulationGateway._order_ids
    openOrders,         \* open positions: a set of order numbers
    closed,       \* the broker's closed trades, oldest first: [day, profit]
    engine,       \* the module-level RiskEngine: [count, loss]
    riskCycle,        \* the running cycle: its step, its reading, its sizing
    sent          \* the orders sent, each with the reading it rests on

riskVars == <<riskVenue, today, cash, linked, fills, openOrders, closed, engine, riskCycle, sent>>

NoReading == [trades |-> {}, complete |-> FALSE, seen |-> 0]
NoRiskCycle == [step |-> "idle", reading |-> NoReading, authorized |-> 0, quantity |-> 0,
            distance |-> 0, balance |-> 0, judged |-> 0]

RiskInit ==
    /\ riskVenue \in Venues
    /\ today = 0
    /\ cash = InitialBalance
    /\ linked = FALSE
    /\ fills = 0 /\ openOrders = {} /\ closed = <<>>
    /\ engine = [count |-> 0, loss |-> 0]
    /\ riskCycle = NoRiskCycle
    /\ sent = {}

---------------------------------------------------------------------------
\* A trade is its place in closed; a closed trade does not change.
Trades == 1 .. Len(closed)
ClosedOn(day, trades) == {t \in trades : closed[t].day = day}

\* The cash the trades lost, unit by unit: a trade with a profit has none.
UnitsLost(trades) == UNION {{t} \X (1 .. -closed[t].profit) : t \in trades}

\* reconcile_daily_history: the counters restart from the trades closed on the
\* engine's own idea of today; losses are shares of the balance handed in.
Reconciled(trades, day, balance) ==
    LET mine == ClosedOn(day, trades)
    IN  [count |-> Cardinality(mine),
         loss |-> (100 * Cardinality(UnitsLost(mine))) \div balance]

\* evaluate_limits.
LimitsOK == engine.count < MaxTradesDaily /\ engine.loss < MaxDailyLoss

\* floor_synthetic_quantity_exact: whole increments, or nothing.
FloorQuantity(authorized, distance) ==
    LET q == ((authorized \div distance) \div Increment) * Increment
    IN IF q < MinimumQuantity THEN 0 ELSE q

\* authorize_execution_quantity: 0 is a refusal.  A demo stake is the authorized
\* cash rounded to cents, either way on a tie; no Deriv contract's stop is proven.
Quantities(authorized, distance) ==
    IF authorized <= 0 \/ distance <= 0 \/ riskVenue = "deriv" THEN {0}
    ELSE IF riskVenue = "deriv_demo"
         THEN {q \in 0 .. authorized + Cent :
                  q % Cent = 0 /\ 2 * (q - authorized) <= Cent /\ 2 * (authorized - q) <= Cent}
         ELSE {FloorQuantity(authorized, distance)}

\* What the account loses when the stop of this quantity is hit.
LossAtStop(quantity, distance) ==
    IF riskVenue = "deriv_demo" THEN quantity ELSE quantity * distance

---------------------------------------------------------------------------
ConnectSimulation ==
    /\ riskVenue = "simulation" /\ ~linked
    /\ linked' = TRUE
    /\ UNCHANGED <<riskVenue, today, cash, fills, openOrders, closed, engine, riskCycle, sent>>

\* disconnect: positions and order numbers outlive the connection.
DisconnectSimulation ==
    /\ riskVenue = "simulation" /\ linked
    /\ linked' = FALSE
    /\ UNCHANGED <<riskVenue, today, cash, fills, openOrders, closed, engine, riskCycle, sent>>

\* _require_connected; the other gateways' sessions are modelled elsewhere.
Reachable == riskVenue = "simulation" => linked

\* Every error leaves the cycle; the next one starts from nothing.
GiveUp ==
    /\ riskCycle' = NoRiskCycle
    /\ UNCHANGED <<riskVenue, today, cash, linked, fills, openOrders, closed, engine, sent>>

\* The newest trades, as many as one history request returns.
NewestTrades(trades) ==
    {t \in trades : Cardinality({u \in trades : u > t}) < HistoryLimit}

\* get_trade_history_snapshot over [midnight, now]: the newest HistoryLimit trades,
\* complete unless more closed.  Read when a cycle decides, and again before it sends.
ReadHistory ==
    /\ riskCycle.step \in {"idle", "sized"}
    /\ Reachable
    /\ LET mine == ClosedOn(today, Trades)
       IN riskCycle' = [riskCycle EXCEPT
              !.step = IF @ = "idle" THEN "read" ELSE "reread",
              !.reading = [trades |-> NewestTrades(mine),
                           complete |-> Cardinality(mine) <= HistoryLimit,
                           seen |-> Len(closed)],
              !.balance = cash]
    /\ UNCHANGED <<riskVenue, today, cash, linked, fills, openOrders, closed, engine, sent>>

Reconcile ==
    /\ riskCycle.step \in {"read", "reread"}
    /\ engine' = Reconciled(riskCycle.reading.trades, today, riskCycle.balance)
    /\ riskCycle' = [riskCycle EXCEPT !.step = IF @ = "read" THEN "reconciled" ELSE "rechecked",
                              !.judged = today]
    /\ UNCHANGED <<riskVenue, today, cash, linked, fills, openOrders, closed, sent>>

\* approve_trade with enforce_limits, then the quantity.  The signal, its confidence,
\* the volatility and the spread (passes) may refuse the trade as well.
ApproveTrade(passes, distance) ==
    /\ riskCycle.step = "reconciled"
    /\ \E q \in IF passes /\ LimitsOK
                THEN Quantities((riskCycle.balance * RiskShare) \div 100, distance) ELSE {0} :
          riskCycle' = IF q = 0 THEN NoRiskCycle
                   ELSE [riskCycle EXCEPT !.step = "sized", !.quantity = q, !.distance = distance,
                                      !.authorized = (riskCycle.balance * RiskShare) \div 100]
    /\ UNCHANGED <<riskVenue, today, cash, linked, fills, openOrders, closed, engine, sent>>

\* TradeHistorySnapshot.covers.
CoversAlways(reading) == TRUE
Covers(reading) == reading.complete

\* The execution policy on the refreshed context: an incomplete history or a used-up
\* limit refuses.  A market order then fills at once; the simulation numbers it.
PolicyAndFill ==
    /\ riskCycle.step = "rechecked"
    /\ LimitsOK /\ Covers(riskCycle.reading)
    /\ Reachable
    /\ fills < MaxFills
    /\ fills' = fills + 1
    /\ openOrders' = openOrders \cup {fills + 1}
    /\ sent' = sent \cup {[id |-> fills + 1, day |-> riskCycle.judged,
                           seen |-> riskCycle.reading.seen, balance |-> riskCycle.balance,
                           loss |-> LossAtStop(riskCycle.quantity, riskCycle.distance),
                           authorized |-> riskCycle.authorized]}
    /\ riskCycle' = NoRiskCycle
    /\ UNCHANGED <<riskVenue, today, cash, linked, closed, engine>>

Refused ==
    /\ \/ riskCycle.step = "rechecked" /\ ~(LimitsOK /\ Covers(riskCycle.reading) /\ Reachable)
       \/ riskCycle.step = "sized" /\ ~Reachable
    /\ GiveUp

\* The broker closes a position.  The simulation never does: it has no closing order
\* and its prices trigger no stop.
TradeCloses(p) ==
    /\ riskVenue # "simulation"
    /\ openOrders # {} /\ cash + p > 0
    /\ LET id == CHOOSE i \in openOrders : \A j \in openOrders : i <= j
       IN openOrders' = openOrders \ {id}
    /\ closed' = Append(closed, [day |-> today, profit |-> p])
    /\ cash' = cash + p
    /\ UNCHANGED <<riskVenue, today, linked, fills, engine, riskCycle, sent>>

NextDay ==
    /\ today < MaxDay
    /\ today' = today + 1
    /\ UNCHANGED <<riskVenue, cash, linked, fills, openOrders, closed, engine, riskCycle, sent>>

RiskNext ==
    \/ ConnectSimulation \/ DisconnectSimulation
    \/ ReadHistory \/ Reconcile
    \/ \E passes \in BOOLEAN, d \in StopDistances : ApproveTrade(passes, d)
    \/ PolicyAndFill \/ Refused
    \/ \E p \in Profits : TradeCloses(p)
    \/ NextDay

RiskSpec == RiskInit /\ [][RiskNext]_riskVars

---------------------------------------------------------------------------
RiskTypeOK ==
    /\ riskVenue \in Venues /\ today \in 0 .. MaxDay /\ linked \in BOOLEAN
    /\ cash \in Nat \ {0}
    /\ fills \in 0 .. MaxFills /\ openOrders \subseteq 1 .. fills
    /\ engine \in [count : 0 .. HistoryLimit, loss : Nat]

\* The trades of a sent order's day that had closed when its reading was taken.
Behind(o) == ClosedOn(o.day, 1 .. o.seen)

\* An order is sent only while the day it was judged on had fewer closed trades than
\* max_trades_daily and a realised loss under max_daily_loss of the balance, counting
\* every trade the broker had closed by then, a truncated history and a day that ends
\* between the reading and the count included; its loss at the stop exceeds the risk
\* share of that balance by half a cent at most; and no two orders get one number
\* (reconcile_daily_history, evaluate_limits, authorize_execution_quantity,
\* refresh_execution_context, SimulationGateway._fill_order).
RiskDaySound ==
    /\ \A o \in sent :
          /\ Cardinality(Behind(o)) < MaxTradesDaily
          /\ Reconciled(Behind(o), o.day, o.balance).loss < MaxDailyLoss
          /\ 2 * (o.loss - o.authorized) <= Cent
    /\ Cardinality(sent) = fills
=============================================================================
