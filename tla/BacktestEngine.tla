----------------------------- MODULE BacktestEngine -----------------------------
(***************************************************************************)
(* The backtest (backtesting/): one pass over a fixed dataset in which a   *)
(* signal decided at the close of one candle enters at the open of the     *)
(* next, one position at a time, sized by the risk engine so that its stop *)
(* loses what the account risks (risk/), and the report on the trades.     *)
(*                                                                         *)
(* Candles and signals are chosen freely: whatever the dataset and the     *)
(* strategy deliver.  Prices and cash are whole numbers.                   *)
(***************************************************************************)
EXTENDS Integers, Sequences, FiniteSets, FiniteSetsExt

CONSTANTS
    BarPrices,        \* prices a candle may show
    LastCandle,       \* bound on candles evaluated after the warm-up
    StartingBalance,
    RiskPercent,
    FeePerTrade,
    Adverse,          \* spread and slippage against the fill
    StopDistance,     \* stop and target distances, in price
    TargetDistance,
    QuantityIncrement,
    MaxHoldingCandles

\* What the code and its configuration guarantee of these values.
BacktestAssumption ==
    /\ {StartingBalance, StopDistance, TargetDistance, QuantityIncrement, MaxHoldingCandles}
          \subseteq Nat \ {0}
    /\ {FeePerTrade, Adverse, LastCandle} \subseteq Nat
    /\ RiskPercent \in 1 .. 100 /\ BarPrices \subseteq Nat

VARIABLES
    candle,           \* candles evaluated so far
    balance,
    pendingEntry,     \* [direction, signal], or NoPendingEntry
    holding,             \* [direction, signal, entered, price, quantity, before], or NoHolding
    results,          \* closed trades in order
    equity,           \* balance after each close, the starting balance first
    wins, losses,
    finished

backtestVars == <<candle, balance, pendingEntry, holding, results, equity, wins, losses, finished>>

NoPendingEntry == [direction |-> "NONE", signal |-> 0]
NoHolding == [direction |-> "NONE", signal |-> 0, entered |-> 0, price |-> 0,
              quantity |-> 0, before |-> 0]

BacktestInit ==
    /\ candle = 0
    /\ balance = StartingBalance
    /\ pendingEntry = NoPendingEntry /\ holding = NoHolding
    /\ results = <<>> /\ equity = <<StartingBalance>>
    /\ wins = 0 /\ losses = 0
    /\ finished = FALSE

\* Snapshot candles satisfy the OHLC order.
CandleShapes(open) ==
    {b \in [open : {open}, low : BarPrices, high : BarPrices, close : BarPrices] :
        b.low <= open /\ open <= b.high /\ b.low <= b.close /\ b.close <= b.high}

\* authorize_execution_quantity for the simulation: the exact floor of the
\* authorized risk over the loss per unit; nothing below one increment.
AuthorizedQuantity(cash) ==
    ((cash \div StopDistance) \div QuantityIncrement) * QuantityIncrement

\* _enter: at the open of the candle after the signal; the pending signal is
\* spent whether or not a position results.
EnterAt(open, entered) ==
    LET risk == (balance * RiskPercent) \div 100
        buy == pendingEntry.direction = "BUY"
        quantity == AuthorizedQuantity(risk)
    IN IF risk <= FeePerTrade \/ risk > balance \/ quantity = 0 THEN NoHolding
       ELSE [direction |-> pendingEntry.direction, signal |-> pendingEntry.signal,
             entered |-> entered, price |-> IF buy THEN open + Adverse ELSE open - Adverse,
             quantity |-> quantity, before |-> balance]

StopOf(p) == IF p.direction = "BUY" THEN p.price - StopDistance ELSE p.price + StopDistance
TargetOf(p) == IF p.direction = "BUY" THEN p.price + TargetDistance ELSE p.price - TargetDistance

\* _evaluate_exit: the stop wins a collision; then the target; then the timeout.
ExitOf(p, bar, index) ==
    LET buy == p.direction = "BUY"
        stopped == IF buy THEN bar.low <= StopOf(p) ELSE bar.high >= StopOf(p)
        reached == IF buy THEN bar.high >= TargetOf(p) ELSE bar.low <= TargetOf(p)
    IN IF stopped THEN [reason |-> "STOP_LOSS", price |-> StopOf(p)]
       ELSE IF reached THEN [reason |-> "TAKE_PROFIT", price |-> TargetOf(p)]
       ELSE IF index - p.entered + 1 >= MaxHoldingCandles
       THEN [reason |-> "TIMEOUT", price |-> bar.close]
       ELSE [reason |-> "NONE", price |-> 0]

\* Mutant: the balance is not limited.
CashUnlimited(gross) == balance + gross - FeePerTrade

\* _close: the balance is cash-limited at zero ...
CashAfter(gross) ==
    IF balance + gross - FeePerTrade > 0 THEN balance + gross - FeePerTrade ELSE 0

\* ... and the trade's result is what the balance really changed by.
CloseTrade(p, exit, index) ==
    LET gross == (IF p.direction = "BUY" THEN exit.price - p.price
                                         ELSE p.price - exit.price) * p.quantity
        after == CashAfter(gross)
        net == after - p.before
    IN /\ balance' = after
       /\ results' = Append(results, [signal |-> p.signal, entered |-> p.entered,
              exited |-> index, reason |-> exit.reason, before |-> p.before,
              after |-> after, net |-> net])
       /\ equity' = Append(equity, after)
       /\ wins' = wins + (IF net > 0 THEN 1 ELSE 0)
       /\ losses' = losses + (IF net < 0 THEN 1 ELSE 0)
       /\ holding' = NoHolding

\* process_candle, up to the position that is left for queue_signal to see.
ProcessCandle(bar, index) ==
    LET entered == holding = NoHolding /\ pendingEntry # NoPendingEntry /\ index > pendingEntry.signal
        p == IF entered THEN EnterAt(bar.open, index) ELSE holding
        exit == ExitOf(p, bar, index)
    IN IF p # NoHolding /\ exit.reason # "NONE" THEN CloseTrade(p, exit, index)
       ELSE holding' = p /\ UNCHANGED <<balance, results, equity, wins, losses>>

\* queue_signal: only when flat with nothing pending, and the risk engine approves
\* (direction, confidence, ATR and spread: approved says whether they all pass).
QueueSignal(direction, approved, index) ==
    LET pendingLeft == IF holding = NoHolding THEN NoPendingEntry ELSE pendingEntry
    IN pendingEntry' = IF holding' = NoHolding /\ pendingLeft = NoPendingEntry
                          /\ direction \in {"BUY", "SELL"} /\ approved
                       THEN [direction |-> direction, signal |-> index] ELSE pendingLeft

\* One turn of run_backtest's loop.
EvaluateCandle ==
    /\ ~finished /\ candle < LastCandle
    /\ candle' = candle + 1
    /\ \E open \in BarPrices : \E bar \in CandleShapes(open) : ProcessCandle(bar, candle + 1)
    /\ \E direction \in {"BUY", "SELL", "NO_TRADE"}, approved \in BOOLEAN :
          QueueSignal(direction, approved, candle + 1)
    /\ UNCHANGED finished

\* finish: an open position is closed at the last candle's close, which neither
\* reached its stop nor its target; a pending signal is dropped.
FinishBacktest ==
    /\ ~finished /\ candle > 0
    /\ finished' = TRUE /\ pendingEntry' = NoPendingEntry
    /\ IF holding = NoHolding THEN UNCHANGED <<balance, holding, results, equity, wins, losses>>
       ELSE \E close \in BarPrices :
               /\ IF holding.direction = "BUY" THEN close > StopOf(holding) /\ close < TargetOf(holding)
                                            ELSE close < StopOf(holding) /\ close > TargetOf(holding)
               /\ CloseTrade(holding, [reason |-> "END_OF_DATA", price |-> close], candle)
    /\ UNCHANGED candle

BacktestNext == EvaluateCandle \/ FinishBacktest

\* build_backtest_result: the running peak and the deepest fall from it.
Drawdown(curve) ==
    LET run[n \in DOMAIN curve] ==
            IF n = 1 THEN [peak |-> curve[1], deepest |-> 0]
            ELSE LET peak == Max({run[n - 1].peak, curve[n]})
                 IN [peak |-> peak, deepest |-> Max({run[n - 1].deepest, peak - curve[n]})]
    IN run[Len(curve)].deepest

\* The longest run of losing trades.
ConsecutiveLosses(trades) ==
    LET run[n \in 0 .. Len(trades)] ==
            IF n = 0 THEN <<0, 0>>
            ELSE LET here == IF trades[n].net < 0 THEN run[n - 1][1] + 1 ELSE 0
                 IN <<here, Max({run[n - 1][2], here})>>
    IN run[Len(trades)][2]

---------------------------------------------------------------------------
(* Properties.                                                             *)

BacktestTypeOK ==
    /\ candle \in 0 .. LastCandle /\ balance \in Nat
    /\ pendingEntry.direction \in {"NONE", "BUY", "SELL"} /\ holding.direction \in {"NONE", "BUY", "SELL"}
    /\ Len(equity) = Len(results) + 1

\* Nothing is decided on a price it could not have known, positions do not
\* overlap, and a trade loses no more than it risked and its fee, ruin included.
TradesAreCausal ==
    /\ pendingEntry = NoPendingEntry \/ holding = NoHolding
    /\ \A n \in DOMAIN results :
          /\ results[n].signal < results[n].entered /\ results[n].entered <= results[n].exited
          /\ results[n].exited - results[n].entered < MaxHoldingCandles
          /\ n > 1 => results[n - 1].exited <= results[n].signal
          /\ results[n].net >= -((results[n].before * RiskPercent) \div 100) - FeePerTrade

\* The account's books: each trade starts from what the last one left, the
\* balance is the sum, and the report's drawdown and losing run are the worst
\* the equity curve and the trades contain.
BooksBalance ==
    /\ balance = equity[Len(equity)]
    /\ \A n \in DOMAIN results :
          equity[n] = results[n].before /\ equity[n + 1] = equity[n] + results[n].net
    /\ wins + losses <= Len(results)
    /\ Drawdown(equity) =
          Max({equity[p[1]] - equity[p[2]] :
                  p \in {q \in (DOMAIN equity) \X (DOMAIN equity) : q[1] <= q[2]}})
    /\ ConsecutiveLosses(results) =
          Max({0} \cup {p[2] - p[1] + 1 : p \in {q \in (DOMAIN results) \X (DOMAIN results) :
              q[1] <= q[2] /\ \A k \in q[1] .. q[2] : results[k].net < 0}})

BacktestSound == TradesAreCausal /\ BooksBalance
=============================================================================
