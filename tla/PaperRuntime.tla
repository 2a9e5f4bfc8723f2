------------------------------ MODULE PaperRuntime ------------------------------
(***************************************************************************)
(* The continuous paper runtime (execution/paper_runtime.py) with its      *)
(* in-memory venue (execution/paper_contract.py) and the closed-candle     *)
(* sources of tools/paper_runtime.py.                                      *)
(*                                                                         *)
(* One process runs one cycle at a time.  The observation row, the         *)
(* heartbeat and the paper intent records are in SQLite and survive a      *)
(* crash; the positions of the venue are in memory and do not.  A crash    *)
(* may fall between any two commits of a cycle.                            *)
(*                                                                         *)
(* Candles of the one monitored scope are numbered by their close.  The    *)
(* stake is one unit and fees are zero, so money is a price difference.    *)
(***************************************************************************)
EXTENDS Integers, FiniteSets

CONSTANTS
    MaxCandle,        \* bound on the candles that close
    Prices,           \* candle prices
    Plans,            \* entries the strategy may ask for: [side, entry, stop, take]
    Slippage,         \* PaperContractSpecification.slippage
    RiskBudget,       \* the authorized risk amount of an entry
    MaxCrashes        \* bound on crashes and stops

\* What the code and its configuration guarantee of these values.
PaperAssumption ==
    /\ MaxCandle \in Nat /\ MaxCrashes \in Nat /\ Slippage \in Nat /\ RiskBudget \in Nat
    /\ Prices \subseteq Nat \ {0}
    /\ Plans \subseteq [side : {"BUY", "SELL"}, entry : Nat, stop : Nat, take : Nat]

Candles == 1 .. MaxCandle
Shapes == {b \in [open : Prices, high : Prices, low : Prices] : b.low <= b.open /\ b.open <= b.high}

VARIABLES
    market,           \* candles closed so far
    paperUp,          \* the runtime process runs
    cycle,            \* where run_once is
    observed,         \* the candle being processed
    row,              \* durable observation row: [at, state]
    intents,          \* durable intent records: candle -> status
    beat,             \* durable heartbeat: [open, action]
    venue,            \* in-memory positions: candle of entry -> [plan, seen, state]
    closes,           \* every close ever made: [loss, worst, gap]
    stops,            \* crashes and stops so far
    claimed,          \* candles ever claimed as new, in every process
    lost,             \* a process ended with a position open
    unseen,           \* ... before any heartbeat had shown it, its cycle already complete
    tradedAfterLoss   \* a candle was claimed after such a loss

paperVars == <<market, paperUp, cycle, observed, row, intents, beat, venue, closes,
               stops, claimed, lost, unseen, tradedAfterLoss>>

NoRow == [at |-> 0, state |-> "NONE"]
NoVenue == [k \in {} |-> "CLOSED"]
OpenIn(v) == {k \in DOMAIN v : v[k].state # "CLOSED"}
Unresolved == {k \in DOMAIN intents : intents[k] \in {"PENDING", "UNKNOWN"}}

PaperInit ==
    /\ market = 0 /\ paperUp = FALSE /\ cycle = "idle" /\ observed = 0
    /\ row = NoRow
    /\ intents = [k \in {} |-> "ACCEPTED"]
    /\ beat = [open |-> 0, action |-> "IDLE"]
    /\ venue = NoVenue /\ closes = {} /\ stops = 0 /\ claimed = {}
    /\ lost = FALSE /\ unseen = FALSE /\ tradedAfterLoss = FALSE

---------------------------------------------------------------------------
(* The paper venue.                                                        *)

BUY(p) == p.side = "BUY"

\* propose: the levels must enclose the entry on the right sides.
LevelsOK(p) ==
    IF BUY(p) THEN p.stop < p.entry /\ p.entry < p.take
              ELSE p.take < p.entry /\ p.entry < p.stop

\* The loss promised at the stop, slippage included.
MaximumLoss(p) == (IF BUY(p) THEN p.entry - p.stop ELSE p.stop - p.entry) + Slippage

\* observe: the open is examined first, then the stop, then the target.
ExitPrices(p, b) ==
    LET Stopped(x) == IF BUY(p) THEN x <= p.stop ELSE x >= p.stop
        Reached(x) == IF BUY(p) THEN x >= p.take ELSE x <= p.take
        adverse == IF BUY(p) THEN b.low ELSE b.high
        favourable == IF BUY(p) THEN b.high ELSE b.low
    IN IF Stopped(b.open) \/ Reached(b.open) THEN {b.open}
       ELSE IF Stopped(adverse) THEN {p.stop}
       ELSE IF Reached(favourable) THEN {p.take} ELSE {}

RealizedLoss(p, price) ==
    IF BUY(p) THEN p.entry - (price - Slippage) ELSE (price + Slippage) - p.entry

\* The open of the exit candle already lay beyond the stop.
Gapped(p, b) == IF BUY(p) THEN b.open < p.stop ELSE b.open > p.stop

ClosedBy(k, b) == ExitPrices(venue[k].plan, b) # {}
CloseRecord(k, b) ==
    LET p == venue[k].plan IN
    [loss |-> RealizedLoss(p, CHOOSE x \in ExitPrices(p, b) : TRUE),
     worst |-> MaximumLoss(p), gap |-> Gapped(p, b)]

---------------------------------------------------------------------------
(* The cycle.                                                              *)

CandleCloses ==
    /\ market < MaxCandle
    /\ market' = market + 1
    /\ UNCHANGED <<paperUp, cycle, observed, row, intents, beat, venue, closes, stops,
                   claimed, lost, unseen, tradedAfterLoss>>

\* The constructor: a heartbeat with open positions blocks the restart.
StartRuntime ==
    /\ ~paperUp /\ stops < MaxCrashes
    /\ beat.open = 0
    /\ paperUp' = TRUE /\ cycle' = "idle" /\ venue' = NoVenue
    /\ UNCHANGED <<market, observed, row, intents, beat, closes, stops, claimed, lost,
                   unseen, tradedAfterLoss>>

\* Mutant: an unfinished row does not refuse a later candle.
ClaimLater(k) ==
    CASE row.at = k /\ row.state = "COMPLETE" -> "DUPLICATE"
      [] row.at > k -> "OLD"
      [] OTHER -> "NEW"

\* begin: what the stored row makes of a candle.
Claim(k) ==
    CASE row.state = "PROCESSING" -> "UNRESOLVED"
      [] row.at = k /\ row.state = "COMPLETE" -> "DUPLICATE"
      [] row.at > k /\ row.state # "PROCESSING" -> "OLD"
      [] OTHER -> "NEW"

\* The source fails, is stale, or delivers a forming or disordered batch.
SourceRefused ==
    /\ paperUp /\ cycle = "idle"
    /\ beat.action # "ERROR"
    /\ beat' = [beat EXCEPT !.action = "ERROR"]
    /\ UNCHANGED <<market, paperUp, cycle, observed, row, intents, venue, closes, stops,
                   claimed, lost, unseen, tradedAfterLoss>>

\* run_once up to the claim; the newest candle delivered need not be the newest closed.
BeginObservation ==
    /\ paperUp /\ cycle = "idle"
    /\ \E k \in 1 .. market :
          IF Claim(k) = "NEW"
          THEN /\ row' = [at |-> k, state |-> "PROCESSING"]
               /\ observed' = k /\ cycle' = "observing"
               /\ claimed' = claimed \cup {k}
               /\ tradedAfterLoss' = (tradedAfterLoss \/ lost)
               /\ UNCHANGED beat
          ELSE /\ beat' = [beat EXCEPT !.action =
                             IF Claim(k) = "UNRESOLVED" THEN "ERROR" ELSE "IGNORED"]
               /\ UNCHANGED <<row, observed, cycle, claimed, tradedAfterLoss>>
    /\ UNCHANGED <<market, paperUp, intents, venue, closes, stops, lost, unseen>>

\* Every open position sees the candle, if it is newer than what it saw last.
ObservePositions ==
    /\ paperUp /\ cycle = "observing"
    /\ \E b \in Shapes :
          LET due == {k \in OpenIn(venue) : venue[k].seen < observed}
              out == {k \in due : ClosedBy(k, b)}
          IN /\ venue' = [k \in DOMAIN venue |->
                            IF k \in out THEN [venue[k] EXCEPT !.seen = observed, !.state = "CLOSED"]
                            ELSE IF k \in due THEN [venue[k] EXCEPT !.seen = observed]
                            ELSE venue[k]]
             /\ closes' = closes \cup {CloseRecord(k, b) : k \in out}
    /\ cycle' = "deciding"
    /\ UNCHANGED <<market, paperUp, observed, row, intents, beat, stops, claimed, lost,
                   unseen, tradedAfterLoss>>

\* decide() or the store raises: the heartbeat says ERROR, the row stays PROCESSING.
PaperCycleFails ==
    /\ paperUp /\ cycle \in {"deciding", "settled"}
    /\ beat' = [beat EXCEPT !.action = "ERROR"]
    /\ cycle' = "idle" /\ observed' = 0
    /\ UNCHANGED <<market, paperUp, row, intents, venue, closes, stops, claimed, lost,
                   unseen, tradedAfterLoss>>

\* No entry, or the executor refuses it: an unresolved intent, a position already open.
NoEntryMade ==
    /\ paperUp /\ cycle = "deciding"
    /\ cycle' = "settled"
    /\ UNCHANGED <<market, paperUp, observed, row, intents, beat, venue, closes, stops,
                   claimed, lost, unseen, tradedAfterLoss>>

\* AsyncTradeExecutor.submit up to the durable claim of the intent.
ClaimEntry ==
    /\ paperUp /\ cycle = "deciding"
    /\ Unresolved = {} /\ OpenIn(venue) = {} /\ observed \notin DOMAIN intents
    /\ intents' = [k \in DOMAIN intents \cup {observed} |->
                     IF k = observed THEN "PENDING" ELSE intents[k]]
    /\ cycle' = "submitting"
    /\ UNCHANGED <<market, paperUp, observed, row, beat, venue, closes, stops, claimed,
                   lost, unseen, tradedAfterLoss>>

\* What the venue accepts: valid levels and a loss within the authorized risk.
VenueAccepts(p) == LevelsOK(p) /\ MaximumLoss(p) <= RiskBudget

\* submit_order of the paper venue; a refusal is an exception, so the intent is UNKNOWN.
SubmitEntry ==
    /\ paperUp /\ cycle = "submitting"
    /\ \E p \in Plans :
          IF VenueAccepts(p)
          THEN /\ venue' = [k \in DOMAIN venue \cup {observed} |->
                              IF k = observed THEN [plan |-> p, seen |-> observed, state |-> "OPEN"]
                              ELSE venue[k]]
               /\ intents' = [intents EXCEPT ![observed] = "ACCEPTED"]
          ELSE /\ intents' = [intents EXCEPT ![observed] = "UNKNOWN"]
               /\ UNCHANGED venue
    /\ cycle' = "settled"
    /\ UNCHANGED <<market, paperUp, observed, row, beat, closes, stops, claimed, lost,
                   unseen, tradedAfterLoss>>

CompleteObservation ==
    /\ paperUp /\ cycle = "settled"
    /\ row' = [row EXCEPT !.state = "COMPLETE"]
    /\ cycle' = "publishing"
    /\ UNCHANGED <<market, paperUp, observed, intents, beat, venue, closes, stops, claimed,
                   lost, unseen, tradedAfterLoss>>

PublishHeartbeat ==
    /\ paperUp /\ cycle = "publishing"
    /\ beat' = [open |-> Cardinality(OpenIn(venue)), action |-> "DONE"]
    /\ cycle' = "idle" /\ observed' = 0
    /\ UNCHANGED <<market, paperUp, row, intents, venue, closes, stops, claimed, lost,
                   unseen, tradedAfterLoss>>

\* The process ends: killed anywhere, or stopped between cycles.
RuntimeEnds ==
    /\ paperUp /\ stops < MaxCrashes
    /\ paperUp' = FALSE /\ stops' = stops + 1
    /\ lost' = (lost \/ OpenIn(venue) # {})
    /\ unseen' = (unseen \/ (cycle = "publishing" /\ OpenIn(venue) # {} /\ beat.open = 0))
    /\ venue' = NoVenue /\ cycle' = "idle" /\ observed' = 0
    /\ UNCHANGED <<market, row, intents, beat, closes, claimed, tradedAfterLoss>>

PaperNext ==
    \/ CandleCloses \/ StartRuntime \/ SourceRefused \/ BeginObservation
    \/ ObservePositions \/ PaperCycleFails \/ NoEntryMade \/ ClaimEntry \/ SubmitEntry
    \/ CompleteObservation \/ PublishHeartbeat \/ RuntimeEnds

PaperSpec == PaperInit /\ [][PaperNext]_paperVars

---------------------------------------------------------------------------
(* Properties.                                                             *)

PaperTypeOK ==
    /\ market \in 0 .. MaxCandle /\ observed \in 0 .. MaxCandle /\ stops \in 0 .. MaxCrashes
    /\ cycle \in {"idle", "observing", "deciding", "submitting", "settled", "publishing"}
    /\ row.at \in 0 .. MaxCandle /\ row.state \in {"NONE", "PROCESSING", "COMPLETE"}
    /\ beat.action \in {"IDLE", "ERROR", "IGNORED", "DONE"}
    /\ DOMAIN venue \subseteq Candles /\ claimed \subseteq Candles
    /\ \A k \in DOMAIN intents : intents[k] \in {"PENDING", "UNKNOWN", "ACCEPTED"}

\* A runtime that lost an open position with its process never trades on: the
\* heartbeat refuses the restart or the unfinished candle refuses every later
\* one.  The one gap is a crash between the two commits that end a cycle.
LostPositionStopsTrading == tradedAfterLoss => unseen

\* A close never costs more than the loss authorized at entry, unless the
\* market opened beyond the stop.
LossWithinAuthorization == \A c \in closes : c.gap \/ (c.loss <= c.worst /\ c.worst <= RiskBudget)

\* Of a step: a candle is claimed once and in order, whatever crashes and retries
\* come between.
CandlesActedOnce ==
    row' # row /\ row'.state = "PROCESSING" => \A j \in claimed : j < row'.at
===============================================================================
