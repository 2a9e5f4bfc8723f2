---------------------------- MODULE SequentialReplay ----------------------------
(***************************************************************************)
(* The sequential replay: persisted candidates are walked in order of      *)
(* their signal close; one is traded unless its instrument is still held,  *)
(* a daily cap is used up, or a loss stop or breaker is in force           *)
(* (research/sequential_replay.py, _simulate_trades).  The random controls *)
(* are then drawn per instrument and day to match the trades made.         *)
(*                                                                         *)
(* Each candidate, its outcome included, is chosen freely: whatever        *)
(* resolve_signal and the history can deliver.  Time is counted in bars.   *)
(***************************************************************************)
EXTENDS Integers, FiniteSets, Sequences

CONSTANTS
    Instruments,
    BarsPerDay,
    LastBar,          \* bound on signal closes
    MaxTrades,        \* bound on trades
    LongestTrade,     \* bound on bars between entry and outcome
    GlobalCap, InstrumentCap,
    LossStop,         \* the daily loss stop, as a positive number of R
    LossBreaker,      \* consecutive losses that open the breaker
    MaxControls       \* bound on bars eligible for a control per stratum

\* What the code and its configuration guarantee of these values.
SequentialAssumption ==
    /\ {BarsPerDay, GlobalCap, InstrumentCap, LossStop, LossBreaker} \subseteq Nat \ {0}
    /\ {LastBar, MaxTrades, LongestTrade, MaxControls} \subseteq Nat

VARIABLES
    walked,           \* signal close of the candidate walked last
    openUntil,        \* instrument -> release time of its last trade
    taken,            \* the trades in order: [instrument, entry, release, loss]
    realized,         \* day -> neutral R booked on it
    lossRun,          \* consecutive losses, of breakerDay
    breakerOpen, breakerDay,
    entryLag,         \* an entry was delayed past its signal's close (a data gap)
    controls          \* [requested, generated, shortfall], once drawn

sequentialVars == <<walked, openUntil, taken, realized, lossRun, breakerOpen,
                    breakerDay, entryLag, controls>>

ReplayDay(t) == t \div BarsPerDay
ReplayDays == 0 .. ReplayDay(LastBar + 1)
NotDrawn == [requested |-> 0, generated |-> 0, shortfall |-> 0]

SequentialInit ==
    /\ walked = 0
    /\ openUntil = [i \in Instruments |-> 0]
    /\ taken = <<>>
    /\ realized = [d \in ReplayDays |-> 0]
    /\ lossRun = 0 /\ breakerOpen = FALSE /\ breakerDay = -1
    /\ entryLag = FALSE
    /\ controls = NotDrawn

\* plan_geometry_r of the possible outcomes, neutral and pessimistic.
Results(status) ==
    CASE status = "TP" -> {<<2, 2>>}
      [] status = "SL" -> {<<-1, -1>>}
      [] status = "TIMEOUT" -> {<<0, 0>>}
      [] status = "AMBIGUOUS" -> {<<0, -1>>}
      [] OTHER -> {}

OnDay(d) == {n \in DOMAIN taken : ReplayDay(taken[n].entry) = d}
OnDayOf(d, i) == {n \in OnDay(d) : taken[n].instrument = i}

\* Mutant: the breaker stops the trade after the one it should stop.
BreakerOpenLate(d) == breakerDay = d /\ breakerOpen /\ lossRun > LossBreaker

\* A new entry day resets the breaker, whichever day came before.
LossRunOn(d) == IF breakerDay = d THEN lossRun ELSE 0
BreakerOpenOn(d) == breakerDay = d /\ breakerOpen

\* The checks, in their order; the first that applies names the skip.
SkipReason(i, close, entry, status) ==
    LET d == ReplayDay(entry)
        checks == <<
            <<close < openUntil[i], "open_position">>,
            <<Results(status) = {}, "not_entered_or_unresolved">>,
            <<BreakerOpenOn(d), "consecutive_loss_breaker">>,
            <<realized[d] <= -LossStop, "daily_loss_stop">>,
            <<Cardinality(OnDay(d)) >= GlobalCap, "global_daily_cap">>,
            <<Cardinality(OnDayOf(d, i)) >= InstrumentCap, "instrument_daily_cap">>>>
        failed == {n \in DOMAIN checks : checks[n][1]}
    IN IF failed = {} THEN "none"
       ELSE checks[CHOOSE n \in failed : \A k \in failed : n <= k][2]

\* Skipped: only a candidate that got as far as the breaker moves its day.
SkipCandidate(i, close, entry, status) ==
    /\ SkipReason(i, close, entry, status) # "none"
    /\ walked' = close
    /\ IF SkipReason(i, close, entry, status) \in {"open_position", "not_entered_or_unresolved"}
       THEN UNCHANGED <<lossRun, breakerOpen, breakerDay>>
       ELSE /\ lossRun' = LossRunOn(ReplayDay(entry))
            /\ breakerOpen' = BreakerOpenOn(ReplayDay(entry))
            /\ breakerDay' = ReplayDay(entry)
    /\ entryLag' = (entryLag \/ entry # close)
    /\ UNCHANGED <<openUntil, taken, realized, controls>>

TakeCandidate(i, close, entry, status, release) ==
    LET d == ReplayDay(entry) IN
    /\ SkipReason(i, close, entry, status) = "none"
    /\ \E r \in Results(status) :
          /\ taken' = Append(taken, [instrument |-> i, entry |-> entry,
                                    release |-> release, loss |-> r[2] < 0])
          /\ realized' = [realized EXCEPT ![d] = @ + r[1]]
          /\ lossRun' = IF r[2] < 0 THEN LossRunOn(d) + 1 ELSE 0
          /\ breakerOpen' = (r[2] < 0 /\ LossRunOn(d) + 1 >= LossBreaker)
          /\ breakerDay' = d
    /\ walked' = close
    /\ openUntil' = [openUntil EXCEPT ![i] = release]
    /\ entryLag' = (entryLag \/ entry # close)
    /\ UNCHANGED controls

\* The next candidate in order of close: any instrument, outcome and duration.
WalkCandidate ==
    /\ controls = NotDrawn /\ Len(taken) < MaxTrades
    /\ \E i \in Instruments, close \in walked .. LastBar, gap \in 0 .. 1,
          status \in {"TP", "SL", "TIMEOUT", "AMBIGUOUS", "UNRESOLVED"} :
          \/ SkipCandidate(i, close, close + gap, status)
          \/ \E length \in 0 .. LongestTrade :
                TakeCandidate(i, close, close + gap, status, close + gap + length)

\* build_stratified_random_specs: as many control entries as BUY trades, drawn
\* without replacement from the bars of the same instrument and day.  The side
\* of a trade matters nowhere else, so it is chosen here.
StratumOf(n) == <<taken[n].instrument, ReplayDay(taken[n].entry)>>
StratumCount(buys, s) == Cardinality({n \in buys : StratumOf(n) = s})

DrawControls ==
    /\ controls = NotDrawn
    /\ \E buys \in SUBSET DOMAIN taken :
       LET strata == {StratumOf(n) : n \in buys}
       IN \E eligible \in [strata -> 0 .. MaxControls] :
          LET drawn == Cardinality({e \in strata \X (1 .. MaxControls) :
                           e[2] <= eligible[e[1]] /\ e[2] <= StratumCount(buys, e[1])})
          IN \E planned \in 0 .. drawn :
                controls' = [requested |-> Cardinality(buys), generated |-> planned,
                             shortfall |-> (Cardinality(buys) - drawn) + (drawn - planned)]
    /\ UNCHANGED <<walked, openUntil, taken, realized, lossRun, breakerOpen,
                   breakerDay, entryLag>>

SequentialNext == WalkCandidate \/ DrawControls

---------------------------------------------------------------------------
(* Properties.                                                             *)

SequentialTypeOK ==
    /\ walked \in 0 .. LastBar /\ lossRun \in 0 .. LossBreaker
    /\ breakerOpen \in BOOLEAN /\ breakerDay \in ReplayDays \cup {-1}
    /\ \A n \in DOMAIN taken : taken[n].entry <= taken[n].release

\* Trade n of day d follows LossBreaker losses of that day in a row.
AfterLosingRun(d, n) ==
    \E m \in OnDay(d) :
        /\ m < n
        /\ Cardinality({k \in OnDay(d) : k \in m .. n - 1}) >= LossBreaker
        /\ \A k \in OnDay(d) : k \in m .. n - 1 => taken[k].loss

\* The replay never holds an instrument twice, never exceeds a daily cap, never
\* enters on a day whose breaker is open (as long as entries come in the order of
\* the signals), and its controls account for every trade made.
SequentialSound ==
    /\ \A m, n \in DOMAIN taken : m < n /\ taken[m].instrument = taken[n].instrument =>
          taken[m].release <= taken[n].entry
    /\ \A d \in ReplayDays :
          /\ Cardinality(OnDay(d)) <= GlobalCap
          /\ \A i \in Instruments : Cardinality(OnDayOf(d, i)) <= InstrumentCap
          /\ ~entryLag => \A n \in OnDay(d) : ~AfterLosingRun(d, n)
    /\ controls.requested = controls.generated + controls.shortfall
    /\ controls.requested <= Len(taken)
=============================================================================
