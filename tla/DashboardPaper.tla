----------------------------- MODULE DashboardPaper -----------------------------
(***************************************************************************)
(* The dashboard's offline paper cycle: a setup is analysed and stored     *)
(* (get_market_setup), executed through the durable executor and the       *)
(* simulation daily guard (execute_market_setup), and later closed         *)
(* (api/service.py, execution/dashboard_paper.py,                          *)
(* execution/simulation_daily_guard.py).                                   *)
(*                                                                         *)
(* Setups, outcomes, intents and the daily counter are separate SQLite     *)
(* commits.  One server process serves the requests; a request does not    *)
(* yield between its commits, but the process may die between them.  A     *)
(* setup is identified by its market and candle, so analysing the same     *)
(* candle again overwrites it.                                             *)
(***************************************************************************)
EXTENDS Naturals, FiniteSets

CONSTANTS
    Setups,           \* setup ids: one market and candle each
    Lifetime,         \* time from a candle's close to its setup's expiry
    DayLength,        \* clock units per UTC day
    MaxTime,          \* bound on the clock
    SubmissionLimit,  \* simulation_daily_submission_limit
    MaxDailyTrades,   \* the policy's daily trade limit
    MaxPaperDeaths         \* bound on process deaths

\* What the code and its configuration guarantee of these values.
DashboardAssumption ==
    /\ DayLength \in Nat \ {0} /\ SubmissionLimit \in Nat \ {0}
    /\ {Lifetime, MaxTime, MaxDailyTrades, MaxPaperDeaths} \subseteq Nat

VARIABLES
    clock,
    stored,           \* setup -> [state, levels, expires], once analysed
    outcomes,         \* setup -> [status, day], once recorded
    paperIntents,     \* setup -> status of its durable intent
    used,             \* day -> submissions counted by the guard
    running,          \* the execution request under way: [id, at, day counted on]
    opened,           \* venue fills ever made: <<setup, day counted on>>
    reanalysed,       \* setups analysed again after their execution
    paperDeaths

dashVars == <<clock, stored, outcomes, paperIntents, used, running, opened, reanalysed, paperDeaths>>

Day == clock \div DayLength
Days == 0 .. (MaxTime \div DayLength)
Idle == [id |-> "none", at |-> "idle", day |-> 0]
With(f, k, v) == [j \in DOMAIN f \cup {k} |-> IF j = k THEN v ELSE f[j]]

DashboardInit ==
    /\ clock = 0
    /\ stored = [s \in {} |-> {}] /\ outcomes = [s \in {} |-> {}]
    /\ paperIntents = [s \in {} |-> "PENDING"]
    /\ used = [d \in Days |-> 0]
    /\ running = Idle /\ opened = {} /\ reanalysed = {} /\ paperDeaths = 0

OpenOutcomes == {s \in DOMAIN outcomes : outcomes[s].status = "OPENED"}

\* open_positions rebuilds a position from the stored setup, and raises if it has no levels.
PositionsReadable == \A s \in OpenOutcomes : stored[s].levels

\* daily_counts: only outcomes still OPENED count as trades of the day.
DailyTrades == Cardinality({s \in OpenOutcomes : outcomes[s].day = Day})

\* The policy on the context of _paper_context.
PolicyAllows(s) ==
    /\ s \notin DOMAIN outcomes
    /\ OpenOutcomes = {}
    /\ DailyTrades < MaxDailyTrades

---------------------------------------------------------------------------
(* get_market_setup: analyse, authorize and store, whatever was stored.    *)

SetupState(s, expires, tradeable) ==
    CASE clock > expires -> "EXPIRED"
      [] clock <= expires /\ tradeable /\ PolicyAllows(s) -> "READY"
      [] OTHER -> "BLOCKED"

Analyse(s) ==
    /\ running = Idle /\ PositionsReadable
    /\ \E tradeable \in BOOLEAN, levels \in BOOLEAN :
          LET expires == IF s \in DOMAIN stored THEN stored[s].expires ELSE clock + Lifetime IN
          /\ tradeable => levels
          /\ stored' = With(stored, s, [state |-> SetupState(s, expires, tradeable),
                                        levels |-> levels, expires |-> expires])
    /\ reanalysed' = reanalysed \cup ({s} \cap DOMAIN outcomes)
    /\ UNCHANGED <<clock, outcomes, paperIntents, used, running, opened, paperDeaths>>

---------------------------------------------------------------------------
(* execute_market_setup.                                                   *)

Record(s, status) == outcomes' = With(outcomes, s, [status |-> status, day |-> Day])

\* Every answer that leaves a BLOCKED outcome without reaching the venue.
Refuse(s) ==
    \/ stored[s].state # "READY" \/ clock > stored[s].expires
    \/ /\ PositionsReadable
       /\ \/ used[Day] >= SubmissionLimit                      \* assert_available
          \/ \E t \in DOMAIN paperIntents : paperIntents[t] \in {"PENDING", "UNKNOWN"}
          \/ ~PolicyAllows(s)
          \/ s \in DOMAIN paperIntents                         \* ALREADY_EXECUTED, no order id

Blocked(s) ==
    /\ running = Idle
    /\ s \in DOMAIN stored /\ s \notin DOMAIN outcomes
    /\ Refuse(s)
    /\ Record(s, "BLOCKED")
    /\ UNCHANGED <<clock, stored, paperIntents, used, running, opened, reanalysed, paperDeaths>>

\* The executor claims the intent ...
ClaimPaperIntent(s) ==
    /\ running = Idle
    /\ s \in DOMAIN stored /\ s \notin DOMAIN outcomes
    /\ PositionsReadable /\ ~Refuse(s)
    /\ paperIntents' = With(paperIntents, s, "PENDING")
    /\ running' = [id |-> s, at |-> "claimed", day |-> Day]
    /\ UNCHANGED <<clock, stored, outcomes, used, opened, reanalysed, paperDeaths>>

\* ... the venue counts the submission, atomically with its own check of the cap ...
ConsumeSubmission ==
    /\ running.at = "claimed"
    /\ IF used[Day] < SubmissionLimit
       THEN /\ used' = [used EXCEPT ![Day] = @ + 1]
            /\ running' = [running EXCEPT !.at = "consumed", !.day = Day]
            /\ UNCHANGED paperIntents
       ELSE /\ paperIntents' = [paperIntents EXCEPT ![running.id] = "UNKNOWN"]
            /\ running' = [running EXCEPT !.at = "failed"]
            /\ UNCHANGED used
    /\ UNCHANGED <<clock, stored, outcomes, opened, reanalysed, paperDeaths>>

\* ... fills the order, and the intent is ACCEPTED ...
FillPaperOrder ==
    /\ running.at = "consumed"
    /\ opened' = opened \cup {<<running.id, running.day>>}
    /\ paperIntents' = [paperIntents EXCEPT ![running.id] = "ACCEPTED"]
    /\ running' = [running EXCEPT !.at = "accepted"]
    /\ UNCHANGED <<clock, stored, outcomes, used, reanalysed, paperDeaths>>

\* ... and the outcome is recorded, then the setup marked EXECUTED.
RecordOutcome ==
    /\ running.at \in {"accepted", "failed"}
    /\ Record(running.id, IF running.at = "accepted" THEN "OPENED" ELSE "BLOCKED")
    /\ running' = IF running.at = "accepted" THEN [running EXCEPT !.at = "recorded"] ELSE Idle
    /\ UNCHANGED <<clock, stored, paperIntents, used, opened, reanalysed, paperDeaths>>

MarkExecuted ==
    /\ running.at = "recorded"
    /\ stored' = [stored EXCEPT ![running.id].state = "EXECUTED"]
    /\ running' = Idle
    /\ UNCHANGED <<clock, outcomes, paperIntents, used, opened, reanalysed, paperDeaths>>

\* record_close: in place and once; the outcome moves to the day of the close.
RecordClose(s) ==
    /\ running = Idle
    /\ s \in OpenOutcomes
    /\ Record(s, "CLOSED")
    /\ UNCHANGED <<clock, stored, paperIntents, used, running, opened, reanalysed, paperDeaths>>

ServerDies ==
    /\ running # Idle /\ paperDeaths < MaxPaperDeaths
    /\ running' = Idle /\ paperDeaths' = paperDeaths + 1
    /\ UNCHANGED <<clock, stored, outcomes, paperIntents, used, opened, reanalysed>>

ClockTicks ==
    /\ clock < MaxTime
    /\ clock' = clock + 1
    /\ UNCHANGED <<stored, outcomes, paperIntents, used, running, opened, reanalysed, paperDeaths>>

DashboardNext ==
    \/ \E s \in Setups : Analyse(s) \/ Blocked(s) \/ ClaimPaperIntent(s) \/ RecordClose(s)
    \/ ConsumeSubmission \/ FillPaperOrder \/ RecordOutcome \/ MarkExecuted
    \/ ServerDies \/ ClockTicks

DashboardSpec == DashboardInit /\ [][DashboardNext]_dashVars

---------------------------------------------------------------------------
(* Properties.                                                             *)

DashboardTypeOK ==
    /\ clock \in 0 .. MaxTime /\ paperDeaths \in 0 .. MaxPaperDeaths
    /\ DOMAIN stored \subseteq Setups /\ DOMAIN outcomes \subseteq DOMAIN stored
    /\ \A s \in DOMAIN stored :
          stored[s].state \in {"READY", "BLOCKED", "EXPIRED", "EXECUTED"}
    /\ \A s \in DOMAIN outcomes : outcomes[s].status \in {"OPENED", "BLOCKED", "CLOSED"}
    /\ \A s \in DOMAIN paperIntents : paperIntents[s] \in {"PENDING", "UNKNOWN", "ACCEPTED"}
    /\ used \in [Days -> 0 .. SubmissionLimit]

\* Across deaths, retries and closes: a setup is filled at most once, a day sees
\* no more fills than the simulation cap, one position is open at a time, and
\* every open or closed outcome has a fill and an accepted intent behind it.
\* (The policy's own trade count forgets a trade once it is closed.)
PaperBookSound ==
    /\ \A s \in Setups : Cardinality({o \in opened : o[1] = s}) <= 1
    /\ \A d \in Days : Cardinality({o \in opened : o[2] = d}) <= SubmissionLimit
    /\ Cardinality(OpenOutcomes) <= 1
    /\ \A s \in DOMAIN outcomes : outcomes[s].status # "BLOCKED" =>
          paperIntents[s] = "ACCEPTED" /\ \E d \in Days : <<s, d>> \in opened
    \* An open position can be rebuilt, unless its candle was analysed again.
    /\ \A s \in OpenOutcomes : stored[s].levels \/ s \in reanalysed
===============================================================================
