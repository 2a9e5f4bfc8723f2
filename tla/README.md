# JQE: a TLA+ verification project

JQE is a Python trading platform. It reads candles, derives a signal, asks a
risk engine and an execution policy, and may send one order to a Weltrade
(MetaTrader 5) demo account. Several processes share the same SQLite files and
the same broker account, any of them can die at any point, and the broker's
answers can be missing, late or unreadable. This project models that part of
the system in depth: what happens between an approved intent and a position that
is closed and reported. Around it, and one by one, it models the components an
operator runs beside it (broker sessions, paper trading, campaigns, risk,
snapshots, alerts, observers) and those that produce the evidence decisions rest
on (proof governance, audits, candle data, replays, backtests).

## 1. Inventory

| Component | State it keeps | Operations | What is hard | Correct when |
|---|---|---|---|---|
| Durable executor, intent store (`execution/executor.py`, `execution/persistence.py`) | `intent_records`, `execution_reservations` | `submit`, `reconcile`, `acquire_reservation`, `try_claim_under_reservation`, `transition`, `release_reservation` | several processes, leases that lapse under a working owner, a clock read before the transaction, outcomes that cannot be persisted | one order per key, one unresolved intent per account, no order without a row |
| Startup recovery, reconciliation adapters (`execution/recovery.py`, `execution/reconciliation.py`) | none of its own | `recover`, `reconcile` | rows listed earlier, broker awaited in between | never guesses, never rewrites a decision |
| Daily instrument guard (`execution/daily_instrument_guard.py`) | starts per account, instrument and UTC day | `consume`, `usage` | counts before the order is sent, day rollover | orders never exceed the cap |
| Execution policy (`execution/policy.py`) | none | `evaluate` | works on a snapshot that ages | no second exposure on a symbol, open limit kept |
| Operator recovery (`tools/resolve_intent.py`) | `intent_recovery_audit` | inspect, confirm | gap between the two, heartbeat as only lock | resolves only intents without evidence, on record |
| Position ledger (`execution/persistence.py`) | `live_paper_positions` | record fill, close, partial close, mark unconfirmed, notification claims | two monitors at once, repeated observation | never ahead of the broker, closes final |
| Fill observation (`main.py`) | halt marker | `_observe_confirmed_weltrade_fill` | crash between outcome and ledger, halt that cannot be written | every fill tracked or reported |
| Close monitor (`monitoring/weltrade_close_monitor.py`) | ledger rows, halt marker | `monitor_weltrade_closes` | positions, clock and history read at different times | confirms only what history accounts for |
| Execution supervisor (`monitoring/weltrade_execution_supervisor.py`, `tools/evaluate_execution_safety.py`) | heartbeat file, mutex file | catch-up, wait, preflight, watchlist | stops and restarts, a halt set by somebody else | no cycle under a halt, closes get reported |
| Repair tool (`tools/inspect_close_history.py`) | – | `--reconcile` | runs the monitor without a lock | as the monitor |
| Demo tools (`tools/demo_trade_preview.py`, `tools/demo_synthetic_verification.py`) | verification rows | preview, `--submit-one-demo-order`, read-only verification | shares store and account, not the halt, guard or ledger; the world moves between checks | submits only through the executor, what was planned and checked, and reports it |
| MT5 gateway and session (`broker/mt5_gateway.py`, `core/mt5_session.py`) | process-wide terminal session, pinned identity | `connect`, `disconnect`, `submit_order`, `close_position`, history | one session for several gateways, accounts switched under it, unclear return codes | orders on the verified account only, answers true |
| Deriv gateway (`broker/deriv_gateway.py`, `deriv_demo.py`, `deriv_auth.py`) | socket, reader tasks, identity, pending requests | `connect`, `disconnect`, `submit_order`, read loop | readers of old sockets, time-outs, reconnection | at most one contract per submission, on a verified demo account |
| Deriv proof governance (`broker/deriv_evidence*.py`, `deriv_proof_*.py`) | documents, registries, SQLite snapshot | intake, verify, review, admit, revoke, persist, terms | documents edited or revoked in between, desks with old copies | only what was sealed and is in force gives authority |
| Simulation broker, risk engine (`broker/simulation_gateway.py`, `risk/`) | fills, daily counters | fill, reconcile, approve, authorize quantity | day change, truncated history, rounding | no order beyond the day's limits and the authorized risk |
| Safety snapshots (`execution/safety.py`) | two latest-wins rows | publish, read | rows of different cycles, age, changed settings | an approval shown is a current one |
| Paper runtime, dashboard paper cycle (`execution/paper_*.py`, `dashboard_paper.py`, `api/service.py`) | observations, heartbeat, setups, outcomes, intents | cycle, execute, close | crash between any two commits, positions in memory | a candle acts once, no trading after a lost position, books agree |
| Live-paper campaign (`tools/live_paper_campaign.py`) | ledger rows, lifetime counter, candidate | sessions | restarts, failed queries, manual positions | one order for life, its position on record |
| Historical campaign (`tools/paper_campaign.py`) | diagnostics, evidence, confirmation file | start, resume, replay, seal, publish | crash between commits, changed code | complete evidence under one fingerprint |
| Terminal audit (`execution/continuous_reconciliation.py`) | latch | `audit`, `reconcile_and_protect`, `run_loop` | unreadable sources, matching by symbol | a clean audit hides nothing |
| Observers (`monitoring/observation_daemon.py`, `observation_supervisor.py`, `forward_shadow_sampler.py`) | cursor, signals, counter, plans, digest mark | observe, sample, digest | two observers, aborted passes, outages | no silent gap, each close counted once |
| Notifications (`notifications/`) | queue, claim table | publish, claim, post, retry | crashes, two workers, two processes | posted at most once, queue served |
| Candle cache, datasets (`data/storage.py`, `historical.py`, `dataset.py`, `research/acquisitions.py`) | SQLite candles, jobs, file pair | refresh, sync, acquire, flush, export, load | forming bar, concurrent writers, torn pairs | what is called current or complete is |
| Watchlist (`data/watchlist.py`) | rows | seed, add, remove, read | several constructors | no edit lost |
| Shadow outcomes, sequential replay, backtest, catalog (`research/`, `backtesting/`) | outcome rows, replay state, records | resolve, walk, evaluate, save | causality, overlapping writers | outcomes true, books balanced, records kept |
| Monitor relay (`api/monitor_relay.py`) | semaphores, pending fetches, quota | read | time-outs, hang-ups | slots never leak |
| Strategy, intelligence, analytics, other research, read models, frontend | none that outlives a call, or offline | numeric | – | not modelled |

How they interact. `run_forever` holds a mutex, runs the close monitor and the
preflight every ten seconds and the watchlist every five minutes. The watchlist
calls `main.run` per pair. `run` stops on a halt, runs startup recovery, stops
on any unresolved intent, and then either observes an already accepted intent
again or calls `AsyncTradeExecutor.submit` with the daily guard as hook. After
a fill it records the position in the ledger. The operator tools and the preview
tool open the same files from other processes.

The other components meet the live path only in data: the cycle reads the risk
engine's approval and the watchlist, publishes snapshots, and hands alerts to the
notification service; the paper programs, observers and campaigns use stores of
their own. Where two of them share a store or a session (gateways of one
process, daemon and observation supervisor, jobs, tools and API on the candle
cache, publishers on one claim table, desks on one proof store) one module
holds all of them.

The hazards these interactions carry are listed in `PROJECT.json`, each with
its source line and the properties that would catch it.

## 2. Modules

| Module | What it is |
|---|---|
| `DurableExecutor` | executor, intent store, leases, daily guard, recovery, operator tool, broker, clock |
| `AtMostOnceSubmission` | the abstract life of an intent: recorded, sent once, decided once |
| `DurableExecutorProofs` | the inductive invariants and the safety theorems |
| `DurableExecutorRefinement` | the action properties and the refinement of `AtMostOnceSubmission` |
| `PositionRecord` | the abstract record of a position: entered, shown, doubted, closed and told once |
| `PositionLifecycle` | fill observation, ledger, close monitor, halt, supervisor cycle, repair and preview tools |
| `PositionLifecycleProofs` | the inductive invariant and the theorems about ledger, alerts, fills and halt; the refinement of `PositionRecord` |
| `ExecutionSupervisor` | starts of the supervisor, its mutex and heartbeat file, and the tools that trust them |
| `ExecutionSupervisorProofs` | mutual exclusion and the meaning of the heartbeat |
| `Mt5Session`, `DerivGateway` | the broker sessions and the orders sent through them |
| `PaperRuntime`, `DashboardPaper` | the two paper cycles |
| `LivePaperCampaign`, `DemoTools` | the programs that place demo orders |
| `RiskDay`, `SafetySnapshots` | the day's limits, and the approvals shown |
| `Notifications`, `Watchlist`, `MonitorRelay` | what connects the operator |
| `ObservationDaemon` | the two observers and the forward sampler |
| `DerivEvidenceIntake`, `DerivProofChain`, `DerivProofStore` | from outside material to execution terms |
| `HistoricalCampaign`, `TerminalAudit` | sealed evidence, and the comparison with the terminal |
| `CandleCache`, `DatasetBundle` | candles and frozen datasets |
| `ShadowOutcomes`, `SequentialReplay`, `BacktestEngine`, `ExperimentCatalog` | research with durable or cumulative state |
| `Operations` | the components an operator runs beside the live path (sessions, paper trading, demo programs, risk, channels, observers) as one specification |
| `BrokerProofs`, `ProgramProofs` | theorems about the two gateways; about the paper cycles, the live-paper campaign and the demo tools |
| `OperationsProofs` | theorems about risk, snapshots, channels and observers, and the composition of all twelve |
| `MCDurableExecutor`, `MCPositionLifecycle`, `MCExecutionSupervisor` | instances of the live path |
| `MCServices` | supervisor and observers: restarts and liveness |
| `MCOperations` | the instance of `Operations` |
| `Evidence` | the components behind the evidence (proofs, campaigns, audit, data, research) as one specification |
| `EvidenceProofs` | theorems about its components and their composition |
| `MCEvidence` | the instance of `Evidence` |

### DurableExecutor

An *attempt* is one call of `submit`, in whatever process; it is identified
with its uuid4 owner id and with the ticket of the order it may send. `pc` is
the position in `submit`/`_submit_reserved`; steps between two awaits or two
transactions are one action:

| Action | Code |
|---|---|
| `Acquire`, `AcquireRefused` | `acquire_reservation` |
| `Observe`, `ObserveBlind` | `gateway.get_positions` with an answer, with a failed read that looks empty |
| `Evaluate`, `Refuse` | `ExecutionPolicy.evaluate` and the row read of `reconcile` |
| `Reconcile`, `FollowUp` | the broker evidence and the write after it |
| `ConsumeStart`, `CapReached` | `before_submit`, only for supervised attempts |
| `Claim`, `ClaimRefused`, `ClaimFailed` | `try_claim_under_reservation` |
| `GiveUpBeforeSend`, `SendOrder`, `Respond` | `gateway.submit_order` and the persisted outcome |
| `Release`, `Crash` | the `finally` clause, or a process that dies (or a release that raises) |
| `RecoverList`, `RecoverRecord` | `StartupRecoveryService` |
| `InspectIntent`, `ConfirmResolution` | `tools/resolve_intent.py` |
| `BrokerStep`, `Tick` | external: the broker fills, refuses, closes; time passes |

Every store method is one `BEGIN IMMEDIATE` transaction and so one step. The
clock is read before the transaction starts: `ReadClock` allows a time that is
`BusyWait` ticks old. A write that raises leaves the row as it was (`Persist`).
Reconciliation adapters are modelled by the answers they can give (`Evidence`):
they confirm only a broker identity the row already carries, and as they always
receive a symbol they never report a confirmed absence.

Assumption: a refusal by the broker is a refusal. `submit_order` records every
return code outside the accepted set as REJECTED; what a trade server does after
such a code is not in this repository.

### PositionLifecycle

A *ticket* stands for an intent, its order and the position. `volume` is the
broker's truth; `row`, `rowVolume`, `remaining`, `recon` and `claims` are columns
of `live_paper_positions`; `halt` is the singleton row. A *monitor* is a process
in `monitor_weltrade_closes`: the supervisor or a repair tool. The monitor's
three reads (positions, clock, history up to that clock) are separate steps, so
the broker moves between them. The submission is reduced to claim, send and
outcome, because `DurableExecutor` covers it. The volume of a fill is the same
for all tickets; a partial fill is a smaller `Volume`. Gateway reads in
`_observe_confirmed_weltrade_fill` either show the position or fail the
observation. `lost` remembers fills whose bookkeeping was cut short by a crash or
by a halt marker that could not be written, `late` the intents claimed under a
halt; neither is read by any action. `PositionRecord` is what all this promises of a
single position, without processes and snapshots: it is entered once with what the
broker has, shown with a volume between that and what the broker has left, closed
only when nothing is left and for good, and each alert goes out once while it is
true. It lets the shown volume grow again, because the code does: the monitor with
the older snapshot may write last. The halt is never cleared: the code has no
operation for it, an operator edits the database.

### ExecutionSupervisor

A *pid* is one start of `run_weltrade_execution_supervisor.py`. `pc` follows
`run_forever`; its steps of name `P_...` lie between the write of the temporary
file and the rename, because all processes share that file. The `with` statement
gives up the lock (`ReleaseMutex`) before the `finally` clause publishes STOPPED
(`WriteStopped`, `Stopped`), and a refused start goes through the same clause. A
rename may raise, for a file that is gone or for any other reason; then the
process unwinds, or, in its last publication, ends without having said so
(`SILENT`). `Crash` ends one process, `PowerLoss` all of them and may leave files
that do not parse, as `docs/demo-recovery-2026-10-06.md` reports. `Grant` is the
check of a tool: `resolve_intent` accepts STOPPED or a dead process,
`inspect_close_history --reconcile` a dead process only. What the supervisor does
in a cycle is in `PositionLifecycle`. Process ids are not reused here, and the
mutex locks as it does on Windows (`ObservationMutex` takes no lock elsewhere; the
MetaTrader terminal runs on Windows only).

### Broker sessions

`Mt5Session`: `owner` and `active` are the process-wide authority
(`Connect`, `GuardConnect`, `DisconnectMt5`, `ReadAccount` run under its lock);
`task` is where a gateway is in `submit_order` (`BeginSubmit`, `VerifyReady`,
`PrepareOrder`, `SendMarketOrder`, `ReturnResult`) or `close_position`
(`BeginClose`, `SendClose`, `ConfirmClose`), which do not take it.
`TerminalSwitches` logs the terminal into another account between any two steps.
The volume arithmetic of `_normalize_volume` is kept, prices and stop distances
are one outcome, "refused before sending". A submission in which the account changed
after its own verification is remembered in `exposed` and excused: no check of
the gateway can see it. The server is modelled from the return codes the gateway
distinguishes; a code outside the accepted set that leaves the fate open may
come with an executed order, and only then may a REJECTED order exist.

`DerivGateway`: each socket has its reader; the reader that ends
(`ReaderEnds`) clears the one session of the gateway, whichever socket that is
now on. `BeginConnect`, `OpenLegacySocket`, `FinishLegacyConnect`,
`AuthorizeTimesOut` and `OpenVerifiedSession` are the two authorization paths,
`SubmitOrder` to `HaveBuyAnswer` the requests of a submission, each of which may
time out. A connect entered while a submission waits is remembered in
`overtaken`, the one way a contract can be bought on an unverified account.

### Paper trading and demo programs

`PaperRuntime`: a cycle is `BeginObservation` (claim of the candle),
`ObservePositions`, `ClaimEntry`, `SubmitEntry`, `CompleteObservation`,
`PublishHeartbeat`; `RuntimeEnds` may fall between any two. `lost` remembers that
a position died with its process, `unseen` the one gap in which the heartbeat on
disk does not say so. `DashboardPaper`: `ConsumeSubmission`,
`FillPaperOrder`, `RecordOutcome` and `MarkExecuted` are separate commits of one
request; `Analyse` overwrites a setup of the same candle, executed or not.

`LivePaperCampaign`: `at` is the step of a session's loop, from recovery through
candidate, confirmation and entry to the order and its record. What the code
cannot see (a failed listing read as empty, a pending or lost answer, a death
before `record_open`) is collected in `excused` and `misread`; everything else
must be on record. `DemoTools`: a run gathers its facts step by step while
`WorldMoves` changes account, positions, intents and snapshot.

### Risk and approvals

`RiskDay`: `ReadHistory`, `Reconcile` and `ApproveTrade` are the cycle's first
reading, `PolicyAndFill` the second one before submission and the fill,
`TradeCloses` and `NextDay` come in between. The quantity is
authorized over whole units, the stake is rounded to a `Cent`. A reading of the
history is the set of closed trades it shows, each named by its place in
`closed`, and the cash lost in it is counted unit by unit. The property
counts all trades the broker had closed at the reading, not those the engine
saw. `SafetySnapshots`: each publication of `main.run` and of the preflight is an
action; `get_risk_status` and `get_execution_safety` of the API are operators.

### Operator channels and observers

`Notifications`: a process's worker takes, claims, posts and retries
(`WorkerStep`); a worker's end and its done-callback are two turns. `Watchlist`:
a constructor's count and seeding are two steps next to the operator's commands.
`MonitorRelay`: `Boundary` is quota and sign-in, `Observation` joins or starts a
shared fetch, `AcquireSlot` and `AcquireInflight` the two waits.
`ObservationDaemon`: an observer's pass is fetch, read cursor, then per candle the
signal and the sampler's three statements; `PassAborts` ends it anywhere.
Two observers starting on an empty store (`firstRace`) and sampling at once
(`together`) are remembered, as the code does not exclude them.

### Evidence

`DerivProofChain` evaluates the comparisons of a whole chain of documents in the
order of the code, over packages that differ from a sound one in one field, and
then lets the desk admit again after revocations and withdrawals.
`DerivEvidenceIntake` does the same for handoff, intake and attestation with
edits at every stage. SHA-256 is taken to be injective. `DerivProofStore`:
`PersistCheck` and `PersistWrite` are the two halves of `persist`, since the
comparison is outside the transaction; `raced` remembers two that overlapped,
which can drop a revocation, and the property is claimed without that.

`HistoricalCampaign`: every commit of a candle is an action (`ClaimCandle`,
`Decide`, `SavePending`, `SubmitCandidate`, `PublishBeat`, `AppendRecord`,
`TellPosition`); `CampaignDies`, `CycleRaises` and `CodeChanges` may fall
anywhere, `StartCampaign` resumes or starts again. `TerminalAudit` keeps the
matching by id and then by symbol, in the order of the two lists, and the fact
that ledger rows count as BUY; a listing is a sequence for that reason.

`CandleCache`: bars are numbered and a price is what it was when read; the API's
refresh, `HistoricalDataService.sync`, acquisition jobs and tools interleave at
their awaits and transactions. `DatasetBundle`: two files, two renames, a reader
in between. `ShadowOutcomes`: a plan resolved live and by replay, with or
without minute bars and ticks, by two resolvers whose upserts may come in
either order. `SequentialReplay`: the walk over candidates with the daily
caps, loss stop and breaker, and the random controls. `BacktestEngine`: one pass
over prices chosen freely. `ExperimentCatalog`: split, run, `os.link` and the
crash in between.

### Components in one state space

`Operations` extends its twelve components, each with its own variables and
constants. `part` is chosen in the initial state and never changes; the component
it names takes the steps, the others rest in an initial state. A behaviour is
thus a behaviour of one component and the state space is the sum of theirs, not
the product. Nothing is lost by this as these components share no state; the ones
that do are in one module. `Evidence` does the same for eleven other components;
its proof chain rests without a package of documents, as its initial state would
otherwise choose one. `MCServices` does it for the supervisor and the observers, so
that fairness can be stated of each.

## 3. Runs

| Run | Instance | Shows |
|---|---|---|
| `contention` | three attempts of one account, two of them on one intent, lease of one tick, two ticks | nothing is lost, mixed up or double-booked under retries, lapsed leases, crashes, recovery and operator resolution |
| `accounts` | two accounts, the same key | one order between them; the abstract specification is implemented |
| `progress` | two intents on one symbol, two UTC days, fairness | no double exposure, cap across the rollover, leases and calls end |
| `blind` | as `progress` | **violation**: see below |
| `repair` | one position of three lots, supervisor (two starts) and repair tool | ledger behind the broker, alerts once; the abstract record is implemented |
| `cycle` | two pairs, supervisor, repair tool | fills tracked or halted; one claim at most passes a concurrent halt |
| `closes` | a supervised and a preview position of two lots, two starts, fairness | a running supervisor closes the row of every closed position |
| `services` | three starts of the supervisor with one run of each tool; both observers over two candles; fairness | one supervisor at most is inside, no stopped one looks alive, a running one gets its heartbeat back or stops; a running observer brings the cursor to the newest candle |
| `operations` | twelve components, below | gateways answer what happened; paper books survive crashes; demo programs send what they may; limits and approvals are current; alerts go out once; no gap in the observations |
| `evidence` | eleven components, below | only sealed and unrevoked proofs are admitted and give terms; published campaigns are complete; a clean audit hides nothing; data served as current or frozen is; outcomes, replays, backtests and records are true and kept |
| `tools` | two starts, one run of each tool | **violation**: see below |
| `preview` | a pair and a preview ticket | **violation**: see below |

Bounds. A lease of one tick and a clock of two or three ticks let a lease lapse
at every step of `submit`. Two attempts on one intent and a third on another
give a retry, a stale owner and a bystander, which is what every argument in the
store is about; the proofs show that more attempts add nothing. `contention`
uses the symmetry of its two attempts on the same intent. Three lots allow two
partial closes before the last, which is the least for a remaining volume
written by a stale monitor to go up again. Two starts give one restart. Three
pids let one supervisor run while another is refused and a third follows.

In `operations` and `evidence` a component gets two of whatever competes (two
gateways, desks, sessions, publishers, resolvers, runners, jobs, observers), one
crash where crashes matter (two for the paper runtime, so that a restart can die
too), and just enough data for the cases of its code: three accounts (configured,
another demo, real) for sessions and tools, three candles for confirmation at i+1
and entry at i+2 (four in the historical campaign, with and without a gap), a day
boundary wherever a day is counted, queues and caps of one or two so that they
are full, five prices for a backtest with spread, stop and target, a history
window smaller than the day's trades, an observation window smaller than an
outage. The constants are in `MCOperations.cfg` and `MCEvidence.cfg`.

Deadlock is not checked: attempts end, the clock stops at its bound and
supervisors may stay stopped, all of which are proper ends.

Fairness. `progress` assumes that the event loop keeps running a call of
`submit` (every gateway call returns or raises), that the broker settles what it
received and that the clock advances; nothing is assumed of crashes, recovery or
the operator. `closes` assumes that a running supervisor goes on; its loop has
no wait that depends on another process. `services` assumes the same of every
started supervisor, up to its end, and of a running observer, whose loop only
sleeps until the next candle, and that candles keep closing; starts, crashes,
aborted passes and tools are not fair. An observer whose passes are aborted
again and again, or for which the answer no longer reaches back to the cursor
(it then refuses to advance, by design), is excepted in `CursorCatchesUp`.

### Findings

`blind`: `MT5Gateway.get_positions` turns a failed `positions_get()` (None) into
an empty list. The policy then sees an account without positions, and a second
order on a held symbol is approved. `docs/architecture/current-state.md` says
that unreadable safety state fails closed and that any same-symbol position
blocks another order. All other properties excuse exactly these attempts
(`blind`).

`preview`: `docs/weltrade-execution-supervisor.md` says that the halt prevents all
further submissions. `tools/demo_trade_preview.py` never reads the halt, and the
executor does not either, so its order goes out.

`tools`: a second start that is refused the mutex publishes STOPPED over the
heartbeat of the running supervisor, and `resolve_intent` ("Execution supervisor
may be running; recovery is blocked") as well as `inspect_close_history`
("Supervisor must be stopped") pass their checks while it works. `services`
shows that this lasts until its next publication. The other two modules take
this up: with `HeartbeatOverwritten` the tools' checks do not see the supervisor.
`contention`, `accounts`, `repair` and `cycle` set it, and the proofs hold for
both values, so the safety of the store and of the ledger does not rest on the
heartbeat.

## 4. Proofs

Every theorem below holds for all values of the constants that meet the named
assumptions; TLC evaluates those assumptions in every run.

### The live path

`DurableExecutor`, for all attempts, keys, accounts, symbols and bounds, from
`AttemptsAssumption` and `BoundsAssumption`:

- `TypeCorrect`, then `InductiveInvariant`: `Spec => []Inductive` with
  `Inductive == TypeOK /\ ClaimInv /\ AccountInv`. None of the safety properties
  is inductive alone. `ClaimInv` ties each row to the attempt that claimed it:
  whoever is CLAIMED or later, or has an order, belongs to the row of its key,
  and nobody else does. `AccountInv` carries what the reservation is for: while
  an attempt is between acquisition and claim under a lease that is still its
  own, no other intent of its account is unresolved, so a claim cannot
  create a second one even though the check was made long before. It also says
  that a snapshot taken under the own lease still covers every exposure of the
  account.
- `NoIntentSentTwice`, `UnresolvedIsUnique`, `NoLostOrder`, `StoredIdentityIsExact`,
  `ExposureIsUnique` follow from it.
- `OpenLimitHolds`: `WithinOpenLimit` is not inductive, because an exposure that
  excuses the others (an attempt that read an unreadable account as empty) may
  end and leave them. What is inductive is that the exposures that need no excuse
  never exceed the limit alone (`UnexcusedWithinLimit`). Counting them needs that
  only finitely many attempts ever claimed (`FinitelyClaimed`), however many
  there are, and that the room counted by an attempt under its own lease stays
  free until it claims (a conjunct of `PlaceInv`).
- `DailyCapHolds`: `CapInv` bounds the orders counted for an account and
  instrument by the full cap of each earlier UTC day plus today's starts. It holds
  with a lease that lapses and with a day that ends between `consume` and the
  order, as the start was counted on an earlier day then.
- `DurableExecutorRefinement` classifies the steps by their effect on rows and
  orders and derives `DecisionIsFinal`, `NobodyGuesses` and `ExecutorRefines`:
  every step is a step of `AtMostOnceSubmission` or leaves it unchanged.
- `EveryCallDescends` and `LeasesLapse` are what liveness rests on besides fairness.
  Each step of a call leaves it fewer of at most eight steps (`StepsLeft`), so
  `submit` has no loop. No lease ends later than one lease length from now,
  and a live one is neither renewed nor taken over, even by a store call that uses
  a clock it read before it waited: a lease that has lapsed on an older clock has
  lapsed now.

`PositionLifecycle`, for all tickets, volumes, preview tickets and repair tools,
from `ProcessAssumption`:

- `PositionLifecycleProofs`: every step is first sorted by what it writes (one
  row, one claim, one fill or close at the broker, or nothing: `StepData`), and
  shown to move `Forward`: volume only falls once a ticket is filled, fills and
  rows stay, closed rows stay closed, a halt and a lost fill stay on record. The
  inductive invariant is the type invariant with these parts. `FillInv`: the
  broker fills a ticket once, after its claim. `CycleInv`: what `main.run` knows
  of the pair in hand at each step, and that a tool is never in it. `MonitorInv`:
  what a monitor carries from its reads to its writes; the closing deals it read
  were there at its clock and can only have grown, so what they leave open is no
  less than what the broker has now. That is why a stale monitor cannot put the
  ledger ahead of the broker. `LedgerInv`: rows are fills, and what a row shows
  lies between the broker and the fill. `AlertInv`: an alert has its claim, and a
  closed-trade alert a row that stays confirmed. `LateInv`: once a claim was made
  under a halt the supervisor never plans again, as the next read of the halt
  sends it away. `FillsAreTracked` is inductive beside them.
- `LedgerStaysBehind`, `AlertsGoOutOnce`, `NoUntrackedFill` and `HaltHolds` follow
  from it, and `CloseIsFinal` from it and `Forward`.
- `LifecycleRefinesRecord`: every step is a step of `PositionRecord` or a stutter.
  The guards of the record are about the broker's truth, those of the code about
  a snapshot; `MonitorInv` closes the gap for the writes, and `DoubtInv` (a close
  is in doubt only while its row is open) for the alert about it.

`ExecutionSupervisor`, for any number of starts and tools, from
`ProcessesAssumption`:

- `ExecutionSupervisorProofs`: `Inductive == TypeOK /\ MutexInv /\ FileInv`.
  `MutexInv` says that who is inside holds the lock, which gives
  `MutualExclusion`. `FileInv` says which processes the temporary file and the
  heartbeat may name with a status other than STOPPED; the two parts need each
  other, since a rename turns the one into the other. A process that wrote
  STOPPED is no longer named by the temporary file, so its last rename removes it
  from the heartbeat too. This gives `NoGhost`.

### The components of `Operations`

Each component has an inductive invariant of its own and a theorem from its own
assumption; `PartsStep` says that a step of `Operations` is a step or a stutter of
every component, and the theorems named after the properties of the run
`operations` combine them from `OperationsAssumption`.

`BrokerProofs`:

- `SessionSafe` (`SessionInv`): whoever is in a call owns the terminal session;
  past the verification the terminal is on the configured demo account or the
  call is in `exposed`; the return code in hand and the answer given say what
  became of the order.
- `GatewaySafe` (`GatewayInv`): nobody waits for a request but the step that sent
  it; while an account is verified or a submission is under way that was not
  `overtaken`, the connection is one the server bound to a demo account; a
  submission has one buy request and one contract at most, and whether it has the
  contract is what the answer to that request says.

`ProgramProofs`:

- `PaperSafe` (`PaperInv`): claims and completed candles are in order; what is
  open in the process's memory has a durable mark, a row in PROCESSING or a
  heartbeat that counts an open position (`Marked`); a position that died with its
  process is still marked, or `unseen` (`LossMarked`). That is why the restarted
  runtime stops. Losses are bounded by what the plan authorized when its entry
  was accepted. `PaperTradingIsSound` adds the action property that candles are
  claimed once and in order.
- `DashboardSafe` (`DashboardInv`): what a request holds between its commits is in
  the store, each fill has an accepted intent, the guard counts at least the
  fills of its day, each outcome has its fill.
- `CampaignSafe` (`CampaignInv`): the lifetime counter is written before the order
  leaves, so one session at most is between the two (`SlotSound`); candidates keep
  their distance in candles to confirmation and entry (`CandidatesDue`); what the
  account holds of the campaign is in the ledger or excused (`LedgerSound`).
- `DemoToolsSafe` (`DemoToolsInv`): a run past a step has the fact which that step
  checks (`RunSound`), orders are those of runs allowed to send one
  (`OrdersAllowed`), and a report carries the blockers and failures its run met.

`OperationsProofs`:

- `WatchlistSafe` (`WatchInv`): the list is what the operator's commands leave,
  unless the seeds were inserted again, and a list never seeded is empty.
- `SnapshotsSafe` (`SnapshotInv`): an authorized risk row is of the last cycle
  started, past its own evaluation; an authorized safety row is of a cycle whose
  order was accepted, left nothing unresolved and has not been followed by another
  evaluation.
- `NotificationsSafe` (`NotificationsInv`): of the workers of all processes one at most
  is about to post an alert (`OneClaimant`), what is posted was claimed and was
  posted once (`PostsClaimed`), and a queue has a worker that will take from it.
- `RelaySafe` (`RelayInv`): the permits of each semaphore and the fetches that hold
  one add up to its size (`SlotsCounted`), and as the market and chart slots together
  are fewer than the common ones, a fetch that waits for a common slot finds one.
- `ObserversSafe` (`ObservationInv`): every candle up to the cursor has its
  evidence (`EvidenceReachesCursor`), and a pass starts at the cursor it read
  (`PassFollowsCursor`). That a complete answer leaves no gap is a counting
  argument: as many candles as the interval is long, all of them in it, are all of
  it. `SamplesInHand`, `CountsBounded`, `EveryCloseCounted` and `OneSampler` carry
  the sampler's counter through its three statements, `DigestsMarked` the digest.
- `RiskDaySafe` (`RiskInv`): a reading is the newest part of the history and was
  true when read (`ReadingTrue`), the engine's counters are those of its reading
  (`EngineTrue`), a quantity is within the risk it was authorized for
  (`SizingTrue`), and an order was judged on what its reading shows
  (`OrdersJudged`).

Least and greatest elements of sets of numbers, which the code gets from sorting,
come from the well-founded order on the naturals, whose library theorem is about
sets and not about operators.

### The components of `Evidence`

`EvidenceProofs` has the same shape: an inductive invariant and a theorem per
component, `PartsStep`, and the theorems named after the properties of the run
`evidence` from `EvidenceAssumption`.

- `ProofStoreSafe` (`StoreInv`): what a desk is about to write contains what the store
  holds, and no persisted revocation has left the store, unless two calls of
  `persist` have overlapped (`NoUpdateLost`).
- `BundlesSafe` (`BundleInv`): a study has the candles of one export, as a manifest
  names the candles it was written with.
- `CandlesSafe` (`CacheInv`): no bar is stored, asked for or taken for a gap that the
  clock has not reached (`BarsExist`). `CurrentRepliesAreCurrent` leaves out the replies in
  `late`, see section 5.
- `ShadowOutcomesSafe` (`ShadowInv`): an outcome in the book or in a resolver's hands is
  one its source was entitled to (`OutcomesEntitled`): the first level met within
  the horizon of the plan, by the bars that source can see. Nothing about to be
  written contradicts the book unless writes have crossed (`NothingUndone`).
- `IntakeSafe` (`IntakeInv`): the package identity fixes the sealed summary
  (`ParcelShape`), records built from it carry its bytes (`BuiltAsSealed`) and so do
  those an attestation was made of (`AttestedAsSealed`), although every stage can be
  edited in between.
- `AdmissionSafe` (`ChainInv`): the code compares neighbours in the chain of documents,
  and the property is about its two ends. The proof shows for every package that
  the comparisons add up: passed comparisons give a sound package (soundness) and
  a sound package passes them (completeness, for an empty registry).
- `HistoricalSafe` (`HistoricalInv`): a candle is decided only by the process whose
  claim left its row in PROCESSING, and a row left so by a death is never claimed
  again, which is why no event repeats (`CompletedInOrder`, `RecordsFollow`).
  Events carry the time of the candle that caused them (`EventsDated`), a
  candidate is of an earlier candle of the dataset (`CandidatesKnown`,
  `CandidatesInOrder`), and in a campaign that may be sealed every candle is
  accounted for (`NothingMissed`).
- `AuditSafe` (`AuditInv`): the audit collects the matched ids along the listing
  of the broker, a recursive function. `MatchingExists` shows by least counterexample
  that there is one, for every listing; each id in its result was matched at some
  place (`MatchedSomewhere`), with one trade at most per place (`OneMatch`), and in a
  clean audit by a trade of the same symbol. So the tracked ids of a symbol inject
  into its open positions, whatever the symbol fallback pairs.
- `ReplaySafe` (`SequentialInv`): trades of one instrument follow each other
  (`HoldingsApart`), no day has more than its caps (`CapsKept`), and the count that
  trips the loss breaker is no less than the losing run at the end of the day
  (`BreakerCounts`), which is why no trade follows such a run. The breaker's part
  assumes entries in the order of their signals (`~entryLag`).
- `ExperimentsSafe` (`CatalogInv`): a runner that holds a linked record finds it in
  the directory, and one that lost the race finds another's (`RunnersSound`).
- `BacktestSafe` (`BacktestInv`): signal, entry and exit follow in this order and the
  next signal comes after the last exit (`EntriesInOrder`), no trade loses more
  than the risk of the balance before it and the fee, and the equity curve is the sum
  of the trades (`TradesSound`). The statistics are recursive functions over the
  curve: `RecursionExists` shows that such a function exists, and
  `DrawdownIsDeepest` and `LossesAreLongest` that it returns the deepest fall and
  the longest run of losses, by least counterexample.
- `AuditIsHonest`, `ResearchIsSound` and `EvidenceTyped` compose them.

The assumptions ask no more than the code gives: prices of a plan are numbers
(`PaperAssumption`), a campaign has a candle (`CampaignAssumption`), a notification
service has a worker and its scheduled channel update is not a simulated event
(`NotificationsAssumption`), days and fills are bounded by naturals
(`RiskDayAssumption`), times of evaluation are naturals, acquisition jobs are
finitely many (`EvidenceAssumption`), the times of candles are positive
(`HistoricalAssumption`), and prices of bars are naturals (`BacktestAssumption`).

### Only model-checked

Liveness: `ReservationEnds`, `SubmitEnds`, `ClosesAreReported`, `HeartbeatReturns` and
`CursorCatchesUp`. It needs ENABLED and fairness, which are out of the prover's reach;
of the first two the part that is safety is proved (`LeasesLapse`,
`EveryCallDescends`). Every other property of a passing run is stated by a theorem.
The induction theorems of the library take an operator as a parameter, which the
provers cannot instantiate. Where a fold or a recursive function is proved
about, the induction is a least counterexample: the set of lengths at which the
claim fails is a set of naturals, and its least element leads to a contradiction.
`TypeOK`, `OneSupervisor` and `HeartbeatIsNoGhost` of `services` are those the
theorems state.

## 5. What the models admit

Some behaviours are neither findings against a sentence of the repository nor
excluded by its code. The properties name them explicitly instead of
leaving them out:

- an order or close on another account, when the terminal's login changes after
  the verification for that very call (`Mt5Session.exposed`);
- a contract on an unverified Deriv session, when `connect` is entered during a
  submission (`DerivGateway.overtaken`);
- a forgotten open paper position, when the process dies between `complete` and
  the heartbeat (`PaperRuntime.unseen`);
- campaign ledger rows closed after a failed listing, or missing after a
  death before `record_open` (`LivePaperCampaign.excused`, `misread`);
- a revocation dropped by two overlapping calls of `persist`
  (`DerivProofStore.raced`);
- a decided outcome overwritten by an older reading (`ShadowOutcomes.crossed`);
- a close that the forward sampler never counts after a crash, two overlapping
  plans, a second digest after a lost mark (`ObservationDaemon.uncounted`,
  `together`, `repeated`);
- a bar stored while it was open (`CandleCache.frozen`);
- an old cache answered as CURRENT: when more bars close during the broker's read
  than were asked for, `closed_only` drops all that were fetched
  (`data/historical.py:88-128`) and nothing compares the cache with the clock
  after that (`CandleCache.late`);
- half a cent beyond the authorized risk from rounding (`RiskDay`).

## 6. Plan

1. `ExecutionPolicy`: the rule order of `evaluate` as a pure operator against a
   reference.
2. Command handling of the Telegram bot beyond the watchlist.
3. The recommendation endpoints of the HTTP API, whose caches are read by the
   dashboard.

## 7. Not modelled

Signal, indicator and statistics code (numeric, without state that outlives a
call), `dynamic_risk.py`, the other research and report tools, the read models and
authentication of the HTTP API, the assistant, the frontend and hosted
functions, parsing of the terminal's trade history, tick streams, and the wording
of messages and logs. Prices and money are whole numbers. The reservation-free
`try_claim` is used by harnesses only.
`execution/market_setup.py` describes its historical win rate as out-of-sample
while `resolve_historical_win_rate` never looks at the partition of the record;
it is display text without effect on any state modelled here.
