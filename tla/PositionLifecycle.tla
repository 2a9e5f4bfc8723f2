----------------------------- MODULE PositionLifecycle -----------------------------
(***************************************************************************)
(* What happens to a fill after the order was accepted: main.run observes  *)
(* the broker position and records it in SQLitePositionLedger, the close   *)
(* monitor (monitoring/weltrade_close_monitor.py) follows it to its close, *)
(* alerts are claimed once, and doubt ends in a durable integrity halt.    *)
(*                                                                         *)
(* A ticket stands for an intent, its order and the position it becomes.   *)
(* A monitor is a process that runs monitor_weltrade_closes: the execution *)
(* supervisor, which also runs the watchlist, or a run of                  *)
(* tools/inspect_close_history.py --reconcile.  The submission itself is   *)
(* the subject of DurableExecutor; here it is claim, send and outcome.     *)
(***************************************************************************)
EXTENDS Naturals, FiniteSets

CONSTANTS
    Tickets,
    Volume,        \* volume of every order, in lots of the symbol
    Supervisor,    \* the one process of monitoring/weltrade_execution_supervisor.py
    Tools,         \* runs of tools/inspect_close_history.py --reconcile
    HeartbeatOverwritten,  \* refused starts overwrite the supervisor's heartbeat
    Previews,      \* tickets submitted by tools/demo_trade_preview.py
    NoTicket,
    MaxStarts      \* bound: how often the operator starts the supervisor

ASSUME ProcessAssumption ==
    /\ Volume \in Nat \ {0}
    /\ Supervisor \notin Tools
    /\ Previews \subseteq Tickets
    /\ HeartbeatOverwritten \in BOOLEAN
    /\ NoTicket \notin Tickets
    /\ MaxStarts \in Nat

Monitors == {Supervisor} \cup Tools

VARIABLES
    volume,     \* the broker's open volume of each position
    filled,     \* tickets the broker filled
    intent,     \* intent_records.state
    row,        \* live_paper_positions: NONE, OPEN (closed_at IS NULL) or CLOSED
    rowVolume,  \* its volume column
    remaining,  \* its remaining_volume column
    recon,      \* its reconciliation_state column
    claims,     \* its notification claim columns, as pairs <<kind, ticket>>
    alerts,     \* alerts handed to the transports
    halt,       \* the post_fill_integrity_halt row exists
    pc, cur,    \* where each process is, and the ticket it works on
    view,       \* the position snapshot of a monitor run
    deals,      \* the closed volume its history window shows
    todo,       \* ledger rows, alerts or watchlist pairs it still has to handle
    lost,       \* history: fills whose bookkeeping was cut short
    late,       \* history: intents claimed although the halt was set
    starts      \* history: how often the supervisor was started

broker  == <<volume, filled>>
ledger  == <<row, rowVolume, remaining, recon>>
notices == <<claims, alerts>>
process == <<pc, cur, view, deals, todo>>
vars    == <<broker, intent, ledger, notices, halt, process, lost, late, starts>>

IntentStates == {"ABSENT", "PENDING", "UNKNOWN", "ACCEPTED", "REJECTED"}
Unresolved   == {"PENDING", "UNKNOWN"}
Kinds        == {"OPENED", "CLOSED", "UNCONFIRMED"}
Amounts      == 0 .. Volume
Flat         == [t \in Tickets |-> 0]

\* Where a process can be: in the monitor, after it, and in main.run.
InMonitor == {"SNAP", "CLOCK", "ROWS", "ALARM", "HALTING", "ALERTS", "GATE"}
InRun     == {"PAIRS", "PLANNING", "SENDING", "SENT", "OBSERVE", "REVISIT", "RECORDED"}
Steps     == InMonitor \cup InRun \cup {"STOPPED"}

Init ==
    /\ volume = Flat
    /\ filled = {}
    /\ intent = [t \in Tickets |-> "ABSENT"]
    /\ row = [t \in Tickets |-> "NONE"]
    /\ rowVolume = Flat
    /\ remaining = Flat
    /\ recon = [t \in Tickets |-> "NONE"]
    /\ claims = {}
    /\ alerts = [n \in Kinds \X Tickets |-> 0]
    /\ halt = FALSE
    /\ pc = [m \in Monitors |-> "STOPPED"]
    /\ cur = [m \in Monitors |-> NoTicket]
    /\ view = [m \in Monitors |-> Flat]
    /\ deals = [m \in Monitors |-> Flat]
    /\ todo = [m \in Monitors |-> {}]
    /\ lost = {}
    /\ late = {}
    /\ starts = 0

-----------------------------------------------------------------------------
Goto(m, step) == pc' = [pc EXCEPT ![m] = step]

\* The process ends, by an exception or by dying.
Stop(m) ==
    /\ Goto(m, "STOPPED")
    /\ cur' = [cur EXCEPT ![m] = NoTicket]
    /\ view' = [view EXCEPT ![m] = Flat]
    /\ deals' = [deals EXCEPT ![m] = Flat]
    /\ todo' = [todo EXCEPT ![m] = {}]

\* Faulty variant: the alert goes out whether or not the claim was won.
ClaimIgnored(kind, t) ==
    /\ claims' = claims \cup {<<kind, t>>}
    /\ alerts' = [alerts EXCEPT ![<<kind, t>>] = @ + 1]

\* claim_*_notification_once, then the delivery, which may fail or be lost.
Claim(kind, t) ==
    IF <<kind, t>> \in claims THEN UNCHANGED notices
    ELSE /\ claims' = claims \cup {<<kind, t>>}
         /\ \/ alerts' = [alerts EXCEPT ![<<kind, t>>] = @ + 1]
            \/ UNCHANGED alerts

\* record_post_fill_integrity_halt: INSERT OR IGNORE.
Halt == halt' = TRUE

-----------------------------------------------------------------------------
(***************************************************************************)
(* monitor_weltrade_closes, for either process                             *)
(***************************************************************************)
\* The supervisor catches up before its first cycle.
StartSupervisor ==
    /\ pc[Supervisor] = "STOPPED"
    /\ starts < MaxStarts
    /\ starts' = starts + 1
    /\ Goto(Supervisor, "SNAP")
    /\ UNCHANGED <<broker, intent, ledger, notices, halt, cur, view, deals, todo, lost, late>>

\* The tool refuses to run while the heartbeat's process is alive, which need
\* not be the supervisor (see ExecutionSupervisor).
StartTool(m) ==
    /\ m \in Tools /\ pc[m] = "STOPPED"
    /\ HeartbeatOverwritten \/ pc[Supervisor] = "STOPPED"
    /\ Goto(m, "SNAP")
    /\ UNCHANGED <<broker, intent, ledger, notices, halt, cur, view, deals, todo, lost, late, starts>>

\* positions_get().  Without an answer the monitor halts.
Snapshot(m) ==
    /\ pc[m] = "SNAP"
    /\ \/ /\ view' = [view EXCEPT ![m] = volume]
          /\ Goto(m, "CLOCK")
       \/ Goto(m, "HALTING") /\ UNCHANGED view
    /\ UNCHANGED <<broker, intent, ledger, notices, halt, cur, deals, todo, lost, late, starts>>

\* now, the end of every history window of this run, and open_entries().
ReadClock(m) ==
    /\ pc[m] = "CLOCK"
    /\ deals' = [deals EXCEPT ![m] =
                    [t \in Tickets |-> IF t \in filled THEN Volume - volume[t] ELSE 0]]
    /\ todo' = [todo EXCEPT ![m] = {t \in Tickets : row[t] = "OPEN"}]
    /\ Goto(m, "ROWS")
    /\ UNCHANGED <<broker, intent, ledger, notices, halt, cur, view, lost, late, starts>>

Done(m, t) == todo' = [todo EXCEPT ![m] = @ \ {t}]

\* Faulty variant: a position that is gone counts as one still open.
StillOpenOrGone(m, t) == view[m][t] \in {rowVolume[t], 0}

\* The position is there with the volume of its row.
StillOpen(m, t) == view[m][t] = rowVolume[t]

\* The closing deals account for the change, and the opening deal for the row.
Accounted(m, t) ==
    /\ deals[m][t] > 0
    /\ deals[m][t] = rowVolume[t] - view[m][t]
    /\ rowVolume[t] = Volume

RowUntouched(m, t) ==
    /\ pc[m] = "ROWS" /\ t \in todo[m]
    /\ StillOpen(m, t)
    /\ Done(m, t)
    /\ UNCHANGED <<broker, intent, ledger, notices, halt, pc, cur, view, deals, lost, late, starts>>

\* The change is confirmed by authoritative history.
RowConfirmed(m, t) == pc[m] = "ROWS" /\ t \in todo[m] /\ ~ StillOpen(m, t) /\ Accounted(m, t)

\* mark_closed; a row another process closed first, or a failed write, halts.
MarkClosed(m, t) ==
    /\ RowConfirmed(m, t)
    /\ view[m][t] = 0
    /\ \/ /\ row[t] = "OPEN"
          /\ row' = [row EXCEPT ![t] = "CLOSED"]
          /\ remaining' = [remaining EXCEPT ![t] = 0]
          /\ recon' = [recon EXCEPT ![t] = "CONFIRMED"]
          /\ Done(m, t)
          /\ UNCHANGED <<rowVolume, pc>>
       \/ Goto(m, "HALTING") /\ UNCHANGED <<ledger, todo>>
    /\ UNCHANGED <<broker, intent, notices, halt, cur, view, deals, lost, late, starts>>

\* Faulty variant: the closed volume is subtracted once per observation.
SubtractClosed(m, t) ==
    /\ remaining' = [remaining EXCEPT ![t] = @ - deals[m][t]]
    /\ recon' = [recon EXCEPT ![t] = "PARTIAL"]

\* A repeated observation changes nothing.
SetRemaining(m, t) ==
    IF remaining[t] = view[m][t]
    THEN UNCHANGED <<remaining, recon>>
    ELSE /\ remaining' = [remaining EXCEPT ![t] = view[m][t]]
         /\ recon' = [recon EXCEPT ![t] = "PARTIAL"]

\* mark_partial_close, with the same failure as mark_closed.
MarkPartialClose(m, t) ==
    /\ RowConfirmed(m, t)
    /\ view[m][t] > 0
    /\ \/ /\ row[t] = "OPEN"
          /\ SetRemaining(m, t)
          /\ Done(m, t)
          /\ UNCHANGED pc
       \/ Goto(m, "HALTING") /\ UNCHANGED <<remaining, recon, todo>>
    /\ UNCHANGED <<broker, intent, row, rowVolume, notices, halt, cur, view, deals, lost, late, starts>>

\* Faulty variant: the mark also lands on a row that is closed by now.
MarkUnguarded(t) == recon' = [recon EXCEPT ![t] = "UNCONFIRMED"]

\* mark_close_unconfirmed: WHERE closed_at IS NULL.
MarkUnconfirmed(t) ==
    recon' = IF row[t] = "OPEN" THEN [recon EXCEPT ![t] = "UNCONFIRMED"] ELSE recon

\* The deals do not account for the change, or the history is incomplete.
CloseUnconfirmed(m, t) ==
    /\ pc[m] = "ROWS" /\ t \in todo[m]
    /\ ~ StillOpen(m, t)
    /\ \/ /\ MarkUnconfirmed(t)
          /\ Goto(m, "ALARM")
          /\ cur' = [cur EXCEPT ![m] = t]
       \/ Goto(m, "HALTING") /\ UNCHANGED <<recon, cur>>      \* the write failed
    /\ UNCHANGED <<broker, intent, row, rowVolume, remaining, notices, halt, view, deals, todo,
                   lost, late, starts>>

\* _alert_unconfirmed, which claims only a row marked CLOSE_UNCONFIRMED.  The
\* tool runs with notify=False.
Alarm(m) ==
    /\ pc[m] = "ALARM"
    /\ IF m = Supervisor /\ recon[cur[m]] = "UNCONFIRMED"
       THEN Claim("UNCONFIRMED", cur[m]) ELSE UNCHANGED notices
    /\ Goto(m, "HALTING")
    /\ cur' = [cur EXCEPT ![m] = NoTicket]
    /\ UNCHANGED <<broker, intent, ledger, halt, view, deals, todo, lost, late, starts>>

\* _halt: record the marker and raise.  The process ends either way.
RecordHalt(m) ==
    /\ pc[m] = "HALTING"
    /\ Halt \/ UNCHANGED halt
    /\ Stop(m)
    /\ UNCHANGED <<broker, intent, ledger, notices, lost, late, starts>>

\* pending_close_notifications(), listed once all rows are handled.
ListClosed(m) ==
    /\ pc[m] = "ROWS" /\ todo[m] = {}
    /\ todo' = [todo EXCEPT ![m] =
                    {t \in Tickets : /\ m = Supervisor
                                     /\ row[t] = "CLOSED" /\ recon[t] = "CONFIRMED"
                                     /\ <<"CLOSED", t>> \notin claims}]
    /\ Goto(m, "ALERTS")
    /\ UNCHANGED <<broker, intent, ledger, notices, halt, cur, view, deals, lost, late, starts>>

AlertClosed(m, t) ==
    /\ pc[m] = "ALERTS" /\ t \in todo[m]
    /\ Claim("CLOSED", t)
    /\ Done(m, t)
    /\ UNCHANGED <<broker, intent, ledger, halt, pc, cur, view, deals, lost, late, starts>>

\* The listing or a claim raised; a failed delivery does not.
AlertsFail(m) ==
    /\ pc[m] = "ALERTS" /\ m = Supervisor
    /\ Goto(m, "HALTING")
    /\ UNCHANGED <<broker, intent, ledger, notices, halt, cur, view, deals, todo, lost, late, starts>>

AlertsSent(m) ==
    /\ pc[m] = "ALERTS" /\ todo[m] = {}
    /\ Goto(m, "GATE")
    /\ UNCHANGED <<broker, intent, ledger, notices, halt, cur, view, deals, todo, lost, late, starts>>

\* The last statement of the monitor: a persisted halt ends the process.  A
\* tool run ends here in any case.
MonitorEnds(m) ==
    /\ pc[m] = "GATE"
    /\ halt \/ m \in Tools
    /\ Stop(m)
    /\ UNCHANGED <<broker, intent, ledger, notices, halt, lost, late, starts>>

-----------------------------------------------------------------------------
(***************************************************************************)
(* The supervisor's cycle and main.run                                     *)
(***************************************************************************)
At(step) == pc[Supervisor] = step
Ticket   == cur[Supervisor]

\* evaluate() found no blocking reason.
PreflightClear ==
    /\ At("GATE") /\ ~ halt
    /\ \A t \in Tickets : intent[t] \notin Unresolved
    /\ todo' = [todo EXCEPT ![Supervisor] = Tickets \ Previews]
    /\ Goto(Supervisor, "PAIRS")
    /\ UNCHANGED <<broker, intent, ledger, notices, halt, cur, view, deals, lost, late, starts>>

\* The wait between cycles, a position limit that is retried, or a block that
\* ends the process.
PreflightWaits ==
    /\ At("GATE") /\ ~ halt
    /\ \/ Goto(Supervisor, "SNAP") /\ UNCHANGED <<cur, view, deals, todo>>
       \/ Stop(Supervisor)
    /\ UNCHANGED <<broker, intent, ledger, notices, halt, lost, late, starts>>

WatchlistDone ==
    /\ At("PAIRS") /\ todo[Supervisor] = {}
    /\ Goto(Supervisor, "SNAP")
    /\ UNCHANGED <<broker, intent, ledger, notices, halt, cur, view, deals, todo, lost, late, starts>>

\* Faulty variant: run() does not look at the halt.
RunPairUnchecked(t) ==
    /\ At("PAIRS") /\ t \in todo[Supervisor]
    /\ intent[t] \in {"ABSENT", "ACCEPTED"}
    /\ cur' = [cur EXCEPT ![Supervisor] = t]
    /\ Done(Supervisor, t)
    /\ Goto(Supervisor, IF intent[t] = "ACCEPTED" THEN "REVISIT" ELSE "PLANNING")
    /\ UNCHANGED <<broker, intent, ledger, notices, halt, view, deals, lost, late, starts>>

\* run() for a pair whose signal gives this ticket's key: the halt, startup
\* recovery, then the stored record.  An accepted one is observed again.
RunPair(t) ==
    /\ At("PAIRS") /\ t \in todo[Supervisor]
    /\ ~ halt
    /\ \A u \in Tickets : intent[u] \notin Unresolved
    /\ intent[t] \in {"ABSENT", "ACCEPTED"}
    /\ cur' = [cur EXCEPT ![Supervisor] = t]
    /\ Done(Supervisor, t)
    /\ Goto(Supervisor, IF intent[t] = "ACCEPTED" THEN "REVISIT" ELSE "PLANNING")
    /\ UNCHANGED <<broker, intent, ledger, notices, halt, view, deals, lost, late, starts>>

\* An unresolved intent blocks the pair, and a rejected one is not repeated;
\* run_watchlist goes on with the next pair.
RunBlocked(t) ==
    /\ At("PAIRS") /\ t \in todo[Supervisor]
    /\ ~ halt
    /\ intent[t] = "REJECTED" \/ \E u \in Tickets : intent[u] \in Unresolved
    /\ Done(Supervisor, t)
    /\ UNCHANGED <<broker, intent, ledger, notices, halt, pc, cur, view, deals, lost, late, starts>>

\* The halt is not a platform error, so it ends the process.
RunHalted ==
    /\ At("PAIRS") /\ todo[Supervisor] # {}
    /\ halt
    /\ Stop(Supervisor)
    /\ UNCHANGED <<broker, intent, ledger, notices, halt, lost, late, starts>>

ClaimIntent(t) ==
    /\ intent' = [intent EXCEPT ![t] = "PENDING"]
    /\ late' = IF halt THEN late \cup {t} ELSE late

\* The executor claims the intent, unless another one is unresolved by now.
Submit ==
    /\ At("PLANNING")
    /\ \A u \in Tickets \ {Ticket} : intent[u] \notin Unresolved
    /\ ClaimIntent(Ticket)
    /\ Goto(Supervisor, "SENDING")
    /\ UNCHANGED <<broker, ledger, notices, halt, cur, view, deals, todo, lost, starts>>

\* No order in this cycle: no signal, a risk or policy refusal, or a failed
\* platform call, which run_watchlist catches.
NoOrder ==
    /\ At("PLANNING")
    /\ Goto(Supervisor, "PAIRS")
    /\ cur' = [cur EXCEPT ![Supervisor] = NoTicket]
    /\ UNCHANGED <<broker, intent, ledger, notices, halt, view, deals, todo, lost, late, starts>>

\* order_send: the broker fills the order or refuses it.
Fill(t) ==
    \/ filled' = filled \cup {t} /\ volume' = [volume EXCEPT ![t] = Volume]
    \/ UNCHANGED broker

Send ==
    /\ At("SENDING")
    /\ Fill(Ticket)
    /\ Goto(Supervisor, "SENT")
    /\ UNCHANGED <<intent, ledger, notices, halt, cur, view, deals, todo, lost, late, starts>>

\* The outcome the executor persists; the row stays PENDING if it cannot.
Outcomes(t) == {"UNKNOWN", "PENDING"} \cup {IF t \in filled THEN "ACCEPTED" ELSE "REJECTED"}

RecordOutcome ==
    /\ At("SENT")
    /\ \E outcome \in Outcomes(Ticket) :
        /\ intent' = [intent EXCEPT ![Ticket] = outcome]
        /\ IF outcome = "ACCEPTED"
           THEN Goto(Supervisor, "OBSERVE") /\ UNCHANGED cur
           ELSE Goto(Supervisor, "PAIRS") /\ cur' = [cur EXCEPT ![Supervisor] = NoTicket]
    /\ UNCHANGED <<broker, ledger, notices, halt, view, deals, todo, lost, late, starts>>

\* record_confirmed_fill_once: a new row, or the same facts again.
RecordFill(t) ==
    \/ /\ row[t] = "NONE"
       /\ row' = [row EXCEPT ![t] = "OPEN"]
       /\ rowVolume' = [rowVolume EXCEPT ![t] = volume[t]]
       /\ remaining' = [remaining EXCEPT ![t] = volume[t]]
       /\ UNCHANGED recon
    \/ /\ row[t] # "NONE" /\ rowVolume[t] = volume[t]
       /\ UNCHANGED ledger

\* _observe_confirmed_weltrade_fill: the broker shows the position, with the
\* filled volume if this cycle sent the order.
ObserveFill ==
    /\ At("OBSERVE") \/ At("REVISIT")
    /\ volume[Ticket] > 0
    /\ At("OBSERVE") => volume[Ticket] = Volume
    /\ RecordFill(Ticket)
    /\ Goto(Supervisor, "RECORDED")
    /\ UNCHANGED <<broker, intent, notices, halt, cur, view, deals, todo, lost, late, starts>>

\* An accepted order without a visible position, which is also what a failed
\* position read looks like, is left alone.
NothingToObserve ==
    /\ At("REVISIT")
    /\ Goto(Supervisor, "PAIRS")
    /\ cur' = [cur EXCEPT ![Supervisor] = NoTicket]
    /\ UNCHANGED <<broker, intent, ledger, notices, halt, view, deals, todo, lost, late, starts>>

\* Faulty variant: the failure is only logged.
ObservationLogged ==
    /\ At("OBSERVE")
    /\ Goto(Supervisor, "PAIRS")
    /\ cur' = [cur EXCEPT ![Supervisor] = NoTicket]
    /\ UNCHANGED <<broker, intent, ledger, notices, halt, view, deals, todo, lost, late, starts>>

\* Any failed check, read or write: halt and raise.  The marker itself may
\* fail to be written.
ObservationFails ==
    /\ At("OBSERVE") \/ At("REVISIT") \/ At("RECORDED")
    /\ \/ Halt /\ UNCHANGED lost
       \/ UNCHANGED halt /\ lost' = lost \cup {Ticket}
    /\ Stop(Supervisor)
    /\ UNCHANGED <<broker, intent, ledger, notices, late, starts>>

\* claim_open_notification_once and the opened-trade alert.
AlertOpened ==
    /\ At("RECORDED")
    /\ Claim("OPENED", Ticket)
    /\ Goto(Supervisor, "PAIRS")
    /\ cur' = [cur EXCEPT ![Supervisor] = NoTicket]
    /\ UNCHANGED <<broker, intent, ledger, halt, view, deals, todo, lost, late, starts>>

-----------------------------------------------------------------------------
(***************************************************************************)
(* demo_trade_preview, crashes and the broker (external)                   *)
(***************************************************************************)
\* The tool stops on an unresolved intent, but it does not read the halt.
PreviewSubmit(t) ==
    /\ t \in Previews /\ intent[t] = "ABSENT"
    /\ \A u \in Tickets : intent[u] \notin Unresolved
    /\ ClaimIntent(t)
    /\ UNCHANGED <<broker, ledger, notices, halt, process, lost, starts>>

\* A crash that leaves the row PENDING blocks everybody as UNKNOWN does.  The
\* tool records no position.
PreviewSend(t) ==
    /\ t \in Previews /\ intent[t] = "PENDING"
    /\ Fill(t)
    /\ \E outcome \in {"UNKNOWN", IF t \in filled' THEN "ACCEPTED" ELSE "REJECTED"} :
          intent' = [intent EXCEPT ![t] = outcome]
    /\ UNCHANGED <<ledger, notices, halt, process, lost, late, starts>>

Crash(m) ==
    /\ pc[m] # "STOPPED"
    /\ lost' = IF pc[m] \in {"SENT", "OBSERVE", "REVISIT"} THEN lost \cup {cur[m]} ELSE lost
    /\ Stop(m)
    /\ UNCHANGED <<broker, intent, ledger, notices, halt, late, starts>>

\* A stop, a target or the trader closes all or a part of a position.
BrokerCloses(t) ==
    /\ \E v \in Amounts : v < volume[t] /\ volume' = [volume EXCEPT ![t] = v]
    /\ UNCHANGED <<filled, intent, ledger, notices, halt, process, lost, late, starts>>

-----------------------------------------------------------------------------
Monitor(m) ==
    \/ Snapshot(m) \/ ReadClock(m) \/ Alarm(m) \/ RecordHalt(m)
    \/ ListClosed(m) \/ AlertsFail(m) \/ AlertsSent(m) \/ MonitorEnds(m)
    \/ \E t \in Tickets : \/ RowUntouched(m, t) \/ MarkClosed(m, t) \/ MarkPartialClose(m, t)
                          \/ CloseUnconfirmed(m, t) \/ AlertClosed(m, t)

Cycle ==
    \/ PreflightClear \/ PreflightWaits \/ WatchlistDone \/ RunHalted
    \/ \E t \in Tickets : RunPair(t) \/ RunBlocked(t)
    \/ Submit \/ NoOrder \/ Send \/ RecordOutcome
    \/ ObserveFill \/ NothingToObserve \/ ObservationFails \/ AlertOpened

Next ==
    \/ StartSupervisor \/ Cycle
    \/ \E m \in Monitors : StartTool(m) \/ Monitor(m) \/ Crash(m)
    \/ \E t \in Tickets : PreviewSubmit(t) \/ PreviewSend(t) \/ BrokerCloses(t)

Spec == Init /\ [][Next]_vars

\* A running process goes on: the event loop schedules it and terminal calls
\* return or raise.
FairSpec == Spec /\ WF_vars(Monitor(Supervisor) \/ Cycle)

-----------------------------------------------------------------------------
(***************************************************************************)
(* Properties                                                              *)
(***************************************************************************)
\* Every column and local variable keeps its type.
TypeOK ==
    /\ volume \in [Tickets -> Amounts]
    /\ filled \in SUBSET Tickets
    /\ intent \in [Tickets -> IntentStates]
    /\ row \in [Tickets -> {"NONE", "OPEN", "CLOSED"}]
    /\ rowVolume \in [Tickets -> Amounts]
    /\ remaining \in [Tickets -> Amounts]
    /\ recon \in [Tickets -> {"NONE", "PARTIAL", "UNCONFIRMED", "CONFIRMED"}]
    /\ claims \in SUBSET (Kinds \X Tickets)
    /\ alerts \in [Kinds \X Tickets -> Nat]
    /\ halt \in BOOLEAN
    /\ pc \in [Monitors -> Steps]
    /\ cur \in [Monitors -> Tickets \cup {NoTicket}]
    /\ view \in [Monitors -> [Tickets -> Amounts]]
    /\ deals \in [Monitors -> [Tickets -> Amounts]]
    /\ todo \in [Monitors -> SUBSET Tickets]
    /\ lost \in SUBSET Tickets
    /\ late \in SUBSET Tickets
    /\ starts \in Nat

\* The ledger never runs ahead of the broker, although a monitor writes from a
\* snapshot taken before its history read and another monitor may write in
\* between: a closed row has no position left, and an open one claims at least
\* what is left (mark_closed, mark_partial_close, record_confirmed_fill_once).
LedgerBehindBroker ==
    \A t \in Tickets :
        /\ row[t] = "CLOSED" => volume[t] = 0
        /\ row[t] = "OPEN" => t \in filled /\ volume[t] <= remaining[t]
                              /\ remaining[t] <= rowVolume[t]

\* Each alert goes out at most once per position, and a closed-trade alert only
\* for a close that was confirmed, across crashes, restarts and concurrent
\* monitors (claim_open_notification_once, claim_close_notification_once).
AlertsAtMostOnce ==
    \A t \in Tickets :
        /\ \A kind \in Kinds : alerts[<<kind, t>>] <= 1
        /\ alerts[<<"CLOSED", t>>] > 0 => row[t] = "CLOSED" /\ recon[t] = "CONFIRMED"
        /\ alerts[<<"OPENED", t>>] > 0 => row[t] # "NONE"

\* A position the supervisor opened is in the ledger, or somebody was told: a
\* halt is set, or the supervisor is still working on it.  Only a crash between
\* the outcome and the ledger write, or a marker that could not be written,
\* leaves one untracked (main.run, _observe_confirmed_weltrade_fill).
FillsAreTracked ==
    \A t \in Tickets \ Previews :
        intent[t] = "ACCEPTED" /\ row[t] = "NONE" =>
            halt \/ t \in lost \/ Ticket = t

\* A confirmed close is final: no stale monitor run reopens or unconfirms the
\* row (the closed_at IS NULL guards of the ledger's updates).
ClosedRowIsFinal ==
    [][\A t \in Tickets :
          row[t] = "CLOSED" =>
              row'[t] = "CLOSED" /\ remaining'[t] = 0 /\ recon'[t] = recon[t]]_vars

Position == INSTANCE PositionRecord WITH
    opened  <- filled,
    held    <- volume,
    entered <- rowVolume,
    shown   <- remaining,
    verdict <- recon,
    told    <- alerts

\* Two monitors with snapshots of different age, refused writes, crashes and
\* restarts implement the life of a position as one writer would live it:
\* entered once, never shown below what the broker has, closed once and for
\* good, and told once, while it is true (SQLitePositionLedger,
\* monitor_weltrade_closes, main.run).
ImplementsPositionRecord == Position!Spec

\* A halt that a repair tool sets while the supervisor is at work lets at most
\* the pair in hand through: however the rest of the watchlist, crashes and
\* restarts go on, the supervisor claims one intent at most under a halt (run,
\* evaluate, monitor_weltrade_closes).
OneClaimPastTheHalt == Cardinality(late \ Previews) <= 1

\* What docs/weltrade-execution-supervisor.md says of the halt: it prevents all
\* further submissions, whoever makes them.
HaltStopsAllSubmissions == late = {}

\* A supervisor that keeps running reports the close of every position in its
\* ledger, or stops (monitor_weltrade_closes, run_forever).
ClosesAreReported ==
    \A t \in Tickets :
        row[t] = "OPEN" /\ volume[t] = 0 ~> row[t] = "CLOSED" \/ At("STOPPED")
=============================================================================
