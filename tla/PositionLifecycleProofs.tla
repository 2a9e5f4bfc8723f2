-------------------------- MODULE PositionLifecycleProofs --------------------------
(***************************************************************************)
(* Proofs about PositionLifecycle, for all tickets, volumes and tools: the *)
(* ledger stays behind the broker, closes are final, alerts go out once,   *)
(* fills are tracked, one claim at most passes a halt, and all this        *)
(* implements the record of a position in PositionRecord.                  *)
(***************************************************************************)
EXTENDS PositionLifecycle, FiniteSetTheorems, TLAPS

\* The broker fills a ticket once: nothing is filled before it is claimed.
FillInv ==
    /\ \A t \in Tickets : t \notin filled => volume[t] = 0
    /\ \A t \in Tickets : intent[t] = "ABSENT" => t \notin filled
    /\ \A t \in Previews : intent[t] = "PENDING" => t \notin filled

\* What the supervisor knows of the ticket in hand at each step of main.run.
InHand == pc[Supervisor] \in InRun \ {"PAIRS"}

HandInv ==
    /\ ~ InHand /\ ~ At("ALARM") => Ticket = NoTicket
    /\ InHand => Ticket \in Tickets \ Previews
    /\ pc[Supervisor] \in InRun => todo[Supervisor] \subseteq Tickets \ Previews

CycleInv ==
    /\ HandInv
    /\ \A m \in Tools : pc[m] \notin InRun
    /\ At("ALARM") => Ticket \in Tickets /\ row[Ticket] # "NONE"
    /\ At("PLANNING") => intent[Ticket] = "ABSENT"
    /\ At("SENDING") => intent[Ticket] = "PENDING" /\ Ticket \notin filled
    /\ At("SENT") => intent[Ticket] = "PENDING"
    /\ At("RECORDED") => row[Ticket] # "NONE"
    /\ At("REVISIT") => row[Ticket] # "NONE" \/ Ticket \in lost \/ halt

\* What a monitor run carries from its reads to its writes: closing deals only
\* grow, rows stay, and confirmed closes stay confirmed.
MonitorInv ==
    \A m \in Monitors, t \in Tickets :
        /\ pc[m] = "ROWS" /\ deals[m][t] > 0 =>
              t \in filled /\ volume[t] + deals[m][t] <= Volume
        /\ pc[m] = "ROWS" /\ t \in todo[m] => row[t] # "NONE"
        /\ pc[m] = "ALERTS" /\ t \in todo[m] => row[t] = "CLOSED" /\ recon[t] = "CONFIRMED"

\* Rows are fills; an open row shows no less than the broker has, and no more
\* than was filled, a closed one only what the broker closed.
LedgerInv ==
    \A t \in Tickets :
        /\ row[t] # "NONE" => t \in filled
        /\ row[t] = "CLOSED" => volume[t] = 0 /\ remaining[t] = 0
        /\ row[t] = "OPEN" => volume[t] <= remaining[t] /\ remaining[t] <= rowVolume[t]

\* An alert went out only after its claim.
AlertInv ==
    \A t \in Tickets :
        /\ \A kind \in Kinds : /\ alerts[<<kind, t>>] <= 1
                               /\ alerts[<<kind, t>>] > 0 => <<kind, t>> \in claims
        /\ alerts[<<"CLOSED", t>>] > 0 => row[t] = "CLOSED" /\ recon[t] = "CONFIRMED"
        /\ alerts[<<"OPENED", t>>] > 0 => row[t] # "NONE"

\* After a claim under a halt the supervisor never plans again.
LateInv ==
    \/ late \ Previews = {}
    \/ halt /\ ~ At("PLANNING") /\ \E t \in Tickets : late \ Previews = {t}

Inductive ==
    /\ TypeOK /\ CycleInv /\ FillInv /\ LedgerInv /\ MonitorInv /\ AlertInv
    /\ FillsAreTracked /\ LateInv

USE DEF broker, ledger, notices, process, Steps, InMonitor, InRun

-----------------------------------------------------------------------------
(***************************************************************************)
(* What a step can do to the data                                          *)
(***************************************************************************)
\* A step that touches neither the broker, the rows nor the claims.
Quiet == UNCHANGED <<broker, intent, ledger, notices, late>>

Writes ==
    \/ \E m \in Monitors, t \in Tickets :
          MarkClosed(m, t) \/ MarkPartialClose(m, t) \/ CloseUnconfirmed(m, t) \/ AlertClosed(m, t)
    \/ \E m \in Monitors : Alarm(m)
    \/ Submit \/ Send \/ RecordOutcome \/ ObserveFill \/ AlertOpened
    \/ \E t \in Tickets : PreviewSubmit(t) \/ PreviewSend(t) \/ BrokerCloses(t)

\* Halts and lost fills are never taken back.
Grows == (halt => halt') /\ lost \subseteq lost'

\* A step of the monitor writes one row, claims one alert, or is quiet.
LEMMA MonitorData ==
    ASSUME NEW m \in Monitors, Monitor(m)
    PROVE  (Quiet \/ Writes) /\ Grows
  <1> USE DEF Grows, Quiet
  <1>1. CASE Snapshot(m) \/ ReadClock(m) \/ ListClosed(m) \/ AlertsFail(m) \/ AlertsSent(m)
    BY <1>1 DEF Snapshot, ReadClock, ListClosed, AlertsFail, AlertsSent
  <1>2. CASE RecordHalt(m) \/ MonitorEnds(m)
    BY <1>2 DEF RecordHalt, MonitorEnds, Halt
  <1>3. CASE Alarm(m)
    BY <1>3 DEF Alarm, Writes
  <1>4. ASSUME NEW t \in Tickets, RowUntouched(m, t) PROVE Quiet /\ Grows
    BY <1>4 DEF RowUntouched
  <1>5. ASSUME NEW t \in Tickets,
               MarkClosed(m, t) \/ MarkPartialClose(m, t) \/ CloseUnconfirmed(m, t) \/ AlertClosed(m, t)
        PROVE  Writes /\ Grows
    <2>1. Writes
      BY <1>5 DEF Writes
    <2>2. UNCHANGED <<halt, lost>>
      BY <1>5 DEF MarkClosed, MarkPartialClose, CloseUnconfirmed, AlertClosed
    <2> QED BY <2>1, <2>2
  <1> QED BY <1>1, <1>2, <1>3, <1>4, <1>5 DEF Monitor

\* So is a step of the cycle.
LEMMA CycleData == Cycle => (Quiet \/ Writes) /\ Grows
  <1> SUFFICES ASSUME Cycle PROVE (Quiet \/ Writes) /\ Grows
    OBVIOUS
  <1> USE DEF Grows, Quiet
  <1>1. CASE PreflightClear \/ PreflightWaits \/ WatchlistDone \/ RunHalted
    BY <1>1 DEF PreflightClear, PreflightWaits, WatchlistDone, RunHalted
  <1>2. ASSUME NEW t \in Tickets, RunPair(t) \/ RunBlocked(t) PROVE Quiet /\ Grows
    BY <1>2 DEF RunPair, RunBlocked
  <1>3. CASE NoOrder \/ NothingToObserve
    BY <1>3 DEF NoOrder, NothingToObserve
  <1>4. CASE ObservationFails
    BY <1>4 DEF ObservationFails, Halt
  <1>5. CASE Submit \/ Send \/ RecordOutcome \/ ObserveFill \/ AlertOpened
    <2>1. UNCHANGED <<halt, lost>>
      BY <1>5 DEF Submit, Send, RecordOutcome, ObserveFill, AlertOpened
    <2> QED BY <1>5, <2>1 DEF Writes
  <1> QED BY <1>1, <1>2, <1>3, <1>4, <1>5 DEF Cycle

\* Every step is quiet or one of the writes, and halts and lost fills stay.
LEMMA StepData == [Next]_vars => (Quiet \/ Writes) /\ Grows
  <1> SUFFICES ASSUME [Next]_vars PROVE (Quiet \/ Writes) /\ Grows
    OBVIOUS
  <1>1. CASE StartSupervisor
    BY <1>1 DEF StartSupervisor, Quiet, Grows
  <1>2. CASE Cycle
    BY <1>2, CycleData
  <1>3. ASSUME NEW m \in Monitors, StartTool(m) \/ Crash(m) PROVE Quiet /\ Grows
    BY <1>3 DEF StartTool, Crash, Quiet, Grows
  <1>4. ASSUME NEW m \in Monitors, Monitor(m) PROVE (Quiet \/ Writes) /\ Grows
    BY <1>4, MonitorData
  <1>5. ASSUME NEW t \in Tickets, PreviewSubmit(t) \/ PreviewSend(t) \/ BrokerCloses(t)
        PROVE  Writes /\ Grows
    BY <1>5 DEF PreviewSubmit, PreviewSend, BrokerCloses, Writes, Grows
  <1>6. CASE UNCHANGED vars
    BY <1>6 DEF vars, Quiet, Grows
  <1> QED BY <1>1, <1>2, <1>3, <1>4, <1>5, <1>6 DEF Next

-----------------------------------------------------------------------------
(***************************************************************************)
(* Types, in the parts that steps change together                          *)
(***************************************************************************)
TypeBroker ==
    /\ volume \in [Tickets -> Amounts] /\ filled \in SUBSET Tickets
    /\ intent \in [Tickets -> IntentStates] /\ late \in SUBSET Tickets

TypeLedger ==
    /\ row \in [Tickets -> {"NONE", "OPEN", "CLOSED"}]
    /\ rowVolume \in [Tickets -> Amounts] /\ remaining \in [Tickets -> Amounts]
    /\ recon \in [Tickets -> {"NONE", "PARTIAL", "UNCONFIRMED", "CONFIRMED"}]

TypeNotices == claims \in SUBSET (Kinds \X Tickets) /\ alerts \in [Kinds \X Tickets -> Nat]

TypeProcess ==
    /\ pc \in [Monitors -> Steps] /\ cur \in [Monitors -> Tickets \cup {NoTicket}]
    /\ view \in [Monitors -> [Tickets -> Amounts]]
    /\ deals \in [Monitors -> [Tickets -> Amounts]]
    /\ todo \in [Monitors -> SUBSET Tickets]

TypeRest == halt \in BOOLEAN /\ lost \in SUBSET Tickets /\ starts \in Nat

\* The type invariant in the parts that the steps below keep one by one.
LEMMA TypeParts == TypeOK <=> TypeBroker /\ TypeLedger /\ TypeNotices /\ TypeProcess /\ TypeRest
  BY DEF TypeOK, TypeBroker, TypeLedger, TypeNotices, TypeProcess, TypeRest

\* The supervisor is one of the monitors, and its ticket in hand is a ticket.
LEMMA InHandIsTicket ==
    ASSUME CycleInv
    PROVE  Supervisor \in Monitors /\ (InHand \/ At("ALARM") => Ticket \in Tickets)
  BY DEF Monitors, CycleInv, HandInv

\* A claim keeps the types of the notification columns.
LEMMA ClaimType ==
    ASSUME TypeNotices, NEW kind \in Kinds, NEW t \in Tickets, Claim(kind, t)
    PROVE  TypeNotices'
  <1>1. <<kind, t>> \in Kinds \X Tickets
    OBVIOUS
  <1> DEFINE N == Kinds \X Tickets
             n == <<kind, t>>
  <1>2. claims \in SUBSET N /\ alerts \in [N -> Nat] /\ n \in N
    BY <1>1 DEF TypeNotices
  <1>3. \/ UNCHANGED <<claims, alerts>>
        \/ claims' = claims \cup {n} /\ alerts' = alerts
        \/ claims' = claims \cup {n} /\ alerts' = [alerts EXCEPT ![n] = alerts[n] + 1]
    BY DEF Claim
  <1>4. claims' \in SUBSET N /\ alerts' \in [N -> Nat]
    <2> HIDE DEF N, n
    <2> QED BY <1>2, <1>3
  <1> QED BY <1>4 DEF TypeNotices

\* Every step keeps the types of the data.
LEMMA DataType ==
    ASSUME TypeOK, CycleInv, [Next]_vars
    PROVE  TypeBroker' /\ TypeLedger' /\ TypeNotices'
  <1>0. TypeBroker /\ TypeLedger /\ TypeNotices /\ TypeProcess
    BY TypeParts
  <1>s. Supervisor \in Monitors /\ (InHand \/ At("ALARM") => Ticket \in Tickets)
    BY InHandIsTicket
  <1> USE ProcessAssumption
  <1>1. CASE Quiet
    BY <1>0, <1>1 DEF Quiet, TypeBroker, TypeLedger, TypeNotices
  <1>2. ASSUME NEW m \in Monitors, NEW t \in Tickets, MarkClosed(m, t)
        PROVE  TypeBroker' /\ TypeLedger' /\ TypeNotices'
    <2>1. UNCHANGED <<broker, intent, late, notices>>
      BY <1>2 DEF MarkClosed
    <2>2. TypeLedger'
      BY <1>0, <1>2 DEF MarkClosed, TypeLedger, Amounts
    <2> QED BY <1>0, <2>1, <2>2 DEF TypeBroker, TypeNotices
  <1>3. ASSUME NEW m \in Monitors, NEW t \in Tickets, MarkPartialClose(m, t)
        PROVE  TypeBroker' /\ TypeLedger' /\ TypeNotices'
    <2>1. UNCHANGED <<broker, intent, late, notices>>
      BY <1>3 DEF MarkPartialClose
    <2>2. view[m][t] \in Amounts
      BY <1>0 DEF TypeProcess
    <2>3. TypeLedger'
      BY <1>0, <1>3, <2>2 DEF MarkPartialClose, SetRemaining, TypeLedger
    <2> QED BY <1>0, <2>1, <2>3 DEF TypeBroker, TypeNotices
  <1>4. ASSUME NEW m \in Monitors, NEW t \in Tickets, CloseUnconfirmed(m, t)
        PROVE  TypeBroker' /\ TypeLedger' /\ TypeNotices'
    <2>1. UNCHANGED <<broker, intent, late, notices>>
      BY <1>4 DEF CloseUnconfirmed
    <2>2. TypeLedger'
      BY <1>0, <1>4 DEF CloseUnconfirmed, MarkUnconfirmed, TypeLedger
    <2> QED BY <1>0, <2>1, <2>2 DEF TypeBroker, TypeNotices
  <1>5. ASSUME NEW kind \in Kinds, NEW t \in Tickets, Claim(kind, t) \/ UNCHANGED notices,
               UNCHANGED <<broker, intent, late, ledger>>
        PROVE  TypeBroker' /\ TypeLedger' /\ TypeNotices'
    <2>1. TypeNotices'
      BY <1>0, <1>5, ClaimType DEF TypeNotices
    <2> QED BY <1>0, <1>5, <2>1 DEF TypeBroker, TypeLedger
  <1>6. ASSUME NEW m \in Monitors, NEW t \in Tickets, AlertClosed(m, t)
        PROVE  TypeBroker' /\ TypeLedger' /\ TypeNotices'
    BY <1>5, <1>6 DEF AlertClosed, Kinds
  <1>7. ASSUME NEW m \in Monitors, Alarm(m)
        PROVE  TypeBroker' /\ TypeLedger' /\ TypeNotices'
    <2>1. CASE UNCHANGED notices
      BY <1>0, <1>7, <2>1 DEF Alarm, TypeBroker, TypeLedger, TypeNotices
    <2>2. CASE m = Supervisor /\ Claim("UNCONFIRMED", Ticket)
      BY <1>s, <1>5, <1>7, <2>2 DEF Alarm, Kinds, At
    <2> QED BY <1>7, <2>1, <2>2 DEF Alarm, Ticket
  <1>8. CASE AlertOpened
    BY <1>s, <1>5, <1>8 DEF AlertOpened, Kinds, InHand, At
  <1>9. CASE Submit
    <2>1. Ticket \in Tickets
      BY <1>s, <1>9 DEF Submit, InHand, At
    <2>2. TypeBroker'
      BY <1>0, <1>9, <2>1 DEF Submit, ClaimIntent, TypeBroker, IntentStates
    <2> QED BY <1>0, <1>9, <2>2 DEF Submit, TypeLedger, TypeNotices
  <1>10. CASE Send
    <2>1. Ticket \in Tickets
      BY <1>s, <1>10 DEF Send, InHand, At
    <2>2. TypeBroker'
      BY <1>0, <1>10, <2>1 DEF Send, Fill, TypeBroker, Amounts
    <2> QED BY <1>0, <1>10, <2>2 DEF Send, TypeLedger, TypeNotices
  <1>11. CASE RecordOutcome
    <2>1. Ticket \in Tickets
      BY <1>s, <1>11 DEF RecordOutcome, InHand, At
    <2>2. PICK outcome \in Outcomes(Ticket) : intent' = [intent EXCEPT ![Ticket] = outcome]
      BY <1>11 DEF RecordOutcome
    <2>3. UNCHANGED <<broker, ledger, notices, late>>
      BY <1>11 DEF RecordOutcome
    <2> QED BY <1>0, <2>1, <2>2, <2>3
            DEF Outcomes, IntentStates, TypeBroker, TypeLedger, TypeNotices
  <1>12. CASE ObserveFill
    <2>1. Ticket \in Tickets
      BY <1>s, <1>12 DEF ObserveFill, InHand, At
    <2>2. TypeLedger'
      BY <1>0, <1>12, <2>1 DEF ObserveFill, RecordFill, TypeLedger, TypeBroker
    <2> QED BY <1>0, <1>12, <2>2 DEF ObserveFill, TypeBroker, TypeNotices
  <1>13. ASSUME NEW t \in Tickets, PreviewSubmit(t) \/ PreviewSend(t) \/ BrokerCloses(t)
         PROVE  TypeBroker' /\ TypeLedger' /\ TypeNotices'
    <2>1. UNCHANGED <<ledger, notices>>
      BY <1>13 DEF PreviewSubmit, PreviewSend, BrokerCloses
    <2>2. CASE PreviewSubmit(t)
      BY <1>0, <2>1, <2>2
      DEF PreviewSubmit, ClaimIntent, TypeBroker, TypeLedger, TypeNotices, IntentStates
    <2>3. CASE PreviewSend(t)
      <3>1. volume' \in [Tickets -> Amounts] /\ filled' \in SUBSET Tickets
        BY <1>0, <2>3 DEF PreviewSend, Fill, TypeBroker, Amounts
      <3>2. intent' \in [Tickets -> IntentStates] /\ late' = late
        BY <1>0, <2>3 DEF PreviewSend, TypeBroker, IntentStates
      <3> QED BY <1>0, <2>1, <3>1, <3>2 DEF TypeBroker, TypeLedger, TypeNotices
    <2>4. CASE BrokerCloses(t)
      BY <1>0, <2>1, <2>4 DEF BrokerCloses, TypeBroker, TypeLedger, TypeNotices
    <2> QED BY <1>13, <2>2, <2>3, <2>4
  <1> QED BY <1>1, <1>2, <1>3, <1>4, <1>6, <1>7, <1>8, <1>9, <1>10, <1>11, <1>12, <1>13,
             StepData DEF Writes

\* Ending a process clears its local variables.
LEMMA StopType ==
    ASSUME TypeProcess, NEW m \in Monitors, Stop(m)
    PROVE  TypeProcess'
  <1>1. Flat \in [Tickets -> Amounts]
    BY ProcessAssumption DEF Flat, Amounts
  <1> QED BY <1>1 DEF Stop, Goto, TypeProcess

\* Every step keeps the types of the processes.
LEMMA ProcessType ==
    ASSUME TypeOK, CycleInv, [Next]_vars
    PROVE  TypeProcess'
  <1>0. TypeBroker /\ TypeProcess
    BY TypeParts
  <1>s. Supervisor \in Monitors
    BY DEF Monitors
  <1>1. ASSUME NEW m \in Monitors, NEW step \in Steps, Goto(m, step), UNCHANGED <<cur, view, deals, todo>>
        PROVE  TypeProcess'
    BY <1>0, <1>1 DEF Goto, TypeProcess
  <1>2. ASSUME NEW m \in Monitors, NEW step \in Steps, Goto(m, step),
               cur' = [cur EXCEPT ![m] = NoTicket], UNCHANGED <<view, deals, todo>>
        PROVE  TypeProcess'
    BY <1>0, <1>2 DEF Goto, TypeProcess
  <1>3. ASSUME NEW m \in Monitors, NEW t \in Tickets, Done(m, t), UNCHANGED <<pc, cur, view, deals>>
        PROVE  TypeProcess'
    <2>1. todo' \in [Monitors -> SUBSET Tickets]
      BY <1>0, <1>3 DEF Done, TypeProcess
    <2> QED BY <1>0, <1>3, <2>1 DEF TypeProcess
  <1>4. CASE StartSupervisor
    BY <1>s, <1>1, <1>4 DEF StartSupervisor
  <1>5. ASSUME NEW m \in Monitors, StartTool(m) \/ Crash(m)
        PROVE  TypeProcess'
    BY <1>0, <1>1, <1>5, StopType DEF StartTool, Crash
  <1>6. ASSUME NEW m \in Monitors, Monitor(m)
        PROVE  TypeProcess'
    <2>1. CASE Snapshot(m)
      <3>1. view' \in [Monitors -> [Tickets -> Amounts]]
        BY <1>0, <2>1 DEF Snapshot, TypeProcess, TypeBroker
      <3>2. pc' \in [Monitors -> Steps] /\ UNCHANGED <<cur, deals, todo>>
        BY <1>0, <2>1 DEF Snapshot, Goto, TypeProcess
      <3> QED BY <1>0, <3>1, <3>2 DEF TypeProcess
    <2>2. CASE ReadClock(m)
      <3> DEFINE closed == [t \in Tickets |-> IF t \in filled THEN Volume - volume[t] ELSE 0]
                 open == {t \in Tickets : row[t] = "OPEN"}
      <3>1. closed \in [Tickets -> Amounts]
        BY <1>0, ProcessAssumption DEF TypeBroker, Amounts
      <3>2. deals' = [deals EXCEPT ![m] = closed] /\ todo' = [todo EXCEPT ![m] = open]
            /\ Goto(m, "ROWS") /\ UNCHANGED <<cur, view>>
        BY <2>2 DEF ReadClock
      <3> HIDE DEF closed
      <3> QED BY <1>0, <3>1, <3>2 DEF Goto, TypeProcess
    <2>3. CASE Alarm(m)
      BY <1>2, <2>3 DEF Alarm
    <2>4. CASE RecordHalt(m) \/ MonitorEnds(m)
      BY <1>0, <2>4, StopType DEF RecordHalt, MonitorEnds
    <2>5. CASE ListClosed(m)
      <3>1. todo' \in [Monitors -> SUBSET Tickets]
        BY <1>0, <2>5 DEF ListClosed, TypeProcess
      <3>2. pc' \in [Monitors -> Steps] /\ UNCHANGED <<cur, view, deals>>
        BY <1>0, <2>5 DEF ListClosed, Goto, TypeProcess
      <3> QED BY <1>0, <3>1, <3>2 DEF TypeProcess
    <2>6. CASE AlertsFail(m) \/ AlertsSent(m)
      BY <1>1, <2>6 DEF AlertsFail, AlertsSent
    <2>7. ASSUME NEW t \in Tickets, RowUntouched(m, t) \/ AlertClosed(m, t)
          PROVE  TypeProcess'
      BY <1>3, <2>7 DEF RowUntouched, AlertClosed
    <2>8. ASSUME NEW t \in Tickets, MarkClosed(m, t) \/ MarkPartialClose(m, t)
          PROVE  TypeProcess'
      BY <1>1, <1>3, <2>8 DEF MarkClosed, MarkPartialClose
    <2>9. ASSUME NEW t \in Tickets, CloseUnconfirmed(m, t)
          PROVE  TypeProcess'
      <3>1. cur' \in [Monitors -> Tickets \cup {NoTicket}]
        BY <1>0, <2>9 DEF CloseUnconfirmed, TypeProcess
      <3>2. pc' \in [Monitors -> Steps]
        BY <1>0, <2>9 DEF CloseUnconfirmed, Goto, TypeProcess
      <3>3. UNCHANGED <<view, deals, todo>>
        BY <2>9 DEF CloseUnconfirmed
      <3> QED BY <1>0, <3>1, <3>2, <3>3 DEF TypeProcess
    <2> QED BY <1>6, <2>1, <2>2, <2>3, <2>4, <2>5, <2>6, <2>7, <2>8, <2>9 DEF Monitor
  <1>7. CASE Cycle
    <2>1. CASE PreflightClear
      <3>1. todo' \in [Monitors -> SUBSET Tickets]
        BY <1>0, <2>1 DEF PreflightClear, TypeProcess
      <3>2. pc' \in [Monitors -> Steps] /\ UNCHANGED <<cur, view, deals>>
        BY <1>0, <2>1 DEF PreflightClear, Goto, TypeProcess
      <3> QED BY <1>0, <3>1, <3>2 DEF TypeProcess
    <2>2. CASE PreflightWaits
      BY <1>0, <1>s, <1>1, <2>2, StopType DEF PreflightWaits
    <2>3. CASE WatchlistDone \/ Submit \/ Send \/ ObserveFill
      BY <1>s, <1>1, <2>3 DEF WatchlistDone, Submit, Send, ObserveFill
    <2>4. CASE RunHalted \/ ObservationFails
      BY <1>0, <1>s, <2>4, StopType DEF RunHalted, ObservationFails
    <2>5. ASSUME NEW t \in Tickets, RunPair(t)
          PROVE  TypeProcess'
      <3>1. cur' \in [Monitors -> Tickets \cup {NoTicket}]
        BY <1>0, <2>5 DEF RunPair, TypeProcess
      <3>2. todo' \in [Monitors -> SUBSET Tickets]
        BY <1>0, <2>5 DEF RunPair, Done, TypeProcess
      <3>3. pc' \in [Monitors -> Steps] /\ UNCHANGED <<view, deals>>
        BY <1>0, <2>5 DEF RunPair, Goto, TypeProcess
      <3> QED BY <1>0, <3>1, <3>2, <3>3 DEF TypeProcess
    <2>6. ASSUME NEW t \in Tickets, RunBlocked(t)
          PROVE  TypeProcess'
      BY <1>s, <1>3, <2>6 DEF RunBlocked
    <2>7. CASE NoOrder \/ NothingToObserve \/ AlertOpened
      BY <1>s, <1>2, <2>7 DEF NoOrder, NothingToObserve, AlertOpened
    <2>8. CASE RecordOutcome
      BY <1>s, <1>1, <1>2, <2>8 DEF RecordOutcome
    <2> QED BY <1>7, <2>1, <2>2, <2>3, <2>4, <2>5, <2>6, <2>7, <2>8 DEF Cycle
  <1>8. ASSUME NEW t \in Tickets, PreviewSubmit(t) \/ PreviewSend(t) \/ BrokerCloses(t)
        PROVE  TypeProcess'
    BY <1>0, <1>8 DEF PreviewSubmit, PreviewSend, BrokerCloses, TypeProcess
  <1>9. CASE UNCHANGED vars
    BY <1>0, <1>9 DEF vars, TypeProcess
  <1> QED BY <1>4, <1>5, <1>6, <1>7, <1>8, <1>9 DEF Next

\* Every step keeps the types of the halt and of the history variables.
LEMMA RestType ==
    ASSUME TypeOK, CycleInv, [Next]_vars
    PROVE  TypeRest'
  <1>0. TypeProcess /\ TypeRest
    BY TypeParts
  <1>s. Supervisor \in Monitors /\ (InHand \/ At("ALARM") => Ticket \in Tickets)
    BY InHandIsTicket
  <1>1. CASE StartSupervisor
    BY <1>0, <1>1 DEF StartSupervisor, TypeRest
  <1>2. ASSUME NEW m \in Monitors, Crash(m) PROVE TypeRest'
    <2>1. lost' \in SUBSET Tickets
      BY <1>0, <1>2, <1>s DEF Crash, TypeRest, CycleInv, InHand, Ticket, Monitors
    <2> QED BY <1>0, <1>2, <2>1 DEF Crash, TypeRest
  <1>3. CASE ObservationFails
    BY <1>0, <1>3, <1>s DEF ObservationFails, Halt, TypeRest, InHand, At
  <1>4. ASSUME NEW m \in Monitors, StartTool(m) \/ Monitor(m) PROVE TypeRest'
    <2>1. CASE RecordHalt(m)
      BY <1>0, <2>1 DEF RecordHalt, Halt, TypeRest
    <2>2. CASE ~ RecordHalt(m)
      <3>1. UNCHANGED <<halt, lost, starts>>
        BY <1>4, <2>2 DEF StartTool, Monitor, Snapshot, ReadClock, Alarm, ListClosed, AlertsFail,
           AlertsSent, MonitorEnds, RowUntouched, MarkClosed, MarkPartialClose, CloseUnconfirmed,
           AlertClosed
      <3> QED BY <1>0, <3>1 DEF TypeRest
    <2> QED BY <2>1, <2>2
  <1>5. CASE Cycle /\ ~ ObservationFails
    <2>1. UNCHANGED <<halt, lost, starts>>
      BY <1>5 DEF Cycle, PreflightClear, PreflightWaits, WatchlistDone, RunHalted, RunPair,
         RunBlocked, Submit, NoOrder, Send, RecordOutcome, ObserveFill, NothingToObserve, AlertOpened
    <2> QED BY <1>0, <2>1 DEF TypeRest
  <1>6. ASSUME NEW t \in Tickets, PreviewSubmit(t) \/ PreviewSend(t) \/ BrokerCloses(t)
        PROVE  TypeRest'
    BY <1>0, <1>6 DEF PreviewSubmit, PreviewSend, BrokerCloses, TypeRest
  <1>7. CASE UNCHANGED vars
    BY <1>0, <1>7 DEF vars, TypeRest
  <1> QED BY <1>1, <1>2, <1>3, <1>4, <1>5, <1>6, <1>7 DEF Next

\* The types are kept.
LEMMA TypeStep ==
    ASSUME TypeOK, CycleInv, [Next]_vars
    PROVE  TypeOK'
  <1>1. TypeBroker' /\ TypeLedger' /\ TypeNotices' /\ TypeProcess' /\ TypeRest'
    BY DataType, ProcessType, RestType
  <1> QED BY <1>1 DEF TypeOK, TypeBroker, TypeLedger, TypeNotices, TypeProcess, TypeRest

-----------------------------------------------------------------------------
(***************************************************************************)
(* Fills, closes and rows only move forward                                *)
(***************************************************************************)
Forward ==
    /\ filled \subseteq filled'
    /\ \A t \in filled : volume'[t] <= volume[t]
    /\ \A t \in Tickets : row[t] # "NONE" => row'[t] # "NONE"
    /\ \A t \in Tickets : row[t] = "CLOSED" =>
          row'[t] = "CLOSED" /\ remaining'[t] = remaining[t] /\ recon'[t] = recon[t]

\* An order that is sent was not filled before; every other step closes volume
\* or leaves it, and the guards of the ledger keep closed rows.
LEMMA StepForward ==
    ASSUME TypeOK, CycleInv, FillInv, [Next]_vars
    PROVE  Forward
  <1>0. TypeBroker /\ TypeLedger /\ TypeProcess
    BY TypeParts
  <1>s. Supervisor \in Monitors /\ (InHand \/ At("ALARM") => Ticket \in Tickets)
    BY InHandIsTicket
  <1>n. \A t \in Tickets : volume[t] \in Nat
    BY <1>0, ProcessAssumption DEF TypeBroker, Amounts
  <1>1. CASE UNCHANGED <<broker, ledger>>
    BY <1>0, <1>1, <1>n DEF Forward, TypeBroker
  <1>2. ASSUME NEW m \in Monitors, NEW t \in Tickets, MarkClosed(m, t) PROVE Forward
    BY <1>0, <1>2, <1>n DEF MarkClosed, Forward, TypeBroker, TypeLedger
  <1>3. ASSUME NEW m \in Monitors, NEW t \in Tickets, MarkPartialClose(m, t) PROVE Forward
    BY <1>0, <1>3, <1>n DEF MarkPartialClose, SetRemaining, Forward, TypeBroker, TypeLedger
  <1>4. ASSUME NEW m \in Monitors, NEW t \in Tickets, CloseUnconfirmed(m, t) PROVE Forward
    BY <1>0, <1>4, <1>n DEF CloseUnconfirmed, MarkUnconfirmed, Forward, TypeBroker, TypeLedger
  <1>5. CASE ObserveFill
    <2>1. Ticket \in Tickets
      BY <1>s, <1>5 DEF ObserveFill, InHand, At
    <2> QED BY <1>0, <1>5, <1>n, <2>1 DEF ObserveFill, RecordFill, Forward, TypeBroker, TypeLedger
  <1>6. CASE Send
    <2>1. Ticket \in Tickets /\ Ticket \notin filled
      BY <1>s, <1>6 DEF Send, InHand, At, CycleInv
    <2> QED BY <1>0, <1>6, <1>n, <2>1 DEF Send, Fill, Forward, TypeBroker
  <1>7. ASSUME NEW t \in Tickets, PreviewSend(t) PROVE Forward
    <2>1. t \notin filled
      BY <1>7 DEF PreviewSend, FillInv
    <2> QED BY <1>0, <1>7, <1>n, <2>1 DEF PreviewSend, Fill, Forward, TypeBroker
  <1>8. ASSUME NEW t \in Tickets, BrokerCloses(t) PROVE Forward
    BY <1>0, <1>8, <1>n, ProcessAssumption DEF BrokerCloses, Forward, TypeBroker, Amounts
  <1>9. ASSUME NEW m \in Monitors, NEW t \in Tickets, AlertClosed(m, t) PROVE UNCHANGED <<broker, ledger>>
    BY <1>9 DEF AlertClosed
  <1>10. ASSUME NEW m \in Monitors, Alarm(m) PROVE UNCHANGED <<broker, ledger>>
    BY <1>10 DEF Alarm
  <1>11. CASE Submit \/ RecordOutcome \/ AlertOpened
    BY <1>1, <1>11 DEF Submit, RecordOutcome, AlertOpened
  <1>12. ASSUME NEW t \in Tickets, PreviewSubmit(t) PROVE UNCHANGED <<broker, ledger>>
    BY <1>12 DEF PreviewSubmit
  <1>13. CASE Quiet
    BY <1>1, <1>13 DEF Quiet
  <1> QED BY <1>1, <1>2, <1>3, <1>4, <1>5, <1>6, <1>7, <1>8, <1>9, <1>10, <1>11, <1>12, <1>13,
             StepData DEF Writes

\* Nothing is filled before it is claimed, and nothing claimed is claimed again.
LEMMA FillStep ==
    ASSUME TypeOK, CycleInv, FillInv, [Next]_vars
    PROVE  FillInv'
  <1>0. TypeBroker
    BY TypeParts
  <1>s. Supervisor \in Monitors /\ (InHand => Ticket \in Tickets \ Previews)
    BY DEF Monitors, CycleInv, HandInv
  <1> USE DEF FillInv
  <1>p. Previews \subseteq Tickets
    BY ProcessAssumption
  <1>1. CASE UNCHANGED <<broker, intent>>
    BY <1>1
  <1>2. CASE Submit
    <2>1. Ticket \in Tickets \ Previews
      BY <1>s, <1>2 DEF Submit, InHand, At
    <2> QED BY <1>0, <1>2, <1>p, <2>1 DEF Submit, ClaimIntent, TypeBroker
  <1>3. CASE Send
    <2>1. Ticket \in Tickets \ Previews /\ intent[Ticket] = "PENDING"
      BY <1>s, <1>3 DEF Send, InHand, At, CycleInv
    <2> QED BY <1>0, <1>3, <1>p, <2>1 DEF Send, Fill, TypeBroker
  <1>4. CASE RecordOutcome
    <2>1. Ticket \in Tickets \ Previews
      BY <1>s, <1>4 DEF RecordOutcome, InHand, At
    <2>2. PICK outcome \in Outcomes(Ticket) : intent' = [intent EXCEPT ![Ticket] = outcome]
      BY <1>4 DEF RecordOutcome
    <2>3. UNCHANGED broker
      BY <1>4 DEF RecordOutcome
    <2> QED BY <1>0, <1>p, <2>1, <2>2, <2>3 DEF Outcomes, TypeBroker
  <1>5. ASSUME NEW t \in Tickets, PreviewSubmit(t) PROVE FillInv'
    BY <1>0, <1>5, <1>p DEF PreviewSubmit, ClaimIntent, TypeBroker
  <1>6. ASSUME NEW t \in Tickets, PreviewSend(t) PROVE FillInv'
    <2>1. PICK outcome \in {"UNKNOWN", "ACCEPTED", "REJECTED"} : intent' = [intent EXCEPT ![t] = outcome]
      BY <1>6 DEF PreviewSend
    <2> QED BY <1>0, <1>6, <1>p, <2>1 DEF PreviewSend, Fill, TypeBroker
  <1>7. ASSUME NEW t \in Tickets, BrokerCloses(t) PROVE FillInv'
    BY <1>0, <1>7, <1>p, ProcessAssumption DEF BrokerCloses, TypeBroker, Amounts
  <1>8. ASSUME NEW m \in Monitors, NEW t \in Tickets,
               MarkClosed(m, t) \/ MarkPartialClose(m, t) \/ CloseUnconfirmed(m, t) \/ AlertClosed(m, t)
        PROVE  UNCHANGED <<broker, intent>>
    BY <1>8 DEF MarkClosed, MarkPartialClose, CloseUnconfirmed, AlertClosed
  <1>9. ASSUME NEW m \in Monitors, Alarm(m) PROVE UNCHANGED <<broker, intent>>
    BY <1>9 DEF Alarm
  <1>10. CASE ObserveFill \/ AlertOpened \/ Quiet
    BY <1>1, <1>10 DEF ObserveFill, AlertOpened, Quiet
  <1> QED BY <1>1, <1>2, <1>3, <1>4, <1>5, <1>6, <1>7, <1>8, <1>9, <1>10, StepData DEF Writes

-----------------------------------------------------------------------------
(***************************************************************************)
(* The monitors                                                            *)
(***************************************************************************)
\* A process is not in the two loops, or it stays where it is with the deals
\* it read and no new work.
Keeps(n) ==
    \/ pc'[n] \notin {"ROWS", "ALERTS"}
    \/ pc'[n] = pc[n] /\ deals'[n] = deals[n] /\ todo'[n] \subseteq todo[n]

\* What a monitor relies on survives every step that moves forward.
LEMMA KeepsMonitor ==
    ASSUME TypeOK, TypeOK', MonitorInv, Forward, NEW n \in Monitors, NEW t \in Tickets, Keeps(n)
    PROVE  /\ pc'[n] = "ROWS" /\ deals'[n][t] > 0 => t \in filled' /\ volume'[t] + deals'[n][t] <= Volume
           /\ pc'[n] = "ROWS" /\ t \in todo'[n] => row'[t] # "NONE"
           /\ pc'[n] = "ALERTS" /\ t \in todo'[n] => row'[t] = "CLOSED" /\ recon'[t] = "CONFIRMED"
  <1>1. CASE pc'[n] \notin {"ROWS", "ALERTS"}
    BY <1>1
  <1>2. CASE pc'[n] = pc[n] /\ deals'[n] = deals[n] /\ todo'[n] \subseteq todo[n]
    <2>1. volume[t] \in Nat /\ volume'[t] \in Nat /\ deals[n][t] \in Nat /\ Volume \in Nat
      BY ProcessAssumption DEF TypeOK, Amounts
    <2>2. pc[n] = "ROWS" /\ deals[n][t] > 0 => t \in filled' /\ volume'[t] + deals[n][t] <= Volume
      BY <2>1 DEF MonitorInv, Forward
    <2> QED BY <1>2, <2>2 DEF MonitorInv, Forward
  <1> QED BY <1>1, <1>2 DEF Keeps

\* Only ReadClock and ListClosed give a monitor new work.
LEMMA StepKeeps ==
    ASSUME TypeOK, [Next]_vars, NEW n \in Monitors
    PROVE  Keeps(n) \/ ReadClock(n) \/ ListClosed(n)
  <1>0. TypeProcess
    BY TypeParts
  <1>s. Supervisor \in Monitors
    BY DEF Monitors
  <1> USE DEF Keeps
  <1>1. ASSUME NEW m \in Monitors, NEW step \in Steps \ {"ROWS", "ALERTS"}, Goto(m, step), UNCHANGED deals,
               \A k \in Monitors : k # m => todo'[k] = todo[k]
        PROVE  Keeps(n)
    BY <1>0, <1>1 DEF Goto, TypeProcess
  <1>2. ASSUME NEW m \in Monitors, Stop(m)
        PROVE  Keeps(n)
    BY <1>0, <1>2 DEF Stop, Goto, TypeProcess
  <1>3. ASSUME NEW m \in Monitors, NEW t \in Tickets, Done(m, t), UNCHANGED <<pc, deals>>
        PROVE  Keeps(n)
    BY <1>0, <1>3 DEF Done, TypeProcess
  <1>4. CASE StartSupervisor
    BY <1>s, <1>1, <1>4 DEF StartSupervisor
  <1>5. ASSUME NEW m \in Monitors, StartTool(m) \/ Crash(m)
        PROVE  Keeps(n)
    BY <1>1, <1>2, <1>5 DEF StartTool, Crash
  <1>6. ASSUME NEW m \in Monitors, Monitor(m)
        PROVE  Keeps(n) \/ ReadClock(n) \/ ListClosed(n)
    <2>1. CASE Snapshot(m) \/ Alarm(m) \/ AlertsFail(m) \/ AlertsSent(m)
      BY <1>1, <2>1 DEF Snapshot, Alarm, AlertsFail, AlertsSent
    <2>2. CASE RecordHalt(m) \/ MonitorEnds(m)
      BY <1>2, <2>2 DEF RecordHalt, MonitorEnds
    <2>3. CASE (ReadClock(m) \/ ListClosed(m)) /\ m # n
      BY <1>0, <2>3 DEF ReadClock, ListClosed, Goto, TypeProcess
    <2>4. ASSUME NEW t \in Tickets, RowUntouched(m, t) \/ AlertClosed(m, t)
          PROVE  Keeps(n)
      BY <1>3, <2>4 DEF RowUntouched, AlertClosed
    <2>5. ASSUME NEW t \in Tickets, MarkClosed(m, t) \/ MarkPartialClose(m, t)
          PROVE  Keeps(n)
      BY <1>1, <1>3, <2>5 DEF MarkClosed, MarkPartialClose
    <2>6. ASSUME NEW t \in Tickets, CloseUnconfirmed(m, t)
          PROVE  Keeps(n)
      BY <1>1, <2>6 DEF CloseUnconfirmed
    <2> QED BY <1>6, <2>1, <2>2, <2>3, <2>4, <2>5, <2>6 DEF Monitor
  <1>7. CASE Cycle
    <2>1. CASE PreflightClear
      BY <1>0, <1>s, <2>1 DEF PreflightClear, Goto, TypeProcess
    <2>2. CASE PreflightWaits
      BY <1>s, <1>1, <1>2, <2>2 DEF PreflightWaits
    <2>3. CASE WatchlistDone \/ Submit \/ Send \/ ObserveFill \/ NoOrder \/ NothingToObserve \/ AlertOpened
      BY <1>s, <1>1, <2>3 DEF WatchlistDone, Submit, Send, ObserveFill, NoOrder, NothingToObserve, AlertOpened
    <2>4. CASE RunHalted \/ ObservationFails
      BY <1>s, <1>2, <2>4 DEF RunHalted, ObservationFails
    <2>5. ASSUME NEW t \in Tickets, RunPair(t)
          PROVE  Keeps(n)
      BY <1>0, <1>s, <2>5 DEF RunPair, Done, Goto, TypeProcess
    <2>6. ASSUME NEW t \in Tickets, RunBlocked(t)
          PROVE  Keeps(n)
      BY <1>s, <1>3, <2>6 DEF RunBlocked
    <2>7. CASE RecordOutcome
      BY <1>s, <1>1, <2>7 DEF RecordOutcome
    <2> QED BY <1>7, <2>1, <2>2, <2>3, <2>4, <2>5, <2>6, <2>7 DEF Cycle
  <1>8. ASSUME NEW t \in Tickets, PreviewSubmit(t) \/ PreviewSend(t) \/ BrokerCloses(t)
        PROVE  Keeps(n)
    BY <1>8 DEF PreviewSubmit, PreviewSend, BrokerCloses
  <1>9. CASE UNCHANGED vars
    BY <1>9 DEF vars
  <1> QED BY <1>4, <1>5, <1>6, <1>7, <1>8, <1>9 DEF Next

\* The reads of a monitor establish what it relies on.
LEMMA MonitorStep ==
    ASSUME TypeOK, TypeOK', MonitorInv, Forward, [Next]_vars
    PROVE  MonitorInv'
  <1> SUFFICES ASSUME NEW n \in Monitors, NEW t \in Tickets
               PROVE  /\ pc'[n] = "ROWS" /\ deals'[n][t] > 0 =>
                            t \in filled' /\ volume'[t] + deals'[n][t] <= Volume
                      /\ pc'[n] = "ROWS" /\ t \in todo'[n] => row'[t] # "NONE"
                      /\ pc'[n] = "ALERTS" /\ t \in todo'[n] => row'[t] = "CLOSED" /\ recon'[t] = "CONFIRMED"
    BY DEF MonitorInv
  <1>1. CASE Keeps(n)
    BY <1>1, KeepsMonitor
  <1>2. CASE ReadClock(n)
    <2>1. pc'[n] = "ROWS" /\ UNCHANGED <<broker, ledger>>
          /\ deals'[n][t] = (IF t \in filled THEN Volume - volume[t] ELSE 0)
          /\ todo'[n] = {u \in Tickets : row[u] = "OPEN"}
      BY <1>2 DEF ReadClock, Goto, TypeOK
    <2>2. volume[t] \in Nat /\ Volume \in Nat /\ volume[t] <= Volume
      BY ProcessAssumption DEF TypeOK, Amounts
    <2> QED BY <2>1, <2>2
  <1>3. CASE ListClosed(n)
    <2>1. pc'[n] = "ALERTS" /\ UNCHANGED <<broker, ledger>>
      BY <1>3 DEF ListClosed, Goto, TypeOK
    <2>2. t \in todo'[n] => row[t] = "CLOSED" /\ recon[t] = "CONFIRMED"
      BY <1>3 DEF ListClosed, TypeOK
    <2> QED BY <2>1, <2>2
  <1> QED BY <1>1, <1>2, <1>3, StepKeeps

-----------------------------------------------------------------------------
(***************************************************************************)
(* The ledger and the alerts                                               *)
(***************************************************************************)
\* A monitor writes what the history accounts for, and what that left open is
\* no less than what the broker has by now.
LEMMA LedgerStep ==
    ASSUME TypeOK, TypeOK', CycleInv, FillInv, LedgerInv, MonitorInv, Forward, [Next]_vars
    PROVE  LedgerInv'
  <1>0. TypeBroker /\ TypeLedger /\ TypeProcess
    BY TypeParts
  <1>s. Supervisor \in Monitors /\ (InHand \/ At("ALARM") => Ticket \in Tickets)
    BY InHandIsTicket
  <1>n. /\ Volume \in Nat
        /\ \A t \in Tickets : /\ volume[t] \in Nat /\ volume'[t] \in Nat
                              /\ remaining[t] \in Nat /\ rowVolume[t] \in Nat
        /\ \A m \in Monitors, t \in Tickets : deals[m][t] \in Nat /\ view[m][t] \in Nat
    BY ProcessAssumption DEF TypeOK, Amounts
  <1>1. CASE UNCHANGED <<row, rowVolume, remaining>>
    BY <1>1, <1>n DEF LedgerInv, Forward
  <1>2. ASSUME NEW m \in Monitors, NEW t \in Tickets, RowConfirmed(m, t)
        PROVE  t \in filled /\ volume[t] <= view[m][t] /\ view[m][t] <= Volume /\ rowVolume[t] = Volume
    BY <1>2, <1>n DEF RowConfirmed, Accounted, MonitorInv
  <1>3. ASSUME NEW m \in Monitors, NEW t \in Tickets, MarkClosed(m, t)
        PROVE  LedgerInv'
    <2>1. volume[t] = 0 /\ t \in filled /\ UNCHANGED broker
      BY <1>2, <1>3, <1>n DEF MarkClosed
    <2>2. CASE /\ row' = [row EXCEPT ![t] = "CLOSED"]
               /\ remaining' = [remaining EXCEPT ![t] = 0] /\ UNCHANGED rowVolume
      BY <1>0, <2>1, <2>2 DEF LedgerInv, TypeLedger
    <2> QED BY <1>1, <1>3, <2>2 DEF MarkClosed
  <1>4. ASSUME NEW m \in Monitors, NEW t \in Tickets, MarkPartialClose(m, t)
        PROVE  LedgerInv'
    <2>1. t \in filled /\ volume[t] <= view[m][t] /\ view[m][t] <= rowVolume[t]
      BY <1>2, <1>4 DEF MarkPartialClose
    <2>2. UNCHANGED <<broker, row, rowVolume>>
      BY <1>4 DEF MarkPartialClose
    <2>3. CASE row[t] = "OPEN" /\ remaining' = [remaining EXCEPT ![t] = view[m][t]]
      BY <1>0, <2>1, <2>2, <2>3 DEF LedgerInv, TypeLedger
    <2> QED BY <1>1, <1>4, <2>2, <2>3 DEF MarkPartialClose, SetRemaining
  <1>5. CASE ObserveFill
    <2>1. Ticket \in Tickets /\ UNCHANGED broker
      BY <1>s, <1>5 DEF ObserveFill, InHand, At
    <2>2. Ticket \in filled
      BY <1>5, <1>n, <2>1 DEF ObserveFill, FillInv
    <2>3. CASE /\ row' = [row EXCEPT ![Ticket] = "OPEN"]
               /\ rowVolume' = [rowVolume EXCEPT ![Ticket] = volume[Ticket]]
               /\ remaining' = [remaining EXCEPT ![Ticket] = volume[Ticket]]
      BY <1>0, <1>n, <2>1, <2>2, <2>3 DEF LedgerInv, TypeLedger
    <2> QED BY <1>1, <1>5, <2>3 DEF ObserveFill, RecordFill
  <1>6. ASSUME NEW m \in Monitors, NEW t \in Tickets, CloseUnconfirmed(m, t) \/ AlertClosed(m, t)
        PROVE  UNCHANGED <<row, rowVolume, remaining>>
    BY <1>6 DEF CloseUnconfirmed, AlertClosed
  <1>7. ASSUME NEW m \in Monitors, Alarm(m) PROVE UNCHANGED <<row, rowVolume, remaining>>
    BY <1>7 DEF Alarm
  <1>8. CASE Submit \/ Send \/ RecordOutcome \/ AlertOpened \/ Quiet
    BY <1>1, <1>8 DEF Submit, Send, RecordOutcome, AlertOpened, Quiet
  <1>9. ASSUME NEW t \in Tickets, PreviewSubmit(t) \/ PreviewSend(t) \/ BrokerCloses(t)
        PROVE  UNCHANGED <<row, rowVolume, remaining>>
    BY <1>9 DEF PreviewSubmit, PreviewSend, BrokerCloses
  <1> QED BY <1>1, <1>3, <1>4, <1>5, <1>6, <1>7, <1>8, <1>9, StepData DEF Writes

\* A claim raises one count, and only from a count that was never raised.
LEMMA ClaimOnce ==
    ASSUME TypeNotices, AlertInv, NEW kind \in Kinds, NEW t \in Tickets, Claim(kind, t),
           NEW k \in Kinds, NEW u \in Tickets
    PROVE  /\ alerts'[<<k, u>>] <= 1
           /\ alerts'[<<k, u>>] > 0 => <<k, u>> \in claims'
           /\ <<k, u>> # <<kind, t>> => alerts'[<<k, u>>] = alerts[<<k, u>>]
  <1> DEFINE N == Kinds \X Tickets
             n == <<kind, t>>
             i == <<k, u>>
  <1>1. n \in N /\ i \in N /\ claims \in SUBSET N /\ alerts \in [N -> Nat]
    BY DEF TypeNotices
  <1>2. /\ alerts[i] <= 1 /\ (alerts[i] > 0 => i \in claims)
        /\ alerts[n] <= 1 /\ (alerts[n] > 0 => n \in claims)
    BY DEF AlertInv
  <1>3. \/ UNCHANGED <<claims, alerts>>
        \/ n \notin claims /\ claims' = claims \cup {n} /\ alerts' = alerts
        \/ n \notin claims /\ claims' = claims \cup {n} /\ alerts' = [alerts EXCEPT ![n] = alerts[n] + 1]
    BY DEF Claim
  <1> HIDE DEF N, n, i
  <1>4. alerts'[i] <= 1 /\ (alerts'[i] > 0 => i \in claims') /\ (i # n => alerts'[i] = alerts[i])
    BY <1>1, <1>2, <1>3
  <1> QED BY <1>4 DEF n, i

\* Alerts go out for rows that stay as they were claimed.
LEMMA AlertStep ==
    ASSUME TypeOK, CycleInv, MonitorInv, AlertInv, Forward, [Next]_vars
    PROVE  AlertInv'
  <1>0. TypeNotices
    BY TypeParts
  <1>s. Supervisor \in Monitors /\ (InHand \/ At("ALARM") => Ticket \in Tickets)
    BY InHandIsTicket
  <1>1. CASE UNCHANGED notices
    BY <1>1 DEF AlertInv, Forward
  <1>2. ASSUME NEW kind \in Kinds, NEW t \in Tickets, Claim(kind, t),
               kind = "CLOSED" => row[t] = "CLOSED" /\ recon[t] = "CONFIRMED",
               kind = "OPENED" => row[t] # "NONE"
        PROVE  AlertInv'
    <2> SUFFICES ASSUME NEW u \in Tickets
                 PROVE  /\ \A k \in Kinds : /\ alerts'[<<k, u>>] <= 1
                                            /\ alerts'[<<k, u>>] > 0 => <<k, u>> \in claims'
                        /\ alerts'[<<"CLOSED", u>>] > 0 => row'[u] = "CLOSED" /\ recon'[u] = "CONFIRMED"
                        /\ alerts'[<<"OPENED", u>>] > 0 => row'[u] # "NONE"
      BY DEF AlertInv
    <2>1. \A k \in Kinds : /\ alerts'[<<k, u>>] <= 1
                           /\ alerts'[<<k, u>>] > 0 => <<k, u>> \in claims'
                           /\ <<k, u>> # <<kind, t>> => alerts'[<<k, u>>] = alerts[<<k, u>>]
      BY <1>0, <1>2, ClaimOnce
    <2>2. ASSUME alerts'[<<"CLOSED", u>>] > 0 PROVE row[u] = "CLOSED" /\ recon[u] = "CONFIRMED"
      <3>1. CASE <<"CLOSED", u>> = <<kind, t>>
        BY <1>2, <3>1
      <3>2. CASE <<"CLOSED", u>> # <<kind, t>>
        BY <2>1, <2>2, <3>2 DEF AlertInv, Kinds
      <3> QED BY <3>1, <3>2
    <2>3. ASSUME alerts'[<<"OPENED", u>>] > 0 PROVE row[u] # "NONE"
      <3>1. CASE <<"OPENED", u>> = <<kind, t>>
        BY <1>2, <3>1
      <3>2. CASE <<"OPENED", u>> # <<kind, t>>
        BY <2>1, <2>3, <3>2 DEF AlertInv, Kinds
      <3> QED BY <3>1, <3>2
    <2> QED BY <2>1, <2>2, <2>3 DEF Forward
  <1>3. ASSUME NEW m \in Monitors, NEW t \in Tickets, AlertClosed(m, t) PROVE AlertInv'
    <2>1. row[t] = "CLOSED" /\ recon[t] = "CONFIRMED"
      BY <1>3 DEF AlertClosed, MonitorInv
    <2> QED BY <1>2, <1>3, <2>1 DEF AlertClosed, Kinds
  <1>4. ASSUME NEW m \in Monitors, Alarm(m) PROVE AlertInv'
    <2>1. CASE UNCHANGED notices
      BY <1>1, <2>1
    <2>2. CASE m = Supervisor /\ Claim("UNCONFIRMED", Ticket)
      BY <1>s, <1>2, <1>4, <2>2 DEF Alarm, Kinds, At
    <2> QED BY <1>4, <2>1, <2>2 DEF Alarm, Ticket
  <1>5. CASE AlertOpened
    <2>1. Ticket \in Tickets /\ row[Ticket] # "NONE"
      BY <1>s, <1>5 DEF AlertOpened, InHand, At, CycleInv
    <2> QED BY <1>2, <1>5, <2>1 DEF AlertOpened, Kinds
  <1>6. ASSUME NEW m \in Monitors, NEW t \in Tickets,
               MarkClosed(m, t) \/ MarkPartialClose(m, t) \/ CloseUnconfirmed(m, t)
        PROVE  UNCHANGED notices
    BY <1>6 DEF MarkClosed, MarkPartialClose, CloseUnconfirmed
  <1>7. CASE Submit \/ Send \/ RecordOutcome \/ ObserveFill \/ Quiet
    BY <1>1, <1>7 DEF Submit, Send, RecordOutcome, ObserveFill, Quiet
  <1>8. ASSUME NEW t \in Tickets, PreviewSubmit(t) \/ PreviewSend(t) \/ BrokerCloses(t)
        PROVE  UNCHANGED notices
    BY <1>8 DEF PreviewSubmit, PreviewSend, BrokerCloses
  <1> QED BY <1>1, <1>3, <1>4, <1>5, <1>6, <1>7, <1>8, StepData DEF Writes

-----------------------------------------------------------------------------
(***************************************************************************)
(* The supervisor's cycle                                                  *)
(***************************************************************************)
\* What the supervisor does not see leaves its own variables alone.
Beside == pc'[Supervisor] = pc[Supervisor] /\ cur'[Supervisor] = Ticket
          /\ todo'[Supervisor] = todo[Supervisor]

\* The tools are never in main.run.
ToolsApart == \A m \in Tools : pc'[m] \notin InRun

\* Steps of the tools, the preview tool and the broker are beside the supervisor.
LEMMA OthersBeside ==
    ASSUME TypeOK, CycleInv,
           \/ \E m \in Tools : StartTool(m) \/ Monitor(m) \/ Crash(m)
           \/ \E t \in Tickets : PreviewSubmit(t) \/ PreviewSend(t) \/ BrokerCloses(t)
           \/ UNCHANGED vars
    PROVE  Beside /\ ToolsApart
  <1>0. TypeProcess
    BY TypeParts
  <1>s. Supervisor \in Monitors /\ Tools \subseteq Monitors /\ Supervisor \notin Tools
    BY ProcessAssumption DEF Monitors
  <1>t. \A m \in Tools : pc[m] \notin InRun
    BY DEF CycleInv
  <1> USE DEF Beside, ToolsApart, Ticket
  <1>1. ASSUME NEW m \in Tools, NEW step \in Steps \ InRun, Goto(m, step),
               UNCHANGED cur \/ \E t \in Tickets \cup {NoTicket} : cur' = [cur EXCEPT ![m] = t],
               todo'[Supervisor] = todo[Supervisor]
        PROVE  Beside /\ ToolsApart
    BY <1>0, <1>1, <1>s, <1>t DEF Goto, TypeProcess
  <1>2. ASSUME NEW m \in Tools, Stop(m) PROVE Beside /\ ToolsApart
    BY <1>0, <1>2, <1>s, <1>t DEF Stop, Goto, TypeProcess
  <1>3. ASSUME NEW m \in Tools, NEW t \in Tickets, Done(m, t), UNCHANGED <<pc, cur>>
        PROVE  Beside /\ ToolsApart
    BY <1>0, <1>3, <1>s, <1>t DEF Done, TypeProcess
  <1>4. ASSUME NEW m \in Tools, StartTool(m) \/ Crash(m) PROVE Beside /\ ToolsApart
    BY <1>1, <1>2, <1>4 DEF StartTool, Crash
  <1>5. ASSUME NEW m \in Tools, Monitor(m) PROVE Beside /\ ToolsApart
    <2>1. CASE Snapshot(m) \/ Alarm(m) \/ AlertsFail(m) \/ AlertsSent(m)
      BY <1>1, <2>1 DEF Snapshot, Alarm, AlertsFail, AlertsSent
    <2>2. CASE RecordHalt(m) \/ MonitorEnds(m)
      BY <1>2, <2>2 DEF RecordHalt, MonitorEnds
    <2>3. CASE ReadClock(m) \/ ListClosed(m)
      <3>1. todo'[Supervisor] = todo[Supervisor]
        BY <1>0, <1>s, <2>3 DEF ReadClock, ListClosed, TypeProcess
      <3> QED BY <1>1, <2>3, <3>1 DEF ReadClock, ListClosed
    <2>4. ASSUME NEW t \in Tickets, RowUntouched(m, t) \/ AlertClosed(m, t)
          PROVE  Beside /\ ToolsApart
      BY <1>3, <2>4 DEF RowUntouched, AlertClosed
    <2>5. ASSUME NEW t \in Tickets, MarkClosed(m, t) \/ MarkPartialClose(m, t)
          PROVE  Beside /\ ToolsApart
      BY <1>1, <1>3, <2>5 DEF MarkClosed, MarkPartialClose
    <2>6. ASSUME NEW t \in Tickets, CloseUnconfirmed(m, t)
          PROVE  Beside /\ ToolsApart
      BY <1>1, <2>6 DEF CloseUnconfirmed
    <2> QED BY <1>5, <2>1, <2>2, <2>3, <2>4, <2>5, <2>6 DEF Monitor
  <1>6. ASSUME NEW t \in Tickets, PreviewSubmit(t) \/ PreviewSend(t) \/ BrokerCloses(t)
        PROVE  Beside /\ ToolsApart
    BY <1>6, <1>t DEF PreviewSubmit, PreviewSend, BrokerCloses
  <1>7. CASE UNCHANGED vars
    BY <1>7, <1>t DEF vars
  <1> QED BY <1>4, <1>5, <1>6, <1>7

\* And they neither claim nor fill a ticket of the supervisor.
LEMMA OthersData ==
    ASSUME TypeOK, CycleInv,
           \/ \E m \in Tools : StartTool(m) \/ Monitor(m) \/ Crash(m)
           \/ \E t \in Tickets : PreviewSubmit(t) \/ PreviewSend(t) \/ BrokerCloses(t)
           \/ UNCHANGED vars
    PROVE  \A t \in Tickets \ Previews :
              intent'[t] = intent[t] /\ (t \in filled' => t \in filled)
  <1>0. TypeBroker
    BY TypeParts
  <1>1. ASSUME NEW m \in Tools, StartTool(m) \/ Monitor(m) \/ Crash(m) PROVE UNCHANGED <<intent, filled>>
    BY <1>1 DEF StartTool, Crash, Monitor, Snapshot, ReadClock, Alarm, RecordHalt, ListClosed,
       AlertsFail, AlertsSent, MonitorEnds, RowUntouched, MarkClosed, MarkPartialClose,
       CloseUnconfirmed, AlertClosed
  <1>2. ASSUME NEW t \in Tickets, PreviewSubmit(t) \/ PreviewSend(t) \/ BrokerCloses(t),
               NEW u \in Tickets \ Previews
        PROVE  intent'[u] = intent[u] /\ (u \in filled' => u \in filled)
    BY <1>0, <1>2 DEF PreviewSubmit, ClaimIntent, PreviewSend, Fill, BrokerCloses, TypeBroker
  <1>3. CASE UNCHANGED vars
    BY <1>3 DEF vars
  <1> QED BY <1>1, <1>2, <1>3

\* The supervisor keeps what it knows of its ticket.
LEMMA BesideCycle ==
    ASSUME CycleInv, Forward, Grows, Beside, ToolsApart,
           \A t \in Tickets \ Previews : intent'[t] = intent[t] /\ (t \in filled' => t \in filled)
    PROVE  CycleInv'
  <1>1. HandInv'
    BY DEF CycleInv, HandInv, Beside, InHand, At, Ticket
  <1>2. /\ At("ALARM")' => (Ticket \in Tickets /\ row[Ticket] # "NONE")'
        /\ At("PLANNING")' => (intent[Ticket] = "ABSENT")'
        /\ At("SENDING")' => (intent[Ticket] = "PENDING" /\ Ticket \notin filled)'
        /\ At("SENT")' => (intent[Ticket] = "PENDING")'
        /\ At("RECORDED")' => (row[Ticket] # "NONE")'
        /\ At("REVISIT")' => (row[Ticket] # "NONE" \/ Ticket \in lost \/ halt)'
    BY DEF CycleInv, HandInv, InHand, At, Beside, Forward, Grows, Ticket
  <1> QED BY <1>1, <1>2 DEF CycleInv, ToolsApart

\* A monitor step is a step of main.run for nobody.
LEMMA MonitorSteps ==
    ASSUME NEW m \in Monitors, Monitor(m)
    PROVE  pc[m] \in InMonitor
  BY DEF Monitor, Snapshot, ReadClock, Alarm, RecordHalt, ListClosed, AlertsFail, AlertsSent,
     MonitorEnds, RowUntouched, MarkClosed, MarkPartialClose, RowConfirmed, CloseUnconfirmed, AlertClosed

\* The supervisor's own steps establish what the next one relies on.
LEMMA CycleStep ==
    ASSUME TypeOK, TypeOK', CycleInv, FillInv, MonitorInv, FillsAreTracked, Forward, [Next]_vars
    PROVE  CycleInv'
  <1>0. TypeBroker /\ TypeLedger /\ TypeProcess
    BY TypeParts
  <1>s. Supervisor \in Monitors /\ Supervisor \notin Tools /\ Monitors = Tools \cup {Supervisor}
    BY ProcessAssumption DEF Monitors
  <1>t. \A m \in Tools : pc[m] \notin InRun /\ m \in Monitors /\ m # Supervisor
    BY <1>s DEF CycleInv, Monitors
  <1>g. Grows
    BY StepData
  <1>h. /\ InHand => Ticket \in Tickets \ Previews
        /\ ~ InHand /\ ~ At("ALARM") => Ticket = NoTicket
        /\ pc[Supervisor] \in InRun => todo[Supervisor] \subseteq Tickets \ Previews
    BY DEF CycleInv, HandInv
  <1>a. ASSUME NEW step \in Steps, Goto(Supervisor, step) \/ UNCHANGED pc
        PROVE  ToolsApart
    BY <1>0, <1>a, <1>t DEF Goto, ToolsApart, TypeProcess
  \* No ticket in hand: outside main.run, or between two pairs.
  <1>i. ASSUME NEW step \in Steps \ ((InRun \ {"PAIRS"}) \cup {"ALARM"}),
               pc'[Supervisor] = step, cur'[Supervisor] = NoTicket, ToolsApart,
               step = "PAIRS" => todo'[Supervisor] \subseteq Tickets \ Previews
        PROVE  CycleInv'
    BY <1>i DEF CycleInv, HandInv, InHand, At, Ticket, ToolsApart
  <1>j. ASSUME NEW step \in Steps \ ((InRun \ {"PAIRS"}) \cup {"ALARM"}), Goto(Supervisor, step),
               cur' = [cur EXCEPT ![Supervisor] = NoTicket] \/ (UNCHANGED cur /\ Ticket = NoTicket),
               step = "PAIRS" => todo'[Supervisor] \subseteq Tickets \ Previews
        PROVE  CycleInv'
    <2>1. pc'[Supervisor] = step /\ cur'[Supervisor] = NoTicket
      BY <1>0, <1>s, <1>j DEF Goto, TypeProcess, Ticket
    <2>2. ToolsApart
      BY <1>a, <1>j
    <2> QED BY <1>i, <1>j, <2>1, <2>2
  <1>k. ASSUME Stop(Supervisor) PROVE CycleInv'
    BY <1>j, <1>k DEF Stop
  \* A ticket in hand.
  <1>l. ASSUME NEW step \in InRun \ {"PAIRS"}, Goto(Supervisor, step), NEW t \in Tickets \ Previews,
               cur'[Supervisor] = t, todo'[Supervisor] \subseteq Tickets \ Previews,
               step = "PLANNING" => intent'[t] = "ABSENT",
               step = "SENDING" => intent'[t] = "PENDING" /\ t \notin filled',
               step = "SENT" => intent'[t] = "PENDING",
               step = "RECORDED" => row'[t] # "NONE",
               step = "REVISIT" => row'[t] # "NONE" \/ t \in lost' \/ halt'
        PROVE  CycleInv'
    <2>1. pc'[Supervisor] = step
      BY <1>0, <1>s, <1>l DEF Goto, TypeProcess
    <2>2. ToolsApart
      BY <1>a, <1>l
    <2> QED BY <1>l, <2>1, <2>2 DEF CycleInv, HandInv, InHand, At, Ticket, ToolsApart
  <1>1. CASE StartSupervisor
    BY <1>h, <1>j, <1>1 DEF StartSupervisor, InHand, At
  <1>2. CASE Crash(Supervisor)
    BY <1>k, <1>2 DEF Crash
  <1>3. CASE Monitor(Supervisor)
    <2>0. pc[Supervisor] # "ALARM" => Ticket = NoTicket
      BY <1>3, <1>h, <1>s, MonitorSteps DEF InHand, At
    <2>1. CASE Snapshot(Supervisor) \/ ReadClock(Supervisor) \/ ListClosed(Supervisor)
               \/ AlertsFail(Supervisor) \/ AlertsSent(Supervisor)
      BY <1>j, <2>0, <2>1 DEF Snapshot, ReadClock, ListClosed, AlertsFail, AlertsSent
    <2>2. CASE Alarm(Supervisor)
      BY <1>j, <2>2 DEF Alarm
    <2>3. CASE RecordHalt(Supervisor) \/ MonitorEnds(Supervisor)
      BY <1>k, <2>3 DEF RecordHalt, MonitorEnds
    <2>4. ASSUME NEW t \in Tickets, UNCHANGED <<pc, cur>>, pc[Supervisor] \in {"ROWS", "ALERTS"}
          PROVE  CycleInv'
      BY <1>a, <1>i, <2>0, <2>4 DEF Ticket
    <2>5. ASSUME NEW t \in Tickets, RowUntouched(Supervisor, t) \/ AlertClosed(Supervisor, t)
          PROVE  CycleInv'
      BY <2>4, <2>5 DEF RowUntouched, AlertClosed
    <2>6. ASSUME NEW t \in Tickets, MarkClosed(Supervisor, t) \/ MarkPartialClose(Supervisor, t)
          PROVE  CycleInv'
      BY <1>j, <2>0, <2>4, <2>6 DEF MarkClosed, MarkPartialClose, RowConfirmed
    <2>7. ASSUME NEW t \in Tickets, CloseUnconfirmed(Supervisor, t)
          PROVE  CycleInv'
      <3>1. CASE Goto(Supervisor, "HALTING") /\ UNCHANGED cur
        BY <1>j, <2>0, <2>7, <3>1 DEF CloseUnconfirmed
      <3>2. CASE Goto(Supervisor, "ALARM") /\ cur' = [cur EXCEPT ![Supervisor] = t]
        <4>1. pc'[Supervisor] = "ALARM" /\ cur'[Supervisor] = t
          BY <1>0, <1>s, <3>2 DEF Goto, TypeProcess
        <4>2. row'[t] # "NONE"
          BY <1>s, <2>7 DEF CloseUnconfirmed, MonitorInv, Forward
        <4>3. ToolsApart
          BY <1>a, <3>2
        <4> QED BY <4>1, <4>2, <4>3 DEF CycleInv, HandInv, InHand, At, Ticket, ToolsApart
      <3> QED BY <2>7, <3>1, <3>2 DEF CloseUnconfirmed
    <2> QED BY <1>3, <2>1, <2>2, <2>3, <2>5, <2>6, <2>7 DEF Monitor
  <1>4. CASE Cycle
    <2>0. NoTicket \notin Tickets
      BY ProcessAssumption
    <2>1. CASE PreflightClear
      <3>1. todo'[Supervisor] = Tickets \ Previews
        BY <1>0, <1>s, <2>1 DEF PreflightClear, TypeProcess
      <3> QED BY <1>h, <1>j, <2>1, <3>1 DEF PreflightClear, InHand, At
    <2>2. CASE PreflightWaits
      BY <1>h, <1>j, <1>k, <2>2 DEF PreflightWaits, InHand, At
    <2>3. CASE WatchlistDone
      BY <1>h, <1>j, <2>3 DEF WatchlistDone, InHand, At
    <2>4. CASE RunHalted \/ ObservationFails
      BY <1>k, <2>4 DEF RunHalted, ObservationFails
    <2>5. CASE NoOrder \/ NothingToObserve \/ AlertOpened
      BY <1>h, <1>j, <2>5 DEF NoOrder, NothingToObserve, AlertOpened, At
    <2>6. ASSUME NEW t \in Tickets, RunBlocked(t) PROVE CycleInv'
      <3>1. todo'[Supervisor] \subseteq todo[Supervisor]
        BY <1>0, <1>s, <2>6 DEF RunBlocked, Done, TypeProcess
      <3> QED BY <1>a, <1>h, <1>i, <2>6, <3>1 DEF RunBlocked, InHand, At, Ticket
    <2>7. ASSUME NEW t \in Tickets, RunPair(t) PROVE CycleInv'
      <3>1. /\ cur'[Supervisor] = t /\ todo'[Supervisor] \subseteq todo[Supervisor]
            /\ t \in Tickets \ Previews /\ Ticket = NoTicket
        BY <1>0, <1>s, <1>h, <2>7 DEF RunPair, Done, TypeProcess, InHand, At
      <3>2. CASE intent[t] = "ACCEPTED"
        <4>1. row[t] # "NONE" \/ t \in lost \/ halt
          BY <2>0, <3>1, <3>2 DEF FillsAreTracked
        <4>2. row'[t] # "NONE" \/ t \in lost' \/ halt'
          BY <1>g, <4>1 DEF Grows, Forward
        <4>3. Goto(Supervisor, "REVISIT") /\ todo'[Supervisor] \subseteq Tickets \ Previews
          BY <1>h, <2>7, <3>1, <3>2 DEF RunPair, At
        <4> QED BY <1>l, <3>1, <4>2, <4>3
      <3>3. CASE intent[t] = "ABSENT"
        BY <1>h, <1>l, <2>7, <3>1, <3>3 DEF RunPair, At
      <3> QED BY <2>7, <3>2, <3>3 DEF RunPair
    <2>8. CASE Submit
      <3>1. /\ Ticket \in Tickets \ Previews /\ intent[Ticket] = "ABSENT" /\ cur'[Supervisor] = Ticket
            /\ todo'[Supervisor] \subseteq Tickets \ Previews
        BY <1>h, <2>8 DEF Submit, InHand, At, CycleInv, Ticket
      <3>2. intent'[Ticket] = "PENDING" /\ Ticket \notin filled'
        BY <1>0, <2>8, <3>1 DEF Submit, ClaimIntent, TypeBroker, FillInv
      <3> QED BY <1>l, <2>8, <3>1, <3>2 DEF Submit
    <2>9. CASE Send
      <3>1. /\ Ticket \in Tickets \ Previews /\ intent'[Ticket] = "PENDING" /\ cur'[Supervisor] = Ticket
            /\ todo'[Supervisor] \subseteq Tickets \ Previews
        BY <1>h, <2>9 DEF Send, InHand, At, CycleInv, Ticket
      <3> QED BY <1>l, <2>9, <3>1 DEF Send
    <2>10. CASE RecordOutcome
      <3>1. CASE Goto(Supervisor, "OBSERVE") /\ UNCHANGED cur
        <4>1. /\ Ticket \in Tickets \ Previews /\ cur'[Supervisor] = Ticket
              /\ todo'[Supervisor] \subseteq Tickets \ Previews
          BY <1>h, <2>10, <3>1 DEF RecordOutcome, InHand, At, Ticket
        <4> QED BY <1>l, <3>1, <4>1
      <3>2. CASE Goto(Supervisor, "PAIRS") /\ cur' = [cur EXCEPT ![Supervisor] = NoTicket]
        BY <1>h, <1>j, <2>10, <3>2 DEF RecordOutcome, At
      <3> QED BY <2>10, <3>1, <3>2 DEF RecordOutcome
    <2>11. CASE ObserveFill
      <3>1. /\ Ticket \in Tickets \ Previews /\ cur'[Supervisor] = Ticket
            /\ todo'[Supervisor] \subseteq Tickets \ Previews
        BY <1>h, <2>11 DEF ObserveFill, InHand, At, Ticket
      <3>2. row'[Ticket] # "NONE"
        BY <1>0, <2>11, <3>1 DEF ObserveFill, RecordFill, TypeLedger
      <3> QED BY <1>l, <2>11, <3>1, <3>2 DEF ObserveFill
    <2> QED BY <1>4, <2>1, <2>2, <2>3, <2>4, <2>5, <2>6, <2>7, <2>8, <2>9, <2>10, <2>11 DEF Cycle
  <1>5. CASE \/ \E m \in Tools : StartTool(m) \/ Monitor(m) \/ Crash(m)
             \/ \E t \in Tickets : PreviewSubmit(t) \/ PreviewSend(t) \/ BrokerCloses(t)
             \/ UNCHANGED vars
    BY <1>5, <1>g, OthersBeside, OthersData, BesideCycle
  <1>6. ~ StartTool(Supervisor)
    BY <1>s DEF StartTool
  <1> QED BY <1>1, <1>2, <1>3, <1>4, <1>5, <1>6, <1>s DEF Next

\* Only the recorded outcome of its own order makes a ticket of the supervisor
\* accepted, and that ticket stays in hand.
LEMMA AcceptedInHand ==
    ASSUME TypeOK, CycleInv, [Next]_vars, NEW t \in Tickets \ Previews,
           intent[t] # "ACCEPTED", intent'[t] = "ACCEPTED"
    PROVE  cur'[Supervisor] = t
  <1>0. TypeBroker
    BY TypeParts
  <1>h. InHand => Ticket \in Tickets \ Previews
    BY DEF CycleInv, HandInv
  <1>1. CASE RecordOutcome
    <2>1. PICK outcome \in Outcomes(Ticket) :
             /\ intent' = [intent EXCEPT ![Ticket] = outcome]
             /\ outcome = "ACCEPTED" => UNCHANGED cur
      BY <1>1 DEF RecordOutcome
    <2>2. Ticket \in Tickets
      BY <1>1, <1>h DEF RecordOutcome, InHand, At
    <2> QED BY <1>0, <2>1, <2>2 DEF TypeBroker, Ticket
  <1>2. CASE Submit
    BY <1>0, <1>2, <1>h DEF Submit, ClaimIntent, TypeBroker, InHand, At
  <1>3. ASSUME NEW u \in Tickets, PreviewSubmit(u) \/ PreviewSend(u) PROVE FALSE
    BY <1>0, <1>3 DEF PreviewSubmit, ClaimIntent, PreviewSend, TypeBroker
  <1>4. CASE UNCHANGED intent
    BY <1>4
  <1>5. ASSUME NEW m \in Monitors, NEW u \in Tickets,
               MarkClosed(m, u) \/ MarkPartialClose(m, u) \/ CloseUnconfirmed(m, u) \/ AlertClosed(m, u)
        PROVE  UNCHANGED intent
    BY <1>5 DEF MarkClosed, MarkPartialClose, CloseUnconfirmed, AlertClosed
  <1>6. ASSUME NEW m \in Monitors, Alarm(m) PROVE UNCHANGED intent
    BY <1>6 DEF Alarm
  <1>7. CASE Send \/ ObserveFill \/ AlertOpened \/ Quiet
    BY <1>4, <1>7 DEF Send, ObserveFill, AlertOpened, Quiet
  <1>8. ASSUME NEW u \in Tickets, BrokerCloses(u) PROVE UNCHANGED intent
    BY <1>8 DEF BrokerCloses
  <1> QED BY <1>1, <1>2, <1>3, <1>4, <1>5, <1>6, <1>7, <1>8, StepData DEF Writes

\* A ticket in hand whose fill is not recorded is put away only with a halt or
\* with its fill counted as lost.
LEMMA PutAway ==
    ASSUME TypeOK, CycleInv, Forward, [Next]_vars, NEW t \in Tickets \ Previews,
           Ticket = t, intent[t] = "ACCEPTED", row'[t] = "NONE"
    PROVE  cur'[Supervisor] = t \/ halt' \/ t \in lost'
  <1>0. TypeProcess
    BY TypeParts
  <1>s. Supervisor \in Monitors /\ Supervisor \notin Tools /\ Monitors = Tools \cup {Supervisor}
    BY ProcessAssumption DEF Monitors
  <1>r. row[t] = "NONE"
    BY DEF Forward
  <1>g. Grows
    BY StepData
  <1>h. pc[Supervisor] \in {"OBSERVE", "REVISIT"}
    BY <1>r, ProcessAssumption DEF CycleInv, HandInv, InHand, At
  <1>1. CASE Crash(Supervisor) \/ ObservationFails
    BY <1>1, <1>h DEF Crash, ObservationFails, Halt, Ticket
  <1>2. CASE NothingToObserve
    BY <1>2, <1>g, <1>r DEF NothingToObserve, CycleInv, Grows
  <1>3. CASE ObserveFill
    BY <1>3 DEF ObserveFill, Ticket
  <1>4. CASE \/ \E m \in Tools : StartTool(m) \/ Monitor(m) \/ Crash(m)
             \/ \E u \in Tickets : PreviewSubmit(u) \/ PreviewSend(u) \/ BrokerCloses(u)
             \/ UNCHANGED vars
    BY <1>4, OthersBeside DEF Beside
  <1>5. ~ Monitor(Supervisor) /\ ~ StartTool(Supervisor) /\ ~ StartSupervisor
    BY <1>h, <1>s, MonitorSteps DEF StartTool, StartSupervisor
  <1>6. CASE Cycle
    BY <1>1, <1>2, <1>3, <1>6, <1>h
    DEF Cycle, PreflightClear, PreflightWaits, WatchlistDone, RunHalted, RunPair, RunBlocked, Submit,
        NoOrder, Send, RecordOutcome, AlertOpened, At
  <1> QED BY <1>1, <1>4, <1>5, <1>6, <1>s DEF Next

\* Fills stay tracked.
LEMMA TrackedStep ==
    ASSUME TypeOK, CycleInv, FillsAreTracked, Forward, [Next]_vars
    PROVE  FillsAreTracked'
  <1> SUFFICES ASSUME NEW t \in Tickets \ Previews, intent'[t] = "ACCEPTED", row'[t] = "NONE"
               PROVE  halt' \/ t \in lost' \/ cur'[Supervisor] = t
    BY DEF FillsAreTracked, Ticket
  <1>1. Grows
    BY StepData
  <1>2. CASE intent[t] # "ACCEPTED"
    BY <1>2, AcceptedInHand
  <1>3. CASE intent[t] = "ACCEPTED"
    <2>1. halt \/ t \in lost \/ Ticket = t
      BY <1>3 DEF FillsAreTracked, Forward
    <2>2. CASE Ticket = t
      BY <1>3, <2>2, PutAway
    <2> QED BY <1>1, <2>1, <2>2 DEF Grows
  <1> QED BY <1>2, <1>3

-----------------------------------------------------------------------------
(***************************************************************************)
(* Claims under a halt                                                     *)
(***************************************************************************)
\* The supervisor starts to plan only when it saw no halt.
LEMMA PlansWithoutHalt ==
    ASSUME TypeOK, [Next]_vars, halt, ~ At("PLANNING")
    PROVE  ~ At("PLANNING")'
  <1>0. TypeProcess
    BY TypeParts
  <1>s. Supervisor \in Monitors
    BY DEF Monitors
  <1>1. ASSUME NEW m \in Monitors, NEW step \in Steps \ {"PLANNING"}, Goto(m, step)
        PROVE  ~ At("PLANNING")'
    BY <1>0, <1>1, <1>s DEF Goto, At, TypeProcess
  <1>2. CASE UNCHANGED pc
    BY <1>2 DEF At
  <1>3. CASE StartSupervisor
    BY <1>1, <1>3, <1>s DEF StartSupervisor
  <1>4. ASSUME NEW m \in Monitors, StartTool(m) \/ Crash(m) PROVE ~ At("PLANNING")'
    BY <1>1, <1>4 DEF StartTool, Crash, Stop
  <1>5. ASSUME NEW m \in Monitors, Monitor(m) PROVE ~ At("PLANNING")'
    BY <1>1, <1>2, <1>5
    DEF Monitor, Snapshot, ReadClock, Alarm, RecordHalt, ListClosed, AlertsFail, AlertsSent, Stop,
        MonitorEnds, RowUntouched, MarkClosed, MarkPartialClose, CloseUnconfirmed, AlertClosed
  <1>6. CASE Cycle
    BY <1>1, <1>2, <1>6, <1>s
    DEF Cycle, PreflightClear, PreflightWaits, WatchlistDone, RunHalted, RunPair, RunBlocked, Submit,
        NoOrder, Send, RecordOutcome, ObserveFill, NothingToObserve, ObservationFails, AlertOpened, Stop
  <1>7. ASSUME NEW t \in Tickets, PreviewSubmit(t) \/ PreviewSend(t) \/ BrokerCloses(t)
        PROVE  UNCHANGED pc
    BY <1>7 DEF PreviewSubmit, PreviewSend, BrokerCloses
  <1>8. CASE UNCHANGED vars
    BY <1>2, <1>8 DEF vars
  <1> QED BY <1>2, <1>3, <1>4, <1>5, <1>6, <1>7, <1>8 DEF Next

\* Only the claim of the pair in hand adds a ticket of the supervisor.
LEMMA LateData ==
    ASSUME CycleInv, [Next]_vars
    PROVE  \/ late' \ Previews = late \ Previews
           \/ Submit /\ halt /\ late' = late \cup {Ticket} /\ Ticket \in Tickets \ Previews
  <1>h. InHand => Ticket \in Tickets \ Previews
    BY DEF CycleInv, HandInv
  <1>1. CASE Submit
    BY <1>1, <1>h DEF Submit, ClaimIntent, InHand, At
  <1>2. ASSUME NEW t \in Tickets, PreviewSubmit(t) PROVE late' \ Previews = late \ Previews
    BY <1>2 DEF PreviewSubmit, ClaimIntent
  <1>3. ASSUME NEW t \in Tickets, PreviewSend(t) \/ BrokerCloses(t) PROVE UNCHANGED late
    BY <1>3 DEF PreviewSend, BrokerCloses
  <1>4. ASSUME NEW m \in Monitors, NEW t \in Tickets,
               MarkClosed(m, t) \/ MarkPartialClose(m, t) \/ CloseUnconfirmed(m, t) \/ AlertClosed(m, t)
        PROVE  UNCHANGED late
    BY <1>4 DEF MarkClosed, MarkPartialClose, CloseUnconfirmed, AlertClosed
  <1>5. ASSUME NEW m \in Monitors, Alarm(m) PROVE UNCHANGED late
    BY <1>5 DEF Alarm
  <1>6. CASE Send \/ RecordOutcome \/ ObserveFill \/ AlertOpened \/ Quiet
    BY <1>6 DEF Send, RecordOutcome, ObserveFill, AlertOpened, Quiet
  <1> QED BY <1>1, <1>2, <1>3, <1>4, <1>5, <1>6, StepData DEF Writes

\* One claim at most passes the halt.
LEMMA LateStep ==
    ASSUME TypeOK, CycleInv, LateInv, [Next]_vars
    PROVE  LateInv'
  <1>0. TypeProcess /\ Supervisor \in Monitors
    BY TypeParts DEF Monitors
  <1>g. halt => halt'
    BY StepData DEF Grows
  <1>1. CASE Submit /\ halt /\ late' = late \cup {Ticket} /\ Ticket \in Tickets \ Previews
    <2>1. late \ Previews = {}
      BY <1>1 DEF LateInv, Submit, At
    <2>2. late' \ Previews = {Ticket}
      BY <1>1, <2>1
    <2>3. ~ At("PLANNING")'
      BY <1>0, <1>1 DEF Submit, Goto, At, TypeProcess
    <2> QED BY <1>1, <1>g, <2>2, <2>3 DEF LateInv
  <1>2. CASE late' \ Previews = late \ Previews
    BY <1>2, <1>g, PlansWithoutHalt DEF LateInv
  <1> QED BY <1>1, <1>2, LateData

-----------------------------------------------------------------------------
(***************************************************************************)
(* The theorems                                                            *)
(***************************************************************************)
\* Every step keeps the invariant.
LEMMA InductiveStep == Inductive /\ [Next]_vars => Inductive' /\ Forward
  <1> SUFFICES ASSUME Inductive, [Next]_vars PROVE Inductive' /\ Forward
    OBVIOUS
  <1>1. TypeOK /\ CycleInv /\ FillInv /\ LedgerInv /\ MonitorInv /\ AlertInv /\ FillsAreTracked /\ LateInv
    BY DEF Inductive
  <1>2. TypeOK' /\ Forward /\ FillInv'
    BY <1>1, TypeStep, StepForward, FillStep
  <1>3. CycleInv' /\ LedgerInv' /\ MonitorInv' /\ AlertInv'
    BY <1>1, <1>2, CycleStep, LedgerStep, MonitorStep, AlertStep
  <1>4. FillsAreTracked' /\ LateInv'
    BY <1>1, <1>2, TrackedStep, LateStep
  <1> QED BY <1>2, <1>3, <1>4 DEF Inductive

\* A fresh ledger and stopped processes satisfy it.
LEMMA InductiveInit == Init => Inductive
  <1> SUFFICES ASSUME Init PROVE Inductive
    OBVIOUS
  <1>s. Supervisor \in Monitors /\ Tools \subseteq Monitors
    BY DEF Monitors
  <1>1. TypeOK
    <2>1. Flat \in [Tickets -> Amounts]
      BY ProcessAssumption DEF Flat, Amounts
    <2>2. TypeBroker /\ TypeLedger
      BY <2>1 DEF Init, TypeBroker, TypeLedger, IntentStates
    <2>3. TypeNotices
      BY DEF Init, TypeNotices
    <2>4. TypeProcess
      BY <2>1 DEF Init, TypeProcess
    <2>5. TypeRest
      BY DEF Init, TypeRest
    <2> QED BY <2>2, <2>3, <2>4, <2>5, TypeParts
  <1>2. CycleInv
    BY <1>s DEF Init, CycleInv, HandInv, InHand, At, Ticket
  <1>3. FillInv /\ LedgerInv /\ MonitorInv /\ FillsAreTracked
    BY ProcessAssumption DEF Init, FillInv, LedgerInv, MonitorInv, FillsAreTracked, Flat
  <1>4. AlertInv
    <2>1. \A kind \in Kinds, t \in Tickets : alerts[<<kind, t>>] = 0
      BY DEF Init
    <2>2. "CLOSED" \in Kinds /\ "OPENED" \in Kinds
      BY DEF Kinds
    <2> QED BY <2>1, <2>2 DEF AlertInv
  <1>5. LateInv
    BY DEF Init, LateInv
  <1> QED BY <1>1, <1>2, <1>3, <1>4, <1>5 DEF Inductive

\* The invariant holds in every reachable state, for all constants.
THEOREM InductiveInvariant == Spec => []Inductive
  <1>1. Inductive /\ [Next]_vars => Inductive'
    BY InductiveStep
  <1> QED BY <1>1, InductiveInit, PTL DEF Spec

\* Every column and local variable keeps its type.
THEOREM TypeCorrect == Spec => []TypeOK
  <1>1. Inductive => TypeOK
    BY DEF Inductive
  <1> QED BY <1>1, InductiveInvariant, PTL

\* The ledger never runs ahead of the broker, whatever monitors run at once
\* (mark_closed, mark_partial_close, record_confirmed_fill_once).
THEOREM LedgerStaysBehind == Spec => []LedgerBehindBroker
  <1>1. Inductive => LedgerBehindBroker
    BY DEF Inductive, LedgerInv, LedgerBehindBroker
  <1> QED BY <1>1, InductiveInvariant, PTL

\* Every alert goes out at most once, and a closed-trade alert only for a
\* confirmed close (claim_open_notification_once, claim_close_notification_once).
THEOREM AlertsGoOutOnce == Spec => []AlertsAtMostOnce
  <1>1. Inductive => AlertsAtMostOnce
    BY DEF Inductive, AlertInv, AlertsAtMostOnce
  <1> QED BY <1>1, InductiveInvariant, PTL

\* A fill of the supervisor is in the ledger, in hand, halted or counted as lost
\* (main.run, _observe_confirmed_weltrade_fill).
THEOREM NoUntrackedFill == Spec => []FillsAreTracked
  <1>1. Inductive => FillsAreTracked
    BY DEF Inductive
  <1> QED BY <1>1, InductiveInvariant, PTL

\* At most the pair in hand passes a halt that somebody else sets (run, evaluate,
\* monitor_weltrade_closes).
THEOREM HaltHolds == Spec => []OneClaimPastTheHalt
  <1>1. Inductive => OneClaimPastTheHalt
    <2> SUFFICES ASSUME Inductive PROVE Cardinality(late \ Previews) <= 1
      BY DEF OneClaimPastTheHalt
    <2>1. CASE late \ Previews = {}
      BY <2>1, FS_EmptySet
    <2>2. ASSUME NEW t \in Tickets, late \ Previews = {t} PROVE Cardinality(late \ Previews) <= 1
      <3>1. Cardinality({t}) = 1
        BY FS_Singleton
      <3> QED BY <2>2, <3>1
    <2> QED BY <2>1, <2>2 DEF Inductive, LateInv
  <1> QED BY <1>1, InductiveInvariant, PTL

\* A confirmed close is never reopened or unconfirmed, by no stale monitor run
\* (the closed_at IS NULL guards of the ledger's updates).
THEOREM CloseIsFinal == Spec => ClosedRowIsFinal
  <1> DEFINE Final == \A t \in Tickets :
                row[t] = "CLOSED" => row'[t] = "CLOSED" /\ remaining'[t] = 0 /\ recon'[t] = recon[t]
  <1>1. Inductive /\ [Next]_vars => [Final]_vars
    BY InductiveStep DEF Inductive, LedgerInv, Forward
  <1> QED BY <1>1, InductiveInvariant, PTL DEF Spec, ClosedRowIsFinal

-----------------------------------------------------------------------------
(***************************************************************************)
(* The refinement of PositionRecord                                        *)
(***************************************************************************)
\* A close is in doubt only while the row is open.
DoubtInv == \A t \in Tickets : recon[t] = "UNCONFIRMED" => row[t] = "OPEN"

LEMMA DoubtStep ==
    ASSUME TypeOK, CycleInv, DoubtInv, [Next]_vars
    PROVE  DoubtInv'
  <1>0. TypeLedger
    BY TypeParts
  <1>s. InHand => Ticket \in Tickets
    BY InHandIsTicket
  <1> USE DEF DoubtInv
  <1>1. CASE UNCHANGED <<row, recon>>
    BY <1>1
  <1>2. ASSUME NEW m \in Monitors, NEW t \in Tickets, MarkClosed(m, t) PROVE DoubtInv'
    BY <1>0, <1>2 DEF MarkClosed, TypeLedger
  <1>3. ASSUME NEW m \in Monitors, NEW t \in Tickets, MarkPartialClose(m, t) PROVE DoubtInv'
    BY <1>0, <1>3 DEF MarkPartialClose, SetRemaining, TypeLedger
  <1>4. ASSUME NEW m \in Monitors, NEW t \in Tickets, CloseUnconfirmed(m, t) PROVE DoubtInv'
    BY <1>0, <1>4 DEF CloseUnconfirmed, MarkUnconfirmed, TypeLedger
  <1>5. CASE ObserveFill
    <2>1. Ticket \in Tickets
      BY <1>s, <1>5 DEF ObserveFill, InHand, At
    <2> QED BY <1>0, <1>5, <2>1 DEF ObserveFill, RecordFill, TypeLedger
  <1>6. ASSUME NEW m \in Monitors, NEW t \in Tickets, AlertClosed(m, t) PROVE UNCHANGED <<row, recon>>
    BY <1>6 DEF AlertClosed
  <1>7. ASSUME NEW m \in Monitors, Alarm(m) PROVE UNCHANGED <<row, recon>>
    BY <1>7 DEF Alarm
  <1>8. CASE Submit \/ Send \/ RecordOutcome \/ AlertOpened \/ Quiet
    BY <1>1, <1>8 DEF Submit, Send, RecordOutcome, AlertOpened, Quiet
  <1>9. ASSUME NEW t \in Tickets, PreviewSubmit(t) \/ PreviewSend(t) \/ BrokerCloses(t)
        PROVE  UNCHANGED <<row, recon>>
    BY <1>9 DEF PreviewSubmit, PreviewSend, BrokerCloses
  <1> QED BY <1>1, <1>2, <1>3, <1>4, <1>5, <1>6, <1>7, <1>8, <1>9, StepData DEF Writes

\* A won claim sends the first alert, or none.
LEMMA ClaimTells ==
    ASSUME TypeNotices, AlertInv, NEW kind \in Kinds, NEW t \in Tickets, Claim(kind, t)
    PROVE  \/ UNCHANGED alerts
           \/ alerts[<<kind, t>>] = 0 /\ alerts' = [alerts EXCEPT ![<<kind, t>>] = 1]
  <1>1. alerts[<<kind, t>>] \in Nat /\ (alerts[<<kind, t>>] > 0 => <<kind, t>> \in claims)
    BY DEF TypeNotices, AlertInv
  <1> QED BY <1>1 DEF Claim

\* What the broker does and what the submission reports of it.
LEMMA BrokerRefines ==
    ASSUME TypeOK, CycleInv, FillInv,
           Send \/ \E t \in Tickets : PreviewSend(t) \/ BrokerCloses(t)
    PROVE  [Position!Next]_(Position!vars)
  <1>s. InHand => Ticket \in Tickets
    BY InHandIsTicket
  <1>1. ASSUME NEW t \in Tickets, t \notin filled, Fill(t), UNCHANGED <<ledger, alerts>>
        PROVE  [Position!Next]_(Position!vars)
    BY <1>1 DEF Fill, Position!Next, Position!Open, Position!vars
  <1>2. CASE Send
    <2>1. Ticket \in Tickets /\ Ticket \notin filled
      BY <1>s, <1>2 DEF Send, InHand, At, CycleInv
    <2> QED BY <1>1, <1>2, <2>1 DEF Send
  <1>3. ASSUME NEW t \in Tickets, PreviewSend(t) PROVE [Position!Next]_(Position!vars)
    <2>1. t \notin filled
      BY <1>3 DEF PreviewSend, FillInv
    <2> QED BY <1>1, <1>3, <2>1 DEF PreviewSend
  <1>4. ASSUME NEW t \in Tickets, BrokerCloses(t) PROVE [Position!Next]_(Position!vars)
    <2>1. Position!Shrink(t)
      BY <1>4 DEF BrokerCloses, Amounts, Position!Shrink
    <2> QED BY <2>1 DEF Position!Next
  <1> QED BY <1>2, <1>3, <1>4

\* A monitor writes from its snapshot, and the snapshot is never behind the broker.
LEMMA MonitorRefines ==
    ASSUME TypeOK, MonitorInv, NEW m \in Monitors, NEW t \in Tickets,
           MarkClosed(m, t) \/ MarkPartialClose(m, t) \/ CloseUnconfirmed(m, t)
    PROVE  [Position!Next]_(Position!vars)
  <1>n. /\ Volume \in Nat /\ volume[t] \in Nat /\ rowVolume[t] \in Nat
        /\ deals[m][t] \in Nat /\ view[m][t] \in Nat
    BY ProcessAssumption DEF TypeOK, Amounts
  <1>1. RowConfirmed(m, t) =>
           /\ volume[t] <= view[m][t] /\ view[m][t] < Volume /\ rowVolume[t] = Volume
    BY <1>n DEF RowConfirmed, Accounted, MonitorInv
  <1>2. CASE MarkClosed(m, t)
    <2>1. volume[t] = 0
      BY <1>1, <1>2, <1>n DEF MarkClosed
    <2> QED BY <1>2, <2>1 DEF MarkClosed, Position!Next, Position!Close, Position!vars
  <1>3. CASE MarkPartialClose(m, t)
    <2>1. view[m][t] \in 1 .. Volume /\ volume[t] <= view[m][t] /\ view[m][t] < rowVolume[t]
      BY <1>1, <1>3, <1>n DEF MarkPartialClose
    <2>2. UNCHANGED <<filled, volume, row, rowVolume, alerts>>
      BY <1>3 DEF MarkPartialClose
    <2>3. CASE row[t] = "OPEN" /\ remaining' = [remaining EXCEPT ![t] = view[m][t]]
                               /\ recon' = [recon EXCEPT ![t] = "PARTIAL"]
      <3>1. Position!Show(t)
        BY <2>1, <2>2, <2>3 DEF Position!Show
      <3> QED BY <3>1 DEF Position!Next
    <2>4. CASE UNCHANGED <<remaining, recon>>
      BY <2>2, <2>4 DEF Position!vars
    <2> QED BY <1>3, <2>3, <2>4 DEF MarkPartialClose, SetRemaining
  <1>4. CASE CloseUnconfirmed(m, t)
    <2>1. UNCHANGED <<filled, volume, row, rowVolume, remaining, alerts>>
      BY <1>4 DEF CloseUnconfirmed
    <2>2. CASE UNCHANGED recon
      BY <2>1, <2>2 DEF Position!vars
    <2>3. CASE row[t] = "OPEN" /\ recon' = [recon EXCEPT ![t] = "UNCONFIRMED"]
      BY <2>1, <2>3 DEF Position!Next, Position!Doubt
    <2> QED BY <1>4, <2>2, <2>3 DEF CloseUnconfirmed, MarkUnconfirmed
  <1> QED BY <1>2, <1>3, <1>4

\* The supervisor enters a position as the broker shows it.
LEMMA EntryRefines ==
    ASSUME TypeOK, CycleInv, ObserveFill
    PROVE  [Position!Next]_(Position!vars)
  <1>1. Ticket \in Tickets
    BY InHandIsTicket DEF ObserveFill, InHand, At
  <1> QED BY <1>1 DEF ObserveFill, RecordFill, Position!Next, Position!Enter, Position!vars

\* An alert goes out once, and what it says is so.
LEMMA AlertRefines ==
    ASSUME TypeOK, CycleInv, MonitorInv, AlertInv, DoubtInv,
           \/ AlertOpened
           \/ \E m \in Monitors : Alarm(m) \/ \E t \in Tickets : AlertClosed(m, t)
    PROVE  [Position!Next]_(Position!vars)
  <1>0. TypeNotices
    BY TypeParts
  <1>s. InHand \/ At("ALARM") => Ticket \in Tickets
    BY InHandIsTicket
  <1>1. ASSUME NEW kind \in Kinds, NEW t \in Tickets, Claim(kind, t), UNCHANGED <<broker, ledger>>,
               \/ kind = "OPENED" /\ row[t] # "NONE"
               \/ kind = "CLOSED" /\ row[t] = "CLOSED" /\ recon[t] = "CONFIRMED"
               \/ kind = "UNCONFIRMED" /\ row[t] = "OPEN" /\ recon[t] = "UNCONFIRMED"
        PROVE  [Position!Next]_(Position!vars)
    <2>1. CASE UNCHANGED alerts
      BY <1>1, <2>1 DEF Position!vars
    <2>2. CASE alerts[<<kind, t>>] = 0 /\ alerts' = [alerts EXCEPT ![<<kind, t>>] = 1]
      <3>1. Position!Tell(kind, t)
        BY <1>1, <2>2 DEF Position!Tell
      <3>2. Position!TellOpened(t) \/ Position!TellClosed(t) \/ Position!TellUnconfirmed(t)
        BY <1>1, <3>1 DEF Position!TellOpened, Position!TellClosed, Position!TellUnconfirmed
      <3> QED BY <3>2 DEF Position!Next
    <2> QED BY <1>0, <1>1, <2>1, <2>2, ClaimTells
  <1>2. CASE AlertOpened
    <2>1. Ticket \in Tickets /\ row[Ticket] # "NONE"
      BY <1>s, <1>2 DEF AlertOpened, InHand, At, CycleInv
    <2> QED BY <1>1, <1>2, <2>1 DEF AlertOpened, Kinds
  <1>3. ASSUME NEW m \in Monitors, Alarm(m) PROVE [Position!Next]_(Position!vars)
    <2>1. UNCHANGED <<broker, ledger>>
      BY <1>3 DEF Alarm
    <2>2. CASE UNCHANGED notices
      BY <2>1, <2>2 DEF Position!vars
    <2>3. CASE m = Supervisor /\ recon[Ticket] = "UNCONFIRMED" /\ Claim("UNCONFIRMED", Ticket)
      <3>1. Ticket \in Tickets
        BY <1>s, <1>3, <2>3 DEF Alarm, At
      <3>2. row[Ticket] = "OPEN"
        BY <2>3, <3>1 DEF DoubtInv
      <3> QED BY <1>1, <2>1, <2>3, <3>1, <3>2 DEF Kinds
    <2> QED BY <1>3, <2>2, <2>3 DEF Alarm, Ticket
  <1>4. ASSUME NEW m \in Monitors, NEW t \in Tickets, AlertClosed(m, t) PROVE [Position!Next]_(Position!vars)
    <2>1. row[t] = "CLOSED" /\ recon[t] = "CONFIRMED"
      BY <1>4 DEF AlertClosed, MonitorInv
    <2> QED BY <1>1, <1>4, <2>1 DEF AlertClosed, Kinds
  <1> QED BY <1>2, <1>3, <1>4

\* Every step of the lifecycle is a step of the record or a stutter.
LEMMA RecordStep ==
    ASSUME TypeOK, CycleInv, FillInv, MonitorInv, AlertInv, DoubtInv, [Next]_vars
    PROVE  [Position!Next]_(Position!vars)
  <1>1. CASE Quiet \/ Submit \/ RecordOutcome
    BY <1>1 DEF Quiet, Submit, RecordOutcome, Position!vars
  <1>2. ASSUME NEW t \in Tickets, PreviewSubmit(t) PROVE [Position!Next]_(Position!vars)
    BY <1>2 DEF PreviewSubmit, Position!vars
  <1> QED BY <1>1, <1>2, StepData, BrokerRefines, MonitorRefines, EntryRefines, AlertRefines DEF Writes

\* With concurrent monitors, stale snapshots, crashes and restarts, the ledger and
\* its alerts implement the life of a position as one writer would live it, for
\* all constants (SQLitePositionLedger, monitor_weltrade_closes, main.run).
THEOREM LifecycleRefinesRecord == Spec => ImplementsPositionRecord
  <1>1. Init => Position!Init /\ DoubtInv
    <2> SUFFICES ASSUME Init PROVE Position!Init /\ DoubtInv
      OBVIOUS
    <2>1. DoubtInv
      BY DEF Init, DoubtInv
    <2>2. Kinds \X Tickets = Position!Alerts
      BY DEF Kinds, Position!Alerts
    <2> QED BY <2>1, <2>2 DEF Init, Flat, Position!Init
  <1>2. Inductive /\ DoubtInv /\ [Next]_vars => DoubtInv' /\ [Position!Next]_(Position!vars)
    BY DoubtStep, RecordStep DEF Inductive
  <1> QED BY <1>1, <1>2, InductiveInvariant, PTL DEF Spec, ImplementsPositionRecord, Position!Spec
=============================================================================
