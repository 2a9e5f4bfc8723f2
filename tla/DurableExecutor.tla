------------------------------ MODULE DurableExecutor ------------------------------
(***************************************************************************)
(* The durable submission boundary: execution/executor.py on top of        *)
(* SQLiteIntentRecordStore (execution/persistence.py), the daily guard     *)
(* (execution/daily_instrument_guard.py), startup recovery                 *)
(* (execution/recovery.py) and the operator tool tools/resolve_intent.py.  *)
(*                                                                         *)
(* An attempt is one call of AsyncTradeExecutor.submit, in any process     *)
(* that shares the SQLite files.  Its identity is the uuid4 owner id that  *)
(* submit draws, and it also stands for the broker ticket of the order the *)
(* attempt sends, because one call sends at most one order.                *)
(***************************************************************************)
EXTENDS Naturals, FiniteSets

CONSTANTS
    Attempts,      \* calls of submit
    Keys,          \* idempotency keys
    Symbols,       \* instruments
    Scopes,        \* account ids: the reservation scopes
    IntentOf,      \* the idempotency key an attempt submits
    AccountOf,     \* the account an attempt submits for
    SymbolOf,      \* the instrument of an intent
    Supervised,    \* the attempts of the supervisor's main.run; the others are
                   \* made by tools/demo_trade_preview.py, which passes no hook
    HeartbeatOverwritten,  \* refused starts overwrite the supervisor's heartbeat
    Null,          \* SQL NULL
    Lease,         \* reservation_lease_seconds, in clock ticks
    BusyWait,      \* ticks a store call may wait between clock read and BEGIN
    DayLength,     \* ticks in a UTC day
    MaxTime,       \* bound: the clock stops here
    MaxOpen,       \* max_open_positions of the execution context
    DailyCap       \* limit of the daily instrument guard

ASSUME AttemptsAssumption ==
    /\ IntentOf \in [Attempts -> Keys]
    /\ AccountOf \in [Attempts -> Scopes]
    /\ SymbolOf \in [Keys -> Symbols]
    /\ Supervised \subseteq Attempts
    /\ HeartbeatOverwritten \in BOOLEAN
    /\ Null \notin Attempts \cup Scopes

ASSUME BoundsAssumption ==
    /\ Lease \in Nat \ {0}
    /\ BusyWait \in Nat
    /\ DayLength \in Nat \ {0}
    /\ MaxTime \in Nat
    /\ MaxOpen \in Nat \ {0}
    /\ DailyCap \in Nat \ {0}

VARIABLES
    status,     \* intent_records.state, "ABSENT" where there is no row
    account,    \* intent_records.account_id
    orderId,    \* intent_records.order_id
    owner,      \* execution_reservations.owner_id
    expires,    \* execution_reservations.expires_at
    starts,     \* daily_instrument_trade_counter.submission_starts
    pc,         \* how far each attempt has come
    seen,       \* the position snapshot an attempt took
    snap,       \* the intent row an attempt read before awaiting the broker
    blind,      \* history: attempts whose snapshot was a failed read
    order,      \* the broker's own state of each attempt's order
    recov,      \* the rows startup recovery listed and has not handled yet
    finding,    \* keys the operator tool inspected and found no evidence for
    audit,      \* intent_recovery_audit: keys the operator resolved
    now         \* the UTC clock

store    == <<status, account, orderId>>
leases   == <<owner, expires>>
local    == <<pc, seen, snap, blind>>
operator == <<finding, audit>>
vars     == <<store, leases, starts, local, order, recov, operator, now>>

Statuses   == {"ABSENT", "PENDING", "UNKNOWN", "ACCEPTED", "REJECTED"}
Unresolved == {"PENDING", "UNKNOWN"}
Days       == 0 .. MaxTime
Today      == now \div DayLength

\* The steps of submit that run before the durable claim, and all that run.
PreClaim == {"RESERVED", "OBSERVED", "READY", "COUNTED"}
Running  == PreClaim \cup {"CLAIMED", "SENT", "FOLLOWUP", "RECONCILING", "RELEASING"}
PCs      == Running \cup {"IDLE", "DONE", "CRASHED"}

OrderStates == {"NONE", "INFLIGHT", "OPEN", "CLOSED", "REFUSED"}

\* A row as a caller holds it after get or list_unresolved.
Rows  == [status : Statuses, orderId : Attempts \cup {Null}]
NoRow == [status |-> "ABSENT", orderId |-> Null]
Row(k) == [status |-> status[k], orderId |-> orderId[k]]

Init ==
    /\ status = [k \in Keys |-> "ABSENT"]
    /\ account = [k \in Keys |-> Null]
    /\ orderId = [k \in Keys |-> Null]
    /\ owner = [s \in Scopes |-> Null]
    /\ expires = [s \in Scopes |-> 0]
    /\ starts = [slot \in Scopes \X Symbols \X Days |-> 0]
    /\ pc = [a \in Attempts |-> "IDLE"]
    /\ seen = [a \in Attempts |-> {}]
    /\ snap = [a \in Attempts |-> NoRow]
    /\ blind = {}
    /\ order = [a \in Attempts |-> "NONE"]
    /\ recov = [k \in Keys |-> NoRow]
    /\ finding = {}
    /\ audit = {}
    /\ now = 0

-----------------------------------------------------------------------------
(***************************************************************************)
(* The store.  Every method is one BEGIN IMMEDIATE transaction, so one     *)
(* atomic step; the clock is read before the transaction starts.           *)
(***************************************************************************)
ReadClock == {t \in 0 .. now : now <= t + BusyWait}

\* Faulty variant: a late UNKNOWN may overwrite ACCEPTED.
AllowedTransitionsReopening ==
    [from \in Statuses |->
        IF from = "REJECTED" THEN {"REJECTED"}
        ELSE IF from = "ABSENT" THEN {}
        ELSE {"ACCEPTED", "REJECTED", "UNKNOWN"}]

AllowedTransitions ==
    [from \in Statuses |->
        CASE from = "ABSENT"   -> {}
          [] from = "PENDING"  -> {"ACCEPTED", "REJECTED", "UNKNOWN"}
          [] from = "UNKNOWN"  -> {"ACCEPTED", "REJECTED", "UNKNOWN"}
          [] from = "ACCEPTED" -> {"ACCEPTED"}
          [] from = "REJECTED" -> {"REJECTED"}]

\* transition(): the guarded update; a refused one leaves the row alone.
Transition(k, to, id) ==
    /\ IF to \in AllowedTransitions[status[k]]
       THEN /\ status' = [status EXCEPT ![k] = to]
            /\ orderId' = [orderId EXCEPT ![k] = id]
       ELSE UNCHANGED <<status, orderId>>
    /\ UNCHANGED account

\* _transition(): a store that raises also leaves the row alone.
Persist(k, to, id) == Transition(k, to, id) \/ UNCHANGED store

\* Faulty variant: only PENDING intents block an acquisition.
HasOtherPendingIntent(k) ==
    \E other \in Keys \ {k} : status[other] = "PENDING"

HasOtherUnresolvedIntent(k) ==
    \E other \in Keys \ {k} : status[other] \in Unresolved

\* Faulty variant: a lease that never lapses.
HeldUntilReleased(s, t) == owner[s] # Null

Held(s, t) == owner[s] # Null /\ expires[s] > t

\* Faulty variant: a same-symbol position counts as a match.
EvidenceBySymbol(row) ==
    {"AMBIGUOUS", "UNAVAILABLE"} \cup
        {e \in {"CONFIRMED_MATCH"} : \E b \in Attempts : order[b] = "OPEN"}

\* What an adapter of execution/reconciliation.py can answer for a row.  It
\* confirms only a broker identity the row already carries, and it always
\* gets a symbol, so it never reports a confirmed absence.
Evidence(row) ==
    {"AMBIGUOUS", "UNAVAILABLE"} \cup
        {e \in {"CONFIRMED_MATCH"} :
            row.orderId # Null /\ order[row.orderId] \in {"OPEN", "CLOSED"}}

\* Faulty variant: missing evidence is taken for absence.
ApplyEvidenceAsAbsence(k, row, e) ==
    IF e = "CONFIRMED_MATCH" THEN Persist(k, "ACCEPTED", row.orderId)
    ELSE Persist(k, "REJECTED", Null)

\* The write that follows the evidence; the row is the one read before it.
ApplyEvidence(k, row, e) ==
    IF e = "CONFIRMED_MATCH" THEN Persist(k, "ACCEPTED", row.orderId)
    ELSE IF row.status = "PENDING" THEN Persist(k, "UNKNOWN", Null)
    ELSE UNCHANGED store

-----------------------------------------------------------------------------
(***************************************************************************)
(* AsyncTradeExecutor.submit                                               *)
(***************************************************************************)
Goto(a, step) == pc' = [pc EXCEPT ![a] = step]

\* The call is over, and its local variables with it.
Leave(a, step) ==
    /\ Goto(a, step)
    /\ seen' = [seen EXCEPT ![a] = {}]
    /\ snap' = [snap EXCEPT ![a] = NoRow]

Acquire(a) ==
    LET s == AccountOf[a] IN
    /\ pc[a] = "IDLE"
    /\ \E t \in ReadClock :
        /\ ~ Held(s, t)
        /\ ~ HasOtherUnresolvedIntent(IntentOf[a])
        /\ t + Lease <= MaxTime
        /\ owner' = [owner EXCEPT ![s] = a]
        /\ expires' = [expires EXCEPT ![s] = t + Lease]
    /\ Goto(a, "RESERVED")
    /\ UNCHANGED <<store, starts, seen, snap, blind, order, recov, operator, now>>

\* HELD or UNRESOLVED_INTENT: submit returns.  A store that raises here has
\* the same effect as an attempt that was never made.
AcquireRefused(a) ==
    /\ pc[a] = "IDLE"
    /\ \/ \E t \in ReadClock : Held(AccountOf[a], t)
       \/ HasOtherUnresolvedIntent(IntentOf[a])
    /\ Goto(a, "DONE")
    /\ UNCHANGED <<store, leases, starts, seen, snap, blind, order, recov, operator, now>>

OpenPositions(s) == {b \in Attempts : AccountOf[b] = s /\ order[b] = "OPEN"}

\* get_positions answered with the account's positions.
Observe(a) ==
    /\ pc[a] = "RESERVED"
    /\ seen' = [seen EXCEPT ![a] = OpenPositions(AccountOf[a])]
    /\ Goto(a, "OBSERVED")
    /\ UNCHANGED <<store, leases, starts, snap, blind, order, recov, operator, now>>

\* positions_get() failed and returned None: MT5Gateway.get_positions answers
\* [] although the account has positions.
ObserveBlind(a) ==
    /\ pc[a] = "RESERVED"
    /\ OpenPositions(AccountOf[a]) # {}
    /\ seen' = [seen EXCEPT ![a] = {}]
    /\ blind' = blind \cup {a}
    /\ Goto(a, "OBSERVED")
    /\ UNCHANGED <<store, leases, starts, snap, order, recov, operator, now>>

SymbolTaken(a) ==
    \E b \in seen[a] : SymbolOf[IntentOf[b]] = SymbolOf[IntentOf[a]]

\* Faulty variant: one position more than the limit.
PolicyAllowsOneMore(a) == Cardinality(seen[a]) <= MaxOpen /\ ~ SymbolTaken(a)

\* The position rules of ExecutionPolicy.evaluate.
PolicyAllows(a) == Cardinality(seen[a]) < MaxOpen /\ ~ SymbolTaken(a)

\* evaluate() said no (a position rule, any other rule, or no context or no
\* positions at all), or the intent row could not be read.
Refuse(a) ==
    /\ pc[a] \in {"RESERVED", "OBSERVED"}
    /\ Goto(a, "RELEASING")
    /\ seen' = [seen EXCEPT ![a] = {}]
    /\ UNCHANGED <<store, leases, starts, snap, blind, order, recov, operator, now>>

\* get(): only an unresolved row is looked at again, after the broker's answer.
Fetch(a) ==
    snap' = [snap EXCEPT ![a] =
                IF status[IntentOf[a]] \in Unresolved THEN Row(IntentOf[a]) ELSE NoRow]

\* Only main.run passes a before_submit hook.
AfterApproval(a) == IF a \in Supervised THEN "READY" ELSE "COUNTED"

\* evaluate() said yes; reconcile() reads the intent row.  The snapshot is
\* not used after this step.
Evaluate(a) ==
    LET k == IntentOf[a] IN
    /\ pc[a] = "OBSERVED"
    /\ PolicyAllows(a)
    /\ Fetch(a)
    /\ Goto(a, CASE status[k] = "ABSENT" -> AfterApproval(a)
                 [] status[k] \in Unresolved -> "RECONCILING"
                 [] OTHER -> "RELEASING")
    /\ seen' = [seen EXCEPT ![a] = {}]
    /\ UNCHANGED <<store, leases, starts, blind, order, recov, operator, now>>

\* The broker's evidence arrived, for the row read earlier.
Reconcile(a) ==
    /\ pc[a] = "RECONCILING"
    /\ \E e \in Evidence(snap[a]) : ApplyEvidence(IntentOf[a], snap[a], e)
    /\ Goto(a, "RELEASING")
    /\ snap' = [snap EXCEPT ![a] = NoRow]
    /\ UNCHANGED <<leases, starts, seen, blind, order, recov, operator, now>>

\* Faulty variant: consume compares with > instead of >=.
ConsumeStartOneMore(a) ==
    LET slot == <<AccountOf[a], SymbolOf[IntentOf[a]], Today>> IN
    /\ pc[a] = "READY"
    /\ starts[slot] <= DailyCap
    /\ starts' = [starts EXCEPT ![slot] = @ + 1]
    /\ Goto(a, "COUNTED")
    /\ UNCHANGED <<store, leases, seen, snap, blind, order, recov, operator, now>>

\* before_submit: DailyInstrumentTradeGuard.consume, which raises at the cap.
ConsumeStart(a) ==
    LET slot == <<AccountOf[a], SymbolOf[IntentOf[a]], Today>> IN
    /\ pc[a] = "READY"
    /\ starts[slot] < DailyCap
    /\ starts' = [starts EXCEPT ![slot] = @ + 1]
    /\ \/ Goto(a, "COUNTED")
       \/ Goto(a, "RELEASING")      \* publishing the safety snapshot raised
    /\ UNCHANGED <<store, leases, seen, snap, blind, order, recov, operator, now>>

CapReached(a) ==
    /\ pc[a] = "READY"
    /\ starts[<<AccountOf[a], SymbolOf[IntentOf[a]], Today>>] >= DailyCap
    /\ Goto(a, "RELEASING")
    /\ UNCHANGED <<store, leases, starts, seen, snap, blind, order, recov, operator, now>>

\* Faulty variants: the claim overwrites an existing row; the claim accepts
\* any live lease on the account.
MayClaimUpsert(a, t) ==
    /\ owner[AccountOf[a]] = a
    /\ expires[AccountOf[a]] > t

MayClaimAnyOwner(a, t) ==
    /\ expires[AccountOf[a]] > t
    /\ status[IntentOf[a]] = "ABSENT"

\* try_claim_under_reservation found its own live lease and no row.
MayClaim(a, t) ==
    /\ owner[AccountOf[a]] = a
    /\ expires[AccountOf[a]] > t
    /\ status[IntentOf[a]] = "ABSENT"

\* Faulty variant: the row starts in the broker's vocabulary.
ClaimAsSubmitted(a) ==
    /\ pc[a] = "COUNTED"
    /\ \E t \in ReadClock : MayClaim(a, t)
    /\ status' = [status EXCEPT ![IntentOf[a]] = "SUBMITTED"]
    /\ account' = [account EXCEPT ![IntentOf[a]] = AccountOf[a]]
    /\ Goto(a, "CLAIMED")
    /\ UNCHANGED <<orderId, leases, starts, seen, snap, blind, order, recov, operator, now>>

Claim(a) ==
    LET k == IntentOf[a] IN
    /\ pc[a] = "COUNTED"
    /\ \E t \in ReadClock : MayClaim(a, t)
    /\ status' = [status EXCEPT ![k] = "PENDING"]
    /\ account' = [account EXCEPT ![k] = AccountOf[a]]
    /\ orderId' = [orderId EXCEPT ![k] = Null]
    /\ Goto(a, "CLAIMED")
    /\ UNCHANGED <<leases, starts, seen, snap, blind, order, recov, operator, now>>

\* CONFLICT or ALREADY_EXISTS: reconcile once more, never send.
ClaimRefused(a) ==
    /\ pc[a] = "COUNTED"
    /\ \E t \in ReadClock : ~ MayClaim(a, t)
    /\ Goto(a, "FOLLOWUP")
    /\ UNCHANGED <<store, leases, starts, seen, snap, blind, order, recov, operator, now>>

\* The store raised: submit returns without a claim.
ClaimFailed(a) ==
    /\ pc[a] = "COUNTED"
    /\ Goto(a, "RELEASING")
    /\ UNCHANGED <<store, leases, starts, seen, snap, blind, order, recov, operator, now>>

FollowUp(a) ==
    /\ pc[a] = "FOLLOWUP"
    /\ Fetch(a)
    /\ Goto(a, IF status[IntentOf[a]] \in Unresolved THEN "RECONCILING" ELSE "RELEASING")
    /\ UNCHANGED <<store, leases, starts, seen, blind, order, recov, operator, now>>

\* gateway.submit_order gave up before order_send: PreSubmitOrderRejected is
\* REJECTED, any other exception is UNKNOWN.
GiveUpBeforeSend(a) ==
    /\ pc[a] = "CLAIMED"
    /\ \/ Persist(IntentOf[a], "REJECTED", Null)
       \/ Persist(IntentOf[a], "UNKNOWN", Null)
    /\ Goto(a, "RELEASING")
    /\ UNCHANGED <<leases, starts, seen, snap, blind, order, recov, operator, now>>

SendOrder(a) ==
    /\ pc[a] = "CLAIMED"
    /\ order' = [order EXCEPT ![a] = "INFLIGHT"]
    /\ Goto(a, "SENT")
    /\ UNCHANGED <<store, leases, starts, seen, snap, blind, recov, operator, now>>

\* What submit_order can report of an order, and what the executor writes.
Filled(a) ==
    /\ order[a] \in {"OPEN", "CLOSED"}
    /\ Persist(IntentOf[a], "ACCEPTED", a)

BrokerRefused(a) ==
    /\ order[a] = "REFUSED"
    /\ Persist(IntentOf[a], "REJECTED", Null)

\* Faulty variants: an unclear outcome is called a rejection; it is stored
\* together with the ticket.
IndeterminateAsRejected(a) == Persist(IntentOf[a], "REJECTED", Null)
IndeterminateWithTicket(a) == Persist(IntentOf[a], "UNKNOWN", a)

Indeterminate(a) == Persist(IntentOf[a], "UNKNOWN", Null)

Respond(a) ==
    /\ pc[a] = "SENT"
    /\ Filled(a) \/ BrokerRefused(a) \/ Indeterminate(a)
    /\ Goto(a, "RELEASING")
    /\ UNCHANGED <<leases, starts, seen, snap, blind, order, recov, operator, now>>

\* Faulty variant: the release waits for a lease that is still ours.
ReleaseOnlyOwn(a) ==
    /\ pc[a] = "RELEASING"
    /\ owner[AccountOf[a]] = a
    /\ owner' = [owner EXCEPT ![AccountOf[a]] = Null]
    /\ expires' = [expires EXCEPT ![AccountOf[a]] = 0]
    /\ Leave(a, "DONE")
    /\ UNCHANGED <<store, starts, blind, order, recov, operator, now>>

\* The finally clause: delete the lease row if it is still ours.
Release(a) ==
    LET s == AccountOf[a] IN
    /\ pc[a] = "RELEASING"
    /\ IF owner[s] = a
       THEN /\ owner' = [owner EXCEPT ![s] = Null]
            /\ expires' = [expires EXCEPT ![s] = 0]
       ELSE UNCHANGED leases
    /\ Leave(a, "DONE")
    /\ UNCHANGED <<store, starts, blind, order, recov, operator, now>>

\* The process dies, or the release itself raises: the lease row stays.
Crash(a) ==
    /\ pc[a] \in Running
    /\ Leave(a, "CRASHED")
    /\ UNCHANGED <<store, leases, starts, blind, order, recov, operator, now>>

-----------------------------------------------------------------------------
(***************************************************************************)
(* The broker (external), the clock, startup recovery and the operator     *)
(***************************************************************************)
BrokerStep(a) ==
    /\ \/ order[a] = "INFLIGHT" /\ order' = [order EXCEPT ![a] = "OPEN"]
       \/ order[a] = "INFLIGHT" /\ order' = [order EXCEPT ![a] = "REFUSED"]
       \/ order[a] = "OPEN" /\ order' = [order EXCEPT ![a] = "CLOSED"]
    /\ UNCHANGED <<store, leases, starts, local, recov, operator, now>>

Tick ==
    /\ now < MaxTime
    /\ now' = now + 1
    /\ UNCHANGED <<store, leases, starts, local, order, recov, operator>>

\* recover(): list_unresolved().  Rows of another account are left alone.
RecoverList(s) ==
    /\ \E k \in Keys : status[k] \in Unresolved /\ account[k] = s
    /\ recov' = [k \in Keys |->
                    IF status[k] \in Unresolved /\ account[k] = s THEN Row(k) ELSE NoRow]
    /\ UNCHANGED <<store, leases, starts, local, order, operator, now>>

\* _recover_record() for one listed row.
RecoverRecord(k) ==
    /\ recov[k].status \in Unresolved
    /\ \E e \in Evidence(recov[k]) : ApplyEvidence(k, recov[k], e)
    /\ recov' = [recov EXCEPT ![k] = NoRow]
    /\ UNCHANGED <<leases, starts, local, order, operator, now>>

\* _supervisor_is_running(): what the heartbeat says.  A refused second start
\* makes it say STOPPED while the supervisor works (see ExecutionSupervisor).
SupervisorRunning == ~ HeartbeatOverwritten /\ \E a \in Supervised : pc[a] \in Running

\* Evidence inspect_intent() finds for a key: a position on the symbol, or
\* the deals of the intent's own order, which fall in its history window.
BrokerEvidence(k) ==
    {b \in Attempts :
        /\ AccountOf[b] = account[k]
        /\ SymbolOf[IntentOf[b]] = SymbolOf[k]
        /\ \/ order[b] = "OPEN"
           \/ order[b] = "CLOSED" /\ IntentOf[b] = k}

InspectIntent(k) ==
    /\ ~ SupervisorRunning
    /\ status[k] = "UNKNOWN" /\ orderId[k] = Null
    /\ BrokerEvidence(k) = {}
    /\ finding' = finding \cup {k}
    /\ UNCHANGED <<store, leases, starts, local, order, recov, audit, now>>

ConfirmResolution(k) ==
    /\ k \in finding
    /\ ~ SupervisorRunning
    /\ status[k] = "UNKNOWN" /\ orderId[k] = Null
    /\ status' = [status EXCEPT ![k] = "REJECTED"]
    /\ finding' = finding \ {k}
    /\ audit' = audit \cup {k}
    /\ UNCHANGED <<account, orderId, leases, starts, local, order, recov, now>>

-----------------------------------------------------------------------------
Submit(a) ==
    \/ Acquire(a) \/ AcquireRefused(a)
    \/ Observe(a) \/ ObserveBlind(a) \/ Refuse(a) \/ Evaluate(a) \/ Reconcile(a)
    \/ ConsumeStart(a) \/ CapReached(a)
    \/ Claim(a) \/ ClaimRefused(a) \/ ClaimFailed(a) \/ FollowUp(a)
    \/ GiveUpBeforeSend(a) \/ SendOrder(a) \/ Respond(a)
    \/ Release(a)

Next ==
    \/ \E a \in Attempts : Submit(a) \/ Crash(a) \/ BrokerStep(a)
    \/ \E s \in Scopes : RecoverList(s)
    \/ \E k \in Keys : RecoverRecord(k) \/ InspectIntent(k) \/ ConfirmResolution(k)
    \/ Tick

Spec == Init /\ [][Next]_vars

\* The event loop keeps running an attempt, gateway calls return or raise, the
\* broker settles what it received, and the clock advances.
Fairness ==
    /\ \A a \in Attempts : WF_vars(Submit(a)) /\ WF_vars(BrokerStep(a))
    /\ WF_vars(Tick)

FairSpec == Spec /\ Fairness

-----------------------------------------------------------------------------
(***************************************************************************)
(* Properties                                                              *)
(***************************************************************************)
\* Every variable has the type its column, field or local variable has.
TypeOK ==
    /\ status \in [Keys -> Statuses]
    /\ account \in [Keys -> Scopes \cup {Null}]
    /\ orderId \in [Keys -> Attempts \cup {Null}]
    /\ owner \in [Scopes -> Attempts \cup {Null}]
    /\ expires \in [Scopes -> Nat]
    /\ starts \in [Scopes \X Symbols \X Days -> Nat]
    /\ pc \in [Attempts -> PCs]
    /\ seen \in [Attempts -> SUBSET Attempts]
    /\ snap \in [Attempts -> Rows]
    /\ blind \in SUBSET Attempts
    /\ order \in [Attempts -> OrderStates]
    /\ recov \in [Keys -> Rows]
    /\ finding \in SUBSET Keys
    /\ audit \in SUBSET Keys
    /\ now \in 0 .. MaxTime

Sent(a) == order[a] # "NONE"

\* However attempts interleave, expire, crash and retry, two orders are never
\* sent to the broker for one idempotency key (executor.submit and
\* try_claim_under_reservation).
AtMostOneOrderPerIntent ==
    \A a, b \in Attempts : Sent(a) /\ Sent(b) /\ IntentOf[a] = IntentOf[b] => a = b

\* One account never has two PENDING or UNKNOWN intents at once, although the
\* reservation lapses while its holder is still working and the unresolved
\* check is made at acquisition, long before the claim (acquire_reservation,
\* try_claim_under_reservation).
OneUnresolvedPerAccount ==
    \A j, k \in Keys :
        status[j] \in Unresolved /\ status[k] \in Unresolved /\ account[j] = account[k]
            => j = k

\* Every order the broker has or may still fill is on record: its intent row
\* exists, is unresolved while the order is in flight, and is REJECTED only
\* if the operator resolved it (_submit_reserved, transition).
LiveOrderOnRecord ==
    \A a \in Attempts :
        /\ order[a] = "INFLIGHT" => status[IntentOf[a]] \in Unresolved \/ IntentOf[a] \in audit
        /\ order[a] \in {"OPEN", "CLOSED"} =>
              status[IntentOf[a]] \in Unresolved \cup {"ACCEPTED"} \/ IntentOf[a] \in audit

\* A broker identity is stored exactly for the accepted intents, and it is
\* that of a filled order of the same intent: recovery and reconciliation,
\* which match by stored identity, can never bind a row to another order
\* (transition, reconcile, _recover_record).
IdentityIsExact ==
    \A k \in Keys :
        IF status[k] = "ACCEPTED"
        THEN \E a \in Attempts :
                /\ orderId[k] = a
                /\ IntentOf[a] = k
                /\ order[a] \in {"OPEN", "CLOSED"}
        ELSE orderId[k] = Null

\* Attempts whose order is, or may become, a position.
Exposed(a) == pc[a] = "CLAIMED" \/ order[a] \in {"INFLIGHT", "OPEN"}

SameExposure(a, b) ==
    /\ Exposed(a) /\ Exposed(b)
    /\ AccountOf[a] = AccountOf[b]
    /\ SymbolOf[IntentOf[a]] = SymbolOf[IntentOf[b]]

Excused(a) == a \in blind \/ IntentOf[a] \in audit

\* The same-symbol rule of ExecutionPolicy, evaluated on a snapshot taken long
\* before the order is sent, still keeps two attempts of one account from ever
\* being exposed on one symbol, except after a failed position read or an
\* operator resolution.
NoDuplicateExposure ==
    \A a, b \in Attempts : SameExposure(a, b) => a = b \/ Excused(a) \/ Excused(b)

\* The open-position limit of ExecutionPolicy bounds the account's exposure
\* under the same conditions.
WithinOpenLimit ==
    \A s \in Scopes :
        LET exposed == {a \in Attempts : AccountOf[a] = s /\ Exposed(a)}
        IN  (\A a \in exposed : ~ Excused(a)) => Cardinality(exposed) <= MaxOpen

\* What docs/architecture/current-state.md promises without the exception:
\* an existing same-symbol position blocks another order, and an unreadable
\* one fails closed (get_positions, ExecutionPolicy.evaluate).
UnreadablePositionsFailClosed ==
    \A a, b \in Attempts :
        SameExposure(a, b) => a = b \/ IntentOf[a] \in audit \/ IntentOf[b] \in audit

\* Orders the supervisor sent for an instrument never outnumber what the daily
\* guard allows over the UTC days so far, whatever crashes between counting
\* and sending (DailyInstrumentTradeGuard.consume, before_submit).
OrdersWithinDailyCap ==
    \A s \in Scopes, y \in Symbols :
        Cardinality({a \in Supervised :
                        Sent(a) /\ AccountOf[a] = s /\ SymbolOf[IntentOf[a]] = y})
            <= DailyCap * (Today + 1)

\* ACCEPTED and REJECTED are final: a late answer, a stale reconciliation or a
\* stale recovery never rewrites them (transition).
TerminalIsFinal ==
    [][\A k \in Keys :
          status[k] \in {"ACCEPTED", "REJECTED"} =>
              status'[k] = status[k] /\ orderId'[k] = orderId[k]]_vars

\* An unresolved intent becomes terminal only by the answer to its own order
\* or by the operator: neither reconciliation nor recovery ever guesses
\* (reconcile, _recover_record).
OnlySenderOrOperatorResolves ==
    [][\A k \in Keys :
          status[k] \in Unresolved /\ status'[k] \in {"ACCEPTED", "REJECTED"} =>
              \/ k \in audit'
              \/ \E a \in Attempts : /\ IntentOf[a] = k
                                     /\ pc[a] \in {"CLAIMED", "SENT"}
                                     /\ pc'[a] = "RELEASING"]_vars

Outcome(k) ==
    CASE status[k] = "ABSENT" -> "NEW"
      [] status[k] \in Unresolved -> "UNDECIDED"
      [] OTHER -> status[k]

Lifecycle == INSTANCE AtMostOnceSubmission WITH
    outcome   <- [k \in Keys |-> Outcome(k)],
    submitted <- {k \in Keys : \E a \in Attempts : Sent(a) /\ IntentOf[a] = k},
    byHand    <- audit

\* The executor, with everything that races around it, implements the
\* at-most-once life of an intent: on record before it is sent, sent once,
\* decided once (AsyncTradeExecutor and SQLiteIntentRecordStore).
ImplementsLifecycle == Lifecycle!Spec

\* A reservation never blocks an account for good: it is released, or its
\* lease runs out after its owner crashed (acquire_reservation, submit).
ReservationEnds ==
    \A s \in Scopes : owner[s] # Null ~> ~ Held(s, now)

\* Every call of submit ends: it returns, or its process dies (submit).
SubmitEnds ==
    \A a \in Attempts : pc[a] \in Running ~> pc[a] \in {"DONE", "CRASHED"}
=============================================================================
