---------------------------- MODULE OperationsProofs ----------------------------
(***************************************************************************)
(* Machine-checked proofs about Operations.  First the operator's desk:    *)
(* Watchlist, SafetySnapshots, Notifications, MonitorRelay,                *)
(* ObservationDaemon and RiskDay, for any number of users, publishers,     *)
(* workers, alerts, clients, slots, candles, trades and days.  Then the    *)
(* composition: what is proved here, in BrokerProofs and in ProgramProofs  *)
(* of single components carries over to Operations.                        *)
(***************************************************************************)
EXTENDS Operations, BrokerProofs, ProgramProofs, Functions, NaturalsInduction, WellFoundedInduction

(***************************************************************************)
(* The watchlist.  Before the first seeding the table is empty and every   *)
(* constructor under way has counted it so; afterwards the list follows    *)
(* the operator's commands, but for the seeds of a repeated seeding.       *)
(***************************************************************************)
WatchShape ==
    /\ WatchlistTypeOK
    /\ counted \in [WatchUsers -> BOOLEAN]
    /\ seedings \in {"never", "once", "again"}

UnseededListIsEmpty ==
    seedings = "never" =>
        /\ rows = {} /\ wanted = Seeds
        /\ \A u \in WatchUsers : storeStep[u] # "ready" /\ (storeStep[u] = "opened" => counted[u])

WatchInv == WatchShape /\ UnseededListIsEmpty /\ WatchlistFollowsOperator

LEMMA WatchStep ==
    ASSUME WatchAssumption, WatchInv, [WatchlistNext]_watchVars
    PROVE  WatchInv'
  <1> USE DEF WatchAssumption, WatchInv, WatchShape, WatchlistTypeOK, UnseededListIsEmpty,
              WatchlistFollowsOperator
  <1>1. CASE UNCHANGED watchVars
    BY <1>1 DEF watchVars
  <1>2. ASSUME NEW u \in WatchUsers, OpenStore(u) PROVE WatchInv'
    BY <1>2 DEF OpenStore
  <1>3. ASSUME NEW u \in WatchUsers, SeedStore(u) PROVE WatchInv'
    <2>1. CASE counted[u]
      BY <1>3, <2>1 DEF SeedStore
    <2>2. CASE ~counted[u]
      BY <1>3, <2>2 DEF SeedStore
    <2> QED BY <2>1, <2>2
  <1>4. ASSUME NEW u \in WatchUsers, NEW p \in WatchPairs, AddItem(u, p) PROVE WatchInv'
    BY <1>4 DEF AddItem
  <1>5. ASSUME NEW u \in WatchUsers, NEW p \in WatchPairs, NEW all \in BOOLEAN,
               RemoveItem(u, p, all)
        PROVE  WatchInv'
    <2> DEFINE N == Named(p, all)
    <2>1. /\ storeStep[u] = "ready" /\ storeStep' = [storeStep EXCEPT ![u] = "idle"]
          /\ rows' = rows \ N /\ wanted' = wanted \ N /\ UNCHANGED <<counted, seedings, evaluated>>
      BY <1>5 DEF RemoveItem
    <2> HIDE DEF N
    <2> QED BY <2>1
  <1>6. ASSUME NEW u \in WatchUsers, Evaluate(u) \/ EmptyListRaises(u) PROVE WatchInv'
    BY <1>6 DEF Evaluate, EmptyListRaises
  <1> QED BY <1>1, <1>2, <1>3, <1>4, <1>5, <1>6 DEF WatchlistNext, OperatorCommand

\* Whatever the constructors and the operator's commands interleave to, no edit of the
\* watchlist is lost, for any set of users, seeds and pairs (data/watchlist.py).
THEOREM WatchlistSafe ==
    ASSUME WatchAssumption
    PROVE  WatchlistSpec => [](WatchlistTypeOK /\ WatchlistFollowsOperator)
  <1>1. WatchlistInit => WatchInv
    BY DEF WatchAssumption, WatchlistInit, WatchInv, WatchShape, WatchlistTypeOK,
           UnseededListIsEmpty, WatchlistFollowsOperator
  <1>2. WatchInv /\ [WatchlistNext]_watchVars => WatchInv'
    BY WatchStep
  <1>3. WatchInv => WatchlistTypeOK /\ WatchlistFollowsOperator
    BY DEF WatchInv, WatchShape
  <1> QED BY <1>1, <1>2, <1>3, PTL DEF WatchlistSpec

(***************************************************************************)
(* The safety snapshots.  An authorized risk row is of the last cycle      *)
(* started, past its own evaluation; an authorized safety row is of a      *)
(* cycle whose order was accepted, left nothing unresolved and has not     *)
(* been followed by another evaluation.                                    *)
(***************************************************************************)
RiskRowCurrent ==
    /\ riskRow.cycle <= cycleNo
    /\ riskRow.state = "AUTHORIZED" =>
          riskRow.cycle = cycleNo /\ cycleAt \notin {"reset", "connected", "analysed"}

SafetyRowCurrent ==
    safetyRow.state = "AUTHORIZED" =>
        /\ safetyRow.cycle \in accepted /\ ~unresolved
        /\ cycleAt \in {"idle", "reset", "observing"}
        /\ riskRow.cycle > safetyRow.cycle => riskRow.state = "NOT_EVALUATED"

\* The last cycle's order is accepted only by its own answer.
AnswersInOrder ==
    /\ accepted \subseteq 1 .. cycleNo
    /\ cycleAt \in {"reset", "connected", "analysed", "sized", "unsized", "submitting"} =>
          cycleNo \notin accepted
    /\ cycleAt = "answered" /\ cycleNo \in accepted => ~unresolved
    /\ cycleAt # "idle" => cycleNo > 0

SnapshotInv == SnapshotTypeOK /\ RiskRowCurrent /\ SafetyRowCurrent /\ AnswersInOrder

\* The shape of a new row.
LEMMA NewSafetyRow ==
    ASSUME SnapshotAssumption, SnapshotTypeOK, NEW n \in 0 .. MaxCycles,
           NEW s \in {"NONE", "AUTHORIZED", "BLOCKED", "NOT_EVALUATED", "UNKNOWN"}
    PROVE  SafetyRow(s, n) \in Rows /\ SafetyRow(s, n).state = s /\ SafetyRow(s, n).cycle = n
  BY DEF SafetyRow, Rows, SnapshotTypeOK, SnapshotAssumption

LEMMA SnapshotStep ==
    ASSUME SnapshotAssumption, SnapshotInv, [SnapshotNext]_snapshotVars
    PROVE  SnapshotInv'
  <1> USE DEF SnapshotInv, SnapshotTypeOK, RiskRowCurrent, SafetyRowCurrent, AnswersInOrder,
              Stages
  <1>0. {MaxCycles, MaxWall, FreshFor} \subseteq Nat
    BY DEF SnapshotAssumption
  <1>f. /\ riskRow.cycle \in 0 .. MaxCycles /\ safetyRow.cycle \in 0 .. MaxCycles
        /\ accepted \subseteq Nat
    BY <1>0 DEF Rows
  <1>1. CASE UNCHANGED snapshotVars
    BY <1>1 DEF snapshotVars
  <1>2. CASE BeginCycle
    <2>1. cycleNo + 1 \in 0 .. MaxCycles
      BY <1>0, <1>2 DEF BeginCycle
    <2>2. /\ riskRow' \in Rows /\ riskRow'.state = "NOT_EVALUATED" /\ riskRow'.cycle = cycleNo + 1
      <3>1. riskRow' = [state |-> "NOT_EVALUATED", cycle |-> cycleNo + 1, account |-> "none",
                        quantity |-> FALSE, at |-> wall]
        BY <1>2 DEF BeginCycle, RiskRow
      <3> QED BY <3>1, <2>1 DEF Rows
    <2>3. /\ cycleAt' = "reset" /\ cycleNo' = cycleNo + 1 /\ cycleAt = "idle"
          /\ UNCHANGED <<wall, snapshotLogin, preflight, safetyRow, unresolved, halted, accepted>>
      BY <1>2 DEF BeginCycle, Stage, Outside
    <2> QED BY <1>0, <1>f, <2>1, <2>2, <2>3
  <1>3. CASE ResetSafety
    <2>1. safetyRow' \in Rows /\ safetyRow'.state = "NOT_EVALUATED"
      BY <1>3, NewSafetyRow DEF ResetSafety, PublishSafety
    <2> QED BY <1>0, <1>f, <1>3, <2>1 DEF ResetSafety, PublishSafety, Stage, Outside
  <1>4. CASE RecoverAtStart
    <2>1. PublishSafety("BLOCKED") => safetyRow' \in Rows /\ safetyRow'.state = "BLOCKED"
      BY NewSafetyRow DEF PublishSafety
    <2> QED BY <1>0, <1>f, <1>4, <2>1 DEF RecoverAtStart, PublishSafety, Outside, snapshotRows
  <1>5. CASE EvaluateRisk
    <2>1. /\ riskRow' \in Rows /\ riskRow'.cycle = cycleNo /\ UNCHANGED safetyRow
      <3>1. \E s \in {"BLOCKED", "AUTHORIZED"}, q \in {0, 1} :
               riskRow' = [state |-> s, cycle |-> cycleNo, account |-> snapshotLogin,
                           quantity |-> q = 1, at |-> wall]
        BY <1>5 DEF EvaluateRisk, PublishRisk, RiskRow
      <3>2. UNCHANGED safetyRow
        BY <1>5 DEF EvaluateRisk, PublishRisk
      <3> QED BY <3>1, <3>2 DEF Rows
    <2>2. /\ cycleAt' \in {"idle", "unsized", "sized"} /\ cycleAt = "analysed"
          /\ UNCHANGED <<wall, snapshotLogin, preflight, cycleNo, unresolved, halted, accepted>>
      BY <1>5 DEF EvaluateRisk, Outside
    <2> QED BY <1>0, <1>f, <2>1, <2>2
  <1>6. CASE AlreadyOnRecord
    BY <1>0, <1>f, <1>6 DEF AlreadyOnRecord, Outside, snapshotRows
  <1>7. CASE DecideSubmission
    <2>1. /\ safetyRow' \in Rows /\ safetyRow'.state # "AUTHORIZED" /\ UNCHANGED riskRow
      BY <1>7, NewSafetyRow DEF DecideSubmission, PublishSafety
    <2> QED BY <1>0, <1>f, <1>7, <2>1 DEF DecideSubmission, Stage, Outside
  <1>8. CASE SubmitIntent
    <2>1. /\ cycleAt = "submitting" /\ cycleAt' = "answered"
          /\ UNCHANGED <<wall, snapshotLogin, preflight, cycleNo, riskRow, safetyRow, halted>>
      BY <1>8 DEF SubmitIntent, Stage, Outside, snapshotRows
    <2>2. CASE unresolved' = FALSE /\ accepted' = accepted \cup {cycleNo}
      <3>1. cycleNo \in 1 .. MaxCycles
        BY <1>0, <2>1
      <3>2. accepted' \subseteq 1 .. cycleNo' /\ accepted' \subseteq 1 .. MaxCycles
        BY <1>0, <2>1, <2>2, <3>1
      <3>3. safetyRow.state # "AUTHORIZED"
        BY <2>1
      <3>4. RiskRowCurrent' /\ SafetyRowCurrent' /\ AnswersInOrder'
        BY <2>1, <2>2, <3>1, <3>2, <3>3
      <3>5. SnapshotTypeOK'
        BY <2>1, <2>2, <3>2
      <3> QED BY <3>4, <3>5
    <2>3. CASE unresolved' \in BOOLEAN /\ UNCHANGED accepted
      BY <1>0, <1>f, <2>1, <2>3
    <2> QED BY <1>8, <2>2, <2>3 DEF SubmitIntent
  <1>9. CASE PublishResult
    <2>1. /\ safetyRow' \in Rows /\ safetyRow'.state = ResultState /\ safetyRow'.cycle = cycleNo
          /\ UNCHANGED riskRow
      BY <1>9, NewSafetyRow DEF PublishResult, PublishSafety, ResultState
    <2> QED BY <1>0, <1>f, <1>9, <2>1 DEF PublishResult, ResultState, Outside
  <1>10. CASE ObserveFill
    <2>1. PublishSafety("BLOCKED") => safetyRow' \in Rows /\ safetyRow'.state = "BLOCKED"
      BY NewSafetyRow DEF PublishSafety
    <2> QED BY <1>0, <1>f, <1>10, <2>1 DEF ObserveFill, PublishSafety, Stage, Outside, snapshotRows
  <1>11. CASE CycleDies
    BY <1>0, <1>f, <1>11 DEF CycleDies, Outside, snapshotRows
  <1>12. CASE PublishPreflightSafety
    <2>1. safetyRow' \in Rows /\ safetyRow'.state = "BLOCKED"
      BY <1>0, <1>12, NewSafetyRow DEF PublishPreflightSafety
    <2> QED BY <1>0, <1>f, <1>12, <2>1 DEF PublishPreflightSafety
  <1>13. CASE PublishPreflightRisk
    <2>1. riskRow' \in Rows /\ riskRow'.state # "AUTHORIZED" /\ riskRow'.cycle = 0
      <3>1. \E s \in {"BLOCKED", "UNKNOWN"}, a \in {snapshotLogin, "none"} :
               riskRow' = [state |-> s, cycle |-> 0, account |-> a, quantity |-> FALSE, at |-> wall]
        BY <1>13 DEF PublishPreflightRisk, RiskRow
      <3> QED BY <1>0, <3>1 DEF Rows
    <2>2. /\ preflight' = [at |-> "idle", account |-> "none"]
          /\ UNCHANGED <<wall, snapshotLogin, cycleNo, cycleAt, safetyRow, unresolved, halted,
                         accepted>>
      BY <1>13 DEF PublishPreflightRisk
    <2>3. preflight' \in [at : {"idle", "risk"}, account : SnapshotAccounts \cup {"none"}]
      BY <2>2
    <2> QED BY <1>0, <1>f, <2>1, <2>2, <2>3
  <1>14. CASE WallTicks
    BY <1>0, <1>14 DEF WallTicks
  <1>15. CASE SettingsChange
    BY <1>15 DEF SettingsChange
  <1> QED BY <1>1, <1>2, <1>3, <1>4, <1>5, <1>6, <1>7, <1>8, <1>9, <1>10, <1>11, <1>12, <1>13,
             <1>14, <1>15 DEF SnapshotNext

\* An approval the API reports is the latest cycle's, for the account in the settings, and
\* AUTHORIZED safety stands beside an accepted order and clear recovery diagnostics, however
\* the preflight and dying cycles interleave with the publications (execution/safety.py).
THEOREM SnapshotsSafe ==
    ASSUME SnapshotAssumption
    PROVE  SnapshotSpec => [](SnapshotTypeOK /\ ApprovalsAreCurrent)
  <1>1. SnapshotInit => SnapshotInv
    <2>1. NoSnapshotRow \in Rows /\ NoSnapshotRow.state = "NONE" /\ NoSnapshotRow.cycle = 0
      BY DEF SnapshotAssumption, NoSnapshotRow, Rows
    <2>2. ASSUME SnapshotInit
          PROVE  preflight \in [at : {"idle", "risk"}, account : SnapshotAccounts \cup {"none"}]
      BY <2>2 DEF SnapshotInit
    <2>0. 0 \in 0 .. MaxWall /\ 0 \in 0 .. MaxCycles
      BY DEF SnapshotAssumption
    <2>3. ASSUME SnapshotInit PROVE SnapshotTypeOK
      <3>1. riskRow \in Rows /\ safetyRow \in Rows
        BY <2>1, <2>3 DEF SnapshotInit
      <3> QED BY <2>0, <2>2, <2>3, <3>1 DEF SnapshotInit, SnapshotTypeOK, Stages
    <2>4. SnapshotInit => RiskRowCurrent /\ SafetyRowCurrent /\ AnswersInOrder
      BY <2>1 DEF SnapshotInit, RiskRowCurrent, SafetyRowCurrent, AnswersInOrder
    <2> QED BY <2>3, <2>4 DEF SnapshotInv
  <1>2. SnapshotInv /\ [SnapshotNext]_snapshotVars => SnapshotInv'
    BY SnapshotStep
  <1>3. SnapshotInv => SnapshotTypeOK /\ ApprovalsAreCurrent
    BY DEF SnapshotInv, RiskRowCurrent, SafetyRowCurrent, ApprovalsAreCurrent, RiskApproved,
           RiskStatus, SafetyAuthorized, DiagnosticsStatus
  <1> QED BY <1>1, <1>2, <1>3, PTL DEF SnapshotSpec

(***************************************************************************)
(* Notifications.  A worker that posts holds the claim of its alert, alone *)
(* and not yet posted; queues and workers hold no simulated alert; and a   *)
(* queue that is not empty has a worker or a callback to empty it.         *)
(***************************************************************************)
LiveAlerts == {a \in Alerts : ~a.simulated}
Work == [stage : {"none", "loop", "claim", "post"}, alert : Alerts \cup {NoAlert}, attempt : Nat]

ChannelShape ==
    /\ queue \in [Publishers -> Seq(LiveAlerts)]
    /\ \A p \in Publishers : Len(queue[p]) <= QueueLimit
    /\ worker \in [Publishers -> [Workers -> Work]]
    /\ current \in [Publishers -> Workers]
    /\ callback \in [Publishers -> SUBSET Workers]

RecordShape ==
    /\ claims \subseteq {ClaimKey(a) : a \in Alerts}
    /\ posts \in [Alerts -> Nat]
    /\ private \in [DirectGateways -> SUBSET LiveAlerts]
    /\ observation \in [Publishers -> {"READY", "UNAVAILABLE"}]
    /\ schedule \in [Schedulers -> {"waiting", "draining", "posted"}]

WorkInHand ==
    \A p \in Publishers, w \in Workers :
        /\ worker[p][w].stage \in {"claim", "post"} => worker[p][w].alert \in LiveAlerts
        /\ worker[p][w].stage = "post" =>
              ClaimKey(worker[p][w].alert) \in claims /\ posts[worker[p][w].alert] = 0

OneClaimant ==
    \A p, q \in Publishers, w, v \in Workers :
        worker[p][w].stage = "post" /\ worker[q][v].stage = "post"
        /\ ClaimKey(worker[p][w].alert) = ClaimKey(worker[q][v].alert) => p = q /\ w = v

PostsClaimed ==
    \A a \in Alerts : posts[a] > 0 => posts[a] = 1 /\ ClaimKey(a) \in claims /\ a \in LiveAlerts

NotificationsInv ==
    ChannelShape /\ RecordShape /\ WorkInHand /\ OneClaimant /\ PostsClaimed /\ QueueIsServed

\* A step that changes one worker.
OnlyWorker(p, w, work) ==
    /\ worker' \in [Publishers -> [Workers -> Work]]
    /\ \A q \in Publishers, v \in Workers :
          worker'[q][v] = IF q = p /\ v = w THEN work ELSE worker[q][v]

LEMMA NoWorkIsIdle ==
    ASSUME NotificationsAssumption
    PROVE  NoWork \in Work /\ NoWork.stage = "none" /\ FirstWorker \in Workers
  BY DEF NotificationsAssumption, NoWork, Work, FirstWorker

LEMMA WorkerChanges ==
    ASSUME ChannelShape, NEW p \in Publishers, NEW w \in Workers, NEW work \in Work,
           worker' = [worker EXCEPT ![p][w] = work]
    PROVE  OnlyWorker(p, w, work)
  BY DEF ChannelShape, OnlyWorker

LEMMA WorkerStarts ==
    ASSUME ChannelShape, NEW p \in Publishers, NEW w \in Workers, StartWorker(p, w)
    PROVE  /\ OnlyWorker(p, w, [worker[p][w] EXCEPT !.stage = "loop"])
           /\ [worker[p][w] EXCEPT !.stage = "loop"].stage = "loop"
           /\ current' \in [Publishers -> Workers]
  <1> DEFINE work == [worker[p][w] EXCEPT !.stage = "loop"]
  <1>0. worker[p][w] \in Work
    BY DEF ChannelShape
  <1>1. work \in Work /\ work.stage = "loop"
    BY <1>0 DEF Work
  <1>2. worker' = [worker EXCEPT ![p][w] = work]
    BY DEF StartWorker
  <1>3. current' \in [Publishers -> Workers]
    BY DEF StartWorker, ChannelShape
  <1> QED BY <1>1, <1>2, <1>3, WorkerChanges

\* A worker that comes to hold nothing, or an unclaimed live alert, disturbs no claim.
LEMMA HandsKept ==
    ASSUME NotificationsInv, NEW p \in Publishers, NEW w \in Workers, NEW work,
           OnlyWorker(p, w, work), UNCHANGED <<claims, posts>>,
           work.stage # "post", work.stage = "claim" => work.alert \in LiveAlerts
    PROVE  WorkInHand' /\ OneClaimant' /\ PostsClaimed'
  <1>1. WorkInHand'
    BY DEF NotificationsInv, OnlyWorker, WorkInHand
  <1>2. ASSUME NEW q \in Publishers, NEW v \in Workers, worker'[q][v].stage = "post"
        PROVE  worker'[q][v] = worker[q][v]
    BY <1>2 DEF OnlyWorker
  <1>3. OneClaimant'
    BY <1>2 DEF NotificationsInv, OneClaimant
  <1>4. PostsClaimed'
    BY DEF NotificationsInv, PostsClaimed
  <1> QED BY <1>1, <1>3, <1>4

LEMMA HandsUnchanged ==
    ASSUME NotificationsInv, UNCHANGED <<worker, claims, posts>>
    PROVE  WorkInHand' /\ OneClaimant' /\ PostsClaimed'
  BY DEF NotificationsInv, WorkInHand, OneClaimant, PostsClaimed

LEMMA SendStep ==
    ASSUME NotificationsAssumption, NotificationsInv, NEW p \in Publishers, NEW a \in LiveAlerts,
           ChannelSend(p, a), UNCHANGED <<callback, claims, posts>>
    PROVE  ChannelShape' /\ WorkInHand' /\ OneClaimant' /\ PostsClaimed' /\ QueueIsServed'
  <1>1. CASE ~Enqueues(p, a)
    <2>1. UNCHANGED <<queue, worker, current>>
      BY <1>1 DEF ChannelSend
    <2> QED BY <2>1, HandsUnchanged DEF NotificationsInv, ChannelShape, QueueIsServed
  <1>2. CASE Enqueues(p, a)
    <2>1. queue' = [queue EXCEPT ![p] = Append(@, a)]
      BY <1>2 DEF ChannelSend
    <2>2. /\ queue' \in [Publishers -> Seq(LiveAlerts)]
          /\ \A q \in Publishers : Len(queue'[q]) <= QueueLimit
          /\ \A q \in Publishers : q # p => queue'[q] = queue[q]
      BY <1>2, <2>1 DEF NotificationsInv, ChannelShape, Enqueues, NotificationsAssumption
    <2>3. CASE WorkerDone(p)
      <3>1. PICK w \in FreeWorkers(p) : StartWorker(p, w)
        BY <1>2, <2>3 DEF ChannelSend
      <3>2. w \in Workers
        BY DEF FreeWorkers
      <3> DEFINE work == [worker[p][w] EXCEPT !.stage = "loop"]
      <3>3. OnlyWorker(p, w, work) /\ work.stage = "loop" /\ current' \in [Publishers -> Workers]
        BY <3>1, <3>2, WorkerStarts DEF NotificationsInv
      <3> HIDE DEF work
      <3>4. WorkInHand' /\ OneClaimant' /\ PostsClaimed'
        BY <3>2, <3>3, HandsKept
      <3>5. worker'[p][w] # NoWork
        BY <3>2, <3>3, NoWorkIsIdle DEF OnlyWorker
      <3>6. \A q \in Publishers : q # p => \A v \in Workers : worker'[q][v] = worker[q][v]
        BY <3>3 DEF OnlyWorker
      <3>7. QueueIsServed'
        BY <2>2, <3>2, <3>5, <3>6 DEF NotificationsInv, QueueIsServed
      <3>8. ChannelShape'
        BY <2>2, <3>3 DEF NotificationsInv, ChannelShape, OnlyWorker
      <3> QED BY <3>4, <3>7, <3>8
    <2>4. CASE ~WorkerDone(p)
      <3>1. UNCHANGED <<worker, current>>
        BY <1>2, <2>4 DEF ChannelSend
      <3>2. current[p] \in Workers /\ worker'[p][current[p]] # NoWork
        BY <2>4, <3>1 DEF WorkerDone, NotificationsInv, ChannelShape
      <3>3. QueueIsServed'
        BY <2>2, <3>1, <3>2 DEF NotificationsInv, QueueIsServed
      <3>4. ChannelShape'
        BY <2>2, <3>1 DEF NotificationsInv, ChannelShape
      <3> QED BY <3>1, <3>3, <3>4, HandsUnchanged
    <2> QED BY <2>3, <2>4
  <1> QED BY <1>1, <1>2

LEMMA TakesStep ==
    ASSUME NotificationsAssumption, NotificationsInv, NEW p \in Publishers, NEW w \in Workers,
           WorkerTakes(p, w)
    PROVE  NotificationsInv'
  <1>1. /\ worker[p][w].stage = "loop"
        /\ UNCHANGED <<current, claims, posts, private, observation, schedule, published, deaths>>
    BY DEF WorkerTakes
  <1>2. RecordShape'
    BY <1>1 DEF NotificationsInv, RecordShape
  <1>3. CASE queue[p] = <<>>
    <2>1. /\ worker' = [worker EXCEPT ![p][w] = NoWork] /\ UNCHANGED queue
          /\ callback' = [callback EXCEPT ![p] = @ \cup {w}]
      BY <1>3 DEF WorkerTakes
    <2>2. OnlyWorker(p, w, NoWork) /\ NoWork.stage = "none"
      BY <2>1, NoWorkIsIdle, WorkerChanges DEF NotificationsInv
    <2>3. WorkInHand' /\ OneClaimant' /\ PostsClaimed'
      BY <1>1, <2>2, HandsKept
    <2>4. ChannelShape'
      BY <1>1, <2>1, <2>2 DEF NotificationsInv, ChannelShape, OnlyWorker
    <2>5. QueueIsServed'
      BY <1>3, <2>1, <2>2 DEF NotificationsInv, QueueIsServed, OnlyWorker, ChannelShape
    <2> QED BY <1>2, <2>3, <2>4, <2>5 DEF NotificationsInv
  <1>4. CASE queue[p] # <<>>
    <2> DEFINE work == [stage |-> "claim", alert |-> Head(queue[p]), attempt |-> 1]
    <2>1. /\ worker' = [worker EXCEPT ![p][w] = work] /\ UNCHANGED callback
          /\ queue' = [queue EXCEPT ![p] = Tail(@)]
      BY <1>4 DEF WorkerTakes
    <2>2. Head(queue[p]) \in LiveAlerts /\ queue[p] \in Seq(LiveAlerts)
      BY <1>4 DEF NotificationsInv, ChannelShape
    <2>3. work \in Work /\ work.stage = "claim" /\ work.alert \in LiveAlerts
      BY <2>2 DEF Work, LiveAlerts
    <2>4. OnlyWorker(p, w, work)
      BY <2>1, <2>3, WorkerChanges DEF NotificationsInv
    <2> HIDE DEF work
    <2>5. WorkInHand' /\ OneClaimant' /\ PostsClaimed'
      BY <1>1, <2>3, <2>4, HandsKept
    <2>6. Tail(queue[p]) \in Seq(LiveAlerts) /\ Len(Tail(queue[p])) <= Len(queue[p])
      BY <1>4, <2>2
    <2>7. /\ queue' \in [Publishers -> Seq(LiveAlerts)]
          /\ \A q \in Publishers : Len(queue'[q]) <= QueueLimit
          /\ \A q \in Publishers : q # p => queue'[q] = queue[q]
      BY <2>1, <2>2, <2>6 DEF NotificationsInv, ChannelShape, NotificationsAssumption
    <2>8. ChannelShape'
      BY <1>1, <2>1, <2>4, <2>7 DEF NotificationsInv, ChannelShape, OnlyWorker
    <2>9. worker'[p][w] # NoWork
      BY <2>3, <2>4, NoWorkIsIdle DEF OnlyWorker
    <2>10. \A q \in Publishers : q # p => \A v \in Workers : worker'[q][v] = worker[q][v]
      BY <2>4 DEF OnlyWorker
    <2>11. QueueIsServed'
      BY <2>1, <2>7, <2>9, <2>10 DEF NotificationsInv, QueueIsServed
    <2> QED BY <1>2, <2>5, <2>8, <2>11 DEF NotificationsInv
  <1> QED BY <1>3, <1>4

LEMMA RestartStep ==
    ASSUME NotificationsAssumption, NotificationsInv, NEW p \in Publishers, NEW w \in Workers,
           RestartIfQueued(p, w)
    PROVE  NotificationsInv'
  <1>1. /\ w \in callback[p] /\ callback' = [callback EXCEPT ![p] = @ \ {w}]
        /\ UNCHANGED <<queue, claims, posts, private, observation, schedule, published, deaths>>
    BY DEF RestartIfQueued
  <1>2. RecordShape'
    BY <1>1 DEF NotificationsInv, RecordShape
  <1>3. /\ callback' \in [Publishers -> SUBSET Workers]
        /\ \A q \in Publishers : q # p => callback'[q] = callback[q]
    BY <1>1 DEF NotificationsInv, ChannelShape
  <1>4. CASE queue[p] = <<>>
    <2>1. UNCHANGED <<worker, current>>
      BY <1>4 DEF RestartIfQueued
    <2>2. QueueIsServed'
      BY <1>1, <1>3, <1>4, <2>1 DEF NotificationsInv, QueueIsServed
    <2>3. ChannelShape'
      BY <1>1, <1>3, <2>1 DEF NotificationsInv, ChannelShape
    <2> QED BY <1>1, <1>2, <2>1, <2>2, <2>3, HandsUnchanged DEF NotificationsInv
  <1>5. CASE queue[p] # <<>>
    <2>1. PICK v \in FreeWorkers(p) \cup {w} : StartWorker(p, v)
      BY <1>5 DEF RestartIfQueued
    <2>2. v \in Workers
      BY DEF FreeWorkers
    <2> DEFINE work == [worker[p][v] EXCEPT !.stage = "loop"]
    <2>3. OnlyWorker(p, v, work) /\ work.stage = "loop" /\ current' \in [Publishers -> Workers]
      BY <2>1, <2>2, WorkerStarts DEF NotificationsInv
    <2> HIDE DEF work
    <2>4. WorkInHand' /\ OneClaimant' /\ PostsClaimed'
      BY <1>1, <2>2, <2>3, HandsKept
    <2>5. worker'[p][v] # NoWork
      BY <2>2, <2>3, NoWorkIsIdle DEF OnlyWorker
    <2>6. \A q \in Publishers : q # p => \A x \in Workers : worker'[q][x] = worker[q][x]
      BY <2>3 DEF OnlyWorker
    <2>7. QueueIsServed'
      BY <1>1, <1>3, <2>2, <2>5, <2>6 DEF NotificationsInv, QueueIsServed
    <2>8. ChannelShape'
      BY <1>1, <1>3, <2>3 DEF NotificationsInv, ChannelShape, OnlyWorker
    <2> QED BY <1>2, <2>4, <2>7, <2>8 DEF NotificationsInv
  <1> QED BY <1>4, <1>5

\* A worker that goes on, with the queues as they are, leaves them served.
LEMMA QueuesKept ==
    ASSUME NotificationsAssumption, NotificationsInv, NEW p \in Publishers, NEW w \in Workers,
           NEW work, OnlyWorker(p, w, work), work.stage # "none",
           UNCHANGED <<queue, current, callback>>
    PROVE  ChannelShape' /\ QueueIsServed'
  <1>1. worker'[p][w] # NoWork
    BY NoWorkIsIdle DEF OnlyWorker
  <1>2. \A q \in Publishers : q # p => \A v \in Workers : worker'[q][v] = worker[q][v]
    BY DEF OnlyWorker
  <1>3. QueueIsServed'
    BY <1>1, <1>2 DEF NotificationsInv, QueueIsServed
  <1>4. ChannelShape'
    BY DEF NotificationsInv, ChannelShape, OnlyWorker
  <1> QED BY <1>3, <1>4

LEMMA ClaimStep ==
    ASSUME NotificationsAssumption, NotificationsInv, NEW p \in Publishers, NEW w \in Workers,
           ClaimOnce(p, w)
    PROVE  NotificationsInv'
  <1> DEFINE a == worker[p][w].alert
  <1>1. /\ worker[p][w].stage = "claim"
        /\ UNCHANGED <<queue, current, callback, posts, private, observation, schedule, published,
                       deaths>>
    BY DEF ClaimOnce
  <1>2. worker[p][w] \in Work /\ a \in LiveAlerts /\ a \in Alerts
    BY <1>1 DEF NotificationsInv, ChannelShape, WorkInHand, LiveAlerts
  <1>3. CASE /\ ClaimKey(a) \notin claims /\ claims' = claims \cup {ClaimKey(a)}
             /\ worker' = [worker EXCEPT ![p][w].stage = "post"]
    <2> DEFINE work == [worker[p][w] EXCEPT !.stage = "post"]
    <2>1. work \in Work /\ work.stage = "post" /\ work.alert = a
      BY <1>2 DEF Work
    <2>2. worker' = [worker EXCEPT ![p][w] = work]
      BY <1>3
    <2>3. OnlyWorker(p, w, work)
      BY <2>1, <2>2, WorkerChanges DEF NotificationsInv
    <2> HIDE DEF work, a
    <2>4. posts[a] = 0
      BY <1>2, <1>3 DEF NotificationsInv, PostsClaimed, RecordShape
    <2>5. WorkInHand'
      <3>1. ASSUME NEW q \in Publishers, NEW v \in Workers, ~(q = p /\ v = w)
            PROVE  worker'[q][v] = worker[q][v]
        BY <2>3, <3>1 DEF OnlyWorker
      <3>2. worker'[p][w] = work
        BY <2>3 DEF OnlyWorker
      <3>3. ASSUME NEW q \in Publishers, NEW v \in Workers
            PROVE  /\ worker'[q][v].stage \in {"claim", "post"} => worker'[q][v].alert \in LiveAlerts
                   /\ worker'[q][v].stage = "post" =>
                         /\ ClaimKey(worker'[q][v].alert) \in claims'
                         /\ posts'[worker'[q][v].alert] = 0
        <4>1. CASE q = p /\ v = w
          <5>1. worker'[q][v].alert = a
            BY <2>1, <3>2, <4>1
          <5>2. a \in LiveAlerts /\ ClaimKey(a) \in claims' /\ posts'[a] = 0
            BY <1>1, <1>2, <1>3, <2>4
          <5> QED BY <5>1, <5>2
        <4>2. CASE ~(q = p /\ v = w)
          BY <1>1, <1>3, <3>1, <4>2 DEF NotificationsInv, WorkInHand
        <4> QED BY <4>1, <4>2
      <3> QED BY <3>3 DEF WorkInHand
    <2>6. ASSUME NEW q \in Publishers, NEW v \in Workers, worker[q][v].stage = "post"
          PROVE  ClaimKey(worker[q][v].alert) # ClaimKey(a)
      BY <1>3, <2>6 DEF NotificationsInv, WorkInHand
    <2>7. OneClaimant'
      BY <2>1, <2>3, <2>6 DEF NotificationsInv, OneClaimant, OnlyWorker
    <2>8. PostsClaimed'
      BY <1>1, <1>3 DEF NotificationsInv, PostsClaimed
    <2>9. RecordShape'
      BY <1>1, <1>2, <1>3 DEF NotificationsInv, RecordShape
    <2>10. ChannelShape' /\ QueueIsServed'
      BY <1>1, <2>1, <2>3, QueuesKept
    <2> QED BY <2>5, <2>7, <2>8, <2>9, <2>10 DEF NotificationsInv
  <1>4. CASE /\ worker' = [worker EXCEPT ![p][w] = [NoWork EXCEPT !.stage = "loop"]]
             /\ UNCHANGED claims
    <2> DEFINE work == [NoWork EXCEPT !.stage = "loop"]
    <2>1. work \in Work /\ work.stage = "loop"
      BY DEF Work, NoWork
    <2>2. OnlyWorker(p, w, work)
      BY <1>4, <2>1, WorkerChanges DEF NotificationsInv
    <2> HIDE DEF work
    <2>3. WorkInHand' /\ OneClaimant' /\ PostsClaimed'
      BY <1>1, <1>4, <2>1, <2>2, HandsKept
    <2>4. RecordShape'
      BY <1>1, <1>4 DEF NotificationsInv, RecordShape
    <2>5. ChannelShape' /\ QueueIsServed'
      BY <1>1, <2>1, <2>2, QueuesKept
    <2> QED BY <2>3, <2>4, <2>5 DEF NotificationsInv
  <1> QED BY <1>3, <1>4 DEF ClaimOnce

LEMMA PostStep ==
    ASSUME NotificationsAssumption, NotificationsInv, NEW p \in Publishers, NEW w \in Workers,
           PostAlert(p, w)
    PROVE  NotificationsInv'
  <1> DEFINE a == worker[p][w].alert
             loop == [NoWork EXCEPT !.stage = "loop"]
             again == [worker[p][w] EXCEPT !.attempt = @ + 1]
  <1>1. /\ worker[p][w].stage = "post"
        /\ UNCHANGED <<queue, current, callback, claims, private, observation, schedule, published,
                       deaths>>
    BY DEF PostAlert
  <1>2. /\ worker[p][w] \in Work /\ a \in LiveAlerts /\ a \in Alerts
        /\ ClaimKey(a) \in claims /\ posts[a] = 0
    BY <1>1 DEF NotificationsInv, ChannelShape, WorkInHand, LiveAlerts
  <1>3. loop \in Work /\ loop.stage = "loop"
    BY DEF Work, NoWork
  <1>4. again \in Work /\ again.stage = "post" /\ again.alert = a
    BY <1>1, <1>2 DEF Work
  <1>5. \/ worker' = [worker EXCEPT ![p][w] = loop] /\ posts' = [posts EXCEPT ![a] = @ + 1]
        \/ worker' = [worker EXCEPT ![p][w] = loop] /\ UNCHANGED posts
        \/ worker' = [worker EXCEPT ![p][w] = again] /\ UNCHANGED posts
    <2>1. CASE worker[p][w].attempt < PostAttempts
      BY <2>1 DEF PostAlert
    <2>2. CASE ~(worker[p][w].attempt < PostAttempts)
      BY <2>2 DEF PostAlert
    <2> QED BY <2>1, <2>2
  <1> HIDE DEF a, loop, again
  <1>6. CASE worker' = [worker EXCEPT ![p][w] = loop] /\ posts' = [posts EXCEPT ![a] = @ + 1]
    <2>1. OnlyWorker(p, w, loop)
      BY <1>3, <1>6, WorkerChanges DEF NotificationsInv
    <2>2. /\ posts' \in [Alerts -> Nat] /\ posts'[a] = 1
          /\ \A b \in Alerts : b # a => posts'[b] = posts[b]
      BY <1>2, <1>6 DEF NotificationsInv, RecordShape
    <2>3. ASSUME NEW q \in Publishers, NEW v \in Workers, worker'[q][v].stage = "post"
          PROVE  worker'[q][v] = worker[q][v] /\ worker[q][v].alert # a
      BY <1>1, <1>3, <2>1, <2>3 DEF NotificationsInv, OneClaimant, OnlyWorker, a
    <2>4. WorkInHand'
      <3>1. ASSUME NEW q \in Publishers, NEW v \in Workers, worker'[q][v].stage = "claim"
            PROVE  worker'[q][v].alert \in LiveAlerts
        BY <1>3, <2>1, <3>1 DEF NotificationsInv, WorkInHand, OnlyWorker
      <3>2. ASSUME NEW q \in Publishers, NEW v \in Workers, worker'[q][v].stage = "post"
            PROVE  /\ worker'[q][v].alert \in LiveAlerts
                   /\ ClaimKey(worker'[q][v].alert) \in claims' /\ posts'[worker'[q][v].alert] = 0
        BY <1>1, <2>2, <2>3, <3>2 DEF NotificationsInv, WorkInHand, LiveAlerts
      <3> QED BY <3>1, <3>2 DEF WorkInHand
    <2>5. OneClaimant'
      BY <2>3 DEF NotificationsInv, OneClaimant
    <2>6. PostsClaimed'
      BY <1>1, <1>2, <2>2 DEF NotificationsInv, PostsClaimed
    <2>7. RecordShape'
      BY <1>1, <2>2 DEF NotificationsInv, RecordShape
    <2>8. ChannelShape' /\ QueueIsServed'
      BY <1>1, <1>3, <2>1, QueuesKept
    <2> QED BY <2>4, <2>5, <2>6, <2>7, <2>8 DEF NotificationsInv
  <1>7. CASE worker' = [worker EXCEPT ![p][w] = loop] /\ UNCHANGED posts
    <2>1. OnlyWorker(p, w, loop)
      BY <1>3, <1>7, WorkerChanges DEF NotificationsInv
    <2>2. WorkInHand' /\ OneClaimant' /\ PostsClaimed'
      BY <1>1, <1>3, <1>7, <2>1, HandsKept
    <2>3. RecordShape'
      BY <1>1, <1>7 DEF NotificationsInv, RecordShape
    <2>4. ChannelShape' /\ QueueIsServed'
      BY <1>1, <1>3, <2>1, QueuesKept
    <2> QED BY <2>2, <2>3, <2>4 DEF NotificationsInv
  <1>8. CASE worker' = [worker EXCEPT ![p][w] = again] /\ UNCHANGED posts
    <2>1. OnlyWorker(p, w, again)
      BY <1>4, <1>8, WorkerChanges DEF NotificationsInv
    <2>2. \A q \in Publishers, v \in Workers :
             worker'[q][v].stage = worker[q][v].stage /\ worker'[q][v].alert = worker[q][v].alert
      BY <1>1, <1>4, <2>1 DEF OnlyWorker, a
    <2>3. WorkInHand' /\ OneClaimant' /\ PostsClaimed'
      BY <1>1, <1>8, <2>2 DEF NotificationsInv, WorkInHand, OneClaimant, PostsClaimed
    <2>4. RecordShape'
      BY <1>1, <1>8 DEF NotificationsInv, RecordShape
    <2>5. ChannelShape' /\ QueueIsServed'
      BY <1>1, <1>4, <2>1, QueuesKept
    <2> QED BY <2>3, <2>4, <2>5 DEF NotificationsInv
  <1> QED BY <1>5, <1>6, <1>7, <1>8

LEMMA DeathStep ==
    ASSUME NotificationsAssumption, NotificationsInv, NEW p \in Publishers, PublisherDies(p)
    PROVE  NotificationsInv'
  <1>1. /\ queue' = [queue EXCEPT ![p] = <<>>]
        /\ worker' = [worker EXCEPT ![p] = [w \in Workers |-> NoWork]]
        /\ callback' = [callback EXCEPT ![p] = {}]
        /\ current' = [current EXCEPT ![p] = FirstWorker]
        /\ observation' = [observation EXCEPT ![p] = "READY"]
        /\ schedule' = [q \in Schedulers |-> IF q = p THEN "waiting" ELSE schedule[q]]
        /\ UNCHANGED <<claims, posts, private, published>>
    BY DEF PublisherDies
  <1>2. /\ worker' \in [Publishers -> [Workers -> Work]]
        /\ \A q \in Publishers, v \in Workers :
              worker'[q][v] = IF q = p THEN NoWork ELSE worker[q][v]
    BY <1>1, NoWorkIsIdle DEF NotificationsInv, ChannelShape
  <1>3. /\ queue' \in [Publishers -> Seq(LiveAlerts)]
        /\ \A q \in Publishers : queue'[q] = IF q = p THEN <<>> ELSE queue[q]
    BY <1>1 DEF NotificationsInv, ChannelShape
  <1>4. /\ callback' \in [Publishers -> SUBSET Workers]
        /\ \A q \in Publishers : q # p => callback'[q] = callback[q]
    BY <1>1 DEF NotificationsInv, ChannelShape
  <1>5. ChannelShape'
    <2>1. Len(<<>>) <= QueueLimit
      BY DEF NotificationsAssumption
    <2>2. \A q \in Publishers : Len(queue'[q]) <= QueueLimit
      BY <1>3, <2>1 DEF NotificationsInv, ChannelShape
    <2>3. current' \in [Publishers -> Workers]
      BY <1>1, NoWorkIsIdle DEF NotificationsInv, ChannelShape
    <2> QED BY <1>2, <1>3, <1>4, <2>2, <2>3 DEF ChannelShape
  <1>6. RecordShape'
    BY <1>1 DEF NotificationsInv, RecordShape
  <1>7. WorkInHand'
    BY <1>1, <1>2, NoWorkIsIdle DEF NotificationsInv, WorkInHand
  <1>8. OneClaimant' /\ PostsClaimed'
    <2>1. ASSUME NEW q \in Publishers, NEW v \in Workers, worker'[q][v].stage = "post"
          PROVE  worker'[q][v] = worker[q][v]
      BY <1>2, <2>1, NoWorkIsIdle
    <2>2. OneClaimant'
      BY <2>1 DEF NotificationsInv, OneClaimant
    <2>3. PostsClaimed'
      BY <1>1 DEF NotificationsInv, PostsClaimed
    <2> QED BY <2>2, <2>3
  <1>9. QueueIsServed'
    <2>1. ASSUME NEW q \in Publishers, queue'[q] # <<>>
          PROVE  q # p /\ queue[q] # <<>>
      BY <1>3, <2>1
    <2>2. ASSUME NEW q \in Publishers, q # p, \E v \in Workers : worker[q][v] # NoWork
          PROVE  \E v \in Workers : worker'[q][v] # NoWork
      BY <1>2, <2>2
    <2> QED BY <1>4, <2>1, <2>2 DEF NotificationsInv, QueueIsServed
  <1> QED BY <1>5, <1>6, <1>7, <1>8, <1>9 DEF NotificationsInv

LEMMA NotificationsStep ==
    ASSUME NotificationsAssumption, NotificationsInv, [NotificationsNext]_notificationVars
    PROVE  NotificationsInv'
  <1>1. CASE UNCHANGED notificationVars
    <2>1. UNCHANGED <<queue, worker, current, callback, claims, posts, private, observation,
                      schedule>>
      BY <1>1 DEF notificationVars
    <2>2. ChannelShape' /\ RecordShape' /\ QueueIsServed'
      BY <2>1 DEF NotificationsInv, ChannelShape, RecordShape, QueueIsServed
    <2> QED BY <2>1, <2>2, HandsUnchanged DEF NotificationsInv
  <1>2. ASSUME NEW p \in Publishers, WorkerStep(p) PROVE NotificationsInv'
    BY <1>2, TakesStep, RestartStep, ClaimStep, PostStep DEF WorkerStep
  <1>3. ASSUME NEW p \in Publishers, NEW a \in Alerts, Publish(p, a) PROVE NotificationsInv'
    <2>1. UNCHANGED <<callback, claims, posts, schedule, deaths>>
      BY <1>3 DEF Publish
    <2>2. CASE a.simulated
      <3>1. UNCHANGED <<queue, worker, current, private, observation>>
        BY <1>3, <2>2 DEF Publish, HeldBack
      <3> QED BY <2>1, <3>1, HandsUnchanged
              DEF NotificationsInv, ChannelShape, RecordShape, QueueIsServed
    <2>3. CASE ~a.simulated
      <3>0. a \in LiveAlerts
        BY <2>3 DEF LiveAlerts
      <3>1. ChannelSend(p, a)
        BY <1>3, <2>3 DEF Publish, HeldBack
      <3>2. private' \in [DirectGateways -> SUBSET LiveAlerts]
        BY <1>3, <2>3, <3>0 DEF Publish, HeldBack, NotificationsInv, RecordShape
      <3>3. observation' \in [Publishers -> {"READY", "UNAVAILABLE"}]
        BY <1>3, <2>3 DEF Publish, HeldBack, NotificationsInv, RecordShape
      <3>4. RecordShape'
        BY <2>1, <3>2, <3>3 DEF NotificationsInv, RecordShape
      <3> QED BY <2>1, <3>0, <3>1, <3>4, SendStep DEF NotificationsInv
    <2> QED BY <2>2, <2>3
  <1>4. ASSUME NEW p \in Publishers, PostUpdate(p) PROVE NotificationsInv'
    <2>1. /\ ChannelSend(p, SlotAlert) /\ p \in Schedulers
          /\ schedule' = [schedule EXCEPT ![p] = "draining"]
          /\ UNCHANGED <<callback, claims, posts, private, observation, published, deaths>>
      BY <1>4 DEF PostUpdate
    <2>2. SlotAlert \in LiveAlerts
      BY DEF NotificationsAssumption, LiveAlerts
    <2>3. RecordShape'
      BY <2>1 DEF NotificationsInv, RecordShape
    <2> QED BY <2>1, <2>2, <2>3, SendStep DEF NotificationsInv
  <1>5. ASSUME NEW p \in Publishers, Drained(p) PROVE NotificationsInv'
    <2>1. /\ p \in Schedulers /\ schedule' = [schedule EXCEPT ![p] = "posted"]
          /\ UNCHANGED <<queue, worker, current, callback, claims, posts, private, observation,
                         published, deaths>>
      BY <1>5 DEF Drained
    <2>2. RecordShape'
      BY <2>1 DEF NotificationsInv, RecordShape
    <2>3. ChannelShape' /\ QueueIsServed'
      BY <2>1 DEF NotificationsInv, ChannelShape, QueueIsServed
    <2> QED BY <2>1, <2>2, <2>3, HandsUnchanged DEF NotificationsInv
  <1> QED BY <1>1, <1>2, <1>3, <1>4, <1>5, DeathStep DEF NotificationsNext

\* The channel carries an alert at most once and under a claim, no simulated event leaves the
\* process, and no queued alert is left with nothing to send it, for any number of processes,
\* workers and deaths (notifications/telegram_channel.py, notifications/service.py).
THEOREM NotificationsSafe ==
    ASSUME NotificationsAssumption
    PROVE  NotificationsSpec => [](NotificationsTypeOK /\ NotificationsSound)
  <1>1. NotificationsInit => NotificationsInv
    <2> SUFFICES ASSUME NotificationsInit PROVE NotificationsInv
      OBVIOUS
    <2>1. \A p \in Publishers, w \in Workers : worker[p][w] = NoWork
      BY DEF NotificationsInit
    <2>2. <<>> \in Seq(LiveAlerts) /\ Len(<<>>) <= QueueLimit
      BY DEF NotificationsAssumption
    <2>3. ChannelShape /\ QueueIsServed
      BY <2>2, NoWorkIsIdle DEF NotificationsInit, ChannelShape, QueueIsServed
    <2>4. RecordShape /\ PostsClaimed
      BY DEF NotificationsInit, RecordShape, PostsClaimed
    <2>5. WorkInHand /\ OneClaimant
      BY <2>1, NoWorkIsIdle DEF WorkInHand, OneClaimant
    <2> QED BY <2>3, <2>4, <2>5 DEF NotificationsInv
  <1>2. NotificationsInv /\ [NotificationsNext]_notificationVars => NotificationsInv'
    BY NotificationsStep
  <1>3. NotificationsInv => NotificationsTypeOK /\ NotificationsSound
    <2> SUFFICES ASSUME NotificationsInv PROVE NotificationsTypeOK /\ NotificationsSound
      OBVIOUS
    <2>1. NotificationsTypeOK
      BY DEF NotificationsInv, ChannelShape, RecordShape, NotificationsTypeOK, Work
    <2>2. AlertsPostedOnce
      BY DEF NotificationsInv, RecordShape, PostsClaimed, AlertsPostedOnce, LiveAlerts
    <2> QED BY <2>1, <2>2 DEF NotificationsInv, NotificationsSound
  <1> QED BY <1>1, <1>2, <1>3, PTL DEF NotificationsSpec

(***************************************************************************)
(* The monitor relay.  Every semaphore counts the fetches that hold it,    *)
(* and as the routes' own slots are fewer than the common ones, a fetch    *)
(* that waits for a common slot finds one.                                 *)
(***************************************************************************)
PendingReads ==
    /\ sharedKeys = {k \in Keys : fetch[k] # "none"}
    /\ IsFiniteSet(sharedKeys) /\ Cardinality(sharedKeys) <= PendingLimit
    /\ \A c \in Clients, k \in Keys : client[c] = <<"waiting", k>> => fetch[k] # "none"

SlotsCounted ==
    /\ chartFree = ChartSlots - In(ChartKeys, {"slotted", "fetching"})
    /\ marketFree = MarketSlots - In(MarketKeys, {"slotted", "fetching"})
    /\ inflightFree = InflightSlots - In(Keys, {"fetching"})

HealthNeverWaits == fetch["health"] \notin {"queued", "busy"}

RelayInv == RelayTypeOK /\ PendingReads /\ SlotsCounted /\ HealthNeverWaits

LEMMA KeysOfRoutes ==
    ASSUME RelayAssumption
    PROVE  /\ ChartKeys \subseteq Keys /\ MarketKeys \subseteq Keys /\ "health" \in Keys
           /\ \A k \in Keys : \/ k \in ChartKeys /\ k \notin MarketKeys /\ k # "health"
                              \/ k \notin ChartKeys /\ k \in MarketKeys /\ k # "health"
                              \/ k \notin ChartKeys /\ k \notin MarketKeys /\ k = "health"
  BY DEF RelayAssumption, Keys

\* The fetches in some steps are finitely many, for only a shared key has one.
LEMMA CountIsNat ==
    ASSUME PendingReads, NEW keys \in SUBSET Keys, NEW steps, "none" \notin steps
    PROVE  /\ IsFiniteSet({k \in keys : fetch[k] \in steps})
           /\ In(keys, steps) \in Nat
           /\ In(keys, steps) = Cardinality({k \in keys : fetch[k] \in steps})
  <1>1. {k \in keys : fetch[k] \in steps} \subseteq sharedKeys
    BY DEF PendingReads
  <1>2. IsFiniteSet({k \in keys : fetch[k] \in steps})
    BY <1>1, FS_Subset DEF PendingReads
  <1> QED BY <1>2, FS_CardinalityType DEF In

\* The counts follow one fetch's move.
LEMMA CountMoves ==
    ASSUME RelayTypeOK, PendingReads, NEW keys \in SUBSET Keys, NEW steps, "none" \notin steps,
           NEW k \in Keys, fetch' = [fetch EXCEPT ![k] = fetch'[k]]
    PROVE  LET held == Cardinality({j \in keys : fetch[j] \in steps})
               heldAfter == Cardinality({j \in keys : fetch'[j] \in steps})
           IN  /\ k \notin keys \/ (fetch[k] \in steps <=> fetch'[k] \in steps) => heldAfter = held
               /\ k \in keys /\ fetch[k] \notin steps /\ fetch'[k] \in steps => heldAfter = held + 1
               /\ k \in keys /\ fetch[k] \in steps /\ fetch'[k] \notin steps => heldAfter = held - 1
  <1> DEFINE S == {j \in keys : fetch[j] \in steps}
             T == {j \in keys : fetch'[j] \in steps}
  <1>0. IsFiniteSet(S)
    BY CountIsNat
  <1>1. \A j \in Keys : fetch'[j] = IF j = k THEN fetch'[k] ELSE fetch[j]
    BY DEF RelayTypeOK
  <1>2. k \notin keys \/ (fetch[k] \in steps <=> fetch'[k] \in steps) => T = S
    BY <1>1
  <1>3. k \in keys /\ fetch[k] \notin steps /\ fetch'[k] \in steps => T = S \cup {k} /\ k \notin S
    BY <1>1
  <1>4. k \in keys /\ fetch[k] \in steps /\ fetch'[k] \notin steps => T = S \ {k} /\ k \in S
    BY <1>1
  <1> HIDE DEF S, T
  <1>5. k \notin S => Cardinality(S \cup {k}) = Cardinality(S) + 1
    BY <1>0, FS_AddElement
  <1>6. k \in S => Cardinality(S \ {k}) = Cardinality(S) - 1
    BY <1>0, FS_RemoveElement
  <1>7. /\ k \notin keys \/ (fetch[k] \in steps <=> fetch'[k] \in steps) => Cardinality(T) = Cardinality(S)
        /\ k \in keys /\ fetch[k] \notin steps /\ fetch'[k] \in steps => Cardinality(T) = Cardinality(S) + 1
        /\ k \in keys /\ fetch[k] \in steps /\ fetch'[k] \notin steps => Cardinality(T) = Cardinality(S) - 1
    BY <1>2, <1>3, <1>4, <1>5, <1>6
  <1> QED BY <1>7 DEF S, T

ChartHeld == In(ChartKeys, {"slotted", "fetching"})
MarketHeld == In(MarketKeys, {"slotted", "fetching"})
CommonHeld == In(Keys, {"fetching"})

\* A fetch in this step has a slot of its route.
IsHolding(step) == step \in {"slotted", "fetching"}

LEMMA HeldAreNats ==
    ASSUME RelayAssumption, PendingReads
    PROVE  ChartHeld \in Nat /\ MarketHeld \in Nat /\ CommonHeld \in Nat
  BY CountIsNat, KeysOfRoutes DEF ChartHeld, MarketHeld, CommonHeld

LEMMA SlotsMove ==
    ASSUME RelayAssumption, RelayTypeOK, PendingReads, NEW k \in Keys,
           fetch' = [fetch EXCEPT ![k] = fetch'[k]]
    PROVE  /\ k \notin ChartKeys \/ (IsHolding(fetch[k]) <=> IsHolding(fetch'[k])) =>
                 ChartHeld' = ChartHeld
           /\ k \in ChartKeys /\ ~IsHolding(fetch[k]) /\ IsHolding(fetch'[k]) => ChartHeld' = ChartHeld + 1
           /\ k \in ChartKeys /\ IsHolding(fetch[k]) /\ ~IsHolding(fetch'[k]) => ChartHeld' = ChartHeld - 1
           /\ k \notin MarketKeys \/ (IsHolding(fetch[k]) <=> IsHolding(fetch'[k])) =>
                 MarketHeld' = MarketHeld
           /\ k \in MarketKeys /\ ~IsHolding(fetch[k]) /\ IsHolding(fetch'[k]) => MarketHeld' = MarketHeld + 1
           /\ k \in MarketKeys /\ IsHolding(fetch[k]) /\ ~IsHolding(fetch'[k]) => MarketHeld' = MarketHeld - 1
           /\ (fetch[k] = "fetching" <=> fetch'[k] = "fetching") => CommonHeld' = CommonHeld
           /\ fetch[k] # "fetching" /\ fetch'[k] = "fetching" => CommonHeld' = CommonHeld + 1
           /\ fetch[k] = "fetching" /\ fetch'[k] # "fetching" => CommonHeld' = CommonHeld - 1
  <1> DEFINE holding == {"slotted", "fetching"}
             C(keys, steps) == Cardinality({j \in keys : fetch[j] \in steps})
             D(keys, steps) == Cardinality({j \in keys : fetch'[j] \in steps})
  <1>0. "none" \notin holding /\ "none" \notin {"fetching"}
    OBVIOUS
  <1>1. /\ ChartHeld = C(ChartKeys, holding) /\ ChartHeld' = D(ChartKeys, holding)
        /\ MarketHeld = C(MarketKeys, holding) /\ MarketHeld' = D(MarketKeys, holding)
        /\ CommonHeld = C(Keys, {"fetching"}) /\ CommonHeld' = D(Keys, {"fetching"})
    BY DEF ChartHeld, MarketHeld, CommonHeld, In
  <1>2. ASSUME NEW keys \in SUBSET Keys, NEW steps, "none" \notin steps
        PROVE  /\ k \notin keys \/ (fetch[k] \in steps <=> fetch'[k] \in steps) =>
                     D(keys, steps) = C(keys, steps)
               /\ k \in keys /\ fetch[k] \notin steps /\ fetch'[k] \in steps =>
                     D(keys, steps) = C(keys, steps) + 1
               /\ k \in keys /\ fetch[k] \in steps /\ fetch'[k] \notin steps =>
                     D(keys, steps) = C(keys, steps) - 1
               /\ C(keys, steps) \in Nat
    BY <1>2, CountMoves, CountIsNat
  <1> HIDE DEF C, D
  <1>3. /\ k \notin ChartKeys \/ (IsHolding(fetch[k]) <=> IsHolding(fetch'[k])) =>
              ChartHeld' = ChartHeld
        /\ k \in ChartKeys /\ ~IsHolding(fetch[k]) /\ IsHolding(fetch'[k]) => ChartHeld' = ChartHeld + 1
        /\ k \in ChartKeys /\ IsHolding(fetch[k]) /\ ~IsHolding(fetch'[k]) => ChartHeld' = ChartHeld - 1
    BY <1>0, <1>1, <1>2, KeysOfRoutes DEF IsHolding
  <1>4. /\ k \notin MarketKeys \/ (IsHolding(fetch[k]) <=> IsHolding(fetch'[k])) =>
              MarketHeld' = MarketHeld
        /\ k \in MarketKeys /\ ~IsHolding(fetch[k]) /\ IsHolding(fetch'[k]) => MarketHeld' = MarketHeld + 1
        /\ k \in MarketKeys /\ IsHolding(fetch[k]) /\ ~IsHolding(fetch'[k]) => MarketHeld' = MarketHeld - 1
    BY <1>0, <1>1, <1>2, KeysOfRoutes DEF IsHolding
  <1>5. /\ (fetch[k] = "fetching" <=> fetch'[k] = "fetching") => CommonHeld' = CommonHeld
        /\ fetch[k] # "fetching" /\ fetch'[k] = "fetching" => CommonHeld' = CommonHeld + 1
        /\ fetch[k] = "fetching" /\ fetch'[k] # "fetching" => CommonHeld' = CommonHeld - 1
    BY <1>0, <1>1, <1>2
  <1> QED BY <1>3, <1>4, <1>5

LEMMA CardinalityOfUnion ==
    ASSUME NEW S, NEW T, IsFiniteSet(S), IsFiniteSet(T)
    PROVE  IsFiniteSet(S \cup T) /\ Cardinality(S \cup T) <= Cardinality(S) + Cardinality(T)
  <1>1. /\ IsFiniteSet(S \cup T)
        /\ Cardinality(S \cup T) = Cardinality(S) + Cardinality(T) - Cardinality(S \cap T)
    BY FS_Union
  <1>2. IsFiniteSet(S \cap T)
    BY FS_Intersection
  <1>3. Cardinality(S) \in Nat /\ Cardinality(T) \in Nat /\ Cardinality(S \cap T) \in Nat
    BY <1>2, FS_CardinalityType
  <1> QED BY <1>1, <1>3

\* A fetch with its route's slot, or the health read, finds the common semaphore free.
LEMMA CommonSlotIsFree ==
    ASSUME RelayAssumption, RelayInv, NEW k \in Keys, fetch[k] = "slotted"
    PROVE  inflightFree > 0
  <1> DEFINE holding == {"slotted", "fetching"}
             Chart == {j \in ChartKeys : fetch[j] \in {"fetching"}}
             Market == {j \in MarketKeys : fetch[j] \in {"fetching"}}
             Health == {j \in {"health"} : fetch[j] \in {"fetching"}}
  <1>1. /\ IsFiniteSet(Chart) /\ IsFiniteSet(Market) /\ IsFiniteSet(Health)
        /\ IsFiniteSet({j \in ChartKeys : fetch[j] \in holding})
        /\ IsFiniteSet({j \in MarketKeys : fetch[j] \in holding})
        /\ ChartHeld = Cardinality({j \in ChartKeys : fetch[j] \in holding})
        /\ MarketHeld = Cardinality({j \in MarketKeys : fetch[j] \in holding})
        /\ CommonHeld = Cardinality({j \in Keys : fetch[j] \in {"fetching"}})
    BY CountIsNat, KeysOfRoutes DEF RelayInv, ChartHeld, MarketHeld, CommonHeld
  <1>2. {j \in Keys : fetch[j] \in {"fetching"}} = (Chart \cup Market) \cup Health
    BY DEF Keys
  <1>3. /\ ChartHeld = ChartSlots - chartFree /\ MarketHeld = MarketSlots - marketFree
        /\ CommonHeld = InflightSlots - inflightFree
        /\ chartFree \in Nat /\ marketFree \in Nat /\ inflightFree \in Nat
    <2>1. chartFree \in Nat /\ marketFree \in Nat /\ inflightFree \in Nat
      BY DEF RelayInv, RelayTypeOK, RelayAssumption
    <2>2. /\ chartFree = ChartSlots - ChartHeld /\ marketFree = MarketSlots - MarketHeld
          /\ inflightFree = InflightSlots - CommonHeld
      BY DEF RelayInv, SlotsCounted, ChartHeld, MarketHeld, CommonHeld
    <2> QED BY <2>1, <2>2, HeldAreNats DEF RelayAssumption, RelayInv
  <1>4. Cardinality(Chart) <= ChartHeld /\ (k \in ChartKeys => Cardinality(Chart) < ChartHeld)
    <2>1. Chart \subseteq {j \in ChartKeys : fetch[j] \in holding}
      OBVIOUS
    <2>2. k \in ChartKeys => k \in {j \in ChartKeys : fetch[j] \in holding} /\ k \notin Chart
      OBVIOUS
    <2> HIDE DEF Chart
    <2> QED BY <1>1, <2>1, <2>2, FS_Subset, FS_CardinalityType
  <1>5. Cardinality(Market) <= MarketHeld /\ (k \in MarketKeys => Cardinality(Market) < MarketHeld)
    <2>1. Market \subseteq {j \in MarketKeys : fetch[j] \in holding}
      OBVIOUS
    <2>2. k \in MarketKeys => k \in {j \in MarketKeys : fetch[j] \in holding} /\ k \notin Market
      OBVIOUS
    <2> HIDE DEF Market
    <2> QED BY <1>1, <2>1, <2>2, FS_Subset, FS_CardinalityType
  <1>6. Cardinality(Health) <= 1 /\ (k = "health" => Cardinality(Health) = 0)
    <2>1. Health \subseteq {"health"} /\ (k = "health" => Health = {})
      OBVIOUS
    <2> HIDE DEF Health
    <2>2. IsFiniteSet({"health"}) /\ Cardinality({"health"}) = 1
      BY FS_Singleton
    <2>3. Cardinality(Health) <= 1
      BY <2>1, <2>2, FS_Subset
    <2> QED BY <2>1, <2>3, FS_EmptySet
  <1> HIDE DEF Chart, Market, Health
  <1>7. CommonHeld <= Cardinality(Chart) + Cardinality(Market) + Cardinality(Health)
    <2>1. /\ IsFiniteSet(Chart \cup Market)
          /\ Cardinality(Chart \cup Market) <= Cardinality(Chart) + Cardinality(Market)
      BY <1>1, CardinalityOfUnion
    <2>2. Cardinality((Chart \cup Market) \cup Health)
             <= Cardinality(Chart \cup Market) + Cardinality(Health)
      BY <1>1, <2>1, CardinalityOfUnion
    <2>3. /\ Cardinality(Chart) \in Nat /\ Cardinality(Market) \in Nat
          /\ Cardinality(Health) \in Nat /\ Cardinality(Chart \cup Market) \in Nat
          /\ CommonHeld \in Nat
      BY <1>1, <2>1, FS_CardinalityType, HeldAreNats DEF RelayInv
    <2> QED BY <1>1, <1>2, <2>1, <2>2, <2>3
  <1>8. /\ Cardinality(Chart) \in Nat /\ Cardinality(Market) \in Nat /\ Cardinality(Health) \in Nat
    BY <1>1, FS_CardinalityType
  <1>9. CommonHeld < InflightSlots
    BY <1>3, <1>4, <1>5, <1>6, <1>7, <1>8, KeysOfRoutes, HeldAreNats DEF RelayAssumption, RelayInv
  <1> QED BY <1>3, <1>9, HeldAreNats DEF RelayAssumption, RelayInv

\* A step of one fetch, its slots aside.
LEMMA FetchMoves ==
    ASSUME RelayAssumption, RelayInv, NEW k \in Keys, fetch[k] # "none",
           NEW to \in {"slotted", "fetching", "body", "busy", "failed"},
           k = "health" => to # "busy", TaskMoves(k, to)
    PROVE  /\ PendingReads' /\ HealthNeverWaits'
           /\ fetch' \in [Keys -> FetchOutcomes \cup {"none", "queued", "slotted", "fetching"}]
           /\ UNCHANGED <<client, sharedKeys, recent, asked>>
  <1>1. /\ fetch' = [fetch EXCEPT ![k] = to] /\ UNCHANGED <<client, sharedKeys, recent, asked>>
    BY DEF TaskMoves
  <1>2. fetch' \in [Keys -> FetchOutcomes \cup {"none", "queued", "slotted", "fetching"}]
    BY <1>1 DEF RelayInv, RelayTypeOK, FetchOutcomes
  <1>3. \A j \in Keys : fetch'[j] = IF j = k THEN to ELSE fetch[j]
    BY <1>1 DEF RelayInv, RelayTypeOK
  <1>4. PendingReads'
    BY <1>1, <1>3 DEF RelayInv, PendingReads
  <1>5. HealthNeverWaits'
    BY <1>3, KeysOfRoutes DEF RelayInv, HealthNeverWaits
  <1> QED BY <1>1, <1>2, <1>4, <1>5

\* The counts, in terms of what is held.
LEMMA CountsOfHeld ==
    SlotsCounted <=> /\ chartFree = ChartSlots - ChartHeld /\ marketFree = MarketSlots - MarketHeld
                     /\ inflightFree = InflightSlots - CommonHeld
  BY DEF SlotsCounted, ChartHeld, MarketHeld, CommonHeld

LEMMA CountsOfHeldNext ==
    SlotsCounted' <=> /\ chartFree' = ChartSlots - ChartHeld' /\ marketFree' = MarketSlots - MarketHeld'
                      /\ inflightFree' = InflightSlots - CommonHeld'
  BY DEF SlotsCounted, ChartHeld, MarketHeld, CommonHeld

\* The ranges of the semaphores follow from the counts.
LEMMA SlotsStayInRange ==
    ASSUME RelayAssumption, PendingReads', SlotsCounted',
           chartFree' >= 0, marketFree' >= 0, inflightFree' >= 0
    PROVE  /\ chartFree' \in 0 .. ChartSlots /\ marketFree' \in 0 .. MarketSlots
           /\ inflightFree' \in 0 .. InflightSlots
  <1>1. ASSUME NEW keys \in SUBSET Keys, NEW steps, "none" \notin steps
        PROVE  Cardinality({j \in keys : fetch'[j] \in steps}) \in Nat
    <2>1. {j \in keys : fetch'[j] \in steps} \subseteq sharedKeys'
      BY <1>1 DEF PendingReads
    <2> QED BY <2>1, FS_Subset, FS_CardinalityType DEF PendingReads
  <1>2. ChartHeld' \in Nat /\ MarketHeld' \in Nat /\ CommonHeld' \in Nat
    BY <1>1, KeysOfRoutes DEF ChartHeld, MarketHeld, CommonHeld, In
  <1> QED BY <1>2, CountsOfHeldNext DEF RelayAssumption

LEMMA FetchStep ==
    ASSUME RelayAssumption, RelayInv, NEW k \in Keys,
           \/ AcquireSlot(k) \/ AcquireInflight(k) \/ WaitTimesOut(k) \/ FetchEnds(k)
    PROVE  RelayInv'
  <1>0. /\ chartFree = ChartSlots - ChartHeld /\ marketFree = MarketSlots - MarketHeld
        /\ inflightFree = InflightSlots - CommonHeld
        /\ ChartHeld \in Nat /\ MarketHeld \in Nat /\ CommonHeld \in Nat
        /\ chartFree \in Nat /\ marketFree \in Nat /\ inflightFree \in Nat
        /\ ChartSlots \in Nat /\ MarketSlots \in Nat /\ InflightSlots \in Nat
    BY CountsOfHeld, HeldAreNats DEF RelayInv, RelayTypeOK, RelayAssumption
  <1>h. ChartHeld \in Int /\ MarketHeld \in Int /\ CommonHeld \in Int
    BY <1>0
  <1>1. ASSUME NEW to \in {"slotted", "fetching", "body", "busy", "failed"}, fetch[k] # "none",
               k = "health" => to # "busy", TaskMoves(k, to), SlotsCounted',
               chartFree' >= 0, marketFree' >= 0, inflightFree' >= 0
        PROVE  RelayInv'
    <2>1. /\ PendingReads' /\ HealthNeverWaits'
          /\ fetch' \in [Keys -> FetchOutcomes \cup {"none", "queued", "slotted", "fetching"}]
          /\ UNCHANGED <<client, sharedKeys, recent, asked>>
      BY <1>1, FetchMoves
    <2>2. /\ chartFree' \in 0 .. ChartSlots /\ marketFree' \in 0 .. MarketSlots
          /\ inflightFree' \in 0 .. InflightSlots
      BY <1>1, <2>1, SlotsStayInRange
    <2> QED BY <1>1, <2>1, <2>2 DEF RelayInv, RelayTypeOK
  <1>2. CASE AcquireSlot(k)
    <2>1. fetch[k] = "queued" /\ TaskMoves(k, "slotted") /\ fetch' = [fetch EXCEPT ![k] = "slotted"]
      BY <1>2 DEF AcquireSlot, TaskMoves
    <2>2. /\ k \in ChartKeys => ChartHeld' = ChartHeld + 1
          /\ k \notin ChartKeys => ChartHeld' = ChartHeld
          /\ k \in MarketKeys => MarketHeld' = MarketHeld + 1
          /\ k \notin MarketKeys => MarketHeld' = MarketHeld
          /\ CommonHeld' = CommonHeld
      <3>1. fetch' = [fetch EXCEPT ![k] = fetch'[k]] /\ fetch'[k] = "slotted"
        BY <2>1 DEF RelayInv, RelayTypeOK
      <3> QED BY <1>h, <2>1, <3>1, SlotsMove DEF RelayInv, IsHolding
    <2>3. SlotsCounted' /\ chartFree' >= 0 /\ marketFree' >= 0 /\ inflightFree' >= 0
      BY <1>0, <1>2, <2>2, CountsOfHeldNext, KeysOfRoutes DEF AcquireSlot
    <2> QED BY <1>1, <2>1, <2>3
  <1>3. CASE AcquireInflight(k)
    <2>1. /\ fetch[k] = "slotted" /\ TaskMoves(k, "fetching")
          /\ fetch' = [fetch EXCEPT ![k] = "fetching"]
      BY <1>3 DEF AcquireInflight, TaskMoves
    <2>2. ChartHeld' = ChartHeld /\ MarketHeld' = MarketHeld /\ CommonHeld' = CommonHeld + 1
      <3>1. fetch' = [fetch EXCEPT ![k] = fetch'[k]] /\ fetch'[k] = "fetching"
        BY <2>1 DEF RelayInv, RelayTypeOK
      <3> QED BY <1>h, <2>1, <3>1, SlotsMove DEF RelayInv, IsHolding
    <2>3. SlotsCounted' /\ chartFree' >= 0 /\ marketFree' >= 0 /\ inflightFree' >= 0
      BY <1>0, <1>3, <2>2, CountsOfHeldNext DEF AcquireInflight
    <2> QED BY <1>1, <2>1, <2>3
  <1>4. CASE WaitTimesOut(k)
    <2>1. /\ fetch[k] \in {"queued", "slotted"} /\ TaskMoves(k, "busy")
          /\ fetch' = [fetch EXCEPT ![k] = "busy"] /\ FreeFor(k) = 0
      BY <1>4 DEF WaitTimesOut, TaskMoves
    <2>2. fetch[k] = "queued"
      BY <2>1, CommonSlotIsFree DEF FreeFor
    <2>3. k # "health"
      BY <2>2 DEF RelayInv, HealthNeverWaits
    <2>4. ChartHeld' = ChartHeld /\ MarketHeld' = MarketHeld /\ CommonHeld' = CommonHeld
      <3>1. fetch' = [fetch EXCEPT ![k] = fetch'[k]] /\ fetch'[k] = "busy"
        BY <2>1 DEF RelayInv, RelayTypeOK
      <3> QED BY <1>h, <2>1, <2>2, <3>1, SlotsMove DEF RelayInv, IsHolding
    <2>5. UNCHANGED <<chartFree, marketFree, inflightFree>>
      BY <1>4, <2>2 DEF WaitTimesOut
    <2>6. SlotsCounted' /\ chartFree' >= 0 /\ marketFree' >= 0 /\ inflightFree' >= 0
      BY <1>0, <2>4, <2>5, CountsOfHeldNext
    <2> QED BY <1>1, <2>1, <2>2, <2>3, <2>6
  <1>5. CASE FetchEnds(k)
    <2>1. PICK to \in {"body", "failed"} : TaskMoves(k, to)
      BY <1>5 DEF FetchEnds
    <2>2. fetch[k] = "fetching" /\ fetch' = [fetch EXCEPT ![k] = to]
      BY <1>5, <2>1 DEF FetchEnds, TaskMoves
    <2>3. /\ k \in ChartKeys => ChartHeld' = ChartHeld - 1
          /\ k \notin ChartKeys => ChartHeld' = ChartHeld
          /\ k \in MarketKeys => MarketHeld' = MarketHeld - 1
          /\ k \notin MarketKeys => MarketHeld' = MarketHeld
          /\ CommonHeld' = CommonHeld - 1
      <3>1. fetch' = [fetch EXCEPT ![k] = fetch'[k]] /\ fetch'[k] \in {"body", "failed"}
        BY <2>1, <2>2 DEF RelayInv, RelayTypeOK
      <3> QED BY <1>h, <2>1, <2>2, <3>1, SlotsMove DEF RelayInv, IsHolding
    <2>4. SlotsCounted' /\ chartFree' >= 0 /\ marketFree' >= 0 /\ inflightFree' >= 0
      BY <1>0, <1>5, <2>3, CountsOfHeldNext DEF FetchEnds, ReleaseSlot
    <2> QED BY <1>1, <2>1, <2>2, <2>4
  <1> QED BY <1>2, <1>3, <1>4, <1>5

LEMMA FinishedStep ==
    ASSUME RelayAssumption, RelayInv, NEW k \in Keys, FetchFinished(k)
    PROVE  RelayInv'
  <1>1. /\ fetch[k] \in FetchOutcomes /\ fetch' = [fetch EXCEPT ![k] = "none"]
        /\ sharedKeys' = sharedKeys \ {k}
        /\ client' = [c \in Clients |-> IF client[c] = <<"waiting", k>> THEN NoRequest ELSE client[c]]
        /\ UNCHANGED <<marketFree, chartFree, inflightFree, recent, asked>>
    BY DEF FetchFinished, slotVars
  <1>2. /\ fetch' \in [Keys -> FetchOutcomes \cup {"none", "queued", "slotted", "fetching"}]
        /\ \A j \in Keys : fetch'[j] = IF j = k THEN "none" ELSE fetch[j]
    BY <1>1 DEF RelayInv, RelayTypeOK
  <1>3. fetch[k] \notin {"slotted", "fetching"}
    BY <1>1 DEF FetchOutcomes
  <1>4. UNCHANGED <<ChartHeld, MarketHeld, CommonHeld>>
    <2>1. ChartHeld' = ChartHeld /\ MarketHeld' = MarketHeld /\ CommonHeld' = CommonHeld
      <3>1. fetch' = [fetch EXCEPT ![k] = fetch'[k]] /\ fetch'[k] = "none"
        BY <1>1, <1>2 DEF RelayInv, RelayTypeOK
      <3> QED BY <1>1, <1>3, <3>1, SlotsMove DEF RelayInv, IsHolding
    <2> QED BY <2>1, HeldAreNats DEF RelayInv
  <1>5. SlotsCounted'
    BY <1>1, <1>4, CountsOfHeld, CountsOfHeldNext DEF RelayInv
  <1>6. IsFiniteSet(sharedKeys') /\ Cardinality(sharedKeys') <= PendingLimit
    <2>1. IsFiniteSet(sharedKeys) /\ Cardinality(sharedKeys) <= PendingLimit
      BY DEF RelayInv, PendingReads
    <2>2. /\ IsFiniteSet(sharedKeys \ {k})
          /\ Cardinality(sharedKeys \ {k}) <= Cardinality(sharedKeys)
      BY <2>1, FS_Subset
    <2>3. Cardinality(sharedKeys) \in Nat /\ Cardinality(sharedKeys \ {k}) \in Nat
      BY <2>1, <2>2, FS_CardinalityType
    <2> QED BY <1>1, <2>1, <2>2, <2>3 DEF RelayAssumption
  <1>7. client' \in [Clients -> {NoRequest} \cup ({"admitted", "waiting"} \X Keys)]
    BY <1>1 DEF RelayInv, RelayTypeOK
  <1>8. ASSUME NEW c \in Clients, NEW j \in Keys, client'[c] = <<"waiting", j>>
        PROVE  fetch'[j] # "none"
    <2>1. client'[c] = client[c] /\ j # k
      BY <1>1, <1>8 DEF NoRequest
    <2> QED BY <1>2, <1>8, <2>1 DEF RelayInv, PendingReads
  <1>9. PendingReads'
    <2>1. sharedKeys' = {j \in Keys : fetch'[j] # "none"}
      BY <1>1, <1>2 DEF RelayInv, PendingReads
    <2> QED BY <1>6, <1>8, <2>1 DEF PendingReads
  <1>10. HealthNeverWaits'
    BY <1>2, KeysOfRoutes DEF RelayInv, HealthNeverWaits
  <1> QED BY <1>1, <1>2, <1>5, <1>7, <1>9, <1>10 DEF RelayInv, RelayTypeOK

LEMMA ObservationStep ==
    ASSUME RelayAssumption, RelayInv, NEW c \in Clients, NEW k \in Keys, Observation(c, k)
    PROVE  RelayInv'
  <1>1. /\ client[c] = <<"admitted", k>>
        /\ UNCHANGED <<marketFree, chartFree, inflightFree, recent, asked>>
    BY DEF Observation, slotVars
  <1>2. CASE k \notin sharedKeys /\ Cardinality(sharedKeys) < PendingLimit
    <2> DEFINE to == IF k = "health" THEN "slotted" ELSE "queued"
    <2>1. /\ client' = [client EXCEPT ![c] = <<"waiting", k>>]
          /\ fetch' = [fetch EXCEPT ![k] = to] /\ sharedKeys' = sharedKeys \cup {k}
      BY <1>2 DEF Observation
    <2>2. /\ to \in {"slotted", "queued"} /\ (k = "health" => to = "slotted")
          /\ (k # "health" => to = "queued")
      OBVIOUS
    <2> HIDE DEF to
    <2>3. fetch[k] = "none"
      BY <1>2 DEF RelayInv, PendingReads
    <2>4. /\ fetch' \in [Keys -> FetchOutcomes \cup {"none", "queued", "slotted", "fetching"}]
          /\ \A j \in Keys : fetch'[j] = IF j = k THEN to ELSE fetch[j]
      BY <2>1, <2>2 DEF RelayInv, RelayTypeOK
    <2>5. /\ client' \in [Clients -> {NoRequest} \cup ({"admitted", "waiting"} \X Keys)]
          /\ \A d \in Clients : client'[d] = IF d = c THEN <<"waiting", k>> ELSE client[d]
      BY <2>1 DEF RelayInv, RelayTypeOK
    <2>6. ChartHeld' = ChartHeld /\ MarketHeld' = MarketHeld /\ CommonHeld' = CommonHeld
      <3>1. ChartHeld' = ChartHeld /\ MarketHeld' = MarketHeld /\ CommonHeld' = CommonHeld
        <4>1. fetch' = [fetch EXCEPT ![k] = fetch'[k]] /\ fetch'[k] = to
          BY <2>1, <2>4 DEF RelayInv, RelayTypeOK
        <4>2. fetch[k] # "slotted" /\ fetch[k] # "fetching" /\ (to = "slotted" => k = "health")
          BY <2>2, <2>3
        <4> QED BY <2>2, <4>1, <4>2, KeysOfRoutes, SlotsMove DEF RelayInv, IsHolding
      <3> QED BY <3>1, HeldAreNats DEF RelayInv
    <2>7. SlotsCounted'
      BY <1>1, <2>6, CountsOfHeld, CountsOfHeldNext DEF RelayInv
    <2>8. IsFiniteSet(sharedKeys') /\ Cardinality(sharedKeys') <= PendingLimit
      <3>1. IsFiniteSet(sharedKeys) /\ Cardinality(sharedKeys) \in Nat
        BY FS_CardinalityType DEF RelayInv, PendingReads
      <3>2. /\ IsFiniteSet(sharedKeys \cup {k})
            /\ Cardinality(sharedKeys \cup {k}) = Cardinality(sharedKeys) + 1
        BY <1>2, <3>1, FS_AddElement
      <3> QED BY <1>2, <2>1, <3>1, <3>2 DEF RelayAssumption
    <2>9. PendingReads'
      <3>1. sharedKeys' = {j \in Keys : fetch'[j] # "none"}
        BY <2>1, <2>2, <2>4 DEF RelayInv, PendingReads
      <3>2. ASSUME NEW d \in Clients, NEW j \in Keys, client'[d] = <<"waiting", j>>
            PROVE  fetch'[j] # "none"
        BY <2>2, <2>4, <2>5, <3>2 DEF RelayInv, PendingReads
      <3> QED BY <2>8, <3>1, <3>2 DEF PendingReads
    <2>10. HealthNeverWaits'
      BY <2>2, <2>4, KeysOfRoutes DEF RelayInv, HealthNeverWaits
    <2> QED BY <1>1, <2>1, <2>4, <2>5, <2>7, <2>9, <2>10, KeysOfRoutes DEF RelayInv, RelayTypeOK
  <1>3. CASE ~(k \notin sharedKeys /\ Cardinality(sharedKeys) < PendingLimit)
    <2>1. UNCHANGED <<fetch, sharedKeys>>
      BY <1>3 DEF Observation
    <2>2. \/ k \in sharedKeys /\ client' = [client EXCEPT ![c] = <<"waiting", k>>]
          \/ client' = [client EXCEPT ![c] = NoRequest]
      BY <1>3 DEF Observation
    <2>3. client' \in [Clients -> {NoRequest} \cup ({"admitted", "waiting"} \X Keys)]
      BY <2>2 DEF RelayInv, RelayTypeOK
    <2>4. ASSUME NEW d \in Clients, NEW j \in Keys, client'[d] = <<"waiting", j>>
          PROVE  client[d] = <<"waiting", j>> \/ j \in sharedKeys
      BY <2>2, <2>4 DEF RelayInv, RelayTypeOK, NoRequest
    <2>5. PendingReads'
      BY <2>1, <2>4 DEF RelayInv, PendingReads
    <2> QED BY <1>1, <2>1, <2>3, <2>5 DEF RelayInv, RelayTypeOK, SlotsCounted, In, HealthNeverWaits
  <1> QED BY <1>2, <1>3

LEMMA RelayStep ==
    ASSUME RelayAssumption, RelayInv, [RelayNext]_relayVars
    PROVE  RelayInv'
  <1>1. ASSUME UNCHANGED <<fetch, sharedKeys, marketFree, chartFree, inflightFree>>,
               client' \in [Clients -> {NoRequest} \cup ({"admitted", "waiting"} \X Keys)],
               \A c \in Clients, k \in Keys :
                  client'[c] = <<"waiting", k>> => client[c] = <<"waiting", k>>,
               recent' \in 0 .. RateLimit, asked' \in 0 .. MaxAsked
        PROVE  RelayInv'
    BY <1>1 DEF RelayInv, RelayTypeOK, PendingReads, SlotsCounted, In, HealthNeverWaits
  <1>2. CASE UNCHANGED relayVars
    BY <1>1, <1>2 DEF relayVars, RelayInv, RelayTypeOK
  <1>3. ASSUME NEW c \in Clients, NEW k \in Keys, NEW verified \in BOOLEAN, Boundary(c, k, verified)
        PROVE  RelayInv'
    <2>1. UNCHANGED <<fetch, sharedKeys, marketFree, chartFree, inflightFree>>
      BY <1>3 DEF Boundary, slotVars
    <2>2. recent' \in 0 .. RateLimit /\ asked' \in 0 .. MaxAsked
      BY <1>3 DEF Boundary, RelayInv, RelayTypeOK, RelayAssumption
    <2>3. client' = [client EXCEPT ![c] = <<"admitted", k>>] \/ client' = client
      BY <1>3 DEF Boundary
    <2>4. client' \in [Clients -> {NoRequest} \cup ({"admitted", "waiting"} \X Keys)]
      BY <2>3 DEF RelayInv, RelayTypeOK
    <2>5. \A d \in Clients, j \in Keys : client'[d] = <<"waiting", j>> => client[d] = <<"waiting", j>>
      BY <2>3 DEF RelayInv, RelayTypeOK
    <2> QED BY <1>1, <2>1, <2>2, <2>4, <2>5
  <1>4. ASSUME NEW c \in Clients, Hangup(c) PROVE RelayInv'
    <2>1. /\ client' = [client EXCEPT ![c] = NoRequest]
          /\ UNCHANGED <<fetch, sharedKeys, marketFree, chartFree, inflightFree, recent, asked>>
      BY <1>4 DEF Hangup, slotVars
    <2>2. client' \in [Clients -> {NoRequest} \cup ({"admitted", "waiting"} \X Keys)]
      BY <2>1 DEF RelayInv, RelayTypeOK
    <2>3. \A d \in Clients, j \in Keys : client'[d] = <<"waiting", j>> => client[d] = <<"waiting", j>>
      BY <2>1 DEF RelayInv, RelayTypeOK, NoRequest
    <2> QED BY <1>1, <2>1, <2>2, <2>3 DEF RelayInv, RelayTypeOK
  <1>5. CASE QuotaExpires
    <2>1. /\ UNCHANGED <<client, fetch, sharedKeys, marketFree, chartFree, inflightFree, asked>>
          /\ recent' \in 0 .. RateLimit
      BY <1>5 DEF QuotaExpires, slotVars, RelayInv, RelayTypeOK, RelayAssumption
    <2> QED BY <1>1, <2>1 DEF RelayInv, RelayTypeOK
  <1> QED BY <1>2, <1>3, <1>4, <1>5, ObservationStep, FetchStep, FinishedStep DEF RelayNext

\* Whatever times out, fails or hangs up, every semaphore counts the fetches that hold it, so
\* the health read and a chart read with its slot are never turned away, for any number of
\* clients, keys and slots (fetch_observation and observation of api/monitor_relay.py).
THEOREM RelaySafe ==
    ASSUME RelayAssumption
    PROVE  RelaySpec => [](RelayTypeOK /\ RelaySound)
  <1>1. RelayInit => RelayInv
    <2> SUFFICES ASSUME RelayInit PROVE RelayInv
      OBVIOUS
    <2>1. \A k \in Keys : fetch[k] = "none"
      BY DEF RelayInit
    <2>2. /\ {k \in ChartKeys : fetch[k] \in {"slotted", "fetching"}} = {}
          /\ {k \in MarketKeys : fetch[k] \in {"slotted", "fetching"}} = {}
          /\ {k \in Keys : fetch[k] \in {"fetching"}} = {}
      BY <2>1, KeysOfRoutes
    <2>3. ChartHeld = 0 /\ MarketHeld = 0 /\ CommonHeld = 0
      BY <2>2, FS_EmptySet DEF ChartHeld, MarketHeld, CommonHeld, In
    <2>4. SlotsCounted
      BY <2>3, CountsOfHeld DEF RelayInit, RelayAssumption
    <2>5. PendingReads
      BY <2>1, FS_EmptySet DEF RelayInit, PendingReads, NoRequest, RelayAssumption
    <2>6. RelayTypeOK
      BY DEF RelayInit, RelayTypeOK, RelayAssumption
    <2> QED BY <2>1, <2>4, <2>5, <2>6, KeysOfRoutes DEF RelayInv, HealthNeverWaits
  <1>2. RelayInv /\ [RelayNext]_relayVars => RelayInv'
    BY RelayStep
  <1>3. RelayInv => RelayTypeOK /\ RelaySound
    <2> SUFFICES ASSUME RelayInv PROVE RelaySound
      BY DEF RelayInv
    <2>1. \A k \in Keys : fetch[k] = "slotted" => inflightFree > 0
      BY CommonSlotIsFree
    <2> QED BY <2>1 DEF RelayInv, SlotsCounted, PendingReads, HealthNeverWaits, RelaySound
  <1> QED BY <1>1, <1>2, <1>3, PTL DEF RelaySpec

(***************************************************************************)
(* The observation daemon.  Evidence reaches to the cursor without a gap,  *)
(* and what an observer still has to append goes on from there; the        *)
(* sampler has counted every close of the evidence but those lost and      *)
(* those in hand; and a digest that is out is marked, about to be, or its  *)
(* mark is lost.                                                           *)
(***************************************************************************)
Counting(o) == phase[o] \in {"count", "advance"}
Working(o) == phase[o] = "append" \/ Sampling(o)
InHand == {b \in Bars : \E o \in Observers : Counting(o) /\ bar[o] = b}

EvidenceReachesCursor ==
  /\ evidence \subseteq 1 .. cursor
  /\ cursor # 0 => cursor \in evidence
  /\ firstRace \/ \A b \in evidence, c \in 1 .. cursor : b < c => c \in evidence

\* At the first close only one observer appends, and one close; later every close between
\* the cursor and one that is to be appended is to be appended first.
PassFollowsCursor ==
  /\ \A o \in Observers : phase[o] = "read" => window[o] # {}
  /\ \A o \in Observers : todo[o] # {} => Working(o)
  /\ \/ firstRace
     \/ IF cursor = 0
          THEN /\ \A o \in Observers : \A b, c \in todo[o] : b = c
               /\ \A o, p \in Observers : phase[o] = "append" /\ phase[p] = "append" => o = p
          ELSE \A o \in Observers : \A b \in todo[o], c \in Bars : cursor < c /\ c < b => c \in todo[o]

SamplesInHand ==
  /\ uncounted \subseteq evidence
  /\ \A o \in Observers :
        /\ Sampling(o) => bar[o] \in evidence
        /\ Counting(o) => bar[o] \notin uncounted
  /\ \A o, p \in Observers : Counting(o) /\ Counting(p) /\ bar[o] = bar[p] => o = p

\* However many observers sample, no count runs ahead of the evidence.
CountsBounded ==
  /\ sampler.counted <= Cardinality(evidence \ InHand)
  /\ \A o \in Observers : phase[o] = "advance" => count[o] <= Cardinality(evidence \ InHand) + 1

EveryCloseCounted == sampler.counted = Cardinality(evidence \ (uncounted \cup InHand))

OneSampler ==
  /\ \A o, p \in Observers :
        {phase[o], phase[p]} \subseteq {"advance", "latest", "plan"} => o = p
  /\ \A o \in Observers : phase[o] = "advance" => count[o] = sampler.counted + 1
  /\ \A b, c \in shadowPlans : b < c => c >= b + Horizon
  /\ \A o \in Observers : phase[o] = "plan" =>
        /\ previous[o] = 0 => shadowPlans = {}
        /\ \A b \in shadowPlans : b <= previous[o]

DigestsMarked ==
  /\ repeated \subseteq lostMarks
  /\ \A d \in digests : \/ d \in digestMarked \cup lostMarks
                        \/ phase["daemon"] = "mark" /\ d = DayOf(bar["daemon"])

ObservationInv ==
  /\ ObservationTypeOK
  /\ EvidenceReachesCursor /\ PassFollowsCursor
  /\ SamplesInHand /\ CountsBounded
  /\ together \/ (EveryCloseCounted /\ OneSampler)
  /\ DigestsMarked

LEMMA NatHasLeast ==
    ASSUME NEW S \in SUBSET Nat, S # {}
    PROVE  \E x \in S : \A y \in S : x <= y
  <1>1. PICK x \in S : \A y \in S : ~(<<y, x>> \in OpToRel(<, Nat))
    BY NatLessThanWellFounded, WFMin
  <1>2. \A y \in S : ~(y < x)
    BY <1>1 DEF OpToRel
  <1> QED BY <1>2

LEMMA LeastBar ==
    ASSUME ObserverAssumption, NEW S \in SUBSET Bars, S # {}
    PROVE  /\ Sets!Min(S) \in S
           /\ \A y \in S : Sets!Min(S) <= y
  <1>1. S \in SUBSET Nat
    BY DEF ObserverAssumption, Bars
  <1>2. PICK x \in S : \A y \in S : x <= y
    BY <1>1, NatHasLeast
  <1> QED BY <1>2 DEF Sets!Min

LEMMA NewestBar ==
    ASSUME ObserverAssumption, NEW S \in SUBSET Bars, S # {}
    PROVE  /\ Sets!Max(S) \in S
           /\ \A y \in S : y <= Sets!Max(S)
  <1> DEFINE D == {m \in Nat : \E x \in S : m = MaxBar - x}
  <1>1. S \subseteq 0 .. MaxBar /\ MaxBar \in Nat
    BY DEF ObserverAssumption, Bars
  <1>2. D \in SUBSET Nat /\ D # {}
    <2>1. PICK x \in S : TRUE
      OBVIOUS
    <2>2. MaxBar - x \in D
      BY <1>1, <2>1
    <2> QED BY <2>2
  <1>3. PICK z \in D : \A y \in D : z <= y
    BY <1>2, NatHasLeast
  <1>4. PICK x \in S : z = MaxBar - x
    BY <1>3
  <1>5. ASSUME NEW y \in S PROVE y <= x
    <2>1. MaxBar - y \in D
      BY <1>1
    <2>2. z <= MaxBar - y
      BY <1>3, <2>1
    <2> QED BY <1>1, <1>4, <2>2
  <1> QED BY <1>5 DEF Sets!Max

LEMMA BarsAreFinite ==
    ASSUME ObserverAssumption, NEW S \in SUBSET Bars
    PROVE  IsFiniteSet(S) /\ Cardinality(S) \in Nat /\ Cardinality(S) <= MaxBar
  <1>1. MaxBar \in Nat
    BY DEF ObserverAssumption
  <1>2. IsFiniteSet(Bars) /\ Cardinality(Bars) = MaxBar
    BY <1>1, FS_Interval DEF Bars
  <1> QED BY <1>2, FS_Subset, FS_CardinalityType

LEMMA AnswerHasCandle ==
    ASSUME ObserverAssumption, NEW S \in SUBSET Bars, S # {}
    PROVE  Newest(S) # {}
  <1> DEFINE m == Sets!Max(S)
  <1>1. m \in S /\ \A y \in S : y <= m
    BY NewestBar
  <1>2. S \subseteq Int
    BY DEF ObserverAssumption, Bars
  <1> HIDE DEF m
  <1>3. {c \in S : c > m} = {}
    <2>1. ASSUME NEW c \in S PROVE ~(c > m)
      <3>1. c \in Int /\ m \in Int /\ c <= m
        BY <1>1, <1>2
      <3> QED BY <3>1
    <2> QED BY <2>1
  <1>4. Cardinality({c \in S : c > m}) < TelemetryWindow
    BY <1>3, FS_EmptySet DEF ObserverAssumption
  <1> QED BY <1>1, <1>4 DEF Newest

LEMMA FullIntervalHasNoGap ==
    ASSUME NEW prior \in Nat, NEW m \in Nat, NEW P \in SUBSET ((prior + 1) .. m),
           prior < m, m - prior <= Cardinality(P)
    PROVE  \A b \in P, c \in Nat : prior < c /\ c < b => c \in P
  <1> DEFINE I == (prior + 1) .. m
  <1>1. IsFiniteSet(I) /\ Cardinality(I) = m - prior
    BY FS_Interval
  <1>2. P \in SUBSET I
    OBVIOUS
  <1> HIDE DEF I
  <1>3. IsFiniteSet(P) /\ Cardinality(P) <= Cardinality(I) /\ (Cardinality(I) = Cardinality(P) => I = P)
    BY <1>1, <1>2, FS_Subset
  <1>4. Cardinality(P) \in Nat
    BY <1>3, FS_CardinalityType
  <1>5. P = I
    BY <1>1, <1>3, <1>4
  <1> QED BY <1>5 DEF I

\* An answer that is as long as the time since the cursor has a candle for each interval.
LEMMA CompleteHasNoGap ==
    ASSUME ObserverAssumption, NEW prior \in 1 .. MaxBar, NEW S \in SUBSET Bars, S # {},
           prior < Sets!Max(S), HistoryComplete(prior, S)
    PROVE  \A b \in PendingBars(prior, S), c \in Bars :
              prior < c /\ c < b => c \in PendingBars(prior, S)
  <1>0. PICK m \in S : m = Sets!Max(S) /\ \A y \in S : y <= m
    BY NewestBar
  <1>1. MaxBar \in Nat /\ Bars \subseteq Nat
    BY DEF ObserverAssumption, Bars
  <1>2. prior \in Nat /\ prior # 0 /\ m \in Nat
    <2>1. prior \in 1 .. MaxBar /\ m \in Bars
      OBVIOUS
    <2>2. \A n \in 1 .. MaxBar : n \in Nat /\ n # 0
      BY <1>1
    <2> QED BY <1>1, <2>1, <2>2
  <1> DEFINE P == {b \in S : b > prior}
  <1>3. PendingBars(prior, S) = P
    BY <1>2 DEF PendingBars
  <1>4. m - prior <= Cardinality(P) /\ prior < m
    BY <1>0, <1>2, <1>3 DEF HistoryComplete
  <1>5. P \in SUBSET ((prior + 1) .. m)
    <2>1. ASSUME NEW b \in P PROVE b \in (prior + 1) .. m
      <3>1. b \in Nat /\ b > prior /\ b <= m
        BY <1>0, <1>1
      <3> QED BY <1>2, <3>1
    <2> QED BY <2>1
  <1> HIDE DEF P
  <1>6. \A b \in P, c \in Nat : prior < c /\ c < b => c \in P
    BY <1>2, <1>4, <1>5, FullIntervalHasNoGap
  <1> QED BY <1>1, <1>3, <1>6

\* What the step of one observer leaves to the others.
OnlyObserver(o) ==
  /\ phase' \in [Observers -> Phases] /\ bar' \in [Observers -> 0 .. MaxBar]
  /\ count' \in [Observers -> 0 .. MaxBar] /\ previous' \in [Observers -> 0 .. MaxBar]
  /\ window' \in [Observers -> SUBSET Bars] /\ todo' \in [Observers -> SUBSET Bars]
  /\ \A p \in Observers \ {o} :
        /\ phase'[p] = phase[p] /\ bar'[p] = bar[p] /\ count'[p] = count[p]
        /\ previous'[p] = previous[p] /\ window'[p] = window[p] /\ todo'[p] = todo[p]

\* The observers' shared state, as typed.
SharedShape ==
  /\ newestBar \in 0 .. MaxBar /\ candles \subseteq Bars /\ cursor \in 0 .. MaxBar
  /\ evidence \subseteq Bars /\ sampler \in [counted : 0 .. MaxBar, last : 0 .. MaxBar]
  /\ shadowPlans \subseteq Bars /\ observerStarts \in [Observers -> 0 .. ObserverStarts]
  /\ \A days \in {digests, digestMarked, lostMarks, repeated} : days \subseteq DigestDays
  /\ firstRace \in BOOLEAN /\ uncounted \subseteq Bars /\ together \in BOOLEAN

Samples == SamplesInHand /\ CountsBounded /\ (together \/ (EveryCloseCounted /\ OneSampler))

LEMMA TypeParts ==
    /\ ObservationTypeOK => SharedShape
    /\ \A o \in Observers : SharedShape' /\ OnlyObserver(o) => ObservationTypeOK'
  BY DEF ObservationTypeOK, SharedShape, OnlyObserver

LEMMA EvidenceKept ==
    ASSUME EvidenceReachesCursor, UNCHANGED storeOfEvidence, firstRace => firstRace'
    PROVE  EvidenceReachesCursor'
  BY DEF EvidenceReachesCursor, storeOfEvidence

\* The pass goes on, or it ends with nothing to append.
LEMMA PassKept ==
    ASSUME ObservationTypeOK, PassFollowsCursor, NEW o \in Observers, OnlyObserver(o),
           UNCHANGED <<cursor, firstRace>>, todo'[o] = todo[o] \/ todo'[o] = {},
           phase'[o] = "read" => window'[o] # {},
           todo'[o] # {} => phase'[o] \in {"append", "count", "advance", "latest", "plan"},
           phase'[o] = "append" => phase[o] = "append" \/ cursor # 0
    PROVE  PassFollowsCursor'
  <1>1. \A p \in Observers : p # o => /\ phase'[p] = phase[p] /\ window'[p] = window[p]
                                      /\ todo'[p] = todo[p]
    BY DEF OnlyObserver
  <1>2. \A p \in Observers : phase'[p] = "read" => window'[p] # {}
    BY <1>1 DEF PassFollowsCursor
  <1>3. \A p \in Observers :
            todo'[p] # {} => phase'[p] \in {"append", "count", "advance", "latest", "plan"}
    BY <1>1 DEF PassFollowsCursor, Working, Sampling
  <1>4. \A p \in Observers : todo'[p] = todo[p] \/ todo'[p] = {}
    BY <1>1
  <1>5. CASE firstRace
    BY <1>2, <1>3, <1>5 DEF PassFollowsCursor, Working, Sampling
  <1>6. CASE ~firstRace /\ cursor = 0
    <2>1. \A p \in Observers : \A b, c \in todo'[p] : b = c
      BY <1>4, <1>6 DEF PassFollowsCursor
    <2>2. \A p \in Observers : phase'[p] = "append" => phase[p] = "append"
      BY <1>1, <1>6
    <2>3. \A p, q \in Observers : phase'[p] = "append" /\ phase'[q] = "append" => p = q
      BY <1>6, <2>2 DEF PassFollowsCursor
    <2> QED BY <1>2, <1>3, <1>6, <2>1, <2>3 DEF PassFollowsCursor, Working, Sampling
  <1>7. CASE ~firstRace /\ cursor # 0
    <2>1. \A p \in Observers : \A b \in todo'[p], c \in Bars : cursor < c /\ c < b => c \in todo'[p]
      BY <1>4, <1>7 DEF PassFollowsCursor
    <2> QED BY <1>2, <1>3, <1>7, <2>1 DEF PassFollowsCursor, Working, Sampling
  <1> QED BY <1>5, <1>6, <1>7

LEMMA HandKept ==
    ASSUME \A p \in Observers : /\ phase'[p] \in {"count", "advance"} <=> phase[p] \in {"count", "advance"}
                                /\ phase[p] \in {"count", "advance"} => bar'[p] = bar[p]
    PROVE  InHand' = InHand
  BY DEF InHand, Counting

\* A step outside the sampler.
LEMMA OutsideSampler ==
    ASSUME ObservationTypeOK, Samples, NEW o \in Observers, OnlyObserver(o),
           ~Sampling(o), phase'[o] \notin {"count", "advance", "latest", "plan"},
           UNCHANGED <<evidence, uncounted, sampler, shadowPlans, together>>
    PROVE  Samples'
  <1>1. \A p \in Observers :
            /\ phase'[p] \in {"count", "advance", "latest", "plan"} =>
                  /\ phase'[p] = phase[p] /\ bar'[p] = bar[p] /\ count'[p] = count[p]
                  /\ previous'[p] = previous[p]
            /\ phase[p] \in {"count", "advance", "latest", "plan"} =>
                  phase'[p] = phase[p] /\ bar'[p] = bar[p]
    BY DEF OnlyObserver, Sampling
  <1>2. InHand' = InHand
    BY <1>1, HandKept
  <1>3. SamplesInHand'
    BY <1>1 DEF Samples, SamplesInHand, Sampling, Counting
  <1>4. CountsBounded'
    BY <1>1, <1>2 DEF Samples, CountsBounded
  <1>5. EveryCloseCounted => EveryCloseCounted'
    BY <1>2 DEF EveryCloseCounted
  <1>6. OneSampler => OneSampler'
    BY <1>1 DEF OneSampler
  <1> QED BY <1>3, <1>4, <1>5, <1>6 DEF Samples

LEMMA DigestsKept ==
    ASSUME DigestsMarked, NEW o \in Observers, OnlyObserver(o), UNCHANGED digestVars,
           o = "daemon" => phase[o] # "mark"
    PROVE  DigestsMarked'
  <1>1. phase["daemon"] = "mark" => phase'["daemon"] = "mark" /\ bar'["daemon"] = bar["daemon"]
    BY DEF OnlyObserver, Observers
  <1> QED BY <1>1 DEF DigestsMarked, digestVars

\* A close leaves the hand: one more close is behind, or one more is lost.
LEMMA HandReleased ==
    ASSUME ObserverAssumption, ObservationTypeOK, Samples, NEW o \in Observers, OnlyObserver(o),
           Counting(o), phase'[o] \notin {"count", "advance"},
           phase'[o] \in {"latest", "plan"} => bar'[o] = bar[o],
           UNCHANGED evidence, uncounted' = uncounted \/ uncounted' = uncounted \cup {bar[o]}
    PROVE  /\ SamplesInHand'
           /\ Cardinality(evidence' \ InHand') = Cardinality(evidence \ InHand) + 1
           /\ uncounted' = uncounted =>
                 Cardinality(evidence' \ (uncounted' \cup InHand'))
                   = Cardinality(evidence \ (uncounted \cup InHand)) + 1
           /\ uncounted' = uncounted \cup {bar[o]} =>
                 Cardinality(evidence' \ (uncounted' \cup InHand'))
                   = Cardinality(evidence \ (uncounted \cup InHand))
  <1> DEFINE b == bar[o]
             U == uncounted \cup InHand
  <1>1. \A p \in Observers :
            /\ p # o => phase'[p] = phase[p] /\ bar'[p] = bar[p]
            /\ phase'[p] \in {"count", "advance"} => p # o
    BY DEF OnlyObserver
  <1>2. /\ b \in evidence /\ b \notin uncounted /\ b \in InHand /\ b \in Bars
        /\ \A p \in Observers : Counting(p) /\ bar[p] = b => p = o
        /\ evidence \subseteq Bars
    BY DEF Samples, SamplesInHand, Sampling, Counting, InHand, ObservationTypeOK
  <1>3. InHand' = InHand \ {b}
    BY <1>1, <1>2 DEF InHand, Counting
  <1>4. SamplesInHand'
    <2>1. uncounted' \subseteq evidence'
      BY <1>2 DEF Samples, SamplesInHand
    <2>2. ASSUME NEW p \in Observers, phase'[p] \in {"count", "advance", "latest", "plan"}
          PROVE  bar'[p] \in evidence'
      BY <1>1, <1>2, <2>2 DEF Samples, SamplesInHand, Sampling
    <2>3. ASSUME NEW p \in Observers, phase'[p] \in {"count", "advance"}
          PROVE  bar'[p] \notin uncounted'
      BY <1>1, <1>2, <2>3 DEF Samples, SamplesInHand, Counting
    <2>4. ASSUME NEW p \in Observers, NEW q \in Observers, phase'[p] \in {"count", "advance"},
                 phase'[q] \in {"count", "advance"}, bar'[p] = bar'[q]
          PROVE  p = q
      BY <1>1, <2>4 DEF Samples, SamplesInHand, Counting
    <2> QED BY <2>1, <2>2, <2>3, <2>4 DEF SamplesInHand, Sampling, Counting
  <1> HIDE DEF b
  <1>5. evidence' \ InHand' = (evidence \ InHand) \cup {b}
    BY <1>2, <1>3
  <1>6. IsFiniteSet(evidence \ InHand) /\ IsFiniteSet(evidence \ U)
    BY <1>2, BarsAreFinite
  <1>7. Cardinality(evidence' \ InHand') = Cardinality(evidence \ InHand) + 1
    BY <1>2, <1>5, <1>6, FS_AddElement
  <1>8. ASSUME uncounted' = uncounted
        PROVE  Cardinality(evidence' \ (uncounted' \cup InHand')) = Cardinality(evidence \ U) + 1
    <2>1. evidence' \ (uncounted' \cup InHand') = (evidence \ U) \cup {b}
      BY <1>2, <1>3, <1>8
    <2>2. b \notin evidence \ U
      BY <1>2
    <2> QED BY <1>6, <2>1, <2>2, FS_AddElement
  <1>9. ASSUME uncounted' = uncounted \cup {b}
        PROVE  evidence' \ (uncounted' \cup InHand') = evidence \ U
    BY <1>2, <1>3, <1>9
  <1> QED BY <1>4, <1>7, <1>8, <1>9 DEF b

\* The close in hand leaves room for another count.
LEMMA CountHasRoom ==
    ASSUME ObserverAssumption, ObservationTypeOK, Samples, NEW o \in Observers, Counting(o)
    PROVE  /\ Cardinality(evidence \ InHand) \in Nat
           /\ Cardinality(evidence \ InHand) + 1 <= MaxBar
  <1> DEFINE E == evidence \ InHand
  <1>1. bar[o] \in Bars /\ bar[o] \notin E /\ E \subseteq Bars
    BY DEF Samples, SamplesInHand, Sampling, Counting, InHand, ObservationTypeOK
  <1>2. E \cup {bar[o]} \in SUBSET Bars
    BY <1>1
  <1> HIDE DEF E
  <1>3. IsFiniteSet(E) /\ Cardinality(E) \in Nat
    BY <1>1, BarsAreFinite
  <1>4. Cardinality(E \cup {bar[o]}) <= MaxBar
    BY <1>2, BarsAreFinite
  <1>5. Cardinality(E \cup {bar[o]}) = Cardinality(E) + 1
    BY <1>1, <1>3, FS_AddElement
  <1> QED BY <1>3, <1>4, <1>5 DEF E

LEMMA AppendStep ==
    ASSUME ObserverAssumption, ObservationInv, NEW o \in Observers, AppendSignal(o)
    PROVE  ObservationInv'
  <1> USE DEF ObservationInv
  <1> DEFINE b == Sets!Min(todo[o])
  <1>0. MaxBar \in Nat /\ Bars \subseteq Nat /\ todo[o] \in SUBSET Bars /\ todo[o] # {}
    BY DEF ObserverAssumption, Bars, ObservationTypeOK, AppendSignal
  <1>1. b \in todo[o] /\ b \in Bars /\ \A c \in todo[o] : b <= c
    BY <1>0, LeastBar
  <1>2. /\ phase[o] = "append"
        /\ todo' = [todo EXCEPT ![o] = @ \ {b}]
        /\ UNCHANGED <<marketVars, samplerStore, window, count, previous, observerStarts, digestVars,
                       histories>>
        /\ cursor >= b => UNCHANGED <<cursor, evidence, phase, bar>>
        /\ ~(cursor >= b) => /\ cursor' = b /\ evidence' = evidence \cup {b}
                             /\ bar' = [bar EXCEPT ![o] = b]
                             /\ phase' = [phase EXCEPT ![o] = "count"]
    BY DEF AppendSignal
  <1> HIDE DEF b
  <1>3. /\ \A p \in Observers : todo'[p] = IF p = o THEN todo[p] \ {b} ELSE todo[p]
        /\ todo' \in [Observers -> SUBSET Bars]
    BY <1>2 DEF ObservationTypeOK
  <1>4. cursor \in Nat /\ b \in Nat
    BY <1>0, <1>1 DEF ObservationTypeOK
  <1>5. CASE cursor >= b
    <2>1. SharedShape'
      BY <1>2, <1>5 DEF ObservationTypeOK, SharedShape, marketVars, samplerStore, digestVars, histories
    <2>2. OnlyObserver(o)
      BY <1>2, <1>3, <1>5 DEF ObservationTypeOK, OnlyObserver
    <2>3. /\ SamplesInHand' /\ CountsBounded' /\ (together \/ (EveryCloseCounted /\ OneSampler))'
          /\ DigestsMarked' /\ EvidenceReachesCursor'
      <3>1. /\ UNCHANGED <<cursor, evidence, phase, bar, count, previous, uncounted, sampler, shadowPlans>>
            /\ UNCHANGED <<together, firstRace, digests, digestMarked, lostMarks, repeated>>
        BY <1>2, <1>5 DEF samplerStore, digestVars, histories
      <3>2. SamplesInHand' /\ InHand' = InHand
        BY <3>1 DEF SamplesInHand, InHand, Counting, Sampling
      <3>3. CountsBounded' /\ (EveryCloseCounted => EveryCloseCounted')
        BY <3>1, <3>2 DEF CountsBounded, EveryCloseCounted
      <3>4. (OneSampler => OneSampler') /\ DigestsMarked' /\ EvidenceReachesCursor'
        BY <3>1 DEF OneSampler, DigestsMarked, EvidenceReachesCursor
      <3> QED BY <3>1, <3>2, <3>3, <3>4
    <2>4. \A p \in Observers : \A c \in todo'[p] : c \in todo[p]
      BY <1>3
    <2>5. ASSUME ~firstRace, cursor # 0, NEW p \in Observers, NEW c \in todo'[p], NEW d \in Bars,
                 cursor < d, d < c
          PROVE  d \in todo'[p]
      <3>1. d \in todo[p]
        BY <2>4, <2>5 DEF PassFollowsCursor
      <3>2. d \in Nat /\ d # b
        BY <1>0, <1>4, <1>5, <2>5
      <3> QED BY <1>3, <3>1, <3>2
    <2>6. firstRace' = firstRace /\ cursor' = cursor /\ window' = window /\ phase' = phase
      BY <1>2, <1>5 DEF histories
    <2>7. PassFollowsCursor'
      BY <2>4, <2>5, <2>6 DEF PassFollowsCursor, Working, Sampling
    <2> QED BY <2>1, <2>2, <2>3, <2>7, TypeParts
  <1>6. CASE ~(cursor >= b)
    <2>0. /\ cursor < b /\ b > 0 /\ \A c \in evidence : c \in Nat /\ c < b
      BY <1>0, <1>1, <1>4, <1>6 DEF Bars, EvidenceReachesCursor
    <2>1. b \notin evidence /\ evidence \subseteq Bars
      BY <1>4, <2>0 DEF ObservationTypeOK
    <2>2. SharedShape'
      <3>1. cursor' \in 0 .. MaxBar /\ evidence' \subseteq Bars
        <4>1. b \in 0 .. MaxBar
          BY <1>0, <1>1 DEF Bars
        <4> QED BY <1>1, <1>2, <1>6, <2>1, <4>1
      <3>2. /\ UNCHANGED <<newestBar, candles, sampler, shadowPlans, observerStarts, digests>>
            /\ UNCHANGED <<digestMarked, lostMarks, repeated, firstRace, uncounted, together>>
        BY <1>2 DEF marketVars, samplerStore, digestVars, histories
      <3> QED BY <3>1, <3>2 DEF ObservationTypeOK, SharedShape
    <2>3. /\ \A p \in Observers : /\ phase'[p] = IF p = o THEN "count" ELSE phase[p]
                                  /\ bar'[p] = IF p = o THEN b ELSE bar[p]
          /\ OnlyObserver(o)
      BY <1>0, <1>1, <1>2, <1>3, <1>6 DEF ObservationTypeOK, OnlyObserver, Bars, Phases
    <2>4. EvidenceReachesCursor'
      <3>1. /\ cursor' = b /\ evidence' = evidence \cup {b} /\ firstRace' = firstRace
        BY <1>2, <1>6 DEF histories
      <3>2. evidence' \subseteq 1 .. b
        BY <1>4, <2>0, <3>1 DEF EvidenceReachesCursor
      <3>3. ASSUME ~firstRace, NEW c \in evidence, NEW d \in 1 .. b, c < d PROVE d \in evidence'
        <4>0. c \in Nat /\ d \in Nat /\ c <= cursor /\ cursor # 0 /\ d \in Bars
          BY <1>0, <1>1, <1>4, <3>3 DEF EvidenceReachesCursor, Bars
        <4>1. CASE d <= cursor
          <5>1. d \in 1 .. cursor
            BY <1>4, <4>0, <4>1
          <5> QED BY <3>1, <3>3, <5>1 DEF EvidenceReachesCursor
        <4>2. CASE cursor < d /\ d < b
          <5>1. d \in todo[o]
            BY <1>1, <3>3, <4>0, <4>2 DEF PassFollowsCursor
          <5>2. b <= d
            BY <1>1, <5>1
          <5> QED BY <1>4, <4>0, <4>2, <5>2
        <4>3. CASE d = b
          BY <3>1, <4>3
        <4> QED BY <1>4, <3>3, <4>0, <4>1, <4>2, <4>3
      <3>4. ASSUME NEW d \in 1 .. b, b < d PROVE FALSE
        BY <1>4, <3>4
      <3> QED BY <3>1, <3>2, <3>3, <3>4 DEF EvidenceReachesCursor
    <2>5. PassFollowsCursor'
      <3>1. /\ cursor' = b /\ b # 0 /\ firstRace' = firstRace /\ window' = window
        BY <1>2, <1>6, <2>0 DEF histories
      <3>2. \A p \in Observers : phase'[p] = "read" => window'[p] # {}
        BY <2>3, <3>1 DEF PassFollowsCursor
      <3>3. \A p \in Observers : todo'[p] # {} =>
                phase'[p] \in {"append", "count", "advance", "latest", "plan"}
        BY <1>3, <2>3 DEF PassFollowsCursor, Working, Sampling
      <3>4. ASSUME ~firstRace, NEW p \in Observers, NEW c \in todo'[p], NEW d \in Bars, b < d, d < c
            PROVE  d \in todo'[p]
        <4>0. c \in todo[p] /\ d \in Nat /\ d # b
          BY <1>0, <1>3, <1>4, <3>4
        <4>1. CASE cursor = 0
          <5>0. evidence = {}
            BY <4>1 DEF EvidenceReachesCursor
          <5>1. \A q \in Observers : phase[q] \notin {"count", "advance", "latest", "plan"}
            BY <5>0 DEF SamplesInHand, Sampling
          <5>2. phase[p] = "append"
            BY <4>0, <5>1 DEF PassFollowsCursor, Working, Sampling
          <5>3. p = o
            BY <1>2, <3>4, <4>1, <5>2 DEF PassFollowsCursor
          <5>4. c = b
            BY <1>1, <3>4, <4>0, <4>1, <5>3 DEF PassFollowsCursor
          <5> QED BY <1>3, <5>3, <5>4
        <4>2. CASE cursor # 0
          <5>1. d \in todo[p]
            BY <1>4, <2>0, <3>4, <4>0, <4>2 DEF PassFollowsCursor
          <5> QED BY <1>3, <4>0, <5>1
        <4> QED BY <4>1, <4>2
      <3> QED BY <3>1, <3>2, <3>3, <3>4 DEF PassFollowsCursor, Working, Sampling
    <2>6. Samples'
      <3>1. /\ evidence' = evidence \cup {b} /\ UNCHANGED <<uncounted, sampler, shadowPlans, together>>
            /\ UNCHANGED <<count, previous>>
        BY <1>2, <1>6 DEF histories, samplerStore
      <3>2. InHand' = InHand \cup {b}
        BY <1>1, <1>2, <2>3 DEF InHand, Counting
      <3>3. evidence' \ InHand' = evidence \ InHand
        BY <2>1, <3>1, <3>2
      <3>4. evidence' \ (uncounted' \cup InHand') = evidence \ (uncounted \cup InHand)
        BY <2>1, <3>1, <3>2
      <3>5. SamplesInHand'
        BY <2>1, <2>3, <3>1 DEF SamplesInHand, Sampling, Counting
      <3>6. CountsBounded'
        BY <2>3, <3>1, <3>3 DEF CountsBounded
      <3>7. EveryCloseCounted => EveryCloseCounted'
        BY <3>1, <3>4 DEF EveryCloseCounted
      <3>8. OneSampler => OneSampler'
        <4> USE <1>2, <2>3, <3>1
        <4>1. \A p \in Observers : phase'[p] \in {"advance", "latest", "plan"} => phase'[p] = phase[p]
          OBVIOUS
        <4> QED BY <4>1 DEF OneSampler
      <3> QED BY <3>1, <3>5, <3>6, <3>7, <3>8 DEF Samples
    <2>7. DigestsMarked'
      BY <1>2, <2>3, DigestsKept
    <2> QED BY <2>2, <2>3, <2>4, <2>5, <2>6, <2>7, TypeParts DEF Samples
  <1> QED BY <1>5, <1>6

LEMMA ReadCursorStep ==
    ASSUME ObserverAssumption, ObservationInv, NEW o \in Observers, ReadCursor(o)
    PROVE  ObservationInv'
  <1> USE DEF ObservationInv
  <1> DEFINE W == window[o]
             ahead == PendingBars(cursor, W)
  <1>1. /\ phase[o] = "read" /\ window' = [window EXCEPT ![o] = {}]
        /\ UNCHANGED <<marketVars, storeOfEvidence, samplerStore, localSample, observerStarts,
                       digestVars, uncounted, together>>
    BY DEF ReadCursor
  <1>2. W \in SUBSET Bars /\ W # {} /\ MaxBar \in Nat /\ Bars \subseteq Nat /\ cursor \in 0 .. MaxBar
    BY <1>1 DEF ObservationTypeOK, PassFollowsCursor, ObserverAssumption, Bars
  <1>3. PICK m \in W : m = Sets!Max(W)
    BY <1>2, NewestBar
  <1>4. ahead \subseteq Bars
    BY <1>2, <1>3 DEF PendingBars
  <1> HIDE DEF ahead, W
  <1>5. \/ /\ HistoryComplete(cursor, W) /\ cursor < m
           /\ todo' = [todo EXCEPT ![o] = ahead] /\ phase' = [phase EXCEPT ![o] = "append"]
           /\ firstRace' = (firstRace \/ (cursor = 0 /\ \E p \in Observers \ {o} : phase[p] = "append"))
        \/ phase' = [phase EXCEPT ![o] = AfterPass(o)] /\ UNCHANGED <<todo, firstRace>>
    BY <1>3 DEF ReadCursor, W, ahead
  <1>6. /\ \A p \in Observers : p # o => phase'[p] = phase[p] /\ todo'[p] = todo[p]
        /\ \A p \in Observers : window'[p] = IF p = o THEN {} ELSE window[p]
        /\ phase' \in [Observers -> Phases] /\ todo' \in [Observers -> SUBSET Bars]
        /\ firstRace' \in BOOLEAN /\ (firstRace => firstRace')
        /\ phase'[o] \in {"append", "digest", "idle"}
    BY <1>1, <1>4, <1>5 DEF ObservationTypeOK, AfterPass, Phases
  <1>7. OnlyObserver(o)
    BY <1>1, <1>6 DEF OnlyObserver, ObservationTypeOK, localSample
  <1>8. SharedShape'
    BY <1>1, <1>6 DEF ObservationTypeOK, SharedShape, marketVars, storeOfEvidence, samplerStore, digestVars
  <1>9. EvidenceReachesCursor'
    BY <1>1, <1>6, EvidenceKept
  <1>10. Samples'
    BY <1>1, <1>6, <1>7, OutsideSampler DEF Sampling, Samples, storeOfEvidence, samplerStore
  <1>11. DigestsMarked'
    BY <1>1, <1>7, DigestsKept
  <1>12. cursor' = cursor
    BY <1>1 DEF storeOfEvidence
  <1>13. CASE phase' = [phase EXCEPT ![o] = AfterPass(o)] /\ UNCHANGED <<todo, firstRace>>
    <2>1. todo[o] = {} /\ phase'[o] \notin {"append", "read"}
      BY <1>1, <1>6, <1>13 DEF PassFollowsCursor, Working, Sampling, ObservationTypeOK, AfterPass
    <2>2. PassFollowsCursor'
      BY <1>7, <1>12, <1>13, <2>1, PassKept
    <2> QED BY <1>7, <1>8, <1>9, <1>10, <1>11, <2>2, TypeParts DEF Samples
  <1>14. CASE /\ HistoryComplete(cursor, W) /\ cursor < m
              /\ todo' = [todo EXCEPT ![o] = ahead] /\ phase' = [phase EXCEPT ![o] = "append"]
              /\ firstRace' = (firstRace \/ (cursor = 0 /\ \E p \in Observers \ {o} : phase[p] = "append"))
    <2>1. /\ \A p \in Observers : phase'[p] = IF p = o THEN "append" ELSE phase[p]
          /\ \A p \in Observers : todo'[p] = IF p = o THEN ahead ELSE todo[p]
      BY <1>14 DEF ObservationTypeOK
    <2>2. \A p \in Observers : phase'[p] = "read" => window'[p] # {}
      BY <1>6, <2>1 DEF PassFollowsCursor
    <2>3. \A p \in Observers : todo'[p] # {} =>
              phase'[p] \in {"append", "count", "advance", "latest", "plan"}
      BY <2>1 DEF PassFollowsCursor, Working, Sampling
    <2>4. ASSUME ~firstRace', cursor = 0
          PROVE  /\ \A p \in Observers : \A b, c \in todo'[p] : b = c
                 /\ \A p, q \in Observers : phase'[p] = "append" /\ phase'[q] = "append" => p = q
      <3>1. ~firstRace /\ \A p \in Observers : p # o => phase[p] # "append"
        BY <1>14, <2>4
      <3>2. ahead = {m}
        BY <1>3, <2>4 DEF ahead, PendingBars
      <3>3. \A p \in Observers : \A b, c \in todo'[p] : b = c
        BY <2>1, <2>4, <3>1, <3>2 DEF PassFollowsCursor
      <3> QED BY <2>1, <3>1, <3>3
    <2>5. ASSUME ~firstRace', cursor # 0, NEW p \in Observers, NEW b \in todo'[p], NEW c \in Bars,
                 cursor < c, c < b
          PROVE  c \in todo'[p]
      <3>1. CASE p = o
        <4>1. cursor \in 1 .. MaxBar /\ cursor < Sets!Max(W)
          BY <1>2, <1>3, <1>14, <2>5
        <4>2. \A d \in ahead, e \in Bars : cursor < e /\ e < d => e \in ahead
          BY <1>2, <1>14, <4>1, CompleteHasNoGap DEF ahead
        <4> QED BY <2>1, <2>5, <3>1, <4>2
      <3>2. CASE p # o
        BY <1>14, <2>1, <2>5, <3>2 DEF PassFollowsCursor
      <3> QED BY <3>1, <3>2
    <2>6. PassFollowsCursor'
      BY <1>12, <2>2, <2>3, <2>4, <2>5 DEF PassFollowsCursor, Working, Sampling
    <2> QED BY <1>7, <1>8, <1>9, <1>10, <1>11, <2>6, TypeParts DEF Samples
  <1> QED BY <1>5, <1>13, <1>14

\* The steps of a pass that are neither the store's nor the sampler's.
LEMMA RestingStep ==
    ASSUME ObserverAssumption, ObservationInv, NEW o \in Observers,
           StartObserver(o) \/ FetchCandles(o) \/ PairObserved(o)
    PROVE  ObservationInv'
  <1> USE DEF ObservationInv
  <1>1. /\ UNCHANGED <<marketVars, storeOfEvidence, samplerStore, todo, localSample, digestVars, histories>>
        /\ phase[o] \in {"down", "idle", "append"} /\ todo[o] = {}
        /\ phase' = [phase EXCEPT ![o] = phase'[o]] /\ phase'[o] \in {"idle", "read", "digest"}
        /\ observerStarts' \in [Observers -> 0 .. ObserverStarts]
        /\ \A p \in Observers : p # o => window'[p] = window[p]
        /\ window' \in [Observers -> SUBSET Bars]
        /\ phase'[o] = "read" => window'[o] # {}
    <2>1. CASE StartObserver(o)
      <3>1. observerStarts' \in [Observers -> 0 .. ObserverStarts]
        BY <2>1 DEF StartObserver, ObservationTypeOK, ObserverAssumption
      <3> QED BY <2>1, <3>1 DEF StartObserver, ObservationTypeOK, PassFollowsCursor, Working, Sampling
    <2>2. CASE FetchCandles(o)
      <3>1. Newest(candles) \subseteq Bars /\ Newest(candles) # {}
        BY <2>2, AnswerHasCandle DEF FetchCandles, ObservationTypeOK, Newest
      <3> HIDE DEF Newest
      <3> QED BY <2>2, <3>1 DEF FetchCandles, ObservationTypeOK, PassFollowsCursor, Working, Sampling
    <2>3. CASE PairObserved(o)
      BY <2>3 DEF PairObserved, ObservationTypeOK, AfterPass
    <2> QED BY <2>1, <2>2, <2>3
  <1>2. /\ \A p \in Observers : p # o => phase'[p] = phase[p]
        /\ phase' \in [Observers -> Phases]
    BY <1>1 DEF ObservationTypeOK, Phases
  <1>3. OnlyObserver(o)
    BY <1>1, <1>2 DEF OnlyObserver, ObservationTypeOK, localSample
  <1>4. SharedShape'
    BY <1>1 DEF ObservationTypeOK, SharedShape, marketVars, storeOfEvidence, samplerStore, digestVars,
        histories
  <1>5. EvidenceReachesCursor'
    BY <1>1, EvidenceKept DEF histories
  <1>6. PassFollowsCursor'
    BY <1>1, <1>3, PassKept DEF storeOfEvidence, histories
  <1>7. Samples'
    BY <1>1, <1>3, OutsideSampler DEF Samples, Sampling, storeOfEvidence, samplerStore, histories
  <1>8. DigestsMarked'
    BY <1>1, <1>3, DigestsKept
  <1> QED BY <1>3, <1>4, <1>5, <1>6, <1>7, <1>8, TypeParts DEF Samples

\* A step of the sampler that leaves no close in hand, or leaves it where it was.
LEMMA SamplerStepKeeps ==
    ASSUME ObservationInv, NEW o \in Observers, OnlyObserver(o), Sampling(o),
           phase'[o] \in {"append", "advance", "latest", "plan"},
           SharedShape', UNCHANGED <<storeOfEvidence, window, todo, digestVars, firstRace>>
    PROVE  /\ ObservationTypeOK' /\ EvidenceReachesCursor' /\ PassFollowsCursor' /\ DigestsMarked'
  <1>1. bar[o] \in evidence /\ phase[o] # "mark"
    BY DEF ObservationInv, SamplesInHand, Sampling
  <1>2. cursor # 0
    <2>1. evidence \subseteq 1 .. cursor
      BY DEF ObservationInv, EvidenceReachesCursor
    <2>2. 1 .. 0 = {}
      OBVIOUS
    <2> QED BY <1>1, <2>1, <2>2
  <1>3. EvidenceReachesCursor'
    BY EvidenceKept DEF ObservationInv
  <1>4. PassFollowsCursor'
    BY <1>2, PassKept DEF ObservationInv, storeOfEvidence
  <1> QED BY <1>1, <1>3, <1>4, DigestsKept, TypeParts DEF ObservationInv

LEMMA ReadSamplerStep ==
    ASSUME ObserverAssumption, ObservationInv, NEW o \in Observers, ReadSamplerCursor(o)
    PROVE  ObservationInv'
  <1> USE DEF ObservationInv
  <1>1. /\ phase[o] = "count" /\ Counting(o) /\ Sampling(o)
        /\ together' = (together \/ \E p \in Observers \ {o} : Sampling(p))
        /\ UNCHANGED <<marketVars, storeOfEvidence, samplerStore, window, todo, observerStarts,
                       digestVars, firstRace>>
    BY DEF ReadSamplerCursor, Counting, Sampling
  <1>2. together' \in BOOLEAN /\ (together => together')
    BY <1>1 DEF ObservationTypeOK
  <1>3. bar[o] \in Bars /\ sampler.counted \in Nat
    BY <1>1 DEF ObservationTypeOK, SamplesInHand
  <1>4. CASE SampleDone(o) /\ uncounted' = uncounted \cup {bar[o]}
    <2>1. /\ phase' = [phase EXCEPT ![o] = "append"] /\ bar' = [bar EXCEPT ![o] = 0]
          /\ count' = [count EXCEPT ![o] = 0] /\ previous' = [previous EXCEPT ![o] = 0]
      BY <1>4 DEF SampleDone
    <2>2. \A p \in Observers : phase'[p] = IF p = o THEN "append" ELSE phase[p]
      BY <2>1 DEF ObservationTypeOK
    <2>3. OnlyObserver(o)
      BY <1>1, <2>1 DEF OnlyObserver, ObservationTypeOK, Phases, ObserverAssumption
    <2>4. SharedShape'
      BY <1>1, <1>2, <1>3, <1>4 DEF ObservationTypeOK, SharedShape, marketVars, storeOfEvidence,
            samplerStore, digestVars
    <2>5. /\ SamplesInHand' /\ Cardinality(evidence' \ InHand') = Cardinality(evidence \ InHand) + 1
          /\ Cardinality(evidence' \ (uncounted' \cup InHand')) = Cardinality(evidence \ (uncounted \cup InHand))
      BY <1>1, <1>4, <2>2, <2>3, HandReleased DEF Samples, storeOfEvidence
    <2>6. UNCHANGED <<sampler, shadowPlans>>
      BY <1>1 DEF samplerStore
    <2>7. CountsBounded'
      <3>1. Cardinality(evidence \ InHand) \in Nat
        BY <1>1, CountHasRoom DEF Samples
      <3>2. sampler'.counted <= Cardinality(evidence' \ InHand')
        BY <1>3, <2>5, <2>6, <3>1 DEF CountsBounded
      <3>3. ASSUME NEW p \in Observers, phase'[p] = "advance"
            PROVE  count'[p] <= Cardinality(evidence' \ InHand') + 1
        <4>1. p # o /\ phase[p] = "advance" /\ count'[p] = count[p] /\ count[p] \in Nat
          BY <2>2, <2>3, <3>3 DEF OnlyObserver, ObservationTypeOK
        <4> QED BY <2>5, <3>1, <4>1 DEF CountsBounded
      <3> QED BY <3>2, <3>3 DEF CountsBounded
    <2>8. together' \/ (EveryCloseCounted /\ OneSampler)'
      <3>1. EveryCloseCounted => EveryCloseCounted'
        BY <2>5, <2>6 DEF EveryCloseCounted
      <3>2. OneSampler => OneSampler'
        BY <2>2, <2>3, <2>6 DEF OneSampler, OnlyObserver
      <3> QED BY <1>2, <3>1, <3>2
    <2> QED BY <1>1, <2>2, <2>3, <2>4, <2>5, <2>7, <2>8, SamplerStepKeeps
  <1>5. CASE /\ count' = [count EXCEPT ![o] = sampler.counted + 1]
             /\ phase' = [phase EXCEPT ![o] = "advance"]
             /\ UNCHANGED <<bar, previous, uncounted>>
    <2>1. /\ Cardinality(evidence \ InHand) \in Nat
          /\ sampler.counted <= Cardinality(evidence \ InHand) /\ sampler.counted + 1 <= MaxBar
      BY <1>1, <1>3, CountHasRoom DEF Samples, CountsBounded, ObserverAssumption
    <2>2. /\ \A p \in Observers : /\ phase'[p] = IF p = o THEN "advance" ELSE phase[p]
                                  /\ count'[p] = IF p = o THEN sampler.counted + 1 ELSE count[p]
          /\ OnlyObserver(o)
      <3>1. sampler.counted + 1 \in 0 .. MaxBar
        BY <1>3, <2>1 DEF ObserverAssumption
      <3> QED BY <1>1, <1>5, <3>1 DEF OnlyObserver, ObservationTypeOK, Phases
    <2>3. SharedShape'
      BY <1>1, <1>2, <1>5 DEF ObservationTypeOK, SharedShape, marketVars, storeOfEvidence,
            samplerStore, digestVars
    <2>4. UNCHANGED <<sampler, shadowPlans, evidence, uncounted, bar, previous>>
      BY <1>1, <1>5 DEF samplerStore, storeOfEvidence
    <2>5. InHand' = InHand
      BY <1>1, <2>2, <2>4, HandKept
    <2>6. SamplesInHand'
      BY <1>1, <2>2, <2>4 DEF SamplesInHand, Sampling, Counting
    <2>7. CountsBounded'
      BY <1>3, <2>1, <2>2, <2>4, <2>5 DEF CountsBounded
    <2>8. ASSUME ~together' PROVE (EveryCloseCounted /\ OneSampler)'
      <3>1. EveryCloseCounted'
        BY <1>2, <2>4, <2>5, <2>8 DEF EveryCloseCounted
      <3>2. \A p \in Observers : p # o => ~Sampling(p)
        BY <1>1, <2>8
      <3>3. \A p \in Observers : phase'[p] \in {"advance", "latest", "plan"} => p = o
        BY <2>2, <3>2 DEF Sampling
      <3>4. OneSampler'
        BY <1>2, <2>2, <2>4, <2>8, <3>3 DEF OneSampler
      <3> QED BY <3>1, <3>4
    <2> QED BY <1>1, <2>2, <2>3, <2>6, <2>7, <2>8, SamplerStepKeeps
  <1> QED BY <1>4, <1>5 DEF ReadSamplerCursor

LEMMA AdvanceStep ==
    ASSUME ObserverAssumption, ObservationInv, NEW o \in Observers, AdvanceSamplerCursor(o)
    PROVE  ObservationInv'
  <1> USE DEF ObservationInv
  <1>1. /\ phase[o] = "advance" /\ Counting(o) /\ Sampling(o)
        /\ sampler' = [counted |-> count[o], last |-> bar[o]]
        /\ uncounted' = IF sampler.counted >= count[o] THEN uncounted \cup {bar[o]} ELSE uncounted
        /\ UNCHANGED <<marketVars, storeOfEvidence, shadowPlans, window, todo, observerStarts,
                       digestVars, firstRace, together>>
    BY DEF AdvanceSamplerCursor, Counting, Sampling
  <1>2. /\ bar[o] \in Bars /\ sampler.counted \in Nat /\ count[o] \in Nat /\ count[o] \in 0 .. MaxBar
        /\ bar[o] \in 0 .. MaxBar
    BY <1>1 DEF ObservationTypeOK, SamplesInHand, Sampling
  <1>3. \/ phase' = [phase EXCEPT ![o] = "latest"] /\ UNCHANGED localSample
        \/ SampleDone(o)
    BY DEF AdvanceSamplerCursor
  <1>4. /\ OnlyObserver(o) /\ phase'[o] \in {"append", "latest"}
        /\ phase'[o] = "latest" => bar'[o] = bar[o]
    BY <1>1, <1>3 DEF OnlyObserver, ObservationTypeOK, Phases, ObserverAssumption, SampleDone, localSample
  <1>5. SharedShape'
    BY <1>1, <1>2 DEF ObservationTypeOK, SharedShape, marketVars, storeOfEvidence, digestVars
  <1>6. evidence' = evidence /\ (uncounted' = uncounted \/ uncounted' = uncounted \cup {bar[o]})
    BY <1>1 DEF storeOfEvidence
  <1>7. /\ SamplesInHand' /\ Cardinality(evidence' \ InHand') = Cardinality(evidence \ InHand) + 1
        /\ uncounted' = uncounted =>
              Cardinality(evidence' \ (uncounted' \cup InHand'))
                = Cardinality(evidence \ (uncounted \cup InHand)) + 1
    BY <1>1, <1>4, <1>6, HandReleased DEF Samples
  <1>8. CountsBounded'
    <2>1. Cardinality(evidence \ InHand) \in Nat /\ count[o] <= Cardinality(evidence \ InHand) + 1
      BY <1>1, CountHasRoom DEF Samples, CountsBounded
    <2>2. ASSUME NEW p \in Observers, phase'[p] = "advance"
          PROVE  count'[p] <= Cardinality(evidence' \ InHand') + 1
      <3>1. phase[p] = "advance" /\ count'[p] = count[p] /\ count[p] \in Nat
        BY <1>4, <2>2 DEF OnlyObserver, ObservationTypeOK
      <3> QED BY <1>7, <2>1, <3>1 DEF CountsBounded
    <2> QED BY <1>1, <1>7, <2>1, <2>2 DEF CountsBounded
  <1>9. ASSUME ~together' PROVE (EveryCloseCounted /\ OneSampler)'
    <2>1. ~together /\ count[o] = sampler.counted + 1
      BY <1>1, <1>9 DEF OneSampler
    <2>2. uncounted' = uncounted
      BY <1>1, <1>2, <2>1
    <2>3. EveryCloseCounted'
      BY <1>1, <1>7, <2>1, <2>2 DEF EveryCloseCounted
    <2>4. \A p \in Observers : p # o => phase'[p] \notin {"advance", "latest", "plan"}
      BY <1>1, <1>4, <2>1 DEF OneSampler, OnlyObserver
    <2>5. OneSampler'
      BY <1>1, <1>4, <2>1, <2>4 DEF OneSampler
    <2> QED BY <2>3, <2>5
  <1> QED BY <1>1, <1>4, <1>5, <1>7, <1>8, <1>9, SamplerStepKeeps

LEMMA PlanStep ==
    ASSUME ObserverAssumption, ObservationInv, NEW o \in Observers, ReadLatestPlan(o) \/ InsertPlan(o)
    PROVE  ObservationInv'
  <1> USE DEF ObservationInv
  <1>1. /\ phase[o] \in {"latest", "plan"} /\ Sampling(o)
        /\ UNCHANGED <<marketVars, storeOfEvidence, sampler, window, todo, observerStarts, digestVars, histories>>
    BY DEF ReadLatestPlan, InsertPlan, Sampling, samplerStore
  <1>2. bar[o] \in evidence /\ bar[o] \in Bars /\ bar[o] \in Nat /\ shadowPlans \subseteq Nat /\ Horizon \in Nat
    BY <1>1 DEF SamplesInHand, ObservationTypeOK, ObserverAssumption, Bars
  <1>3. \/ SampleDone(o) /\ UNCHANGED shadowPlans
        \/ /\ phase[o] = "latest" /\ phase' = [phase EXCEPT ![o] = "plan"]
           /\ previous' = [previous EXCEPT ![o] = IF shadowPlans = {} THEN 0 ELSE Sets!Max(shadowPlans)]
           /\ UNCHANGED <<bar, count, shadowPlans>>
        \/ /\ phase[o] = "plan" /\ SampleDone(o) /\ ~Overlaps(bar[o], previous[o])
           /\ shadowPlans' = shadowPlans \cup {bar[o]}
    BY DEF ReadLatestPlan, InsertPlan, samplerStore
  <1>4. \E last \in 0 .. MaxBar :
            /\ last = IF shadowPlans = {} THEN 0 ELSE Sets!Max(shadowPlans)
            /\ last = 0 => shadowPlans = {}
            /\ \A b \in shadowPlans : b <= last
    <2>1. CASE shadowPlans = {}
      BY <2>1 DEF ObserverAssumption
    <2>2. CASE shadowPlans # {}
      <3>1. PICK m \in shadowPlans : m = Sets!Max(shadowPlans) /\ \A b \in shadowPlans : b <= m
        BY <2>2, NewestBar DEF ObservationTypeOK
      <3>2. m \in 0 .. MaxBar /\ m # 0
        BY <3>1 DEF ObservationTypeOK, Bars
      <3> QED BY <2>2, <3>1, <3>2
    <2> QED BY <2>1, <2>2
  <1>5. PICK last \in 0 .. MaxBar :
            /\ last = IF shadowPlans = {} THEN 0 ELSE Sets!Max(shadowPlans)
            /\ last = 0 => shadowPlans = {}
            /\ \A b \in shadowPlans : b <= last
    BY <1>4
  <1>6. /\ OnlyObserver(o) /\ phase'[o] \in {"append", "plan"} /\ shadowPlans' \subseteq Bars
        /\ phase'[o] = "plan" => bar'[o] = bar[o]
    <2>1. 0 \in 0 .. MaxBar
      BY DEF ObserverAssumption
    <2>2. CASE SampleDone(o) /\ shadowPlans' \in {shadowPlans, shadowPlans \cup {bar[o]}}
      <3>1. /\ phase' = [phase EXCEPT ![o] = "append"] /\ bar' = [bar EXCEPT ![o] = 0]
            /\ count' = [count EXCEPT ![o] = 0] /\ previous' = [previous EXCEPT ![o] = 0]
        BY <2>2 DEF SampleDone
      <3>2. shadowPlans' \subseteq Bars
        BY <1>2, <2>2 DEF ObservationTypeOK
      <3> QED BY <1>1, <2>1, <3>1, <3>2 DEF OnlyObserver, ObservationTypeOK, Phases
    <2>3. CASE /\ phase' = [phase EXCEPT ![o] = "plan"] /\ UNCHANGED <<bar, count, shadowPlans>>
               /\ previous' = [previous EXCEPT ![o] = last]
      BY <1>1, <2>3 DEF OnlyObserver, ObservationTypeOK, Phases
    <2> QED BY <1>3, <1>5, <2>2, <2>3
  <1>7. SharedShape'
    BY <1>1, <1>6 DEF ObservationTypeOK, SharedShape, marketVars, storeOfEvidence, digestVars, histories
  <1>8. /\ \A p \in Observers : p # o =>
            phase'[p] = phase[p] /\ bar'[p] = bar[p] /\ count'[p] = count[p] /\ previous'[p] = previous[p]
        /\ UNCHANGED <<evidence, uncounted, together, sampler>>
    BY <1>1, <1>6 DEF OnlyObserver, histories, storeOfEvidence
  <1>9. InHand' = InHand
    <2>1. phase[o] \notin {"count", "advance"} /\ phase'[o] \notin {"count", "advance"}
      BY <1>1, <1>6
    <2>2. \A p \in Observers : p # o => phase'[p] = phase[p] /\ bar'[p] = bar[p]
      BY <1>8
    <2> QED BY <2>1, <2>2 DEF InHand, Counting
  <1>10. SamplesInHand'
    BY <1>1, <1>2, <1>6, <1>8 DEF SamplesInHand, Sampling, Counting
  <1>11. CountsBounded'
    BY <1>6, <1>8, <1>9 DEF CountsBounded
  <1>12. ASSUME ~together' PROVE (EveryCloseCounted /\ OneSampler)'
    <2>1. EveryCloseCounted'
      BY <1>8, <1>9, <1>12 DEF EveryCloseCounted
    <2>2. \A p \in Observers : p # o => phase'[p] \notin {"advance", "latest", "plan"}
      BY <1>1, <1>8, <1>12 DEF OneSampler
    <2>3. \A p, q \in Observers : {phase'[p], phase'[q]} \subseteq {"advance", "latest", "plan"} => p = q
      BY <2>2
    <2>4. \A b, c \in shadowPlans' : b < c => c >= b + Horizon
      <3>1. CASE UNCHANGED shadowPlans
        BY <1>8, <1>12, <3>1 DEF OneSampler
      <3>2. CASE /\ phase[o] = "plan" /\ ~Overlaps(bar[o], previous[o])
                 /\ shadowPlans' = shadowPlans \cup {bar[o]}
        <4>1. previous[o] = 0 => shadowPlans = {}
          BY <1>8, <1>12, <3>2 DEF OneSampler
        <4>2. \A b \in shadowPlans : b <= previous[o] /\ previous[o] \in Nat
          BY <1>8, <1>12, <3>2 DEF OneSampler, ObservationTypeOK
        <4>3. \A b \in shadowPlans : bar[o] >= b + Horizon /\ b \in Nat
          BY <1>2, <3>2, <4>1, <4>2 DEF Overlaps
        <4>4. \A b, c \in shadowPlans : b < c => c >= b + Horizon
          BY <1>8, <1>12 DEF OneSampler
        <4>5. ASSUME NEW b \in shadowPlans', NEW c \in shadowPlans', b < c PROVE c >= b + Horizon
          <5>1. CASE b \in shadowPlans /\ c \in shadowPlans
            BY <4>4, <4>5, <5>1
          <5>2. CASE b \in shadowPlans /\ c = bar[o]
            BY <4>3, <5>2
          <5>3. CASE b = bar[o] /\ c \in shadowPlans
            <6>1. c \in Nat /\ bar[o] >= c + Horizon
              BY <4>3, <5>3
            <6> QED BY <1>2, <4>5, <5>3, <6>1
          <5> QED BY <1>2, <3>2, <4>5, <5>1, <5>2, <5>3
        <4> QED BY <4>5
      <3> QED BY <1>3, <3>1, <3>2
    <2>5. ASSUME NEW p \in Observers, phase'[p] = "plan"
          PROVE  (previous'[p] = 0 => shadowPlans' = {}) /\ \A b \in shadowPlans' : b <= previous'[p]
      <3>1. p = o
        BY <2>2, <2>5
      <3>2. ~SampleDone(o)
        BY <2>5, <3>1 DEF SampleDone, ObservationTypeOK
      <3>3. previous'[o] = last /\ shadowPlans' = shadowPlans
        BY <1>3, <1>5, <3>2 DEF ObservationTypeOK
      <3> QED BY <1>5, <3>1, <3>3
    <2> QED BY <1>6, <2>1, <2>2, <2>3, <2>4, <2>5 DEF OneSampler
  <1>13. phase'[o] \in {"append", "advance", "latest", "plan"} /\ UNCHANGED firstRace
    BY <1>1, <1>6 DEF histories
  <1> QED BY <1>1, <1>6, <1>7, <1>10, <1>11, <1>12, <1>13, SamplerStepKeeps

LEMMA DayIsDigestDay ==
    ASSUME ObserverAssumption, NEW n \in 0 .. MaxBar
    PROVE  DayOf(n) \in DigestDays
  BY DEF ObserverAssumption, DayOf, DigestDays

LEMMA DigestStep ==
    ASSUME ObserverAssumption, ObservationInv, SendDigest \/ MarkDigest
    PROVE  ObservationInv'
  <1> USE DEF ObservationInv
  <1> DEFINE o == "daemon"
  <1>1. /\ phase[o] \in {"digest", "mark"} /\ o \in Observers
        /\ UNCHANGED <<marketVars, storeOfEvidence, samplerStore, window, todo, count, previous,
                       observerStarts, lostMarks, histories>>
    BY DEF SendDigest, MarkDigest, Observers
  <1>2. newestBar \in 0 .. MaxBar /\ bar[o] \in 0 .. MaxBar /\ 0 \in 0 .. MaxBar
    BY <1>1 DEF ObservationTypeOK, ObserverAssumption
  <1>3. \/ /\ phase[o] = "digest" /\ phase' = [phase EXCEPT ![o] = "idle"]
           /\ UNCHANGED <<digests, repeated, bar, digestMarked>>
        \/ /\ phase[o] = "digest" /\ Today \notin digestMarked
           /\ digests' = digests \cup {Today} /\ repeated' = repeated \cup (digests \cap {Today})
           /\ bar' = [bar EXCEPT ![o] = newestBar] /\ phase' = [phase EXCEPT ![o] = "mark"]
           /\ UNCHANGED digestMarked
        \/ /\ phase[o] = "mark" /\ digestMarked' = digestMarked \cup {DayOf(bar[o])}
           /\ bar' = [bar EXCEPT ![o] = 0] /\ phase' = [phase EXCEPT ![o] = "idle"]
           /\ UNCHANGED <<digests, repeated>>
    BY DEF SendDigest, MarkDigest
  <1>4. OnlyObserver(o) /\ phase'[o] \in {"idle", "mark"} /\ todo[o] = {}
    BY <1>1, <1>2, <1>3 DEF OnlyObserver, ObservationTypeOK, Phases, PassFollowsCursor, Working, Sampling
  <1>5. Today \in DigestDays /\ DayOf(bar[o]) \in DigestDays
    BY <1>2, DayIsDigestDay DEF Today
  <1>6. SharedShape'
    <2>1. \A days \in {digests', digestMarked', lostMarks', repeated'} : days \subseteq DigestDays
      BY <1>1, <1>3, <1>5 DEF ObservationTypeOK
    <2> QED BY <1>1, <2>1 DEF ObservationTypeOK, SharedShape, marketVars, storeOfEvidence, samplerStore,
        histories
  <1>7. EvidenceReachesCursor'
    BY <1>1, EvidenceKept DEF histories
  <1>8. PassFollowsCursor'
    BY <1>1, <1>4, PassKept DEF storeOfEvidence, histories
  <1>9. Samples'
    BY <1>1, <1>4, OutsideSampler DEF Samples, Sampling, storeOfEvidence, samplerStore, histories
  <1>10. DigestsMarked'
    <2>1. CASE /\ phase[o] = "digest" /\ phase' = [phase EXCEPT ![o] = "idle"]
               /\ UNCHANGED <<digests, repeated, bar, digestMarked>>
      BY <1>1, <2>1 DEF DigestsMarked
    <2>2. CASE /\ phase[o] = "digest" /\ Today \notin digestMarked
               /\ digests' = digests \cup {Today} /\ repeated' = repeated \cup (digests \cap {Today})
               /\ bar' = [bar EXCEPT ![o] = newestBar] /\ phase' = [phase EXCEPT ![o] = "mark"]
               /\ UNCHANGED digestMarked
      <3>1. bar'[o] = newestBar /\ phase'[o] = "mark" /\ Today = DayOf(bar'[o])
        BY <1>1, <2>2 DEF ObservationTypeOK, Today
      <3>2. \A d \in digests : d \in digestMarked \cup lostMarks
        BY <2>2 DEF DigestsMarked
      <3>3. repeated' \subseteq lostMarks'
        BY <1>1, <2>2, <3>2 DEF DigestsMarked
      <3> QED BY <1>1, <2>2, <3>1, <3>2, <3>3 DEF DigestsMarked
    <2>3. CASE /\ phase[o] = "mark" /\ digestMarked' = digestMarked \cup {DayOf(bar[o])}
               /\ bar' = [bar EXCEPT ![o] = 0] /\ phase' = [phase EXCEPT ![o] = "idle"]
               /\ UNCHANGED <<digests, repeated>>
      BY <1>1, <2>3 DEF DigestsMarked
    <2> QED BY <1>3, <2>1, <2>2, <2>3
  <1> QED BY <1>1, <1>4, <1>6, <1>7, <1>8, <1>9, <1>10, TypeParts DEF Samples

LEMMA AbortStep ==
    ASSUME ObserverAssumption, ObservationInv, NEW o \in Observers, PassAborts(o)
    PROVE  ObservationInv'
  <1> USE DEF ObservationInv
  <1>1. /\ phase' = [phase EXCEPT ![o] = phase'[o]] /\ phase'[o] \in {"idle", "down"}
        /\ uncounted' = IF phase[o] \in {"count", "advance"} THEN uncounted \cup {bar[o]} ELSE uncounted
        /\ lostMarks' = IF phase[o] = "mark" THEN lostMarks \cup {DayOf(bar[o])} ELSE lostMarks
        /\ window' = [window EXCEPT ![o] = {}] /\ todo' = [todo EXCEPT ![o] = {}]
        /\ bar' = [bar EXCEPT ![o] = 0] /\ count' = [count EXCEPT ![o] = 0]
        /\ previous' = [previous EXCEPT ![o] = 0]
        /\ UNCHANGED <<marketVars, storeOfEvidence, samplerStore, observerStarts, digests, digestMarked,
                       repeated, firstRace, together>>
    BY DEF PassAborts, ObservationTypeOK
  <1>2. OnlyObserver(o) /\ todo'[o] = {}
    <2>1. 0 \in 0 .. MaxBar
      BY DEF ObserverAssumption
    <2> QED BY <1>1, <2>1 DEF OnlyObserver, ObservationTypeOK, Phases
  <1>3. SharedShape'
    <2>1. DayOf(bar[o]) \in DigestDays
      BY DayIsDigestDay DEF ObservationTypeOK
    <2>2. phase[o] \in {"count", "advance"} => bar[o] \in Bars
      BY DEF SamplesInHand, Sampling, ObservationTypeOK
    <2>3. uncounted' \subseteq Bars
      BY <1>1, <2>2 DEF ObservationTypeOK
    <2>4. \A days \in {digests', digestMarked', lostMarks', repeated'} : days \subseteq DigestDays
      BY <1>1, <2>1 DEF ObservationTypeOK
    <2> QED BY <1>1, <2>3, <2>4 DEF ObservationTypeOK, SharedShape, marketVars, storeOfEvidence, samplerStore
  <1>4. EvidenceReachesCursor'
    BY <1>1, EvidenceKept
  <1>5. PassFollowsCursor'
    BY <1>1, <1>2, PassKept DEF storeOfEvidence
  <1>6. Samples'
    <2>1. CASE Counting(o)
      <3>1. uncounted' = uncounted \cup {bar[o]} /\ UNCHANGED <<evidence, sampler, shadowPlans, together>>
        BY <1>1, <2>1 DEF Counting, storeOfEvidence, samplerStore
      <3>2. /\ SamplesInHand' /\ Cardinality(evidence' \ InHand') = Cardinality(evidence \ InHand) + 1
            /\ Cardinality(evidence' \ (uncounted' \cup InHand')) = Cardinality(evidence \ (uncounted \cup InHand))
        BY <1>1, <1>2, <2>1, <3>1, HandReleased DEF Samples
      <3>3. Cardinality(evidence \ InHand) \in Nat /\ sampler.counted \in Nat
        <4>1. Cardinality(evidence \ InHand) \in Nat
          BY <2>1, CountHasRoom DEF Samples
        <4> QED BY <4>1 DEF ObservationTypeOK
      <3>4. \A p \in Observers : phase'[p] \in {"advance", "latest", "plan"} =>
                /\ p # o /\ phase'[p] = phase[p] /\ count'[p] = count[p] /\ previous'[p] = previous[p]
                /\ count[p] \in Nat
        BY <1>1, <1>2 DEF OnlyObserver, ObservationTypeOK
      <3>5. sampler'.counted <= Cardinality(evidence' \ InHand')
        BY <3>1, <3>2, <3>3 DEF CountsBounded
      <3>6. ASSUME NEW p \in Observers, phase'[p] = "advance"
            PROVE  count'[p] <= Cardinality(evidence' \ InHand') + 1
        <4>1. phase[p] = "advance" /\ count'[p] = count[p] /\ count[p] \in Nat
          BY <3>4, <3>6
        <4>2. count[p] <= Cardinality(evidence \ InHand) + 1
          BY <4>1 DEF CountsBounded
        <4> QED BY <3>2, <3>3, <4>1, <4>2
      <3>7. EveryCloseCounted => EveryCloseCounted'
        BY <3>1, <3>2 DEF EveryCloseCounted
      <3>8. OneSampler => OneSampler'
        <4>1. /\ \A p, q \in Observers : {phase'[p], phase'[q]} \subseteq {"advance", "latest", "plan"} =>
                    {phase[p], phase[q]} \subseteq {"advance", "latest", "plan"}
              /\ \A p \in Observers : phase'[p] = "advance" => phase[p] = "advance" /\ count'[p] = count[p]
              /\ \A p \in Observers : phase'[p] = "plan" => phase[p] = "plan" /\ previous'[p] = previous[p]
          BY <3>4
        <4> QED BY <3>1, <4>1 DEF OneSampler
      <3>9. CountsBounded'
        BY <3>5, <3>6 DEF CountsBounded
      <3> QED BY <3>1, <3>2, <3>7, <3>8, <3>9 DEF Samples
    <2>2. CASE Sampling(o) /\ ~Counting(o)
      <3>1. UNCHANGED <<evidence, uncounted, sampler, shadowPlans, together>>
        BY <1>1, <2>2 DEF Counting, storeOfEvidence, samplerStore
      <3>2. \A p \in Observers : phase'[p] \in {"count", "advance", "latest", "plan"} =>
                /\ p # o /\ phase'[p] = phase[p] /\ bar'[p] = bar[p] /\ count'[p] = count[p]
                /\ previous'[p] = previous[p]
        BY <1>1, <1>2 DEF OnlyObserver
      <3>3. phase[o] \notin {"count", "advance"} /\ phase'[o] \notin {"count", "advance"}
        BY <1>1, <2>2 DEF Counting
      <3>4. \A p \in Observers : p # o => phase'[p] = phase[p] /\ bar'[p] = bar[p]
        BY <1>2 DEF OnlyObserver
      <3>5. InHand' = InHand
        BY <3>3, <3>4 DEF InHand, Counting
      <3>6. SamplesInHand'
        BY <3>1, <3>2 DEF SamplesInHand, Sampling, Counting
      <3>7. CountsBounded' /\ (EveryCloseCounted => EveryCloseCounted')
        BY <3>1, <3>2, <3>5 DEF CountsBounded, EveryCloseCounted
      <3>8. OneSampler => OneSampler'
        BY <3>1, <3>2 DEF OneSampler
      <3> QED BY <3>1, <3>6, <3>7, <3>8 DEF Samples
    <2>3. CASE ~Sampling(o)
      BY <1>1, <1>2, <2>3, OutsideSampler DEF Samples, Sampling, storeOfEvidence, samplerStore
    <2> QED BY <2>1, <2>2, <2>3
  <1>7. DigestsMarked'
    <2>1. CASE o = "daemon" /\ phase[o] = "mark"
      BY <1>1, <2>1 DEF DigestsMarked
    <2>2. CASE o = "daemon" /\ phase[o] # "mark"
      BY <1>1, <2>2 DEF DigestsMarked
    <2>3. CASE o # "daemon"
      <3>1. phase'["daemon"] = phase["daemon"] /\ bar'["daemon"] = bar["daemon"]
        BY <1>2, <2>3 DEF OnlyObserver, Observers
      <3>2. lostMarks \subseteq lostMarks'
        BY <1>1
      <3> QED BY <1>1, <3>1, <3>2 DEF DigestsMarked
    <2> QED BY <2>1, <2>2, <2>3
  <1> QED BY <1>2, <1>3, <1>4, <1>5, <1>6, <1>7, TypeParts DEF Samples

LEMMA ObserversStep ==
    ASSUME ObserverAssumption, ObservationInv, [ObservationNext]_observationVars
    PROVE  ObservationInv'
  <1>1. CASE BarCloses \/ UNCHANGED observationVars
    <2>1. /\ UNCHANGED <<cursor, evidence, sampler, shadowPlans, phase, window, todo, bar, count, previous>>
          /\ UNCHANGED <<observerStarts, digests, digestMarked, lostMarks, repeated>>
          /\ UNCHANGED <<firstRace, uncounted, together>>
      BY <1>1 DEF BarCloses, observationVars, digestVars, histories
    <2>2. newestBar' \in 0 .. MaxBar /\ candles' \subseteq Bars
      <3>1. newestBar \in 0 .. MaxBar /\ candles \subseteq Bars /\ MaxBar \in Nat
        BY DEF ObservationInv, ObservationTypeOK, ObserverAssumption
      <3>2. CASE BarCloses
        <4>1. newestBar' = newestBar + 1 /\ newestBar < MaxBar
              /\ candles' \in {candles, candles \cup {newestBar + 1}}
          BY <3>2 DEF BarCloses
        <4>2. newestBar + 1 \in Bars /\ newestBar + 1 \in 0 .. MaxBar
          BY <3>1, <4>1 DEF Bars
        <4> QED BY <3>1, <4>1, <4>2
      <3>3. CASE UNCHANGED observationVars
        BY <3>1, <3>3 DEF observationVars
      <3> QED BY <1>1, <3>2, <3>3
    <2>3. ObservationTypeOK'
      BY <2>1, <2>2 DEF ObservationInv, ObservationTypeOK
    <2>4. EvidenceReachesCursor' /\ PassFollowsCursor'
      BY <2>1 DEF ObservationInv, EvidenceReachesCursor, PassFollowsCursor, Working, Sampling
    <2>5. SamplesInHand' /\ InHand' = InHand
      BY <2>1 DEF ObservationInv, SamplesInHand, InHand, Sampling, Counting
    <2>6. CountsBounded' /\ (EveryCloseCounted => EveryCloseCounted')
      BY <2>1, <2>5 DEF ObservationInv, CountsBounded, EveryCloseCounted
    <2>7. (OneSampler => OneSampler') /\ DigestsMarked'
      BY <2>1 DEF ObservationInv, OneSampler, DigestsMarked
    <2> QED BY <2>1, <2>3, <2>4, <2>5, <2>6, <2>7 DEF ObservationInv
  <1>2. ASSUME NEW o \in Observers, StartObserver(o) \/ ObserverStep(o) \/ PassAborts(o)
        PROVE  ObservationInv'
    BY <1>2, RestingStep, ReadCursorStep, AppendStep, ReadSamplerStep, AdvanceStep, PlanStep, DigestStep,
       AbortStep DEF ObserverStep
  <1> QED BY <1>1, <1>2 DEF ObservationNext

LEMMA ObservationStarts ==
    ASSUME ObserverAssumption, ObservationInit
    PROVE  ObservationInv
  <1>1. 0 \in 0 .. MaxBar /\ 0 \in 0 .. ObserverStarts /\ 1 .. 0 = {}
    BY DEF ObserverAssumption
  <1>2. ObservationTypeOK
    BY <1>1 DEF ObservationInit, ObservationTypeOK, Phases
  <1>3. InHand = {} /\ evidence = {} /\ evidence \ InHand = {} /\ evidence \ (uncounted \cup InHand) = {}
    BY DEF ObservationInit, InHand, Counting
  <1>4. EveryCloseCounted /\ CountsBounded
    BY <1>3, FS_EmptySet DEF ObservationInit, EveryCloseCounted, CountsBounded
  <1>5. EvidenceReachesCursor /\ PassFollowsCursor /\ SamplesInHand /\ DigestsMarked
    BY <1>1 DEF ObservationInit, EvidenceReachesCursor, PassFollowsCursor, SamplesInHand, DigestsMarked,
          Working, Sampling, Counting
  <1>6. OneSampler
    BY DEF ObservationInit, OneSampler
  <1> QED BY <1>2, <1>4, <1>5, <1>6 DEF ObservationInv

LEMMA ObservationInvImplies ==
    ASSUME ObserverAssumption, ObservationInv
    PROVE  ObservationsComplete
  <1> USE DEF ObservationInv
  <1>0. evidence \in SUBSET Bars /\ cursor \in Nat /\ evidence \subseteq 1 .. cursor /\ Bars \subseteq Nat
    BY DEF ObservationTypeOK, EvidenceReachesCursor, Bars
  <1>1. ASSUME evidence # {} PROVE cursor = Sets!Max(evidence) /\ cursor \in evidence
    <2>1. PICK m \in evidence : m = Sets!Max(evidence) /\ \A b \in evidence : b <= m
      BY <1>0, <1>1, NewestBar
    <2>2. cursor # 0
      <3>1. 1 .. 0 = {}
        OBVIOUS
      <3> QED BY <1>0, <1>1, <3>1
    <2>3. cursor \in evidence
      BY <2>2 DEF EvidenceReachesCursor
    <2>4. m \in 1 .. cursor /\ cursor <= m
      BY <1>0, <2>1, <2>3
    <2>5. m = cursor
      BY <1>0, <2>4
    <2> QED BY <2>1, <2>3, <2>5
  <1>2. ASSUME ~firstRace PROVE evidence = FirstBar .. cursor
    <2>1. CASE evidence = {}
      <3>1. cursor = 0 /\ FirstBar = 1
        BY <2>1 DEF EvidenceReachesCursor, FirstBar
      <3>2. 1 .. 0 = {}
        OBVIOUS
      <3> QED BY <2>1, <3>1, <3>2
    <2>2. CASE evidence # {}
      <3>1. PICK f \in evidence : f = Sets!Min(evidence) /\ \A b \in evidence : f <= b
        BY <1>0, <2>2, LeastBar
      <3>2. FirstBar = f /\ f \in Nat /\ f >= 1
        BY <1>0, <2>2, <3>1 DEF FirstBar
      <3>3. ASSUME NEW b \in evidence PROVE b \in f .. cursor
        <4>1. b \in Nat /\ f <= b /\ b \in 1 .. cursor
          BY <1>0, <3>1
        <4> QED BY <1>0, <3>2, <4>1
      <3>4. ASSUME NEW b \in f .. cursor PROVE b \in evidence
        <4>1. CASE b = f
          BY <3>1, <4>1
        <4>2. CASE b # f
          <5>1. f < b /\ b \in 1 .. cursor
            BY <1>0, <3>2, <4>2
          <5> QED BY <1>2, <3>1, <5>1 DEF EvidenceReachesCursor
        <4> QED BY <4>1, <4>2
      <3> QED BY <3>2, <3>3, <3>4
    <2> QED BY <2>1, <2>2
  <1>3. \/ together
        \/ \E o \in Observers : phase[o] \in {"count", "advance"}
        \/ sampler.counted = Cardinality(evidence \ uncounted)
    <2>1. SUFFICES ASSUME ~together, \A o \in Observers : phase[o] \notin {"count", "advance"}
                   PROVE  sampler.counted = Cardinality(evidence \ uncounted)
      OBVIOUS
    <2>2. InHand = {}
      BY <2>1 DEF InHand, Counting
    <2>3. evidence \ (uncounted \cup InHand) = evidence \ uncounted
      BY <2>2
    <2> QED BY <2>1, <2>3 DEF EveryCloseCounted
  <1>4. together \/ \A b, c \in shadowPlans : b < c => c >= b + Horizon
    BY DEF OneSampler
  <1> QED BY <1>1, <1>2, <1>3, <1>4 DEF ObservationsComplete, DigestsMarked

\* However the daemon and the supervisor interleave, abort and restart, and wherever the
\* history has gaps, the evidence reaches from the first close to the cursor with none of its
\* own, the sampler counts every close that no crash or race lost, and a day's digest is
\* repeated only when its mark was lost, for any number of candles and any window
\* (observation_daemon.py, forward_shadow_sampler.py).
THEOREM ObserversSafe ==
    ASSUME ObserverAssumption
    PROVE  ObservationSpec => [](ObservationTypeOK /\ ObservationsComplete)
  <1>1. ObservationInit => ObservationInv
    BY ObservationStarts
  <1>2. ObservationInv /\ [ObservationNext]_observationVars => ObservationInv'
    BY ObserversStep
  <1>3. ObservationInv => ObservationTypeOK /\ ObservationsComplete
    BY ObservationInvImplies DEF ObservationInv
  <1> QED BY <1>1, <1>2, <1>3, PTL DEF ObservationSpec

(***************************************************************************)
(* The risk day.  A complete reading holds every trade closed so far on    *)
(* the day it was taken, so the engine that was reconciled from it counts  *)
(* every trade of the day it is judged on; and trades that close later     *)
(* change nothing of what an order rests on.                               *)
(***************************************************************************)
\* What Reconciled says of a book of closed trades.
OnDay(book, day, trades) == {t \in trades : book[t].day = day}
LostIn(book, trades) == UNION {{t} \X (1 .. -book[t].profit) : t \in trades}
TallyOf(book, trades, day, balance) ==
    [count |-> Cardinality(OnDay(book, day, trades)),
     loss |-> (100 * Cardinality(LostIn(book, OnDay(book, day, trades)))) \div balance]

RiskSteps == {"idle", "read", "reconciled", "sized", "reread", "rechecked"}
Readings == [trades : SUBSET Nat, complete : BOOLEAN, seen : Nat]

RiskShape ==
    /\ RiskTypeOK
    /\ closed \in Seq([day : 0 .. MaxDay, profit : Int])
    /\ \A t \in 1 .. Len(closed) : closed[t].day <= today
    /\ riskCycle \in [step : RiskSteps, reading : Readings, authorized : Nat, quantity : Nat,
                      distance : Nat, balance : Nat, judged : 0 .. MaxDay]
    /\ riskCycle.step # "idle" => riskCycle.balance > 0

ReadingTrue ==
    LET reading == riskCycle.reading
    IN  /\ reading.seen <= Len(closed) /\ reading.trades \subseteq 1 .. reading.seen
        /\ Cardinality(reading.trades) <= HistoryLimit
        /\ reading.complete =>
              \E day \in 0 .. today :
                  /\ \A t \in 1 .. reading.seen : closed[t].day <= day
                  /\ reading.trades = OnDay(closed, day, 1 .. reading.seen)

EngineTrue ==
    riskCycle.step \in {"reconciled", "rechecked"} =>
        /\ engine = TallyOf(closed, riskCycle.reading.trades, riskCycle.judged, riskCycle.balance)
        /\ riskCycle.reading.complete =>
              OnDay(closed, riskCycle.judged, riskCycle.reading.trades)
                = OnDay(closed, riskCycle.judged, 1 .. riskCycle.reading.seen)

SizingTrue ==
    riskCycle.step \in {"sized", "reread", "rechecked"} =>
        2 * (LossAtStop(riskCycle.quantity, riskCycle.distance) - riskCycle.authorized) <= Cent

OrdersJudged ==
    /\ IsFiniteSet(sent) /\ Cardinality(sent) = fills
    /\ \A o \in sent :
          /\ o.id \in 1 .. fills /\ o.seen \in Nat /\ o.seen <= Len(closed)
          /\ TallyOf(closed, 1 .. o.seen, o.day, o.balance).count < MaxTradesDaily
          /\ TallyOf(closed, 1 .. o.seen, o.day, o.balance).loss < MaxDailyLoss
          /\ 2 * (o.loss - o.authorized) <= Cent

RiskInv == RiskShape /\ ReadingTrue /\ EngineTrue /\ SizingTrue /\ OrdersJudged

LEMMA DaysCounted ==
    /\ \A trades, day, balance :
          Reconciled(trades, day, balance) = TallyOf(closed, trades, day, balance)
    /\ \A trades, day : ClosedOn(day, trades) = OnDay(closed, day, trades)
  BY DEF Reconciled, ClosedOn, UnitsLost, TallyOf, OnDay, LostIn

LEMMA MemberOfSeq ==
    ASSUME NEW R, NEW s \in Seq(R), NEW i \in 1 .. Len(s)
    PROVE  s[i] \in R
  OBVIOUS

LEMMA QuotientIsNat ==
    ASSUME NEW a \in Nat, NEW d \in Nat, d > 0
    PROVE  a \div d \in Nat /\ (a \div d) * d <= a
  OBVIOUS

\* What the engine counts of so many trades.
LEMMA TallyType ==
    ASSUME NEW book \in Seq([day : 0 .. MaxDay, profit : Int]), NEW n \in Nat,
           n <= Len(book), NEW trades \in SUBSET (1 .. n), NEW day, NEW balance \in Nat, balance > 0
    PROVE  /\ TallyOf(book, trades, day, balance).count \in Nat
           /\ TallyOf(book, trades, day, balance).count <= Cardinality(trades)
           /\ TallyOf(book, trades, day, balance).loss \in Nat
           /\ Cardinality(trades) \in Nat
  <1> DEFINE T == OnDay(book, day, trades)
             f == [t \in T |-> {t} \X (1 .. -book[t].profit)]
             F == {f[t] : t \in T}
  <1>1. IsFiniteSet(trades) /\ Cardinality(trades) \in Nat
    <2>1. IsFiniteSet(1 .. n)
      BY FS_Interval
    <2>2. IsFiniteSet(trades)
      BY <2>1, FS_Subset
    <2> QED BY <2>2, FS_CardinalityType
  <1>2. T \in SUBSET trades
    BY DEF OnDay
  <1> HIDE DEF T
  <1>3. IsFiniteSet(T) /\ Cardinality(T) \in Nat /\ Cardinality(T) <= Cardinality(trades)
    BY <1>1, <1>2, FS_Subset, FS_CardinalityType
  <1>4. ASSUME NEW t \in T PROVE IsFiniteSet(f[t])
    <2>1. t \in 1 .. Len(book)
      BY <1>2
    <2>2. book[t] \in [day : 0 .. MaxDay, profit : Int]
      BY <2>1, MemberOfSeq
    <2> DEFINE m == -book[t].profit
    <2>3. m \in Int
      BY <2>2
    <2> HIDE DEF m
    <2>4. IsFiniteSet(1 .. m)
      BY <2>3, FS_Interval
    <2>5. IsFiniteSet({t} \X (1 .. m))
      BY <2>4, FS_Singleton, FS_Product
    <2> QED BY <2>5 DEF m
  <1>5. IsFiniteSet(F)
    <2>1. f \in [T -> F] /\ \A S \in F : \E t \in T : f[t] = S
      <3>1. f = [t \in T |-> f[t]]
        OBVIOUS
      <3> HIDE DEF f
      <3> QED BY <3>1
    <2>2. f \in Surjection(T, F)
      BY <2>1 DEF Surjection
    <2> QED BY <1>3, <2>2, FS_Surjection
  <1>6. \A S \in F : IsFiniteSet(S)
    BY <1>4
  <1>7. LostIn(book, T) = UNION F
    <2>1. F = {{t} \X (1 .. -book[t].profit) : t \in T}
      OBVIOUS
    <2> HIDE DEF F
    <2> QED BY <2>1 DEF LostIn
  <1> HIDE DEF F
  <1>8. Cardinality(LostIn(book, T)) \in Nat
    BY <1>5, <1>6, <1>7, FS_UNION, FS_CardinalityType
  <1>9. 100 * Cardinality(LostIn(book, T)) \in Nat
    BY <1>8
  <1>10. (100 * Cardinality(LostIn(book, T))) \div balance \in Nat
    BY <1>9, QuotientIsNat
  <1> QED BY <1>1, <1>3, <1>10 DEF TallyOf, T

LEMMA NewestFit ==
    ASSUME RiskDayAssumption, NEW S \in SUBSET Nat, IsFiniteSet(S)
    PROVE  /\ NewestTrades(S) \subseteq S
           /\ Cardinality(NewestTrades(S)) <= HistoryLimit
           /\ Cardinality(S) <= HistoryLimit => NewestTrades(S) = S
  <1> DEFINE Later(t) == {u \in S : u > t}
             N == NewestTrades(S)
  <1>1. HistoryLimit \in Nat /\ HistoryLimit > 0 /\ Cardinality(S) \in Nat
    BY FS_CardinalityType DEF RiskDayAssumption
  <1>2. N = {t \in S : Cardinality(Later(t)) < HistoryLimit} /\ N \subseteq S
    BY DEF NewestTrades
  <1>3. \A t \in S : IsFiniteSet(Later(t)) /\ Cardinality(Later(t)) \in Nat
    <2>1. ASSUME NEW t \in S PROVE IsFiniteSet(Later(t)) /\ Cardinality(Later(t)) \in Nat
      <3> DEFINE L == Later(t)
      <3>1. L \in SUBSET S
        OBVIOUS
      <3> HIDE DEF L
      <3>2. IsFiniteSet(L) /\ Cardinality(L) \in Nat
        BY <3>1, FS_Subset, FS_CardinalityType
      <3> QED BY <3>2 DEF L
    <2> QED BY <2>1
  <1>4. IsFiniteSet(N) /\ Cardinality(N) \in Nat
    BY <1>2, FS_Subset, FS_CardinalityType
  <1>5. Cardinality(N) <= HistoryLimit
    <2>1. CASE N = {}
      BY <1>1, <2>1, FS_EmptySet
    <2>2. CASE N # {}
      <3>1. PICK x \in N : \A y \in N : x <= y
        BY <1>2, <2>2, NatHasLeast
      <3>2. N \ {x} \in SUBSET Later(x)
        <4>1. ASSUME NEW y \in N, y # x PROVE y \in S /\ y > x
          <5>1. x \in Nat /\ y \in Nat /\ x <= y
            BY <1>2, <3>1
          <5> QED BY <1>2, <4>1, <5>1
        <4> QED BY <4>1
      <3>3. Cardinality(N \ {x}) = Cardinality(N) - 1
        BY <1>4, <3>1, FS_RemoveElement
      <3>4. Cardinality(N \ {x}) <= Cardinality(Later(x)) /\ Cardinality(Later(x)) < HistoryLimit
        BY <1>2, <1>3, <3>1, <3>2, FS_Subset
      <3>5. Cardinality(Later(x)) \in Nat
        BY <1>2, <1>3, <3>1
      <3> QED BY <1>1, <1>4, <3>3, <3>4, <3>5
    <2> QED BY <2>1, <2>2
  <1>6. ASSUME Cardinality(S) <= HistoryLimit, NEW t \in S PROVE t \in N
    <2>1. Later(t) \in SUBSET (S \ {t}) /\ IsFiniteSet(S \ {t})
      BY FS_RemoveElement
    <2>2. Cardinality(Later(t)) <= Cardinality(S \ {t}) /\ Cardinality(S \ {t}) = Cardinality(S) - 1
      BY <2>1, FS_Subset, FS_RemoveElement
    <2>3. Cardinality(Later(t)) < HistoryLimit
      BY <1>1, <1>3, <1>6, <2>2
    <2> QED BY <1>2, <2>3
  <1> QED BY <1>2, <1>5, <1>6

\* The steps that leave the trades, the engine and the orders alone.
LEMMA CycleAtRest ==
    ASSUME RiskInv, UNCHANGED <<riskVenue, today, closed, engine, riskCycle, sent, fills>>
    PROVE  /\ ReadingTrue' /\ EngineTrue' /\ SizingTrue' /\ OrdersJudged'
  <1>1. ReadingTrue'
    BY DEF RiskInv, ReadingTrue
  <1>2. EngineTrue'
    BY DEF RiskInv, EngineTrue
  <1>3. SizingTrue'
    BY DEF RiskInv, SizingTrue, LossAtStop
  <1>4. OrdersJudged'
    BY DEF RiskInv, OrdersJudged
  <1> QED BY <1>1, <1>2, <1>3, <1>4

LEMMA ReadHistoryStep ==
    ASSUME RiskDayAssumption, RiskInv, ReadHistory
    PROVE  RiskInv'
  <1> USE DEF RiskInv
  <1> DEFINE n == Len(closed)
             mine == OnDay(closed, today, 1 .. n)
             reading == [trades |-> NewestTrades(mine), complete |-> Cardinality(mine) <= HistoryLimit,
                         seen |-> n]
  <1>1. /\ riskCycle.step \in {"idle", "sized"}
        /\ riskCycle' = [riskCycle EXCEPT !.step = IF @ = "idle" THEN "read" ELSE "reread",
                                          !.reading = reading, !.balance = cash]
        /\ UNCHANGED <<riskVenue, today, cash, linked, fills, openOrders, closed, engine, sent>>
    BY DaysCounted DEF ReadHistory, Trades
  <1>2. n \in Nat /\ mine \in SUBSET (1 .. n) /\ mine \in SUBSET Nat
    BY DEF OnDay, RiskShape
  <1>3. IsFiniteSet(1 .. n)
    BY <1>2, FS_Interval
  <1>4. IsFiniteSet(mine)
    BY <1>2, <1>3, FS_Subset
  <1> HIDE DEF mine
  <1>5. /\ NewestTrades(mine) \subseteq mine /\ Cardinality(NewestTrades(mine)) <= HistoryLimit
        /\ Cardinality(mine) <= HistoryLimit => NewestTrades(mine) = mine
    BY <1>2, <1>4, NewestFit
  <1>6. reading \in Readings /\ cash \in Nat /\ cash > 0
    <2>1. (Cardinality(mine) <= HistoryLimit) \in BOOLEAN
      OBVIOUS
    <2>2. NewestTrades(mine) \in SUBSET Nat
      BY <1>2, <1>5
    <2> QED BY <1>2, <2>1, <2>2 DEF Readings, RiskShape, RiskTypeOK
  <1>7. /\ reading.seen = n /\ reading.trades = NewestTrades(mine)
        /\ reading.complete <=> Cardinality(mine) <= HistoryLimit
    OBVIOUS
  <1> HIDE DEF n, reading
  <1>8. /\ riskCycle'.step \in {"read", "reread"} /\ (riskCycle'.step = "reread" => riskCycle.step = "sized")
        /\ riskCycle'.reading = reading /\ riskCycle'.balance = cash
        /\ riskCycle'.quantity = riskCycle.quantity /\ riskCycle'.distance = riskCycle.distance
        /\ riskCycle'.authorized = riskCycle.authorized
    BY <1>1 DEF RiskShape
  <1>9. RiskShape'
    <2>1. RiskTypeOK'
      BY <1>1 DEF RiskShape, RiskTypeOK
    <2>2. riskCycle' \in [step : RiskSteps, reading : Readings, authorized : Nat, quantity : Nat,
                          distance : Nat, balance : Nat, judged : 0 .. MaxDay]
      BY <1>1, <1>6 DEF RiskShape, RiskSteps
    <2>3. /\ closed' \in Seq([day : 0 .. MaxDay, profit : Int])
          /\ \A t \in 1 .. Len(closed') : closed'[t].day <= today'
      BY <1>1 DEF RiskShape
    <2> QED BY <1>6, <1>8, <2>1, <2>2, <2>3 DEF RiskShape
  <1>10. ReadingTrue'
    <2>1. today \in 0 .. today /\ \A t \in 1 .. n : closed[t].day <= today
      BY DEF RiskShape, RiskTypeOK, n
    <2>2. reading.complete => reading.trades = OnDay(closed, today, 1 .. reading.seen)
      BY <1>5, <1>7 DEF mine
    <2> QED BY <1>1, <1>2, <1>5, <1>7, <1>8, <2>1, <2>2 DEF ReadingTrue, n
  <1>11. EngineTrue'
    BY <1>8 DEF EngineTrue
  <1>12. SizingTrue'
    BY <1>1, <1>8 DEF SizingTrue, LossAtStop
  <1>13. OrdersJudged'
    BY <1>1 DEF OrdersJudged
  <1> QED BY <1>9, <1>10, <1>11, <1>12, <1>13

LEMMA ReconcileStep ==
    ASSUME RiskDayAssumption, RiskInv, Reconcile
    PROVE  RiskInv'
  <1> USE DEF RiskInv
  <1> DEFINE reading == riskCycle.reading
             balance == riskCycle.balance
             tally == TallyOf(closed, reading.trades, today, balance)
  <1>1. /\ riskCycle.step \in {"read", "reread"} /\ engine' = tally
        /\ riskCycle' = [riskCycle EXCEPT !.step = IF @ = "read" THEN "reconciled" ELSE "rechecked",
                                          !.judged = today]
        /\ UNCHANGED <<riskVenue, today, cash, linked, fills, openOrders, closed, sent>>
    BY DaysCounted DEF Reconcile
  <1>2. /\ reading.seen \in Nat /\ reading.seen <= Len(closed) /\ reading.trades \in SUBSET (1 .. reading.seen)
        /\ balance \in Nat /\ balance > 0 /\ today \in 0 .. MaxDay
    BY <1>1 DEF ReadingTrue, RiskShape, RiskTypeOK, Readings
  <1>3. /\ riskCycle'.step \in {"reconciled", "rechecked"}
        /\ riskCycle'.step = "rechecked" => riskCycle.step = "reread"
        /\ riskCycle'.judged = today /\ riskCycle'.reading = reading /\ riskCycle'.balance = balance
        /\ riskCycle'.quantity = riskCycle.quantity /\ riskCycle'.distance = riskCycle.distance
        /\ riskCycle'.authorized = riskCycle.authorized
    BY <1>1 DEF RiskShape
  <1>4. RiskShape'
    <2>1. /\ tally.count \in Nat /\ tally.count <= Cardinality(reading.trades) /\ tally.loss \in Nat
          /\ Cardinality(reading.trades) \in Nat
      BY <1>2, TallyType DEF RiskShape
    <2>2. tally.count \in 0 .. HistoryLimit
      BY <2>1 DEF ReadingTrue, RiskDayAssumption
    <2>3. engine' \in [count : 0 .. HistoryLimit, loss : Nat]
      BY <1>1, <2>1, <2>2 DEF TallyOf
    <2>4. riskCycle' \in [step : RiskSteps, reading : Readings, authorized : Nat, quantity : Nat,
                          distance : Nat, balance : Nat, judged : 0 .. MaxDay]
      BY <1>1, <1>2 DEF RiskShape, RiskSteps
    <2>5. RiskTypeOK'
      BY <1>1, <2>3 DEF RiskShape, RiskTypeOK
    <2> QED BY <1>1, <1>2, <1>3, <2>4, <2>5 DEF RiskShape
  <1> HIDE DEF reading, balance, tally
  <1>5. ReadingTrue'
    BY <1>1, <1>3 DEF ReadingTrue, reading
  <1>6. EngineTrue'
    <2>1. engine' = TallyOf(closed, reading.trades, today, balance)
      BY <1>1 DEF tally
    <2>2. ASSUME reading.complete
          PROVE  OnDay(closed, today, reading.trades) = OnDay(closed, today, 1 .. reading.seen)
      <3>1. PICK day \in 0 .. today : /\ \A t \in 1 .. reading.seen : closed[t].day <= day
                                      /\ reading.trades = OnDay(closed, day, 1 .. reading.seen)
        BY <2>2 DEF ReadingTrue, reading
      <3>2. CASE day = today
        BY <3>1, <3>2 DEF OnDay
      <3>3. CASE day # today
        <4>1. \A t \in 1 .. reading.seen : closed[t].day # today
          <5>1. ASSUME NEW t \in 1 .. reading.seen PROVE closed[t].day # today
            <6>1. t \in 1 .. Len(closed)
              BY <1>2
            <6>2. closed[t] \in [day : 0 .. MaxDay, profit : Int]
              BY <6>1, MemberOfSeq DEF RiskShape
            <6> QED BY <1>2, <3>1, <3>3, <6>2
          <5> QED BY <5>1
        <4> QED BY <1>2, <4>1 DEF OnDay
      <3> QED BY <3>2, <3>3
    <2> QED BY <1>1, <1>3, <2>1, <2>2 DEF EngineTrue
  <1>7. SizingTrue'
    BY <1>1, <1>3 DEF SizingTrue, LossAtStop
  <1>8. OrdersJudged'
    BY <1>1 DEF OrdersJudged
  <1> QED BY <1>4, <1>5, <1>6, <1>7, <1>8

\* Between cycles nothing is in hand.
LEMMA IdleCycle ==
    ASSUME RiskDayAssumption, RiskTypeOK', closed' \in Seq([day : 0 .. MaxDay, profit : Int]),
           \A t \in 1 .. Len(closed') : closed'[t].day <= today',
           riskCycle' = NoRiskCycle, OrdersJudged'
    PROVE  RiskInv'
  <1>1. /\ riskCycle'.step = "idle" /\ riskCycle'.reading.trades = {}
        /\ riskCycle'.reading.complete = FALSE /\ riskCycle'.reading.seen = 0
    BY DEF NoRiskCycle, NoReading
  <1>2. NoReading \in Readings
    BY DEF NoReading, Readings
  <1>3. NoRiskCycle \in [step : RiskSteps, reading : Readings, authorized : Nat, quantity : Nat,
                         distance : Nat, balance : Nat, judged : 0 .. MaxDay]
    <2>1. 0 \in 0 .. MaxDay
      BY DEF RiskDayAssumption
    <2> HIDE DEF NoReading
    <2> QED BY <1>2, <2>1 DEF NoRiskCycle, RiskSteps
  <1>4. RiskShape'
    BY <1>1, <1>3 DEF RiskShape
  <1>5. ReadingTrue'
    <2>1. Cardinality({}) = 0 /\ Len(closed') \in Nat /\ HistoryLimit \in Nat
      BY FS_EmptySet DEF RiskDayAssumption
    <2> QED BY <1>1, <2>1 DEF ReadingTrue
  <1>6. EngineTrue' /\ SizingTrue'
    BY <1>1 DEF EngineTrue, SizingTrue
  <1> QED BY <1>4, <1>5, <1>6 DEF RiskInv

LEMMA CycleGivenUp ==
    ASSUME RiskDayAssumption, RiskInv, GiveUp
    PROVE  RiskInv'
  <1>1. /\ riskCycle' = NoRiskCycle
        /\ UNCHANGED <<riskVenue, today, cash, linked, fills, openOrders, closed, engine, sent>>
    BY DEF GiveUp
  <1>2. /\ RiskTypeOK' /\ closed' \in Seq([day : 0 .. MaxDay, profit : Int])
        /\ \A t \in 1 .. Len(closed') : closed'[t].day <= today'
    BY <1>1 DEF RiskInv, RiskShape, RiskTypeOK
  <1>3. OrdersJudged'
    BY <1>1 DEF RiskInv, OrdersJudged
  <1> QED BY <1>1, <1>2, <1>3, IdleCycle

\* Whole increments of what the risk pays for risk no more than that.
LEMMA FloorWithinRisk ==
    ASSUME RiskDayAssumption, NEW cents \in Nat, NEW d \in Nat, d > 0
    PROVE  /\ FloorQuantity(cents, d) \in Nat
           /\ FloorQuantity(cents, d) * d <= cents
  <1> DEFINE a == cents \div d
             b == a \div Increment
             q == b * Increment
  <1>1. a \in Nat /\ a * d <= cents
    BY QuotientIsNat
  <1>2. Increment \in Nat /\ Increment > 0
    BY DEF RiskDayAssumption
  <1> HIDE DEF a
  <1>3. b \in Nat /\ q <= a
    BY <1>1, <1>2, QuotientIsNat
  <1> HIDE DEF b
  <1>4. q \in Nat
    BY <1>2, <1>3
  <1> HIDE DEF q
  <1>5. q * d <= a * d
    BY <1>1, <1>3, <1>4
  <1>6. q * d \in Nat /\ a * d \in Nat
    BY <1>1, <1>4
  <1>7. q * d <= cents
    BY <1>1, <1>5, <1>6
  <1>8. FloorQuantity(cents, d) \in {0, q}
    BY DEF FloorQuantity, q, b, a
  <1> QED BY <1>4, <1>7, <1>8

\* Half a cent at most is lost to rounding, and only where stakes are rounded.
LEMMA QuantityWithinRisk ==
    ASSUME RiskDayAssumption, NEW cents \in Nat, NEW d \in Nat, NEW q \in Quantities(cents, d), q # 0
    PROVE  /\ q \in Nat
           /\ 2 * (LossAtStop(q, d) - cents) <= Cent
  <1>1. Cent \in Nat /\ cents > 0 /\ d > 0 /\ riskVenue # "deriv"
    BY DEF Quantities, RiskDayAssumption
  <1>2. CASE riskVenue = "deriv_demo"
    BY <1>1, <1>2 DEF Quantities, LossAtStop
  <1>3. CASE riskVenue # "deriv_demo"
    <2>1. q = FloorQuantity(cents, d)
      BY <1>1, <1>3 DEF Quantities
    <2>2. q \in Nat /\ q * d <= cents /\ q * d \in Nat
      BY <1>1, <2>1, FloorWithinRisk
    <2>3. LossAtStop(q, d) = q * d
      BY <1>3 DEF LossAtStop
    <2> HIDE DEF LossAtStop
    <2> QED BY <1>1, <2>2, <2>3
  <1> QED BY <1>2, <1>3

LEMMA ApproveStep ==
    ASSUME RiskDayAssumption, RiskInv, NEW passes \in BOOLEAN, NEW d \in StopDistances,
           ApproveTrade(passes, d)
    PROVE  RiskInv'
  <1> USE DEF RiskInv
  <1> DEFINE risked == (riskCycle.balance * RiskShare) \div 100
  <1>1. /\ riskCycle.step = "reconciled"
        /\ UNCHANGED <<riskVenue, today, cash, linked, fills, openOrders, closed, engine, sent>>
        /\ \E q \in (IF passes /\ LimitsOK THEN Quantities(risked, d) ELSE {0}) :
              riskCycle' = IF q = 0 THEN NoRiskCycle
                           ELSE [riskCycle EXCEPT !.step = "sized", !.quantity = q, !.distance = d,
                                                  !.authorized = risked]
    BY DEF ApproveTrade
  <1>2. risked \in Nat /\ d \in Nat
    <2>1. riskCycle.balance \in Nat /\ RiskShare \in Nat /\ d \in Nat
      BY DEF RiskShape, RiskDayAssumption
    <2>2. riskCycle.balance * RiskShare \in Nat
      BY <2>1
    <2> QED BY <2>1, <2>2, QuotientIsNat
  <1>3. /\ RiskTypeOK' /\ closed' \in Seq([day : 0 .. MaxDay, profit : Int])
        /\ \A t \in 1 .. Len(closed') : closed'[t].day <= today'
    BY <1>1 DEF RiskShape, RiskTypeOK
  <1> HIDE DEF risked
  <1>4. CASE riskCycle' = NoRiskCycle
    BY <1>1, <1>3, <1>4, CycleGivenUp DEF GiveUp
  <1>5. CASE \E q \in Quantities(risked, d) :
                /\ q # 0
                /\ riskCycle' = [riskCycle EXCEPT !.step = "sized", !.quantity = q, !.distance = d,
                                                  !.authorized = risked]
    <2>1. PICK q \in Quantities(risked, d) :
                /\ q # 0
                /\ riskCycle' = [riskCycle EXCEPT !.step = "sized", !.quantity = q, !.distance = d,
                                                  !.authorized = risked]
      BY <1>5
    <2>2. q \in Nat /\ 2 * (LossAtStop(q, d) - risked) <= Cent
      BY <1>2, <2>1, QuantityWithinRisk
    <2>3. /\ riskCycle'.step = "sized" /\ riskCycle'.quantity = q /\ riskCycle'.distance = d
          /\ riskCycle'.authorized = risked /\ riskCycle'.reading = riskCycle.reading
          /\ riskCycle'.balance = riskCycle.balance
      BY <2>1 DEF RiskShape
    <2>4. riskCycle' \in [step : RiskSteps, reading : Readings, authorized : Nat, quantity : Nat,
                          distance : Nat, balance : Nat, judged : 0 .. MaxDay]
      BY <1>2, <2>1, <2>2 DEF RiskShape, RiskSteps
    <2>5. riskCycle'.balance > 0
      BY <1>1, <2>3 DEF RiskShape
    <2>6. RiskShape'
      BY <1>3, <2>4, <2>5 DEF RiskShape
    <2>7. ReadingTrue'
      BY <1>1, <2>3 DEF ReadingTrue
    <2>8. EngineTrue'
      BY <2>3 DEF EngineTrue
    <2>9. SizingTrue'
      BY <1>1, <2>2, <2>3 DEF SizingTrue, LossAtStop
    <2>10. OrdersJudged'
      BY <1>1 DEF OrdersJudged
    <2> QED BY <2>6, <2>7, <2>8, <2>9, <2>10
  <1> QED BY <1>1, <1>4, <1>5

LEMMA FillStep ==
    ASSUME RiskDayAssumption, RiskInv, PolicyAndFill
    PROVE  RiskInv'
  <1> USE DEF RiskInv
  <1> DEFINE reading == riskCycle.reading
             order == [id |-> fills + 1, day |-> riskCycle.judged, seen |-> reading.seen,
                       balance |-> riskCycle.balance,
                       loss |-> LossAtStop(riskCycle.quantity, riskCycle.distance),
                       authorized |-> riskCycle.authorized]
             tally == TallyOf(closed, 1 .. reading.seen, riskCycle.judged, riskCycle.balance)
  <1>1. /\ riskCycle.step = "rechecked" /\ LimitsOK /\ reading.complete
        /\ fills < MaxFills /\ fills' = fills + 1 /\ openOrders' = openOrders \cup {fills + 1}
        /\ sent' = sent \cup {order} /\ riskCycle' = NoRiskCycle
        /\ UNCHANGED <<riskVenue, today, cash, linked, closed, engine>>
    BY DEF PolicyAndFill, Covers
  <1>2. order.id = fills + 1 /\ order.day = riskCycle.judged /\ order.seen = reading.seen
        /\ order.balance = riskCycle.balance /\ order.authorized = riskCycle.authorized
        /\ order.loss = LossAtStop(riskCycle.quantity, riskCycle.distance)
    OBVIOUS
  <1> HIDE DEF order
  <1>3. engine = tally
    BY <1>1 DEF EngineTrue, TallyOf
  <1>4. tally.count < MaxTradesDaily /\ tally.loss < MaxDailyLoss
    BY <1>1, <1>3 DEF LimitsOK
  <1>5. fills \in Nat /\ reading.seen \in Nat /\ reading.seen <= Len(closed)
    BY DEF ReadingTrue, RiskShape, RiskTypeOK, Readings
  <1>6. 2 * (order.loss - order.authorized) <= Cent
    BY <1>1, <1>2 DEF SizingTrue
  <1> HIDE DEF reading, tally
  <1>7. \A o \in sent : o.id \in 1 .. fills
    BY DEF OrdersJudged
  <1>8. order \notin sent
    BY <1>2, <1>5, <1>7
  <1>9. OrdersJudged'
    <2>1. IsFiniteSet(sent') /\ Cardinality(sent') = fills'
      BY <1>1, <1>8, FS_AddElement DEF OrdersJudged
    <2>2. ASSUME NEW o \in sent'
          PROVE  /\ o.id \in 1 .. fills' /\ o.seen \in Nat /\ o.seen <= Len(closed')
                 /\ TallyOf(closed', 1 .. o.seen, o.day, o.balance).count < MaxTradesDaily
                 /\ TallyOf(closed', 1 .. o.seen, o.day, o.balance).loss < MaxDailyLoss
                 /\ 2 * (o.loss - o.authorized) <= Cent
      <3>1. CASE o \in sent
        <4>1. /\ o.id \in 1 .. fills /\ o.seen \in Nat /\ o.seen <= Len(closed)
              /\ TallyOf(closed, 1 .. o.seen, o.day, o.balance).count < MaxTradesDaily
              /\ TallyOf(closed, 1 .. o.seen, o.day, o.balance).loss < MaxDailyLoss
              /\ 2 * (o.loss - o.authorized) <= Cent
          BY <3>1 DEF OrdersJudged
        <4>2. o.id \in 1 .. fills' /\ closed' = closed
          BY <1>1, <1>5, <4>1
        <4> QED BY <4>1, <4>2
      <3>2. CASE o = order
        <4>1. /\ o.id \in 1 .. fills' /\ o.seen \in Nat /\ o.seen <= Len(closed') /\ closed' = closed
          BY <1>1, <1>2, <1>5, <3>2
        <4>2. TallyOf(closed, 1 .. o.seen, o.day, o.balance) = tally
          BY <1>2, <3>2 DEF tally
        <4> QED BY <1>4, <1>6, <3>2, <4>1, <4>2
      <3> QED BY <1>1, <3>1, <3>2
    <2> QED BY <2>1, <2>2 DEF OrdersJudged
  <1>10. RiskTypeOK'
    <2>1. fills' \in 0 .. MaxFills /\ openOrders' \subseteq 1 .. fills'
      <3>1. openOrders \subseteq 1 .. fills /\ MaxFills \in Nat
        BY DEF RiskShape, RiskTypeOK, RiskDayAssumption
      <3> QED BY <1>1, <1>5, <3>1
    <2> QED BY <1>1, <2>1 DEF RiskShape, RiskTypeOK
  <1>11. /\ closed' \in Seq([day : 0 .. MaxDay, profit : Int])
         /\ \A t \in 1 .. Len(closed') : closed'[t].day <= today'
    BY <1>1 DEF RiskShape
  <1> QED BY <1>1, <1>9, <1>10, <1>11, IdleCycle

\* A trade closes; what rests on the trades before it stays.
LEMMA TradeClosesStep ==
    ASSUME RiskDayAssumption, RiskInv, NEW p \in Profits, TradeCloses(p)
    PROVE  RiskInv'
  <1> USE DEF RiskInv
  <1> DEFINE trade == [day |-> today, profit |-> p]
             reading == riskCycle.reading
             first == CHOOSE i \in openOrders : \A j \in openOrders : i <= j
  <1>1. /\ openOrders' = openOrders \ {first} /\ closed' = Append(closed, trade)
        /\ cash' = cash + p /\ cash + p > 0
        /\ UNCHANGED <<riskVenue, today, linked, fills, engine, riskCycle, sent>>
    BY DEF TradeCloses
  <1>2. trade \in [day : 0 .. MaxDay, profit : Int] /\ trade.day = today /\ today \in Int
        /\ cash' \in Nat \ {0}
    BY <1>1 DEF RiskShape, RiskTypeOK, RiskDayAssumption
  <1> HIDE DEF first, trade
  <1>3. /\ closed' \in Seq([day : 0 .. MaxDay, profit : Int]) /\ Len(closed') = Len(closed) + 1
        /\ Len(closed) \in Nat /\ closed'[Len(closed) + 1] = trade
        /\ \A t \in 1 .. Len(closed) : closed'[t] = closed[t]
    <2> DEFINE R == [day : 0 .. MaxDay, profit : Int]
    <2>1. closed \in Seq(R) /\ trade \in R
      BY <1>2 DEF RiskShape
    <2> HIDE DEF R
    <2>2. /\ Append(closed, trade) \in Seq(R) /\ Len(Append(closed, trade)) = Len(closed) + 1
          /\ Len(closed) \in Nat /\ Append(closed, trade)[Len(closed) + 1] = trade
          /\ \A t \in 1 .. Len(closed) : Append(closed, trade)[t] = closed[t]
      BY <2>1
    <2> QED BY <1>1, <2>2 DEF R
  <1>4. RiskShape'
    <2>1. RiskTypeOK'
      BY <1>1, <1>2 DEF RiskShape, RiskTypeOK
    <2>2. ASSUME NEW t \in 1 .. Len(closed') PROVE closed'[t].day <= today'
      <3>1. CASE t \in 1 .. Len(closed)
        BY <1>1, <1>3, <3>1 DEF RiskShape
      <3>2. CASE t = Len(closed) + 1
        BY <1>1, <1>2, <1>3, <3>2
      <3> QED BY <1>3, <3>1, <3>2
    <2> QED BY <1>1, <1>3, <2>1, <2>2 DEF RiskShape
  <1>5. /\ reading.seen \in Nat /\ reading.seen <= Len(closed) /\ reading.trades \subseteq 1 .. reading.seen
    BY DEF ReadingTrue, RiskShape, Readings
  <1>6. ASSUME NEW S \in SUBSET (1 .. Len(closed)), NEW day, NEW balance
        PROVE  /\ OnDay(closed', day, S) = OnDay(closed, day, S)
               /\ TallyOf(closed', S, day, balance) = TallyOf(closed, S, day, balance)
    <2>1. \A t \in S : closed'[t] = closed[t]
      BY <1>3
    <2>2. OnDay(closed', day, S) = OnDay(closed, day, S)
      BY <2>1 DEF OnDay
    <2> DEFINE T == OnDay(closed, day, S)
    <2>3. \A t \in T : closed'[t] = closed[t]
      BY <2>1 DEF OnDay
    <2> HIDE DEF T
    <2>4. {{t} \X (1 .. -closed'[t].profit) : t \in T} = {{t} \X (1 .. -closed[t].profit) : t \in T}
      <3>1. \A t \in T : {t} \X (1 .. -closed'[t].profit) = {t} \X (1 .. -closed[t].profit)
        BY <2>3
      <3> QED BY <3>1
    <2>5. LostIn(closed', T) = LostIn(closed, T)
      BY <2>4 DEF LostIn
    <2> QED BY <2>2, <2>5 DEF TallyOf, T
  <1>7. /\ 1 .. reading.seen \in SUBSET (1 .. Len(closed)) /\ reading.trades \in SUBSET (1 .. Len(closed))
    BY <1>3, <1>5
  <1>8. reading' = reading /\ riskCycle' = riskCycle
    BY <1>1
  <1> HIDE DEF reading
  <1>9. ReadingTrue'
    <2>1. reading.seen <= Len(closed')
      BY <1>3, <1>5
    <2>2. ASSUME reading.complete
          PROVE  \E day \in 0 .. today : /\ \A t \in 1 .. reading.seen : closed'[t].day <= day
                                         /\ reading.trades = OnDay(closed', day, 1 .. reading.seen)
      <3>1. PICK day \in 0 .. today : /\ \A t \in 1 .. reading.seen : closed[t].day <= day
                                      /\ reading.trades = OnDay(closed, day, 1 .. reading.seen)
        BY <2>2 DEF ReadingTrue, reading
      <3>2. OnDay(closed', day, 1 .. reading.seen) = OnDay(closed, day, 1 .. reading.seen)
        BY <1>6, <1>7
      <3>3. \A t \in 1 .. reading.seen : closed'[t].day <= day
        BY <1>3, <1>7, <3>1
      <3> QED BY <3>1, <3>2, <3>3
    <2> QED BY <1>1, <1>5, <2>1, <2>2 DEF ReadingTrue, reading
  <1>10. EngineTrue'
    <2>1. TallyOf(closed', reading.trades, riskCycle.judged, riskCycle.balance)
            = TallyOf(closed, reading.trades, riskCycle.judged, riskCycle.balance)
      BY <1>6, <1>7
    <2>2. /\ OnDay(closed', riskCycle.judged, reading.trades) = OnDay(closed, riskCycle.judged, reading.trades)
          /\ OnDay(closed', riskCycle.judged, 1 .. reading.seen)
               = OnDay(closed, riskCycle.judged, 1 .. reading.seen)
      BY <1>6, <1>7
    <2> QED BY <1>1, <2>1, <2>2 DEF EngineTrue, reading
  <1>11. SizingTrue'
    BY <1>1 DEF SizingTrue, LossAtStop
  <1>12. OrdersJudged'
    <2>1. ASSUME NEW o \in sent
          PROVE  /\ o.seen <= Len(closed')
                 /\ TallyOf(closed', 1 .. o.seen, o.day, o.balance)
                      = TallyOf(closed, 1 .. o.seen, o.day, o.balance)
      <3>1. o.seen \in Nat /\ o.seen <= Len(closed)
        BY DEF OrdersJudged
      <3>2. 1 .. o.seen \in SUBSET (1 .. Len(closed))
        BY <1>3, <3>1
      <3> QED BY <1>3, <1>6, <3>1, <3>2
    <2> QED BY <1>1, <2>1 DEF OrdersJudged
  <1> QED BY <1>4, <1>9, <1>10, <1>11, <1>12

LEMMA RiskStep ==
    ASSUME RiskDayAssumption, RiskInv, [RiskNext]_riskVars
    PROVE  RiskInv'
  <1>1. CASE ConnectSimulation \/ DisconnectSimulation \/ UNCHANGED riskVars
    <2>1. /\ UNCHANGED <<riskVenue, today, closed, engine, riskCycle, sent, fills>>
          /\ UNCHANGED <<cash, openOrders>> /\ linked' \in BOOLEAN
      BY <1>1 DEF ConnectSimulation, DisconnectSimulation, riskVars, RiskInv, RiskShape, RiskTypeOK
    <2>2. RiskShape'
      BY <2>1 DEF RiskInv, RiskShape, RiskTypeOK
    <2> QED BY <2>1, <2>2, CycleAtRest DEF RiskInv
  <1>2. CASE Refused
    BY <1>2, CycleGivenUp DEF Refused
  <1>3. CASE NextDay
    <2>1. /\ today' = today + 1 /\ today' \in 0 .. MaxDay
          /\ UNCHANGED <<riskVenue, cash, linked, fills, openOrders, closed, engine, riskCycle, sent>>
      <3>1. today \in 0 .. MaxDay /\ MaxDay \in Nat
        BY DEF RiskInv, RiskShape, RiskTypeOK, RiskDayAssumption
      <3> QED BY <1>3, <3>1 DEF NextDay
    <2>2. today \in Nat
      BY DEF RiskInv, RiskShape, RiskTypeOK
    <2>3. RiskShape'
      <3>1. RiskTypeOK'
        BY <2>1 DEF RiskInv, RiskShape, RiskTypeOK
      <3>2. ASSUME NEW t \in 1 .. Len(closed) PROVE closed[t].day <= today + 1
        <4>1. closed[t] \in [day : 0 .. MaxDay, profit : Int]
          BY MemberOfSeq DEF RiskInv, RiskShape
        <4>2. closed[t].day <= today
          BY DEF RiskInv, RiskShape
        <4> QED BY <2>2, <4>1, <4>2
      <3> QED BY <2>1, <3>1, <3>2 DEF RiskInv, RiskShape
    <2>4. ReadingTrue'
      <3>1. 0 .. today \subseteq 0 .. today'
        BY <2>1, <2>2
      <3> QED BY <2>1, <3>1 DEF RiskInv, ReadingTrue
    <2>5. EngineTrue' /\ SizingTrue' /\ OrdersJudged'
      BY <2>1 DEF RiskInv, EngineTrue, SizingTrue, LossAtStop, OrdersJudged
    <2> QED BY <2>3, <2>4, <2>5 DEF RiskInv
  <1>4. CASE ReadHistory \/ Reconcile
    BY <1>4, ReadHistoryStep, ReconcileStep
  <1>5. ASSUME NEW passes \in BOOLEAN, NEW d \in StopDistances, ApproveTrade(passes, d) PROVE RiskInv'
    BY <1>5, ApproveStep
  <1>6. CASE PolicyAndFill
    BY <1>6, FillStep
  <1>7. ASSUME NEW p \in Profits, TradeCloses(p) PROVE RiskInv'
    BY <1>7, TradeClosesStep
  <1> QED BY <1>1, <1>2, <1>3, <1>4, <1>5, <1>6, <1>7 DEF RiskNext

LEMMA RiskStarts ==
    ASSUME RiskDayAssumption, RiskInit
    PROVE  RiskInv
  <1>1. /\ riskCycle.step = "idle" /\ riskCycle.reading.trades = {}
        /\ riskCycle.reading.complete = FALSE /\ riskCycle.reading.seen = 0
        /\ closed = <<>> /\ sent = {} /\ fills = 0 /\ openOrders = {} /\ today = 0
    BY DEF RiskInit, NoRiskCycle, NoReading
  <1>2. 0 \in 0 .. MaxDay /\ 0 \in 0 .. MaxFills /\ HistoryLimit \in Nat
    BY DEF RiskDayAssumption
  <1>3. NoReading \in Readings
    BY DEF NoReading, Readings
  <1>4. riskCycle \in [step : RiskSteps, reading : Readings, authorized : Nat, quantity : Nat,
                       distance : Nat, balance : Nat, judged : 0 .. MaxDay]
    BY <1>2, <1>3 DEF RiskInit, NoRiskCycle, RiskSteps
  <1>5. RiskTypeOK
    <2>1. engine \in [count : 0 .. HistoryLimit, loss : Nat]
      BY <1>2 DEF RiskInit
    <2>2. cash \in Nat \ {0}
      BY DEF RiskInit, RiskDayAssumption
    <2> QED BY <1>1, <1>2, <2>1, <2>2 DEF RiskInit, RiskTypeOK
  <1>6. RiskShape
    BY <1>1, <1>4, <1>5 DEF RiskShape
  <1>7. ReadingTrue
    BY <1>1, <1>2, FS_EmptySet DEF ReadingTrue
  <1>8. EngineTrue /\ SizingTrue
    BY <1>1 DEF EngineTrue, SizingTrue
  <1>9. OrdersJudged
    BY <1>1, FS_EmptySet DEF OrdersJudged
  <1> QED BY <1>6, <1>7, <1>8, <1>9 DEF RiskInv

\* Whatever the broker closes and wherever the day ends, an order is sent only on a day whose
\* limits the trades closed by then leave open, for no more than its share of the balance and
\* half a cent, and under a number of its own, for any limits, balances and profits
\* (risk_engine.py, risk_controller.py, position_sizing.py, simulation_gateway.py).
THEOREM RiskDaySafe ==
    ASSUME RiskDayAssumption
    PROVE  RiskSpec => [](RiskTypeOK /\ RiskDaySound)
  <1>1. RiskInit => RiskInv
    BY RiskStarts
  <1>2. RiskInv /\ [RiskNext]_riskVars => RiskInv'
    BY RiskStep
  <1>3. RiskInv => RiskTypeOK /\ RiskDaySound
    <2>1. ASSUME RiskInv, NEW o \in sent
          PROVE  /\ Cardinality(Behind(o)) < MaxTradesDaily
                 /\ Reconciled(Behind(o), o.day, o.balance).loss < MaxDailyLoss
      <3> DEFINE S == OnDay(closed, o.day, 1 .. o.seen)
                 tally == TallyOf(closed, 1 .. o.seen, o.day, o.balance)
      <3>1. Behind(o) = S
        BY DaysCounted DEF Behind
      <3>2. OnDay(closed, o.day, S) = S
        BY DEF OnDay
      <3>3. tally.count < MaxTradesDaily /\ tally.loss < MaxDailyLoss
        BY <2>1 DEF RiskInv, OrdersJudged
      <3> HIDE DEF S
      <3>4. TallyOf(closed, S, o.day, o.balance) = tally /\ tally.count = Cardinality(S)
        BY <3>2 DEF TallyOf, S
      <3>5. Reconciled(S, o.day, o.balance) = tally
        BY <3>4, DaysCounted
      <3> HIDE DEF tally
      <3> QED BY <3>1, <3>3, <3>4, <3>5
    <2> QED BY <2>1 DEF RiskInv, RiskShape, OrdersJudged, RiskDaySound
  <1> QED BY <1>1, <1>2, <1>3, PTL DEF RiskSpec

(***************************************************************************)
(* The composition.  A behaviour of Operations is, for each component, a   *)
(* behaviour of that component that may stutter, so what is proved of the  *)
(* component alone holds of it here.                                       *)
(***************************************************************************)
\* Every component rests or takes one of its own steps.
LEMMA PartsStep ==
    ASSUME [Next]_operationsVars
    PROVE  /\ [GatewayNext]_gatewayVars /\ [SessionNext]_sessionVars
           /\ [PaperNext]_paperVars /\ [DashboardNext]_dashVars
           /\ [CampaignNext]_campaignVars /\ [DemoToolsNext]_toolVars
           /\ [SnapshotNext]_snapshotVars /\ [NotificationsNext]_notificationVars
           /\ [WatchlistNext]_watchVars /\ [RelayNext]_relayVars
           /\ [ObservationNext]_observationVars /\ [RiskNext]_riskVars
  <1>1. CASE UNCHANGED operationsVars
    BY <1>1 DEF operationsVars
  <1>2. CASE Next
    BY <1>2 DEF Next, OthersRest
  <1> QED BY <1>1, <1>2

\* What a broker adapter answers is what happened at the broker, and every order is on the
\* account that was verified for it (mt5_gateway.py, mt5_session.py, deriv_gateway.py).
THEOREM BrokersAnswerTrue == Spec => []BrokerAnswersTrue
  <1>1. Init => GatewayInit /\ SessionInit
    BY DEF Init
  <1>2. [Next]_operationsVars => [GatewayNext]_gatewayVars /\ [SessionNext]_sessionVars
    BY PartsStep
  <1>3. GatewaySpec => [](GatewayTypeOK /\ OrderAnswersTrue /\ ContractsOnVerifiedDemo)
    BY GatewaySafe, OperationsAssumption
  <1>4. SessionSpec => [](SessionTypeOK /\ OrdersOnVerifiedAccount /\ AnswersMatchBroker)
    BY SessionSafe, OperationsAssumption
  <1>5. GatewayTypeOK /\ OrderAnswersTrue /\ ContractsOnVerifiedDemo
        /\ SessionTypeOK /\ OrdersOnVerifiedAccount /\ AnswersMatchBroker => BrokerAnswersTrue
    BY DEF BrokerAnswersTrue
  <1> QED BY <1>1, <1>2, <1>3, <1>4, <1>5, PTL DEF Spec, GatewaySpec, SessionSpec

\* Paper trading across process deaths: candles claimed once and in order, no trading on
\* after a lost position, no loss beyond what was authorized (paper_runtime.py), and a book
\* with a fill and an accepted intent behind every outcome (dashboard_paper.py).
THEOREM PaperTradingIsSound == Spec => PaperTradingSound
  <1>1. Init => PaperInit /\ DashboardInit
    BY DEF Init
  <1>2. [Next]_operationsVars => [PaperNext]_paperVars /\ [DashboardNext]_dashVars
    BY PartsStep
  <1>3. PaperSpec => /\ [](PaperTypeOK /\ LostPositionStopsTrading /\ LossWithinAuthorization)
                     /\ [][CandlesActedOnce]_paperVars
    BY PaperSafe, OperationsAssumption
  <1>4. DashboardSpec => [](DashboardTypeOK /\ PaperBookSound)
    BY DashboardSafe, OperationsAssumption
  <1> DEFINE Sound == /\ LostPositionStopsTrading /\ LossWithinAuthorization
                      /\ PaperBookSound
             StepSound == /\ part = "paper" => /\ CandlesActedOnce
                                               /\ LostPositionStopsTrading' /\ LossWithinAuthorization'
                          /\ part = "dashboard" => PaperBookSound'
  <1>5. UNCHANGED paperVars => CandlesActedOnce
    BY DEF paperVars, CandlesActedOnce
  <1>6. [CandlesActedOnce]_paperVars /\ Sound' => StepSound
    BY <1>5
  <1>7. PaperTradingSound <=> [][StepSound]_operationsVars
    BY DEF PaperTradingSound
  <1>8. (PaperTypeOK /\ LostPositionStopsTrading /\ LossWithinAuthorization)
        /\ (DashboardTypeOK /\ PaperBookSound) => Sound
    OBVIOUS
  <1> HIDE DEF Sound, StepSound
  <1> QED BY <1>1, <1>2, <1>3, <1>4, <1>6, <1>7, <1>8, PTL DEF Spec, PaperSpec, DashboardSpec

\* The programs that place demo orders: one order in a campaign's lifetime and a ledger row
\* for it (live_paper_campaign.py), and no order of a demo tool that its checks did not allow
\* or its report hides (demo_trade_preview.py and the verification tools).
THEOREM DemoProgramsAreSound == Spec => []DemoProgramsSound
  <1>1. Init => CampaignInit /\ DemoToolsInit
    BY DEF Init
  <1>2. [Next]_operationsVars => [CampaignNext]_campaignVars /\ [DemoToolsNext]_toolVars
    BY PartsStep
  <1>3. CampaignSpec => [](CampaignTypeOK /\ OneLifetimeOrder /\ CampaignLedgerSound)
    BY CampaignSafe, OperationsAssumption
  <1>4. DemoToolsSpec => [](DemoToolsTypeOK /\ DemoToolsSound)
    BY DemoToolsSafe, OperationsAssumption
  <1>5. (CampaignTypeOK /\ OneLifetimeOrder /\ CampaignLedgerSound)
        /\ (DemoToolsTypeOK /\ DemoToolsSound) => DemoProgramsSound
    BY DEF DemoProgramsSound
  <1> QED BY <1>1, <1>2, <1>3, <1>4, <1>5, PTL DEF Spec, CampaignSpec, DemoToolsSpec

\* Alerts are posted once and their queue is served (the notification gateways), no edit of
\* the watchlist is lost (watchlist.py), and the relay keeps its slots for the routes they are
\* meant for (monitor_relay.py).
THEOREM OperatorChannelsHold == Spec => []OperatorChannelsSound
  <1>1. Init => NotificationsInit /\ WatchlistInit /\ RelayInit
    BY DEF Init
  <1>2. [Next]_operationsVars => /\ [NotificationsNext]_notificationVars
                                /\ [WatchlistNext]_watchVars /\ [RelayNext]_relayVars
    BY PartsStep
  <1>3. NotificationsSpec => [](NotificationsTypeOK /\ NotificationsSound)
    BY NotificationsSafe, OperationsAssumption
  <1>4. WatchlistSpec => [](WatchlistTypeOK /\ WatchlistFollowsOperator)
    BY WatchlistSafe, OperationsAssumption
  <1>5. RelaySpec => [](RelayTypeOK /\ RelaySound)
    BY RelaySafe, OperationsAssumption
  <1>6. (NotificationsTypeOK /\ NotificationsSound) /\ (WatchlistTypeOK /\ WatchlistFollowsOperator)
        /\ (RelayTypeOK /\ RelaySound) => OperatorChannelsSound
    BY DEF OperatorChannelsSound
  <1> QED BY <1>1, <1>2, <1>3, <1>4, <1>5, <1>6, PTL
      DEF Spec, NotificationsSpec, WatchlistSpec, RelaySpec

\* A plan is within the limits of the day it was evaluated on, as far as the history read
\* shows them (risk_engine.py, position_sizing.py), and an approval the API shows is the
\* latest cycle's (api/service.py).
THEOREM RiskStaysCurrent == Spec => []RiskIsCurrent
  <1>1. Init => RiskInit /\ SnapshotInit
    BY DEF Init
  <1>2. [Next]_operationsVars => [RiskNext]_riskVars /\ [SnapshotNext]_snapshotVars
    BY PartsStep
  <1>3. RiskSpec => [](RiskTypeOK /\ RiskDaySound)
    BY RiskDaySafe, OperationsAssumption
  <1>4. SnapshotSpec => [](SnapshotTypeOK /\ ApprovalsAreCurrent)
    BY SnapshotsSafe, OperationsAssumption
  <1>5. (RiskTypeOK /\ RiskDaySound) /\ (SnapshotTypeOK /\ ApprovalsAreCurrent) => RiskIsCurrent
    BY DEF RiskIsCurrent
  <1> QED BY <1>1, <1>2, <1>3, <1>4, <1>5, PTL DEF Spec, RiskSpec, SnapshotSpec

\* The observers' evidence has no silent gap, the forward sampler counts each close once, and
\* a digest goes out once a day (observation_daemon.py, forward_shadow_sampler.py).
THEOREM ObserversMissNothing == Spec => []ObservedWithoutGaps
  <1>1. Init => ObservationInit
    BY DEF Init
  <1>2. [Next]_operationsVars => [ObservationNext]_observationVars
    BY PartsStep
  <1>3. ObservationSpec => [](ObservationTypeOK /\ ObservationsComplete)
    BY ObserversSafe, OperationsAssumption
  <1>4. ObservationTypeOK /\ ObservationsComplete => ObservedWithoutGaps
    BY DEF ObservedWithoutGaps
  <1> QED BY <1>1, <1>2, <1>3, <1>4, PTL DEF Spec, ObservationSpec

\* Every component keeps to the values its code gives its state.
THEOREM OperationsTyped == Spec => []OperationsTypeOK
  <1>1. Init => /\ GatewayInit /\ SessionInit /\ PaperInit /\ DashboardInit /\ CampaignInit
                /\ DemoToolsInit /\ RiskInit /\ SnapshotInit /\ NotificationsInit
                /\ WatchlistInit /\ RelayInit /\ ObservationInit
    BY DEF Init
  <1>2. [Next]_operationsVars =>
            /\ [GatewayNext]_gatewayVars /\ [SessionNext]_sessionVars /\ [PaperNext]_paperVars
            /\ [DashboardNext]_dashVars /\ [CampaignNext]_campaignVars /\ [DemoToolsNext]_toolVars
            /\ [RiskNext]_riskVars /\ [SnapshotNext]_snapshotVars
            /\ [NotificationsNext]_notificationVars /\ [WatchlistNext]_watchVars
            /\ [RelayNext]_relayVars /\ [ObservationNext]_observationVars
    BY PartsStep
  <1>3. /\ GatewaySpec => [](GatewayTypeOK /\ OrderAnswersTrue /\ ContractsOnVerifiedDemo)
        /\ SessionSpec => [](SessionTypeOK /\ OrdersOnVerifiedAccount /\ AnswersMatchBroker)
    BY GatewaySafe, SessionSafe, OperationsAssumption
  <1>4. /\ PaperSpec => /\ [](PaperTypeOK /\ LostPositionStopsTrading /\ LossWithinAuthorization)
                        /\ [][CandlesActedOnce]_paperVars
        /\ DashboardSpec => [](DashboardTypeOK /\ PaperBookSound)
    BY PaperSafe, DashboardSafe, OperationsAssumption
  <1>5. /\ CampaignSpec => [](CampaignTypeOK /\ OneLifetimeOrder /\ CampaignLedgerSound)
        /\ DemoToolsSpec => [](DemoToolsTypeOK /\ DemoToolsSound)
    BY CampaignSafe, DemoToolsSafe, OperationsAssumption
  <1>6. /\ RiskSpec => [](RiskTypeOK /\ RiskDaySound)
        /\ SnapshotSpec => [](SnapshotTypeOK /\ ApprovalsAreCurrent)
    BY RiskDaySafe, SnapshotsSafe, OperationsAssumption
  <1>7. /\ NotificationsSpec => [](NotificationsTypeOK /\ NotificationsSound)
        /\ WatchlistSpec => [](WatchlistTypeOK /\ WatchlistFollowsOperator)
    BY NotificationsSafe, WatchlistSafe, OperationsAssumption
  <1>8. /\ RelaySpec => [](RelayTypeOK /\ RelaySound)
        /\ ObservationSpec => [](ObservationTypeOK /\ ObservationsComplete)
    BY RelaySafe, ObserversSafe, OperationsAssumption
  <1>9. /\ GatewayTypeOK /\ SessionTypeOK /\ PaperTypeOK /\ DashboardTypeOK /\ CampaignTypeOK
        /\ DemoToolsTypeOK /\ RiskTypeOK /\ SnapshotTypeOK /\ NotificationsTypeOK
        /\ WatchlistTypeOK /\ RelayTypeOK /\ ObservationTypeOK
        => OperationsTypeOK
    BY DEF OperationsTypeOK
  <1> QED BY <1>1, <1>2, <1>3, <1>4, <1>5, <1>6, <1>7, <1>8, <1>9, PTL
      DEF Spec, GatewaySpec, SessionSpec, PaperSpec, DashboardSpec, CampaignSpec, DemoToolsSpec,
          RiskSpec, SnapshotSpec, NotificationsSpec, WatchlistSpec, RelaySpec, ObservationSpec
================================================================================
