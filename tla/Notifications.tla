----------------------------- MODULE Notifications -----------------------------
(***************************************************************************)
(* Notifications: events become messages (notifications/events.py), the    *)
(* service hands each to every gateway (notifications/service.py), and the *)
(* public channel's gateway queues it for a worker that claims it in a     *)
(* durable table before it posts (notifications/telegram_channel.py).      *)
(*                                                                         *)
(* A process is one event loop: its steps interleave only where it awaits. *)
(* A worker's end and its done-callback are two turns of the loop, so a    *)
(* message sent between them starts a worker, and the callback another.    *)
(***************************************************************************)
EXTENDS Naturals, Sequences, FiniteSets

CONSTANTS
    Publishers,       \* processes with a channel gateway on the same claim table
    Schedulers,       \* those of them that run the channel's timetable
    SlotAlert,        \* the alert of the slot that is due
    Alerts,           \* what happens: [id, kind, simulated]
    DirectGateways,   \* the private chats and Slack
    QueueLimit,
    Workers,          \* names for a process's workers
    MaxPublished,     \* bound on publications by the service
    MaxDeaths,        \* bound on process deaths
    PostAttempts,     \* 3 in the code
    NoAlert

\* What the code and its configuration guarantee of these values.
NotificationsAssumption ==
    /\ {QueueLimit, PostAttempts} \subseteq Nat \ {0}
    /\ {MaxPublished, MaxDeaths} \subseteq Nat
    /\ NoAlert \notin Alerts /\ SlotAlert \in Alerts /\ Schedulers \subseteq Publishers
    /\ Workers # {} /\ ~SlotAlert.simulated

ChannelKinds == {"POSITION_OPENED", "POSITION_CLOSED", "ORDER_REJECTED", "CHANNEL_UPDATE"}

VARIABLES
    queue,            \* process -> queued alerts
    worker,           \* process -> worker -> [stage, alert, attempt]
    current,          \* process -> the worker _worker refers to
    callback,         \* process -> workers that ended, whose callback is due
    claims,           \* the claim table
    posts,            \* alert -> times the channel accepted it
    private,          \* direct gateway -> alerts it accepted
    observation,      \* process -> READY or UNAVAILABLE
    schedule,         \* scheduler -> "waiting", "draining" or "posted" for the slot
    published,        \* publications so far
    deaths

notificationVars == <<queue, worker, current, callback, claims, posts, private,
                      observation, schedule, published, deaths>>

NoWork == [stage |-> "none", alert |-> NoAlert, attempt |-> 0]
FirstWorker == CHOOSE w \in Workers : TRUE

NotificationsInit ==
    /\ queue = [p \in Publishers |-> <<>>]
    /\ worker = [p \in Publishers |-> [w \in Workers |-> NoWork]]
    /\ current = [p \in Publishers |-> FirstWorker]
    /\ callback = [p \in Publishers |-> {}]
    /\ claims = {} /\ posts = [a \in Alerts |-> 0]
    /\ private = [g \in DirectGateways |-> {}]
    /\ observation = [p \in Publishers |-> "READY"]
    /\ schedule = [p \in Schedulers |-> "waiting"]
    /\ published = 0
    /\ deaths = 0

\* No task object has this name now.
FreeWorkers(p) == {w \in Workers : worker[p][w] = NoWork /\ w \notin callback[p]}
WorkerDone(p) == worker[p][current[p]] = NoWork

StartWorker(p, w) ==
    /\ worker' = [worker EXCEPT ![p][w].stage = "loop"]
    /\ current' = [current EXCEPT ![p] = w]

\* TelegramChannelGateway.send: other kinds, and a full queue, are dropped; a
\* queued alert starts a worker if the last one has ended.
Enqueues(p, a) == a.kind \in ChannelKinds /\ Len(queue[p]) < QueueLimit

ChannelSend(p, a) ==
    IF ~Enqueues(p, a) THEN UNCHANGED <<queue, worker, current>>
    ELSE /\ queue' = [queue EXCEPT ![p] = Append(@, a)]
         /\ IF WorkerDone(p) THEN \E w \in FreeWorkers(p) : StartWorker(p, w)
            ELSE UNCHANGED <<worker, current>>

\* NotificationService.publish: a simulated event stays inside; otherwise every
\* gateway is tried, whichever fail, and the channel's answer is never a delivery.
HeldBack(a) == a.simulated

Publish(p, a) ==
    /\ p \notin Schedulers /\ published < MaxPublished /\ a # SlotAlert
    /\ published' = published + 1
    /\ \/ /\ HeldBack(a)
          /\ UNCHANGED <<queue, worker, current, private, observation>>
       \/ /\ ~HeldBack(a)
          /\ \E failing \in SUBSET DirectGateways :
                /\ private' = [g \in DirectGateways |->
                                  IF g \in failing THEN private[g] ELSE private[g] \cup {a}]
                /\ observation' = [observation EXCEPT ![p] =
                                      IF failing = {} THEN "READY" ELSE "UNAVAILABLE"]
          /\ ChannelSend(p, a)
    /\ UNCHANGED <<callback, claims, posts, schedule, deaths>>

\* The timetable's loop: post the slot that is due, wait for the queue to drain,
\* and only then remember the slot, in memory.
PostUpdate(p) ==
    /\ p \in Schedulers /\ schedule[p] = "waiting"
    /\ schedule' = [schedule EXCEPT ![p] = "draining"]
    /\ ChannelSend(p, SlotAlert)
    /\ UNCHANGED <<callback, claims, posts, private, observation, published, deaths>>

Drained(p) ==
    /\ p \in Schedulers /\ schedule[p] = "draining"
    /\ queue[p] = <<>> /\ \A w \in Workers : worker[p][w].stage \in {"none", "loop"}
    /\ schedule' = [schedule EXCEPT ![p] = "posted"]
    /\ UNCHANGED <<queue, worker, current, callback, claims, posts, private, observation,
                   published, deaths>>

\* _run: take the next alert, or end when there is none.
WorkerTakes(p, w) ==
    /\ worker[p][w].stage = "loop"
    /\ IF queue[p] = <<>>
       THEN /\ worker' = [worker EXCEPT ![p][w] = NoWork]
            /\ callback' = [callback EXCEPT ![p] = @ \cup {w}]
            /\ UNCHANGED queue
       ELSE /\ worker' = [worker EXCEPT ![p][w] =
                  [stage |-> "claim", alert |-> Head(queue[p]), attempt |-> 1]]
            /\ queue' = [queue EXCEPT ![p] = Tail(@)]
            /\ UNCHANGED callback
    /\ UNCHANGED <<current, claims, posts, private, observation, schedule, published, deaths>>

\* _restart_if_queued, the done-callback.
RestartIfQueued(p, w) ==
    /\ w \in callback[p]
    /\ callback' = [callback EXCEPT ![p] = @ \ {w}]
    /\ IF queue[p] = <<>> THEN UNCHANGED <<worker, current>>
       ELSE \E v \in FreeWorkers(p) \cup {w} : StartWorker(p, v)
    /\ UNCHANGED <<queue, claims, posts, private, observation, schedule, published, deaths>>

\* _claim_once: INSERT OR IGNORE in a thread; a failing table drops the alert.
ClaimKey(a) == <<a.kind, a.id>>

\* Mutant: the row count of the insert is not looked at.
ClaimIgnored(p, w) ==
    LET a == worker[p][w].alert IN
    /\ worker[p][w].stage = "claim"
    /\ claims' = claims \cup {ClaimKey(a)}
    /\ worker' = [worker EXCEPT ![p][w].stage = "post"]
    /\ UNCHANGED <<queue, current, callback, posts, private, observation, schedule, published, deaths>>

ClaimOnce(p, w) ==
    LET a == worker[p][w].alert IN
    /\ worker[p][w].stage = "claim"
    /\ \/ /\ ClaimKey(a) \notin claims
          /\ claims' = claims \cup {ClaimKey(a)}
          /\ worker' = [worker EXCEPT ![p][w].stage = "post"]
       \/ /\ worker' = [worker EXCEPT ![p][w] = [NoWork EXCEPT !.stage = "loop"]]
          /\ UNCHANGED claims
    /\ UNCHANGED <<queue, current, callback, posts, private, observation, schedule, published, deaths>>

\* One attempt: accepted; accepted but the answer lost; refused as too many
\* requests, which alone is tried again; or failed.
PostAlert(p, w) ==
    LET a == worker[p][w].alert
        next == [NoWork EXCEPT !.stage = "loop"]
        again == [worker[p][w] EXCEPT !.attempt = @ + 1]
    IN /\ worker[p][w].stage = "post"
       /\ \/ /\ posts' = [posts EXCEPT ![a] = @ + 1]
             /\ worker' = [worker EXCEPT ![p][w] = next]
          \/ /\ worker' = [worker EXCEPT ![p][w] =
                   IF @.attempt < PostAttempts THEN again ELSE next]
             /\ UNCHANGED posts
          \/ /\ worker' = [worker EXCEPT ![p][w] = next]
             /\ UNCHANGED posts
       /\ UNCHANGED <<queue, current, callback, claims, private, observation, schedule,
                      published, deaths>>

\* The process dies and is started again: the queue and its workers are gone.
PublisherDies(p) ==
    /\ deaths < MaxDeaths
    /\ deaths' = deaths + 1
    /\ queue' = [queue EXCEPT ![p] = <<>>]
    /\ worker' = [worker EXCEPT ![p] = [w \in Workers |-> NoWork]]
    /\ callback' = [callback EXCEPT ![p] = {}]
    /\ current' = [current EXCEPT ![p] = FirstWorker]
    /\ observation' = [observation EXCEPT ![p] = "READY"]
    /\ schedule' = [q \in Schedulers |-> IF q = p THEN "waiting" ELSE schedule[q]]
    /\ UNCHANGED <<claims, posts, private, published>>

WorkerStep(p) ==
    \E w \in Workers : WorkerTakes(p, w) \/ RestartIfQueued(p, w) \/ ClaimOnce(p, w) \/ PostAlert(p, w)

NotificationsNext ==
    \E p \in Publishers :
        \/ WorkerStep(p) \/ PublisherDies(p) \/ PostUpdate(p) \/ Drained(p)
        \/ \E a \in Alerts : Publish(p, a)

NotificationsSpec == NotificationsInit /\ [][NotificationsNext]_notificationVars

---------------------------------------------------------------------------
(* Properties.                                                             *)

NotificationsTypeOK ==
    /\ \A p \in Publishers : Len(queue[p]) <= QueueLimit
    /\ \A p \in Publishers, w \in Workers :
          worker[p][w].stage \in {"none", "loop", "claim", "post"}
    /\ claims \subseteq {ClaimKey(a) : a \in Alerts}
    /\ observation \in [Publishers -> {"READY", "UNAVAILABLE"}]
    /\ schedule \in [Schedulers -> {"waiting", "draining", "posted"}]

\* However often an event is published, by whichever processes, through crashes,
\* lost answers and doubled workers, the channel carries it at most once and only
\* under a claim; and no simulated event leaves the process.
AlertsPostedOnce ==
    \A a \in Alerts :
        /\ posts[a] <= 1
        /\ posts[a] > 0 => ClaimKey(a) \in claims
        /\ a.simulated => posts[a] = 0 /\ \A g \in DirectGateways : a \notin private[g]

\* A queued alert is never left with nothing to send it: a worker is running, or
\* a callback is due that will start one.
QueueIsServed ==
    \A p \in Publishers : queue[p] # <<>> =>
        callback[p] # {} \/ \E w \in Workers : worker[p][w] # NoWork

NotificationsSound == AlertsPostedOnce /\ QueueIsServed
=============================================================================
