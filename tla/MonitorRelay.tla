------------------------------ MODULE MonitorRelay ------------------------------
(***************************************************************************)
(* The owner's monitoring relay (api/monitor_relay.py): read-only requests *)
(* that pass the quota and the sign-in share one origin fetch per          *)
(* concurrent identical read; fetches wait for the chart or market         *)
(* semaphore of their route, then for the common one, each wait bounded.   *)
(*                                                                         *)
(* A key is a route and its query.  The event loop runs one step of one    *)
(* client or task at a time.                                               *)
(***************************************************************************)
EXTENDS Integers, FiniteSets

CONSTANTS
    Clients,
    ChartKeys, MarketKeys,   \* chart and other reads; the health route has one key
    InflightSlots, MarketSlots, ChartSlots,
    PendingLimit,
    RateLimit,               \* requests admitted per minute
    MaxAsked                 \* bound on requests

\* What the code and its configuration guarantee of these values.
RelayAssumption ==
    /\ {InflightSlots, MarketSlots, ChartSlots, PendingLimit, RateLimit} \subseteq Nat \ {0}
    /\ MaxAsked \in Nat
    /\ ChartKeys \cap MarketKeys = {} /\ "health" \notin ChartKeys \cup MarketKeys
    /\ MarketSlots + ChartSlots < InflightSlots

Keys == ChartKeys \cup MarketKeys \cup {"health"}

VARIABLES
    client,      \* each client: resting, or admitted with or waiting for a key
    fetch,        \* the fetch of each key: where it stands
    sharedKeys,     \* keys that a new request would share
    marketFree, chartFree, inflightFree,   \* the semaphores
    recent,      \* requests of the last minute
    asked        \* requests made

relayVars == <<client, fetch, sharedKeys, marketFree, chartFree, inflightFree, recent, asked>>
slotVars == <<marketFree, chartFree, inflightFree>>

FetchOutcomes == {"body", "busy", "failed"}
NoRequest == <<"rest">>

RelayInit ==
    /\ client = [c \in Clients |-> NoRequest]
    /\ fetch = [k \in Keys |-> "none"] /\ sharedKeys = {}
    /\ marketFree = MarketSlots /\ chartFree = ChartSlots /\ inflightFree = InflightSlots
    /\ recent = 0 /\ asked = 0

---------------------------------------------------------------------------
\* Mutant: a request that is refused for the quota counts against it too.
BoundaryCountingAll(c, k, verified) ==
    /\ client[c] = NoRequest /\ asked < MaxAsked
    /\ asked' = asked + 1 /\ recent' = recent + 1
    /\ client' = IF recent < RateLimit /\ verified
                 THEN [client EXCEPT ![c] = <<"admitted", k>>] ELSE client
    /\ UNCHANGED <<fetch, sharedKeys, slotVars>>

\* boundary: a request counts against the quota before its sign-in is verified.
Boundary(c, k, verified) ==
    /\ client[c] = NoRequest /\ asked < MaxAsked
    /\ asked' = asked + 1
    /\ recent' = IF recent < RateLimit THEN recent + 1 ELSE recent
    /\ client' = IF recent < RateLimit /\ verified
                 THEN [client EXCEPT ![c] = <<"admitted", k>>] ELSE client
    /\ UNCHANGED <<fetch, sharedKeys, slotVars>>

QuotaExpires ==
    /\ recent > 0
    /\ \E n \in 0 .. recent - 1 : recent' = n
    /\ UNCHANGED <<client, fetch, sharedKeys, slotVars, asked>>

\* observation: join the pending read of this key, or start one, or refuse.
Observation(c, k) ==
    /\ client[c] = <<"admitted", k>>
    /\ IF k \in sharedKeys \/ Cardinality(sharedKeys) < PendingLimit
       THEN client' = [client EXCEPT ![c] = <<"waiting", k>>]
       ELSE client' = [client EXCEPT ![c] = NoRequest]
    /\ IF k \notin sharedKeys /\ Cardinality(sharedKeys) < PendingLimit
       THEN /\ fetch' = [fetch EXCEPT ![k] = IF k = "health" THEN "slotted" ELSE "queued"]
            /\ sharedKeys' = sharedKeys \cup {k}
       ELSE UNCHANGED <<fetch, sharedKeys>>
    /\ UNCHANGED <<slotVars, recent, asked>>

---------------------------------------------------------------------------
TaskMoves(k, to) == fetch' = [fetch EXCEPT ![k] = to] /\ UNCHANGED <<client, sharedKeys, recent, asked>>

\* The route's own semaphore, first.
AcquireSlot(k) ==
    /\ fetch[k] = "queued"
    /\ \/ k \in ChartKeys /\ chartFree > 0 /\ chartFree' = chartFree - 1 /\ UNCHANGED marketFree
       \/ k \in MarketKeys /\ marketFree > 0 /\ marketFree' = marketFree - 1 /\ UNCHANGED chartFree
    /\ UNCHANGED inflightFree
    /\ TaskMoves(k, "slotted")

ReleaseSlot(k) ==
    /\ chartFree' = IF k \in ChartKeys THEN chartFree + 1 ELSE chartFree
    /\ marketFree' = IF k \in MarketKeys THEN marketFree + 1 ELSE marketFree

AcquireInflight(k) ==
    /\ fetch[k] = "slotted"
    /\ inflightFree > 0
    /\ inflightFree' = inflightFree - 1
    /\ UNCHANGED <<marketFree, chartFree>>
    /\ TaskMoves(k, "fetching")

\* The free slots of the semaphore that a task waits for.
FreeFor(k) == IF fetch[k] = "slotted" THEN inflightFree
              ELSE IF k \in ChartKeys THEN chartFree ELSE marketFree

\* wait_for runs out only while the semaphore is taken; a slot held is given back.
WaitTimesOut(k) ==
    /\ fetch[k] \in {"queued", "slotted"} /\ FreeFor(k) = 0
    /\ IF fetch[k] = "slotted" THEN ReleaseSlot(k) ELSE UNCHANGED <<chartFree, marketFree>>
    /\ UNCHANGED inflightFree
    /\ TaskMoves(k, "busy")

\* fetch_local returns or raises; the finally clause frees both semaphores.
FetchEnds(k) ==
    /\ fetch[k] = "fetching"
    /\ \E a \in {"body", "failed"} : TaskMoves(k, a)
    /\ inflightFree' = inflightFree + 1
    /\ ReleaseSlot(k)

\* finished, the done callback, and in the same batch the clients that shared the
\* task: later requests start a fetch of their own.
FetchFinished(k) ==
    /\ fetch[k] \in FetchOutcomes
    /\ sharedKeys' = sharedKeys \ {k}
    /\ fetch' = [fetch EXCEPT ![k] = "none"]
    /\ client' = [c \in Clients |-> IF client[c] = <<"waiting", k>> THEN NoRequest ELSE client[c]]
    /\ UNCHANGED <<slotVars, recent, asked>>

\* A client disconnects: the shielded task goes on.
Hangup(c) ==
    /\ client[c][1] = "waiting"
    /\ client' = [client EXCEPT ![c] = NoRequest]
    /\ UNCHANGED <<fetch, sharedKeys, slotVars, recent, asked>>

RelayNext ==
    \/ \E c \in Clients :
          \/ \E k \in Keys : Observation(c, k) \/ \E verified \in BOOLEAN : Boundary(c, k, verified)
          \/ Hangup(c)
    \/ QuotaExpires
    \/ \E k \in Keys :
          AcquireSlot(k) \/ AcquireInflight(k) \/ WaitTimesOut(k) \/ FetchEnds(k) \/ FetchFinished(k)

RelaySpec == RelayInit /\ [][RelayNext]_relayVars

---------------------------------------------------------------------------
RelayTypeOK ==
    /\ client \in [Clients -> {NoRequest} \cup ({"admitted", "waiting"} \X Keys)]
    /\ fetch \in [Keys -> FetchOutcomes \cup {"none", "queued", "slotted", "fetching"}]
    /\ sharedKeys \subseteq Keys
    /\ marketFree \in 0 .. MarketSlots /\ chartFree \in 0 .. ChartSlots
    /\ inflightFree \in 0 .. InflightSlots
    /\ recent \in 0 .. RateLimit /\ asked \in 0 .. MaxAsked

In(keys, steps) == Cardinality({k \in keys : fetch[k] \in steps})

\* "other routes cannot consume either critical observation slot": whatever times out,
\* fails or hangs up, every semaphore counts exactly the fetches that hold it, so a
\* health read or a chart read that has its own slot finds the common one free and is
\* never turned away busy, and no more keys are pending than the relay allows
\* (fetch_observation, observation, finished).
RelaySound ==
    /\ chartFree = ChartSlots - In(ChartKeys, {"slotted", "fetching"})
    /\ marketFree = MarketSlots - In(MarketKeys, {"slotted", "fetching"})
    /\ inflightFree = InflightSlots - In(Keys, {"fetching"})
    /\ fetch["health"] # "busy"
    /\ \A k \in Keys : fetch[k] = "slotted" => inflightFree > 0
    /\ Cardinality(sharedKeys) <= PendingLimit
    /\ \A c \in Clients, k \in Keys : client[c] = <<"waiting", k>> => fetch[k] # "none"
=============================================================================
