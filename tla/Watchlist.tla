------------------------------- MODULE Watchlist -------------------------------
(***************************************************************************)
(* The durable watchlist (data/watchlist.py): what the engine trades, the  *)
(* observer watches and the operator edits through the API (api/watchlist) *)
(* or the Telegram commands.  Every use constructs a WatchlistStore, whose *)
(* constructor counts the rows and seeds an empty table, in two statements *)
(* that other processes may come between.                                  *)
(***************************************************************************)
EXTENDS Naturals, FiniteSets

CONSTANTS
    WatchUsers,       \* processes that use the store: engine, API, bot
    Seeds,            \* DEFAULT_SYNTHETIC_SEEDS
    WatchPairs        \* <<symbol, timeframe>> pairs the operator may name

\* What the code and its configuration guarantee of these values.
WatchAssumption == Seeds \subseteq WatchPairs

VARIABLES
    rows,             \* the table: a set of pairs
    storeStep,        \* user -> where it is: "idle", "opened", "ready"
    counted,          \* user -> the table was empty when its constructor counted
    wanted,           \* what the operator's accepted commands leave on the list
    seedings,         \* how often the seeds were inserted: never, once, again
    evaluated         \* the pairs of the engine's last pass over the list

watchVars == <<rows, storeStep, counted, wanted, seedings, evaluated>>

WatchlistInit ==
    /\ rows = {}
    /\ storeStep = [u \in WatchUsers |-> "idle"]
    /\ counted = [u \in WatchUsers |-> FALSE]
    /\ wanted = Seeds
    /\ seedings = "never"
    /\ evaluated = {}

\* WatchlistStore.__init__: the count.
OpenStore(u) ==
    /\ storeStep[u] = "idle"
    /\ storeStep' = [storeStep EXCEPT ![u] = "opened"]
    /\ counted' = [counted EXCEPT ![u] = rows = {}]
    /\ UNCHANGED <<rows, wanted, seedings, evaluated>>

\* WatchlistStore.__init__: INSERT OR IGNORE of the seeds when it counted none.
SeedStore(u) ==
    /\ storeStep[u] = "opened"
    /\ storeStep' = [storeStep EXCEPT ![u] = "ready"]
    /\ rows' = IF counted[u] THEN rows \cup Seeds ELSE rows
    /\ seedings' = CASE ~counted[u] -> seedings
                     [] counted[u] /\ seedings = "never" -> "once"
                     [] OTHER -> "again"
    /\ UNCHANGED <<counted, wanted, evaluated>>

\* add_to_watchlist and /add: an unsupported symbol is refused before the store.
AddItem(u, p) ==
    /\ storeStep[u] = "ready"
    /\ storeStep' = [storeStep EXCEPT ![u] = "idle"]
    /\ rows' = rows \cup {p}
    /\ wanted' = wanted \cup {p}
    /\ UNCHANGED <<counted, seedings, evaluated>>

\* remove_item: one timeframe of the symbol, or all of them.
Named(p, everyTimeframe) ==
    {q \in WatchPairs : q[1] = p[1] /\ (everyTimeframe \/ q[2] = p[2])}

RemoveItem(u, p, everyTimeframe) ==
    /\ storeStep[u] = "ready"
    /\ storeStep' = [storeStep EXCEPT ![u] = "idle"]
    /\ rows' = rows \ Named(p, everyTimeframe)
    /\ wanted' = wanted \ Named(p, everyTimeframe)
    /\ UNCHANGED <<counted, seedings, evaluated>>

\* run_watchlist: the pairs of one pass; an empty list is a configuration error.
Evaluate(u) ==
    /\ storeStep[u] = "ready" /\ rows # {}
    /\ storeStep' = [storeStep EXCEPT ![u] = "idle"]
    /\ evaluated' = rows
    /\ UNCHANGED <<rows, counted, wanted, seedings>>

EmptyListRaises(u) ==
    /\ storeStep[u] = "ready" /\ rows = {}
    /\ storeStep' = [storeStep EXCEPT ![u] = "idle"]
    /\ UNCHANGED <<rows, counted, wanted, seedings, evaluated>>

\* The bot's /add and /remove, and the API's routes, each with a store of its own.
OperatorCommand(u) ==
    \E p \in WatchPairs : AddItem(u, p) \/ RemoveItem(u, p, TRUE) \/ RemoveItem(u, p, FALSE)

WatchlistNext ==
    \E u \in WatchUsers :
        OpenStore(u) \/ SeedStore(u) \/ OperatorCommand(u) \/ Evaluate(u) \/ EmptyListRaises(u)

WatchlistSpec == WatchlistInit /\ [][WatchlistNext]_watchVars

---------------------------------------------------------------------------
(* Properties.                                                             *)

WatchlistTypeOK ==
    /\ rows \subseteq WatchPairs /\ wanted \subseteq WatchPairs /\ evaluated \subseteq WatchPairs
    /\ storeStep \in [WatchUsers -> {"idle", "opened", "ready"}]

\* Whatever the constructors and the operator's commands interleave to, no edit
\* is lost: the list is what the operator's commands leave, save that seeding it
\* again (a constructor that found it empty) brings the seeds back.
WatchlistFollowsOperator ==
    /\ seedings = "once" => rows = wanted
    /\ seedings = "again" => wanted \subseteq rows /\ rows \subseteq wanted \cup Seeds
=============================================================================
