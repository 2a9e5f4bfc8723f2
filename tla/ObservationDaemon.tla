-------------------------- MODULE ObservationDaemon --------------------------
(***************************************************************************)
(* monitoring/observation_daemon.py, observation_supervisor.py and         *)
(* forward_shadow_sampler.py: read-only observers of closed candles that   *)
(* share an evidence store with a cursor (ObservationDaemonStore) and a    *)
(* second database with the counter and the hypothetical plans of the      *)
(* forward shadow sampler.  The daemon sends one digest a day; the         *)
(* supervisor holds a mutex among supervisors, which the daemon does not   *)
(* take, so the two can run on the same stores.                            *)
(* One watch pair is modelled: pairs share no row.  A candle is the index  *)
(* of its close; an index without a candle is a gap in the history.        *)
(***************************************************************************)
EXTENDS Integers, FiniteSets
Sets == INSTANCE FiniteSetsExt

CONSTANTS ObserverStarts,  \* bound on starts of each observer
          MaxBar,          \* bound on candle closes
          TelemetryWindow, \* candles in one answer (501)
          SampleEvery,     \* SAMPLE_EVERY_CLOSED_BARS
          Horizon          \* DEFAULT_HORIZON_BARS

\* What the code and its configuration guarantee of these values.
ObserverAssumption == {ObserverStarts, MaxBar} \subseteq Nat
                             /\ {TelemetryWindow, SampleEvery, Horizon} \subseteq Nat \ {0}

VARIABLES
  newestBar,  \* time, as the index of the newest close
  candles,    \* indexes that have a candle
  cursor,     \* observation_cursor.closed_at, 0 when there is no row
  evidence,   \* closes with a SIGNAL row
  sampler,    \* sampler_cursor: bars counted and the last one counted
  shadowPlans,  \* signal_close of the rows of plans (of one side)
  phase,      \* observer -> step
  window,     \* observer -> closes of the telemetry answer in hand
  todo,       \* observer -> closes still to append
  bar,        \* observer -> close in hand
  count,      \* observer -> sampler count read
  previous,   \* observer -> latest plan read, 0 when none
  observerStarts,
  digests,    \* days whose digest a channel took
  digestMarked,  \* days in digest_sent_log
  lostMarks,  \* history: days whose mark a crash or an error lost
  repeated,   \* history: days whose digest was delivered again
  firstRace,  \* history: two observers found the store without a cursor
  uncounted,  \* history: closes whose sampling a crash or a race lost
  together    \* history: two observers sampled at once

observationVars == <<newestBar, candles, cursor, evidence, sampler, shadowPlans, phase, window, todo,
              bar, count, previous, observerStarts, digests, digestMarked, lostMarks, repeated,
              firstRace, uncounted, together>>
storeOfEvidence == <<cursor, evidence>>
samplerStore == <<sampler, shadowPlans>>
localSample == <<bar, count, previous>>
digestVars == <<digests, digestMarked, lostMarks, repeated>>
histories == <<firstRace, uncounted, together>>
marketVars == <<newestBar, candles>>

Observers == {"daemon", "supervisor"}
Bars == 1 .. MaxBar
DayOf(b) == b \div 2
DigestDays == 0 .. DayOf(MaxBar)
Phases == {"down", "idle", "read", "append", "count", "advance", "latest", "plan", "digest", "mark"}
Sampling(o) == phase[o] \in {"count", "advance", "latest", "plan"}

ObservationTypeOK ==
  /\ newestBar \in 0 .. MaxBar /\ candles \subseteq Bars /\ cursor \in 0 .. MaxBar
  /\ evidence \subseteq Bars /\ sampler \in [counted : 0 .. MaxBar, last : 0 .. MaxBar]
  /\ shadowPlans \subseteq Bars /\ phase \in [Observers -> Phases]
  /\ window \in [Observers -> SUBSET Bars] /\ todo \in [Observers -> SUBSET Bars]
  /\ bar \in [Observers -> 0 .. MaxBar] /\ count \in [Observers -> 0 .. MaxBar]
  /\ previous \in [Observers -> 0 .. MaxBar]
  /\ observerStarts \in [Observers -> 0 .. ObserverStarts]
  /\ \A days \in {digests, digestMarked, lostMarks, repeated} : days \subseteq DigestDays
  /\ firstRace \in BOOLEAN /\ uncounted \subseteq Bars /\ together \in BOOLEAN

ObservationInit ==
  /\ newestBar = 0 /\ candles = {} /\ cursor = 0 /\ evidence = {}
  /\ sampler = [counted |-> 0, last |-> 0] /\ shadowPlans = {}
  /\ phase = [o \in Observers |-> "down"]
  /\ window = [o \in Observers |-> {}] /\ todo = [o \in Observers |-> {}]
  /\ bar = [o \in Observers |-> 0] /\ count = [o \in Observers |-> 0]
  /\ previous = [o \in Observers |-> 0] /\ observerStarts = [o \in Observers |-> 0]
  /\ digests = {} /\ digestMarked = {} /\ lostMarks = {} /\ repeated = {}
  /\ firstRace = FALSE /\ uncounted = {} /\ together = FALSE

-----------------------------------------------------------------------------
(* External: time passes by one candle interval, with or without a candle. *)
BarCloses ==
  /\ newestBar < MaxBar /\ newestBar' = newestBar + 1
  /\ candles' \in {candles, candles \cup {newestBar + 1}}
  /\ UNCHANGED <<cursor, evidence, sampler, shadowPlans, phase, window, todo, bar, count, previous,
                 observerStarts, digestVars, histories>>

StartObserver(o) ==
  /\ phase[o] = "down" /\ observerStarts[o] < ObserverStarts
  /\ observerStarts' = [observerStarts EXCEPT ![o] = @ + 1]
  /\ phase' = [phase EXCEPT ![o] = "idle"]
  /\ UNCHANGED <<marketVars, storeOfEvidence, samplerStore, window, todo, localSample, digestVars,
                 histories>>

(* Mutant: the oldest candles the terminal keeps. *)
Oldest(bars) == {b \in bars : Cardinality({c \in bars : c < b}) < TelemetryWindow}

(* telemetry.get_candles: the newest closed candles. *)
Newest(bars) == {b \in bars : Cardinality({c \in bars : c > b}) < TelemetryWindow}

FetchCandles(o) ==
  /\ phase[o] = "idle" /\ candles # {}
  /\ window' = [window EXCEPT ![o] = Newest(candles)]
  /\ phase' = [phase EXCEPT ![o] = "read"]
  /\ UNCHANGED <<marketVars, storeOfEvidence, samplerStore, todo, localSample, observerStarts,
                 digestVars, histories>>

(* observe_pair after the fetch: a new scope starts at the latest candle; *)
(* otherwise every candle after the cursor is pending, and the answer must *)
(* account for every interval since the cursor.                            *)
PendingBars(prior, bars) == IF prior = 0 THEN {Sets!Max(bars)} ELSE {b \in bars : b > prior}
(* Mutant: a window that no longer reaches back to the cursor is accepted. *)
HistoryAssumed(prior, bars) == TRUE
HistoryComplete(prior, bars) ==
  prior # 0 => Sets!Max(bars) - prior <= Cardinality(PendingBars(prior, bars))

AfterPass(o) == IF o = "daemon" THEN "digest" ELSE "idle"

ReadCursor(o) ==
  /\ phase[o] = "read"
  /\ IF cursor < Sets!Max(window[o]) /\ HistoryComplete(cursor, window[o])
       THEN /\ todo' = [todo EXCEPT ![o] = PendingBars(cursor, window[o])]
            /\ phase' = [phase EXCEPT ![o] = "append"]
            /\ firstRace' = (firstRace \/ (cursor = 0 /\ \E p \in Observers \ {o} : phase[p] = "append"))
       ELSE /\ phase' = [phase EXCEPT ![o] = AfterPass(o)]
            /\ UNCHANGED <<todo, firstRace>>
  /\ window' = [window EXCEPT ![o] = {}]
  /\ UNCHANGED <<marketVars, storeOfEvidence, samplerStore, localSample, observerStarts, digestVars,
                 uncounted, together>>

(* append_signal: evidence row and cursor in one transaction, refused for  *)
(* a close the cursor has reached.                                         *)
AppendSignal(o) ==
  /\ phase[o] = "append" /\ todo[o] # {}
  /\ LET b == Sets!Min(todo[o])
     IN  /\ todo' = [todo EXCEPT ![o] = @ \ {b}]
         /\ IF cursor >= b
              THEN UNCHANGED <<cursor, evidence, phase, bar>>
              ELSE /\ cursor' = b /\ evidence' = evidence \cup {b}
                   /\ bar' = [bar EXCEPT ![o] = b]
                   /\ phase' = [phase EXCEPT ![o] = "count"]
  /\ UNCHANGED <<marketVars, samplerStore, window, count, previous, observerStarts, digestVars,
                 histories>>

PairObserved(o) ==
  /\ phase[o] = "append" /\ todo[o] = {}
  /\ phase' = [phase EXCEPT ![o] = AfterPass(o)]
  /\ UNCHANGED <<marketVars, storeOfEvidence, samplerStore, window, todo, localSample,
                 observerStarts, digestVars, histories>>

(* append_for_closed_bar reads the sampler's cursor on one connection and   *)
(* writes it on another; the cursor belongs to the other database, so a     *)
(* crash before this step loses the bar for the sampler.                    *)
SampleDone(o) == /\ phase' = [phase EXCEPT ![o] = "append"]
                 /\ bar' = [bar EXCEPT ![o] = 0] /\ count' = [count EXCEPT ![o] = 0]
                 /\ previous' = [previous EXCEPT ![o] = 0]

ReadSamplerCursor(o) ==
  /\ phase[o] = "count"
  /\ together' = (together \/ \E p \in Observers \ {o} : Sampling(p))
  /\ IF bar[o] <= sampler.last
       THEN SampleDone(o) /\ uncounted' = uncounted \cup {bar[o]}
       ELSE /\ count' = [count EXCEPT ![o] = sampler.counted + 1]
            /\ phase' = [phase EXCEPT ![o] = "advance"]
            /\ UNCHANGED <<bar, previous, uncounted>>
  /\ UNCHANGED <<marketVars, storeOfEvidence, samplerStore, window, todo, observerStarts, digestVars,
                 firstRace>>

AdvanceSamplerCursor(o) ==
  /\ phase[o] = "advance"
  /\ sampler' = [counted |-> count[o], last |-> bar[o]]
  /\ uncounted' = IF sampler.counted >= count[o] THEN uncounted \cup {bar[o]} ELSE uncounted
  /\ IF count[o] % SampleEvery = 0
       THEN phase' = [phase EXCEPT ![o] = "latest"] /\ UNCHANGED localSample
       ELSE SampleDone(o)
  /\ UNCHANGED <<marketVars, storeOfEvidence, shadowPlans, window, todo, observerStarts, digestVars,
                 firstRace, together>>

(* A valid plan is inserted unless the latest one is still within its      *)
(* horizon; an invalid one is skipped.                                     *)
ReadLatestPlan(o) ==
  /\ phase[o] = "latest"
  /\ \/ SampleDone(o)
     \/ /\ previous' = [previous EXCEPT ![o] = IF shadowPlans = {} THEN 0 ELSE Sets!Max(shadowPlans)]
        /\ phase' = [phase EXCEPT ![o] = "plan"] /\ UNCHANGED <<bar, count>>
  /\ UNCHANGED <<marketVars, storeOfEvidence, samplerStore, window, todo, observerStarts, digestVars,
                 histories>>

Overlaps(b, last) == last # 0 /\ b < last + Horizon

InsertPlan(o) ==
  /\ phase[o] = "plan"
  /\ shadowPlans' = IF Overlaps(bar[o], previous[o]) THEN shadowPlans ELSE shadowPlans \cup {bar[o]}
  /\ SampleDone(o)
  /\ UNCHANGED <<marketVars, storeOfEvidence, sampler, window, todo, observerStarts, digestVars,
                 histories>>

-----------------------------------------------------------------------------
(* _maybe_send_digest of the daemon: the log is read, the digest sent, and *)
(* only then marked; a digest no channel took is tried again next cycle.   *)
Today == DayOf(newestBar)

SendDigest ==
  /\ phase["daemon"] = "digest"
  /\ \/ phase' = [phase EXCEPT !["daemon"] = "idle"] /\ UNCHANGED <<digests, repeated, bar>>
     \/ /\ Today \notin digestMarked
        /\ digests' = digests \cup {Today} /\ repeated' = repeated \cup (digests \cap {Today})
        /\ bar' = [bar EXCEPT !["daemon"] = newestBar]
        /\ phase' = [phase EXCEPT !["daemon"] = "mark"]
  /\ UNCHANGED <<marketVars, storeOfEvidence, samplerStore, window, todo, count, previous,
                 observerStarts, digestMarked, lostMarks, histories>>

MarkDigest ==
  /\ phase["daemon"] = "mark"
  /\ digestMarked' = digestMarked \cup {DayOf(bar["daemon"])}
  /\ bar' = [bar EXCEPT !["daemon"] = 0]
  /\ phase' = [phase EXCEPT !["daemon"] = "idle"]
  /\ UNCHANGED <<marketVars, storeOfEvidence, samplerStore, window, todo, count, previous,
                 observerStarts, digests, lostMarks, repeated, histories>>

(* A connection error, a failed mark or the death of the process ends the   *)
(* pass wherever it is; the memory of the pass is gone.                     *)
PassAborts(o) ==
  /\ phase[o] \notin {"down", "idle"}
  /\ \/ phase' = [phase EXCEPT ![o] = "idle"] /\ phase[o] \in {"read", "mark"}
     \/ phase' = [phase EXCEPT ![o] = "down"]
  /\ uncounted' = IF phase[o] \in {"count", "advance"} THEN uncounted \cup {bar[o]} ELSE uncounted
  /\ lostMarks' = IF phase[o] = "mark" THEN lostMarks \cup {DayOf(bar[o])} ELSE lostMarks
  /\ window' = [window EXCEPT ![o] = {}] /\ todo' = [todo EXCEPT ![o] = {}]
  /\ bar' = [bar EXCEPT ![o] = 0] /\ count' = [count EXCEPT ![o] = 0]
  /\ previous' = [previous EXCEPT ![o] = 0]
  /\ UNCHANGED <<marketVars, storeOfEvidence, samplerStore, observerStarts, digests, digestMarked,
                 repeated, firstRace, together>>

ObserverStep(o) ==
  \/ FetchCandles(o) \/ ReadCursor(o) \/ AppendSignal(o) \/ PairObserved(o)
  \/ ReadSamplerCursor(o) \/ AdvanceSamplerCursor(o) \/ ReadLatestPlan(o) \/ InsertPlan(o)
  \/ o = "daemon" /\ (SendDigest \/ MarkDigest)

ObservationNext ==
  \/ BarCloses
  \/ \E o \in Observers : StartObserver(o) \/ ObserverStep(o) \/ PassAborts(o)

ObservationSpec == ObservationInit /\ [][ObservationNext]_observationVars

-----------------------------------------------------------------------------
FirstBar == IF evidence = {} THEN 1 ELSE Sets!Min(evidence)

(* No silent gap: the evidence holds every close from the first observed   *)
(* one to the cursor, unless two observers started on an empty store.      *)
(* Unless two observers sampled at once, the sampler has counted every one *)
(* of them but those a crash lost, and its plans do not overlap.  A day's  *)
(* digest goes out once unless its mark was lost.                          *)
ObservationsComplete ==
  /\ evidence # {} => cursor = Sets!Max(evidence)
  /\ firstRace \/ evidence = FirstBar .. cursor
  /\ \/ together
     \/ \E o \in Observers : phase[o] \in {"count", "advance"}
     \/ sampler.counted = Cardinality(evidence \ uncounted)
  /\ together \/ \A b, c \in shadowPlans : b < c => c >= b + Horizon
  /\ repeated \subseteq lostMarks

(* An observer that keeps running brings the cursor to the newest candle,  *)
(* unless the telemetry window no longer proves the history complete or    *)
(* the passes keep failing.                                                *)
CursorCatchesUp ==
  \/ []<><<\E o \in Observers : PassAborts(o)>>_observationVars
  \/ <>[](\/ cursor = 0 /\ candles = {}
          \/ candles # {} /\ cursor = Sets!Max(candles)
          \/ candles # {} /\ ~HistoryComplete(cursor, Newest(candles))
          \/ \A o \in Observers : phase[o] = "down")
=============================================================================
