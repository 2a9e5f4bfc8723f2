------------------------------ MODULE CandleCache ------------------------------
(***************************************************************************)
(* One partition of the candle cache (data/storage.py) and everyone who    *)
(* writes and reads it: the HTTP API's refresh (api/service.py,            *)
(* data/historical.py), the sync of that service, the acquisition jobs     *)
(* (api/research.py, research/acquisitions.py), the refresh and flush      *)
(* tools (tools/refresh_syntx_cache.py, tools/flush_and_reacquire.py).     *)
(*                                                                         *)
(* Bars are numbered; bar `forming` is still open and the lower ones are   *)
(* closed.  A bar's prices are what they were when it was read: "partial"  *)
(* for a bar read while open, "final" otherwise.  The latest-candles call  *)
(* of the terminal starts behind the forming bar, the range call does not. *)
(* A save is one SQLite transaction.  The API and the jobs share an event  *)
(* loop and interleave at their awaits; the tools are other processes.     *)
(***************************************************************************)
EXTENDS Naturals, FiniteSets, FiniteSetsExt

CONSTANTS
    MaxForming,        \* bound on the bars
    Count,             \* candles the API asks for
    Tolerance,         \* _FRESHNESS_TOLERANCE_CANDLES
    Ranges,            \* ranges the research page acquires: sets of bars
    Jobs,              \* job slots: max_jobs of the registry
    MaxConcurrent      \* max_concurrent of the registry

\* What the code and its configuration guarantee of these values.
CacheAssumption ==
    /\ {MaxForming, Count, MaxConcurrent} \subseteq Nat \ {0} /\ Tolerance \in Nat
    /\ \A r \in Ranges : r # {} /\ r \subseteq 1 .. MaxForming
    /\ IsFiniteSet(Jobs)

CacheBars == 1 .. MaxForming

VARIABLES
    forming,      \* the bar that is open now
    cache,        \* bar -> "none", "partial" or "final"
    frozen,       \* bars an acquisition stored while they were open
    request,      \* the API request: [at, asked]
    reply,        \* its answer: [status, asked, newest, late]
    jobs,         \* slot -> [range, state]
    shortfall,    \* bars missing from the store when a job was COMPLETED
    sync          \* HistoricalDataService.sync: [at, wanted, gaps]

cacheVars == <<forming, cache, frozen, request, reply, jobs, shortfall, sync>>
requestVars == <<request, reply>>

NoContent == [b \in CacheBars |-> "none"]
NoReply == [status |-> "UNAVAILABLE", asked |-> 0, newest |-> 0, late |-> FALSE]
FreeSlot == [range |-> {}, state |-> "FREE"]
NoSync == [at |-> "idle", wanted |-> 0, gaps |-> {}]

CacheInit ==
    /\ forming = 1
    /\ cache = NoContent /\ frozen = {}
    /\ request = [at |-> "idle", asked |-> 0] /\ reply = NoReply
    /\ jobs = [j \in Jobs |-> FreeSlot] /\ shortfall = {} /\ sync = NoSync

Stored(c) == {b \in CacheBars : c[b] # "none"}
Keep(c, bars) == [b \in CacheBars |-> IF b \in bars THEN c[b] ELSE "none"]
\* load_latest: the newest n bars of the partition.
LoadLatest(c, n) == Keep(c, {b \in Stored(c) : Cardinality({d \in Stored(c) : d > b}) < n})

\* What the terminal reports for the bars now.
Reported(bars) ==
    [b \in CacheBars |->
        IF b \notin bars \/ b > forming THEN "none"
        ELSE IF b = forming THEN "partial" ELSE "final"]
\* get_candles: n bars, from the last closed one back.
LatestClosed(n) == {b \in CacheBars : b < forming /\ b + n >= forming}

\* save_candles: a provider's stored bar with other values is a conflict unless
\* the caller replaces; two readings of an open bar may or may not agree.
Clash(incoming) ==
    {b \in Stored(incoming) \cap Stored(cache) : incoming[b] # cache[b]}
MayClash(incoming) ==
    {b \in Stored(incoming) \cap Stored(cache) : incoming[b] = "partial"}
Merged(incoming) ==
    [b \in CacheBars |-> IF incoming[b] = "none" THEN cache[b] ELSE incoming[b]]

(***************************************************************************)
(* The API: _get_market_candle_data over refresh_latest(closed_only)       *)
(***************************************************************************)
\* get_coverage and count decide whether to fetch; exactly at the tolerance the
\* fraction of the open bar decides.
ShouldFetch ==
    IF Stored(cache) = {} \/ Cardinality(Stored(cache)) < Count THEN {TRUE}
    ELSE LET latest == Max(Stored(cache))
         IN IF forming > latest + 1 + Tolerance THEN {TRUE}
            ELSE IF forming = latest + 1 + Tolerance THEN BOOLEAN ELSE {FALSE}
\* late: more bars closed during the request than it asked for, so that the broker's
\* latest reach back to none of those it wanted.
Reply(status, asked, bars) ==
    /\ reply' = IF Stored(bars) = {} THEN NoReply
                ELSE [status |-> status, asked |-> asked, newest |-> Max(Stored(bars)),
                      late |-> forming > asked + Count]
    /\ request' = [at |-> "idle", asked |-> 0]

\* The cache is fresh: the answer is loaded without an await.
AnswerFromCache ==
    /\ request.at = "idle" /\ FALSE \in ShouldFetch
    /\ Reply("CURRENT", forming, LoadLatest(cache, Count))
    /\ UNCHANGED <<forming, cache, frozen, jobs, shortfall, sync>>

BeginRefresh ==
    /\ request.at = "idle" /\ TRUE \in ShouldFetch
    /\ request' = [at |-> "fetching", asked |-> forming] /\ reply' = NoReply
    /\ UNCHANGED <<forming, cache, frozen, jobs, shortfall, sync>>

\* The broker answers; bars not yet closed when the request began are dropped;
\* the rest is saved strictly and the answer read back.  A conflict leads to
\* an observation that is not stored.
FinishRefresh ==
    /\ request.at = "fetching"
    /\ LET fetched == Reported({b \in LatestClosed(Count + 1) : b < request.asked})
       IN IF Clash(fetched) = {}
          THEN /\ cache' = Merged(fetched)
               /\ Reply("CURRENT", request.asked, LoadLatest(cache', Count))
          ELSE /\ request' = [request EXCEPT !.at = "uncached"]
               /\ UNCHANGED <<cache, reply>>
    /\ UNCHANGED <<forming, frozen, jobs, shortfall, sync>>

\* CACHE_WRITE_FAILED: the closed bars of a second broker read.
AnswerUncached ==
    /\ request.at = "uncached"
    /\ Reply("CURRENT", request.asked, LoadLatest(Reported(LatestClosed(Count + 1)), Count))
    /\ UNCHANGED <<forming, cache, frozen, jobs, shortfall, sync>>

\* The broker cannot be reached: what the cache holds, marked CACHED.
AnswerWithoutBroker ==
    /\ request.at \in {"fetching", "uncached"}
    /\ Reply("CACHED", request.asked, LoadLatest(cache, Count))
    /\ UNCHANGED <<forming, cache, frozen, jobs, shortfall, sync>>

(***************************************************************************)
(* Acquisition jobs                                                        *)
(***************************************************************************)
ActiveJobs == {j \in Jobs : jobs[j].state \in {"QUEUED", "RUNNING", "SAVED"}}
Running == {j \in Jobs : jobs[j].state \in {"RUNNING", "SAVED"}}
Finished == {j \in Jobs : jobs[j].state \in {"COMPLETED", "FAILED"}}
Complete(r) == r \subseteq Stored(cache)
Put(j, r, state) == jobs' = [jobs EXCEPT ![j] = [range |-> r, state |-> state]]
Found(r) == shortfall' = shortfall \cup (r \ Stored(cache))

\* submit: an active job of the same identity is returned as it is; a range the
\* cache covers completes at once; a full registry gives up a finished job.  What a
\* finished job was for is not asked any more.
SubmitJob(r) ==
    /\ \A j \in ActiveJobs : jobs[j].range # r
    /\ \E j \in Jobs :
          /\ jobs[j].state = "FREE" \/ (j \in Finished /\ \A i \in Jobs : jobs[i].state # "FREE")
          /\ \/ Complete(r) /\ Put(j, {}, "COMPLETED") /\ Found(r)
             \/ ~Complete(r) /\ Put(j, r, "QUEUED") /\ UNCHANGED shortfall
    /\ UNCHANGED <<forming, cache, frozen, requestVars, sync>>

RunJob(j) ==
    /\ jobs[j].state = "QUEUED" /\ Cardinality(Running) < MaxConcurrent
    /\ Put(j, jobs[j].range, "RUNNING")
    /\ UNCHANGED <<forming, cache, frozen, shortfall, requestVars, sync>>

\* get_candles_range: the terminal's range call may return the open bar, and
\* what it returns is saved before it is known to be complete.
SaveRange(j) ==
    /\ jobs[j].state = "RUNNING"
    /\ LET fetched == Reported(jobs[j].range)
       IN \/ /\ Complete(jobs[j].range)
             /\ Put(j, jobs[j].range, "SAVED") /\ UNCHANGED <<cache, frozen>>
          \/ /\ ~Complete(jobs[j].range) /\ Stored(fetched) # {} /\ Clash(fetched) = {}
             /\ Put(j, jobs[j].range, "SAVED")
             /\ cache' = Merged(fetched)
             /\ frozen' = frozen \cup {b \in Stored(fetched) : fetched[b] = "partial"}
          \/ /\ ~Complete(jobs[j].range) /\ Clash(fetched) \cup MayClash(fetched) # {}
             /\ Put(j, {}, "FAILED") /\ UNCHANGED <<cache, frozen>>
    /\ UNCHANGED <<forming, shortfall, requestVars, sync>>

FetchRangeFails(j) ==
    /\ jobs[j].state = "RUNNING"
    /\ Put(j, {}, "FAILED")
    /\ UNCHANGED <<forming, cache, frozen, shortfall, requestVars, sync>>

\* The coverage check over what the store then holds.
FinishJob(j) ==
    /\ jobs[j].state = "SAVED"
    /\ \/ /\ Complete(jobs[j].range)
          /\ Put(j, {}, "COMPLETED") /\ Found(jobs[j].range)
       \/ /\ ~Complete(jobs[j].range)
          /\ Put(j, {}, "FAILED") /\ UNCHANGED shortfall
    /\ UNCHANGED <<forming, cache, frozen, requestVars, sync>>

\* _evict: a finished job past its lifetime.
EvictJob(j) ==
    /\ j \in Finished /\ jobs' = [jobs EXCEPT ![j] = FreeSlot]
    /\ UNCHANGED <<forming, cache, frozen, shortfall, requestVars, sync>>

(***************************************************************************)
(* HistoricalDataService.sync: the recent edge, then the gaps              *)
(***************************************************************************)
\* find_gaps: the runs of bars missing between two stored ones.
Gaps(c) ==
    LET run(a, b) == a + 1 .. b - 1
    IN {g \in {run(a, b) : a, b \in Stored(c)} : g # {} /\ g \cap Stored(c) = {}}
FillFrom(c) == IF Gaps(c) = {} THEN NoSync ELSE [at |-> "gaps", wanted |-> 0, gaps |-> Gaps(c)]
\* After the recent edge a store that is still too small is topped up.
TopUp(c) ==
    IF Cardinality(Stored(c)) < Count THEN [at |-> "topup", wanted |-> Count, gaps |-> {}]
    ELSE FillFrom(c)

\* _sync_recent up to its first await: everything for an empty store, else the bars
\* since the newest; exactly at the tolerance the fraction of the open bar decides.
BeginSync ==
    /\ sync = NoSync
    /\ IF Stored(cache) = {} THEN sync' = [at |-> "first", wanted |-> Count, gaps |-> {}]
       ELSE LET behind == forming - Max(Stored(cache))
            IN \/ /\ behind >= Tolerance
                  /\ sync' = [at |-> "recent", wanted |-> behind + 1, gaps |-> {}]
               \/ behind <= Tolerance /\ sync' = TopUp(cache)
    /\ UNCHANGED <<forming, cache, frozen, jobs, shortfall, requestVars>>

\* A save without a provider replaces what it finds; a failed read ends the sync.
SaveSynced(bars) ==
    /\ cache' = Merged(Reported(bars)) /\ frozen' = frozen \ bars
    /\ UNCHANGED <<forming, jobs, shortfall, requestVars>>
SyncRecent ==
    /\ sync.at \in {"first", "recent", "topup"}
    /\ SaveSynced(LatestClosed(sync.wanted))
    /\ sync' = IF sync.at = "recent" THEN TopUp(cache') ELSE FillFrom(cache')

\* fill_gaps, in order, with the gaps as they were found; a failed read skips one.
FillGap ==
    /\ sync.at = "gaps"
    /\ LET gap == CHOOSE g \in sync.gaps : \A h \in sync.gaps : Min(g) <= Min(h)
           rest == sync.gaps \ {gap}
       IN /\ SaveSynced(gap) \/ SaveSynced({})
          /\ sync' = IF rest = {} THEN NoSync ELSE [sync EXCEPT !.gaps = rest]
SyncFails ==
    /\ sync.at \in {"first", "recent", "topup"} /\ sync' = NoSync
    /\ UNCHANGED <<forming, cache, frozen, jobs, shortfall, requestVars>>

(***************************************************************************)
(* The tools                                                               *)
(***************************************************************************)
\* refresh_syntx_cache: the closed bars, replacing what conflicts.
RefreshTool ==
    /\ LatestClosed(MaxForming) # {}
    /\ cache' = Merged(Reported(LatestClosed(MaxForming)))
    /\ frozen' = frozen \ LatestClosed(MaxForming)
    /\ UNCHANGED <<forming, jobs, shortfall, requestVars, sync>>

\* flush_and_reacquire: first the partition is emptied; the strict save that
\* follows is refused when somebody stored an open bar in between.
FlushTool ==
    /\ cache' = NoContent /\ frozen' = {}
    /\ UNCHANGED <<forming, jobs, shortfall, requestVars, sync>>

ReacquireTool ==
    /\ LET fetched == Reported(LatestClosed(MaxForming))
       IN Clash(fetched) = {} /\ Stored(fetched) # {} /\ cache' = Merged(fetched)
    /\ UNCHANGED <<forming, frozen, jobs, shortfall, requestVars, sync>>

\* External: the open bar closes.
BarCompletes ==
    /\ forming < MaxForming /\ forming' = forming + 1
    /\ UNCHANGED <<cache, frozen, jobs, shortfall, requestVars, sync>>

CacheNext ==
    \/ AnswerFromCache \/ BeginRefresh \/ FinishRefresh \/ AnswerUncached \/ AnswerWithoutBroker
    \/ \E r \in Ranges : SubmitJob(r)
    \/ \E j \in Jobs : RunJob(j) \/ SaveRange(j) \/ FetchRangeFails(j) \/ FinishJob(j) \/ EvictJob(j)
    \/ BeginSync \/ SyncRecent \/ FillGap \/ SyncFails
    \/ RefreshTool \/ FlushTool \/ ReacquireTool
    \/ BarCompletes

(***************************************************************************)
(* Properties                                                              *)
(***************************************************************************)
Contents == [CacheBars -> {"none", "partial", "final"}]

CacheTypeOK ==
    /\ forming \in CacheBars /\ cache \in Contents /\ frozen \subseteq CacheBars
    /\ request \in [at : {"idle", "fetching", "uncached"}, asked : 0 .. MaxForming]
    /\ reply \in [status : {"CURRENT", "CACHED", "UNAVAILABLE"}, asked : 0 .. MaxForming,
                  newest : 0 .. MaxForming, late : BOOLEAN]
    /\ jobs \in [Jobs -> [range : Ranges \cup {{}},
                          state : {"FREE", "QUEUED", "RUNNING", "SAVED", "COMPLETED", "FAILED"}]]
    /\ shortfall \subseteq CacheBars
    /\ sync \in [at : {"idle", "first", "recent", "topup", "gaps"}, wanted : Nat,
                 gaps : SUBSET SUBSET CacheBars]

(* Whatever the jobs and the tools did meanwhile, candles the API calls     *)
(* CURRENT reach to within the tolerance of the last bar closed when they   *)
(* were asked for, unless the broker took longer than the candles asked for *)
(* last; and only a bar that an acquisition stored while it was open is in  *)
(* the store with prices that are not final.                                *)
CurrentRepliesAreCurrent ==
    /\ reply.status = "CURRENT" /\ ~reply.late => reply.newest + 1 + Tolerance >= reply.asked
    /\ \A b \in Stored(cache) : cache[b] = "partial" => b \in frozen

(* The registry never runs the same acquisition twice at a time nor more    *)
(* than its limit, and a job it reports COMPLETED found every bar of its    *)
(* range in the store.                                                      *)
JobsSound ==
    /\ \A i, j \in ActiveJobs : jobs[i].range = jobs[j].range => i = j
    /\ Cardinality(Running) <= MaxConcurrent
    /\ shortfall = {}
=============================================================================
