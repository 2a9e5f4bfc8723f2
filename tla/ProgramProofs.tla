----------------------------- MODULE ProgramProofs -----------------------------
(***************************************************************************)
(* Machine-checked proofs about the programs that trade on paper or place  *)
(* demo orders: PaperRuntime, DashboardPaper, LivePaperCampaign and        *)
(* DemoTools, for any number of candles, setups, sessions, tickets, runs   *)
(* and crashes.                                                            *)
(***************************************************************************)
EXTENDS PaperRuntime, DashboardPaper, LivePaperCampaign, DemoTools, FiniteSetTheorems, TLAPS

\* A set whose members are all the same has one at most.
LEMMA AtMostOne ==
    ASSUME NEW S, \A x, y \in S : x = y
    PROVE  IsFiniteSet(S) /\ Cardinality(S) \in 0 .. 1
  <1>1. CASE S = {}
    BY <1>1, FS_EmptySet
  <1>2. CASE S # {}
    <2>1. PICK x : x \in S
      BY <1>2
    <2>2. S = {x}
      BY <2>1
    <2>3. IsFiniteSet({x}) /\ Cardinality({x}) = 1
      BY FS_Singleton
    <2> QED BY <2>2, <2>3
  <1> QED BY <1>1, <1>2

(***************************************************************************)
(* The paper runtime.  What makes a lost position stop all trading is that *)
(* one of two durable marks outlives the process: the unfinished row, or a *)
(* heartbeat with a position open.  An idle process has one of them        *)
(* whenever its venue holds a position.                                    *)
(***************************************************************************)
Cycles == {"idle", "observing", "deciding", "submitting", "settled", "publishing"}
Entries == [plan : Plans, seen : 0 .. MaxCandle, state : {"OPEN", "CLOSED"}]

PaperShape ==
    /\ market \in 0 .. MaxCandle /\ observed \in 0 .. MaxCandle /\ stops \in 0 .. MaxCrashes
    /\ paperUp \in BOOLEAN /\ cycle \in Cycles
    /\ row \in [at : 0 .. MaxCandle, state : {"NONE", "PROCESSING", "COMPLETE"}]
    /\ beat \in [open : Nat, action : {"IDLE", "ERROR", "IGNORED", "DONE"}]
    /\ DOMAIN venue \subseteq Candles /\ \A k \in DOMAIN venue : venue[k] \in Entries
    /\ claimed \subseteq Candles
    /\ \A k \in DOMAIN intents : intents[k] \in {"PENDING", "UNKNOWN", "ACCEPTED"}
    /\ lost \in BOOLEAN /\ unseen \in BOOLEAN /\ tradedAfterLoss \in BOOLEAN

CycleSound ==
    /\ cycle # "idle" => paperUp /\ observed \in Candles /\ row.at = observed
    /\ cycle \notin {"idle", "publishing"} => row.state = "PROCESSING"
    /\ cycle = "submitting" => observed \in DOMAIN intents
    /\ ~paperUp => OpenIn(venue) = {}

\* The row is the last candle claimed.
ClaimsInOrder ==
    /\ \A j \in claimed : j <= row.at
    /\ row.state = "NONE" => row.at = 0

\* What the venue accepted was within the authorized risk.
EntriesAuthorized == \A k \in DOMAIN venue : VenueAccepts(venue[k].plan)

\* A durable mark stands for every position that a process holds between cycles, and
\* for every position that was lost and not overlooked.
Marked == row.state = "PROCESSING" \/ beat.open > 0
LossMarked ==
    /\ cycle = "idle" /\ OpenIn(venue) # {} => Marked
    /\ lost /\ ~unseen => /\ cycle = "idle"
                          /\ row.state = "PROCESSING" \/ (beat.open > 0 /\ ~paperUp)
    /\ LostPositionStopsTrading

PaperInv ==
    /\ PaperShape /\ CycleSound /\ ClaimsInOrder /\ EntriesAuthorized /\ LossMarked
    /\ LossWithinAuthorization

\* A fresh installation.
LEMMA PaperInvInit == ASSUME PaperAssumption, PaperInit PROVE PaperInv
  <1>1. /\ market \in 0 .. MaxCandle /\ observed \in 0 .. MaxCandle /\ stops \in 0 .. MaxCrashes
        /\ cycle \in Cycles /\ paperUp = FALSE /\ lost = FALSE /\ unseen = FALSE
        /\ tradedAfterLoss = FALSE /\ claimed = {} /\ closes = {}
    BY DEF PaperAssumption, PaperInit, Cycles
  <1>2. row = [at |-> 0, state |-> "NONE"] /\ beat = [open |-> 0, action |-> "IDLE"]
    BY DEF PaperInit, NoRow
  <1>3. DOMAIN venue = {} /\ DOMAIN intents = {} /\ OpenIn(venue) = {}
    BY DEF PaperInit, NoVenue, OpenIn
  <1>4. /\ row \in [at : 0 .. MaxCandle, state : {"NONE", "PROCESSING", "COMPLETE"}]
        /\ beat \in [open : Nat, action : {"IDLE", "ERROR", "IGNORED", "DONE"}]
    BY <1>2 DEF PaperAssumption
  <1>5. PaperShape
    BY <1>1, <1>3, <1>4, Zenon DEF PaperShape
  <1>6. CycleSound /\ ClaimsInOrder /\ EntriesAuthorized /\ LossMarked /\ LossWithinAuthorization
    BY <1>1, <1>2, <1>3 DEF PaperInit, CycleSound, ClaimsInOrder, EntriesAuthorized, LossMarked,
           LossWithinAuthorization, LostPositionStopsTrading
  <1> QED BY <1>5, <1>6 DEF PaperInv

\* Where a position leaves the venue, it has cost no more than the loss promised at its
\* stop, unless the candle opened beyond the stop.
LEMMA ExitWithinPromise ==
    ASSUME PaperAssumption, NEW p \in Plans, NEW b \in Shapes, LevelsOK(p),
           NEW x \in ExitPrices(p, b), ~Gapped(p, b)
    PROVE  RealizedLoss(p, x) <= MaximumLoss(p)
  <1>1. /\ p.side \in {"BUY", "SELL"} /\ p.entry \in Nat /\ p.stop \in Nat /\ p.take \in Nat
        /\ Slippage \in Nat
    BY DEF PaperAssumption
  <1>2. b.open \in Nat /\ b.high \in Nat /\ b.low \in Nat
    BY DEF PaperAssumption, Shapes
  <1>3. x \in {b.open, p.stop, p.take}
    BY DEF ExitPrices
  <1>4. CASE BUY(p)
    <2>1. x >= p.stop
      BY <1>1, <1>2, <1>3, <1>4 DEF ExitPrices, Gapped, LevelsOK
    <2> QED BY <1>1, <1>2, <1>3, <1>4, <2>1 DEF RealizedLoss, MaximumLoss
  <1>5. CASE ~BUY(p)
    <2>1. x <= p.stop
      BY <1>1, <1>2, <1>3, <1>5 DEF ExitPrices, Gapped, LevelsOK
    <2> QED BY <1>1, <1>2, <1>3, <1>5, <2>1 DEF RealizedLoss, MaximumLoss
  <1> QED BY <1>4, <1>5

\* The market closes a candle.
LEMMA CandleClosesSound ==
    ASSUME PaperAssumption, PaperInv, CandleCloses PROVE PaperInv'
  BY DEF PaperAssumption, PaperInv, CandleCloses, PaperShape, CycleSound, ClaimsInOrder,
         EntriesAuthorized, LossMarked, Marked, LossWithinAuthorization,
         LostPositionStopsTrading, Candles

\* A restart, which a heartbeat with an open position refuses.
LEMMA StartRuntimeSound ==
    ASSUME PaperAssumption, PaperInv, StartRuntime PROVE PaperInv'
  <1>1. DOMAIN venue' = {} /\ OpenIn(venue') = {}
    BY DEF StartRuntime, NoVenue, OpenIn
  <1> QED BY <1>1 DEF PaperInv, StartRuntime, PaperShape, CycleSound, ClaimsInOrder,
         EntriesAuthorized, LossMarked, Marked, LossWithinAuthorization,
         LostPositionStopsTrading, Cycles

\* A refusal of the source only changes what the heartbeat says of the last action.
LEMMA SourceRefusedSound ==
    ASSUME PaperAssumption, PaperInv, SourceRefused PROVE PaperInv'
  <1>1. /\ beat'.open = beat.open
        /\ beat' \in [open : Nat, action : {"IDLE", "ERROR", "IGNORED", "DONE"}]
    BY DEF PaperInv, PaperShape, SourceRefused
  <1> QED BY <1>1 DEF PaperInv, SourceRefused, PaperShape, CycleSound, ClaimsInOrder,
         EntriesAuthorized, LossMarked, Marked, LossWithinAuthorization,
         LostPositionStopsTrading

\* A candle is claimed only over a finished row, so a position that was lost and shown by
\* the row stops the claim.
LEMMA BeginObservationSound ==
    ASSUME PaperAssumption, PaperInv, BeginObservation PROVE PaperInv'
  <1>1. PICK k \in 1 .. market :
          IF Claim(k) = "NEW"
          THEN /\ row' = [at |-> k, state |-> "PROCESSING"]
               /\ observed' = k /\ cycle' = "observing"
               /\ claimed' = claimed \cup {k}
               /\ tradedAfterLoss' = (tradedAfterLoss \/ lost)
               /\ UNCHANGED beat
          ELSE /\ beat' = [beat EXCEPT !.action =
                             IF Claim(k) = "UNRESOLVED" THEN "ERROR" ELSE "IGNORED"]
               /\ UNCHANGED <<row, observed, cycle, claimed, tradedAfterLoss>>
    BY DEF BeginObservation
  <1>2. /\ paperUp /\ cycle = "idle" /\ k \in Candles
        /\ UNCHANGED <<market, paperUp, intents, venue, closes, stops, lost, unseen>>
    BY DEF BeginObservation, PaperInv, PaperShape, PaperAssumption, Candles
  <1>3. CASE Claim(k) = "NEW"
    <2>1. row.state # "PROCESSING" /\ row.at <= k
      BY <1>2, <1>3 DEF Claim, PaperInv, PaperShape, Candles
    <2>2. tradedAfterLoss' => unseen'
      BY <1>1, <1>2, <1>3, <2>1 DEF PaperInv, PaperShape, LossMarked, LostPositionStopsTrading
    <2>3. row' \in [at : 0 .. MaxCandle, state : {"NONE", "PROCESSING", "COMPLETE"}]
      BY <1>1, <1>2, <1>3 DEF Candles
    <2>4. tradedAfterLoss' \in BOOLEAN
      BY <1>1, <1>3 DEF PaperInv, PaperShape
    <2>5. PaperShape'
      BY <1>1, <1>2, <1>3, <2>3, <2>4 DEF PaperInv, PaperShape, Cycles, Candles
    <2>6. CycleSound' /\ ClaimsInOrder' /\ EntriesAuthorized' /\ LossWithinAuthorization'
      BY <1>1, <1>2, <1>3, <2>1 DEF PaperInv, PaperShape, CycleSound, ClaimsInOrder,
             EntriesAuthorized, LossWithinAuthorization, Candles
    <2>7. LossMarked'
      <3>1. lost' /\ ~unseen' => FALSE
        BY <1>1, <1>2, <1>3, <2>1 DEF PaperInv, LossMarked
      <3> QED BY <1>1, <1>2, <1>3, <2>2, <3>1 DEF LossMarked, LostPositionStopsTrading
    <2> QED BY <2>5, <2>6, <2>7 DEF PaperInv
  <1>4. CASE Claim(k) # "NEW"
    <2>1. /\ beat'.open = beat.open
          /\ beat' \in [open : Nat, action : {"IDLE", "ERROR", "IGNORED", "DONE"}]
      BY <1>1, <1>4 DEF PaperInv, PaperShape
    <2> QED BY <1>1, <1>2, <1>4, <2>1 DEF PaperInv, PaperShape, CycleSound, ClaimsInOrder,
           EntriesAuthorized, LossMarked, Marked, LossWithinAuthorization,
           LostPositionStopsTrading
  <1> QED BY <1>3, <1>4

\* What a candle closes was entered within the authorized risk, so it costs no more than
\* that unless the candle opened beyond its stop.
LEMMA ObservePositionsSound ==
    ASSUME PaperAssumption, PaperInv, ObservePositions PROVE PaperInv'
  <1>1. PICK b \in Shapes :
          LET due == {k \in OpenIn(venue) : venue[k].seen < observed}
              out == {k \in due : ClosedBy(k, b)}
          IN /\ venue' = [k \in DOMAIN venue |->
                            IF k \in out THEN [venue[k] EXCEPT !.seen = observed, !.state = "CLOSED"]
                            ELSE IF k \in due THEN [venue[k] EXCEPT !.seen = observed]
                            ELSE venue[k]]
             /\ closes' = closes \cup {CloseRecord(k, b) : k \in out}
    BY DEF ObservePositions
  <1> DEFINE due == {k \in OpenIn(venue) : venue[k].seen < observed}
             out == {k \in due : ClosedBy(k, b)}
  <1>2. /\ paperUp /\ cycle = "observing" /\ cycle' = "deciding"
        /\ UNCHANGED <<market, paperUp, observed, row, intents, beat, stops, claimed, lost,
                       unseen, tradedAfterLoss>>
    BY DEF ObservePositions
  <1>3. /\ DOMAIN venue' = DOMAIN venue
        /\ \A k \in DOMAIN venue : venue'[k].plan = venue[k].plan /\ venue'[k] \in Entries
    <2>1. /\ DOMAIN venue' = DOMAIN venue
          /\ \A k \in DOMAIN venue :
                \/ venue'[k] = [venue[k] EXCEPT !.seen = observed, !.state = "CLOSED"]
                \/ venue'[k] = [venue[k] EXCEPT !.seen = observed]
                \/ venue'[k] = venue[k]
      BY <1>1, Zenon
    <2>2. \A e \in Entries : /\ [e EXCEPT !.seen = observed, !.state = "CLOSED"] \in Entries
                             /\ [e EXCEPT !.seen = observed, !.state = "CLOSED"].plan = e.plan
                             /\ [e EXCEPT !.seen = observed] \in Entries
                             /\ [e EXCEPT !.seen = observed].plan = e.plan
      BY DEF Entries, PaperInv, PaperShape
    <2>3. \A k \in DOMAIN venue : venue[k] \in Entries
      BY DEF PaperInv, PaperShape
    <2> QED BY <2>1, <2>2, <2>3, Zenon
  <1>4. \A c \in closes' : c.gap \/ (c.loss <= c.worst /\ c.worst <= RiskBudget)
    <2> SUFFICES ASSUME NEW c \in closes', c \notin closes
                 PROVE  c.gap \/ (c.loss <= c.worst /\ c.worst <= RiskBudget)
      BY DEF PaperInv, LossWithinAuthorization
    <2>1. PICK k \in out : c = CloseRecord(k, b)
      BY <1>1
    <2> DEFINE p == venue[k].plan
               x == CHOOSE y \in ExitPrices(p, b) : TRUE
    <2>2. k \in DOMAIN venue /\ ExitPrices(p, b) # {}
      BY DEF OpenIn, ClosedBy
    <2>3. p \in Plans /\ LevelsOK(p) /\ MaximumLoss(p) <= RiskBudget
      BY <2>2 DEF PaperInv, PaperShape, Entries, EntriesAuthorized, VenueAccepts
    <2>4. x \in ExitPrices(p, b)
      BY <2>2
    <2>5. c.loss = RealizedLoss(p, x) /\ c.worst = MaximumLoss(p) /\ c.gap = Gapped(p, b)
      BY <2>1 DEF CloseRecord
    <2> HIDE DEF p, x
    <2> QED BY <2>3, <2>4, <2>5, ExitWithinPromise
  <1>5. PaperShape'
    BY <1>2, <1>3 DEF PaperInv, PaperShape, Cycles
  <1>6. CycleSound' /\ ClaimsInOrder' /\ EntriesAuthorized' /\ LossMarked'
    BY <1>2, <1>3 DEF PaperInv, CycleSound, ClaimsInOrder, EntriesAuthorized, LossMarked,
           LostPositionStopsTrading
  <1> QED BY <1>4, <1>5, <1>6 DEF PaperInv, LossWithinAuthorization

\* An error leaves the row unfinished.
LEMMA PaperCycleFailsSound ==
    ASSUME PaperAssumption, PaperInv, PaperCycleFails PROVE PaperInv'
  <1>1. /\ beat'.open = beat.open
        /\ beat' \in [open : Nat, action : {"IDLE", "ERROR", "IGNORED", "DONE"}]
    BY DEF PaperInv, PaperShape, PaperCycleFails
  <1>2. row.state = "PROCESSING" /\ observed' \in 0 .. MaxCandle
    BY DEF PaperInv, CycleSound, PaperCycleFails, PaperAssumption
  <1> QED BY <1>1, <1>2 DEF PaperInv, PaperCycleFails, PaperShape, CycleSound, ClaimsInOrder,
         EntriesAuthorized, LossMarked, Marked, LossWithinAuthorization,
         LostPositionStopsTrading, Cycles

LEMMA NoEntryMadeSound ==
    ASSUME PaperAssumption, PaperInv, NoEntryMade PROVE PaperInv'
  BY DEF PaperInv, NoEntryMade, PaperShape, CycleSound, ClaimsInOrder, EntriesAuthorized,
         LossMarked, Marked, LossWithinAuthorization, LostPositionStopsTrading, Cycles

LEMMA ClaimEntrySound ==
    ASSUME PaperAssumption, PaperInv, ClaimEntry PROVE PaperInv'
  <1>1. /\ DOMAIN intents' = DOMAIN intents \cup {observed}
        /\ \A k \in DOMAIN intents' : intents'[k] \in {"PENDING", "UNKNOWN", "ACCEPTED"}
    BY DEF ClaimEntry, PaperInv, PaperShape
  <1> QED BY <1>1 DEF PaperInv, ClaimEntry, PaperShape, CycleSound, ClaimsInOrder,
         EntriesAuthorized, LossMarked, Marked, LossWithinAuthorization,
         LostPositionStopsTrading, Cycles

\* The venue takes only what is within the authorized risk.
LEMMA SubmitEntrySound ==
    ASSUME PaperAssumption, PaperInv, SubmitEntry PROVE PaperInv'
  <1>1. /\ paperUp /\ cycle = "submitting" /\ cycle' = "settled"
        /\ UNCHANGED <<market, paperUp, observed, row, beat, closes, stops, claimed, lost,
                       unseen, tradedAfterLoss>>
    BY DEF SubmitEntry
  <1>2. observed \in DOMAIN intents /\ observed \in Candles
    BY <1>1 DEF PaperInv, CycleSound
  <1>3. PICK p \in Plans :
          IF VenueAccepts(p)
          THEN /\ venue' = [k \in DOMAIN venue \cup {observed} |->
                              IF k = observed THEN [plan |-> p, seen |-> observed, state |-> "OPEN"]
                              ELSE venue[k]]
               /\ intents' = [intents EXCEPT ![observed] = "ACCEPTED"]
          ELSE /\ intents' = [intents EXCEPT ![observed] = "UNKNOWN"]
               /\ UNCHANGED venue
    BY DEF SubmitEntry
  <1>4. \A k \in DOMAIN intents' : intents'[k] \in {"PENDING", "UNKNOWN", "ACCEPTED"}
    BY <1>2, <1>3 DEF PaperInv, PaperShape
  <1>5. /\ DOMAIN venue' \subseteq Candles
        /\ \A k \in DOMAIN venue' : venue'[k] \in Entries /\ VenueAccepts(venue'[k].plan)
    <2>1. CASE VenueAccepts(p)
      <3>1. [plan |-> p, seen |-> observed, state |-> "OPEN"] \in Entries
        BY <1>2 DEF Entries, Candles, PaperAssumption
      <3> QED BY <1>2, <1>3, <2>1, <3>1 DEF PaperInv, PaperShape, EntriesAuthorized
    <2>2. CASE ~VenueAccepts(p)
      BY <1>3, <2>2 DEF PaperInv, PaperShape, EntriesAuthorized
    <2> QED BY <2>1, <2>2
  <1>6. PaperShape'
    BY <1>1, <1>4, <1>5 DEF PaperInv, PaperShape, Cycles
  <1>7. CycleSound' /\ ClaimsInOrder' /\ EntriesAuthorized' /\ LossMarked' /\ LossWithinAuthorization'
    BY <1>1, <1>5 DEF PaperInv, CycleSound, ClaimsInOrder, EntriesAuthorized, LossMarked,
           LossWithinAuthorization, LostPositionStopsTrading
  <1> QED BY <1>6, <1>7 DEF PaperInv

LEMMA CompleteObservationSound ==
    ASSUME PaperAssumption, PaperInv, CompleteObservation PROVE PaperInv'
  <1>1. /\ row'.at = row.at /\ row'.state = "COMPLETE"
        /\ row' \in [at : 0 .. MaxCandle, state : {"NONE", "PROCESSING", "COMPLETE"}]
    BY DEF PaperInv, PaperShape, CompleteObservation
  <1> QED BY <1>1 DEF PaperInv, CompleteObservation, PaperShape, CycleSound, ClaimsInOrder,
         EntriesAuthorized, LossMarked, Marked, LossWithinAuthorization,
         LostPositionStopsTrading, Cycles

\* The heartbeat counts the positions the venue holds.
LEMMA PublishHeartbeatSound ==
    ASSUME PaperAssumption, PaperInv, PublishHeartbeat PROVE PaperInv'
  <1>1. IsFiniteSet(OpenIn(venue))
    <2>1. IsFiniteSet(Candles)
      BY FS_Interval DEF Candles, PaperAssumption
    <2>2. OpenIn(venue) \subseteq Candles
      BY DEF OpenIn, PaperInv, PaperShape
    <2> QED BY <2>1, <2>2, FS_Subset
  <1>2. /\ Cardinality(OpenIn(venue)) \in Nat
        /\ OpenIn(venue) # {} => Cardinality(OpenIn(venue)) > 0
    BY <1>1, FS_CardinalityType, FS_EmptySet
  <1>3. /\ beat'.open = Cardinality(OpenIn(venue))
        /\ beat' \in [open : Nat, action : {"IDLE", "ERROR", "IGNORED", "DONE"}]
    BY <1>2 DEF PublishHeartbeat
  <1>4. paperUp /\ ~(lost /\ ~unseen)
    BY DEF PublishHeartbeat, PaperInv, LossMarked
  <1>5. observed' \in 0 .. MaxCandle
    BY DEF PublishHeartbeat, PaperAssumption
  <1> QED BY <1>2, <1>3, <1>4, <1>5 DEF PaperInv, PublishHeartbeat, PaperShape, CycleSound,
         ClaimsInOrder, EntriesAuthorized, LossMarked, Marked, LossWithinAuthorization,
         LostPositionStopsTrading, Cycles

\* A death loses the venue; the row or the heartbeat remembers it, except between the two
\* commits that end a cycle.
LEMMA RuntimeEndsSound ==
    ASSUME PaperAssumption, PaperInv, RuntimeEnds PROVE PaperInv'
  <1>1. DOMAIN venue' = {} /\ OpenIn(venue') = {}
    BY DEF RuntimeEnds, NoVenue, OpenIn
  <1>2. /\ stops' \in 0 .. MaxCrashes /\ observed' \in 0 .. MaxCandle
        /\ lost' \in BOOLEAN /\ unseen' \in BOOLEAN
    BY DEF RuntimeEnds, PaperInv, PaperShape, PaperAssumption
  <1>3. PaperShape' /\ CycleSound'
    BY <1>1, <1>2 DEF PaperInv, RuntimeEnds, PaperShape, CycleSound, Cycles
  <1>4. lost' /\ ~unseen' => row'.state = "PROCESSING" \/ (beat'.open > 0 /\ ~paperUp')
    <2>1. CASE OpenIn(venue) = {}
      BY <2>1 DEF PaperInv, PaperShape, LossMarked, RuntimeEnds
    <2>2. CASE OpenIn(venue) # {} /\ cycle = "publishing"
      BY <2>2 DEF PaperInv, PaperShape, RuntimeEnds
    <2>3. CASE OpenIn(venue) # {} /\ cycle # "publishing"
      BY <2>3 DEF PaperInv, PaperShape, CycleSound, LossMarked, Marked, RuntimeEnds
    <2> QED BY <2>1, <2>2, <2>3
  <1>5. LossMarked'
    BY <1>1, <1>4 DEF PaperInv, PaperShape, LossMarked, Marked, LostPositionStopsTrading, RuntimeEnds
  <1> QED BY <1>1, <1>3, <1>5 DEF PaperInv, RuntimeEnds, ClaimsInOrder, EntriesAuthorized,
         LossWithinAuthorization

LEMMA PaperInvStep ==
    ASSUME PaperAssumption, PaperInv, [PaperNext]_paperVars PROVE PaperInv'
  <1>1. CASE UNCHANGED paperVars
    BY <1>1 DEF paperVars, PaperInv, PaperShape, CycleSound, ClaimsInOrder, EntriesAuthorized,
           LossMarked, Marked, LossWithinAuthorization, LostPositionStopsTrading
  <1>2. CASE PaperNext
    BY <1>2, CandleClosesSound, StartRuntimeSound, SourceRefusedSound, BeginObservationSound,
       ObservePositionsSound, PaperCycleFailsSound, NoEntryMadeSound, ClaimEntrySound,
       SubmitEntrySound, CompleteObservationSound, PublishHeartbeatSound, RuntimeEndsSound
       DEF PaperNext
  <1> QED BY <1>1, <1>2

\* A candle is claimed only past every candle claimed before it.
LEMMA PaperClaimsForward ==
    ASSUME PaperAssumption, PaperInv, [PaperNext]_paperVars PROVE CandlesActedOnce
  <1> SUFFICES ASSUME row' # row, row'.state = "PROCESSING", NEW j \in claimed
               PROVE  j < row'.at
    BY DEF CandlesActedOnce
  <1>1. CASE BeginObservation
    <2>1. PICK k \in 1 .. market : Claim(k) = "NEW" /\ row' = [at |-> k, state |-> "PROCESSING"]
      BY <1>1 DEF BeginObservation
    <2>2. row.state # "PROCESSING" /\ row.at <= k /\ ~(row.at = k /\ row.state = "COMPLETE")
      BY <2>1 DEF Claim, PaperInv, PaperShape
    <2>3. row.at < k
      BY <2>1, <2>2 DEF PaperInv, PaperShape, ClaimsInOrder
    <2> QED BY <2>1, <2>3 DEF PaperInv, PaperShape, ClaimsInOrder, Candles
  <1>2. CASE CompleteObservation
    BY <1>2 DEF CompleteObservation, PaperInv, PaperShape
  <1>3. CASE ~BeginObservation /\ ~CompleteObservation
    BY <1>3 DEF PaperNext, paperVars, CandleCloses, StartRuntime, SourceRefused,
           ObservePositions, PaperCycleFails, NoEntryMade, ClaimEntry, SubmitEntry,
           PublishHeartbeat, RuntimeEnds
  <1> QED BY <1>1, <1>2, <1>3

LEMMA PaperInvSound ==
    ASSUME PaperInv PROVE PaperTypeOK /\ LostPositionStopsTrading /\ LossWithinAuthorization
  BY DEF PaperInv, PaperShape, Cycles, LossMarked, PaperTypeOK

\* The paper runtime: it claims every candle once and in order, does not trade on after it
\* lost a position, and loses no more than it authorized (paper_runtime.py,
\* paper_contract.py).
THEOREM PaperSafe ==
    ASSUME PaperAssumption
    PROVE  PaperSpec => /\ [](PaperTypeOK /\ LostPositionStopsTrading /\ LossWithinAuthorization)
                        /\ [][CandlesActedOnce]_paperVars
  <1>1. PaperInit => PaperInv
    BY PaperInvInit
  <1>2. PaperInv /\ [PaperNext]_paperVars => PaperInv'
    BY PaperInvStep
  <1>3. PaperInv => PaperTypeOK /\ LostPositionStopsTrading /\ LossWithinAuthorization
    BY PaperInvSound
  <1>4. PaperInv /\ [PaperNext]_paperVars => CandlesActedOnce
    BY PaperClaimsForward
  <1> QED BY <1>1, <1>2, <1>3, <1>4, PTL DEF PaperSpec

(***************************************************************************)
(* The dashboard's paper cycle.  The request under way is the only one, so *)
(* its setup has no outcome and no fill yet; every fill was counted by the *)
(* guard on the day it was made, and the intent of a filled setup stays in *)
(* the store, which refuses the setup for good.                            *)
(***************************************************************************)
RunSteps == {"idle", "claimed", "consumed", "accepted", "failed", "recorded"}
StoredSetups == [state : {"READY", "BLOCKED", "EXPIRED", "EXECUTED"}, levels : BOOLEAN, expires : Nat]
PaperOutcomes == [status : {"OPENED", "BLOCKED", "CLOSED"}, day : Nat]
FillsOn(d) == {o \in opened : o[2] = d}
FillsOf(s) == {o \in opened : o[1] = s}

DashboardShape ==
    /\ clock \in 0 .. MaxTime /\ paperDeaths \in 0 .. MaxPaperDeaths
    /\ DOMAIN stored \subseteq Setups /\ \A s \in DOMAIN stored : stored[s] \in StoredSetups
    /\ DOMAIN outcomes \subseteq DOMAIN stored
    /\ \A s \in DOMAIN outcomes : outcomes[s] \in PaperOutcomes
    /\ \A s \in DOMAIN paperIntents : paperIntents[s] \in {"PENDING", "UNKNOWN", "ACCEPTED"}
    /\ used \in [Days -> 0 .. SubmissionLimit]
    /\ running \in [id : Setups \cup {"none"}, at : RunSteps, day : Days]
    /\ opened \subseteq Setups \X Days /\ IsFiniteSet(opened)
    /\ reanalysed \subseteq Setups

\* The request under way: what it has and has not done yet.
RequestSound ==
    /\ running.at = "idle" => running = Idle
    /\ running.at # "idle" => /\ running.id \in DOMAIN stored /\ stored[running.id].levels
                              /\ running.id \in DOMAIN paperIntents
    /\ running.at \notin {"idle", "recorded"} => running.id \notin DOMAIN outcomes /\ OpenOutcomes = {}
    /\ running.at \in {"claimed", "consumed"} => FillsOf(running.id) = {}
    /\ running.at = "accepted" => /\ paperIntents[running.id] = "ACCEPTED"
                                  /\ <<running.id, running.day>> \in opened

\* A setup has one fill, and then an intent that refuses the setup for good.
FillsSound ==
    /\ \A o, p \in opened : o[1] = p[1] => o = p
    /\ \A o \in opened : o[1] \in DOMAIN paperIntents

\* The guard has counted every fill of a day, and the one about to be made.
GuardCounts ==
    \A d \in Days :
        /\ Cardinality(FillsOn(d)) <= used[d]
        /\ running.at = "consumed" /\ running.day = d => Cardinality(FillsOn(d)) < used[d]

OutcomesSound ==
    /\ \A s, t \in OpenOutcomes : s = t
    /\ \A s \in DOMAIN outcomes : outcomes[s].status # "BLOCKED" =>
          s \in DOMAIN paperIntents /\ paperIntents[s] = "ACCEPTED" /\ FillsOf(s) # {}
    /\ \A s \in DOMAIN stored : stored[s].state = "READY" => stored[s].levels
    /\ \A s \in OpenOutcomes : stored[s].levels \/ s \in reanalysed

DashboardInv == DashboardShape /\ RequestSound /\ FillsSound /\ GuardCounts /\ OutcomesSound

LEMMA DayInDays ==
    ASSUME DashboardAssumption, clock \in 0 .. MaxTime PROVE Day \in Days
  <1>1. DayLength \in Nat \ {0} /\ MaxTime \in Nat /\ clock \in Nat /\ clock <= MaxTime
    BY DEF DashboardAssumption
  <1>2. clock \div DayLength \in Nat /\ clock \div DayLength <= MaxTime \div DayLength
    BY <1>1
  <1> QED BY <1>1, <1>2 DEF Day, Days

LEMMA DashboardInvInit == ASSUME DashboardAssumption, DashboardInit PROVE DashboardInv
  <1>1. 0 \in Days
    BY DEF Days, DashboardAssumption
  <1>2. /\ DOMAIN stored = {} /\ DOMAIN outcomes = {} /\ DOMAIN paperIntents = {} /\ opened = {}
        /\ reanalysed = {} /\ clock = 0 /\ paperDeaths = 0 /\ running = Idle
        /\ used = [d \in Days |-> 0]
    BY DEF DashboardInit
  <1>3. running \in [id : Setups \cup {"none"}, at : RunSteps, day : Days] /\ running.at = "idle"
    BY <1>1, <1>2 DEF Idle, RunSteps
  <1>4. IsFiniteSet(opened) /\ \A d \in Days : Cardinality(FillsOn(d)) = 0
    BY <1>2, FS_EmptySet DEF FillsOn
  <1>5. DashboardShape
    BY <1>2, <1>3, <1>4 DEF DashboardShape, DashboardAssumption
  <1>6. RequestSound /\ FillsSound /\ GuardCounts /\ OutcomesSound
    BY <1>2, <1>3, <1>4 DEF RequestSound, FillsSound, GuardCounts, OutcomesSound, OpenOutcomes
  <1> QED BY <1>5, <1>6 DEF DashboardInv

\* An analysis overwrites a stored setup; it may take the levels of an open one with it.
LEMMA AnalyseSound ==
    ASSUME DashboardAssumption, DashboardInv, NEW s \in Setups, Analyse(s) PROVE DashboardInv'
  <1>1. /\ running = Idle /\ reanalysed' = reanalysed \cup ({s} \cap DOMAIN outcomes)
        /\ UNCHANGED <<clock, outcomes, paperIntents, used, running, opened, paperDeaths>>
    BY DEF Analyse
  <1>2. PICK tradeable \in BOOLEAN, levels \in BOOLEAN, expires \in Nat :
          /\ tradeable => levels
          /\ stored' = With(stored, s, [state |-> SetupState(s, expires, tradeable),
                                        levels |-> levels, expires |-> expires])
    <2>1. (IF s \in DOMAIN stored THEN stored[s].expires ELSE clock + Lifetime) \in Nat
      BY DEF DashboardInv, DashboardShape, StoredSetups, DashboardAssumption
    <2> QED BY <2>1 DEF Analyse
  <1> DEFINE new == [state |-> SetupState(s, expires, tradeable), levels |-> levels,
                     expires |-> expires]
  <1>3. new \in StoredSetups /\ (new.state = "READY" => new.levels)
    BY <1>2 DEF SetupState, StoredSetups
  <1> HIDE DEF new
  <1>4. /\ DOMAIN stored' = DOMAIN stored \cup {s} /\ stored'[s] = new
        /\ \A t \in DOMAIN stored : t # s => stored'[t] = stored[t]
    BY <1>2 DEF With, new
  <1>5. OpenOutcomes' = OpenOutcomes /\ OpenOutcomes \subseteq DOMAIN outcomes
    BY <1>1 DEF OpenOutcomes
  <1>6. DashboardShape'
    BY <1>1, <1>3, <1>4 DEF DashboardInv, DashboardShape
  <1>7. RequestSound' /\ FillsSound' /\ GuardCounts'
    BY <1>1 DEF DashboardInv, RequestSound, FillsSound, GuardCounts, FillsOn, FillsOf, Idle
  <1>8. OutcomesSound'
    BY <1>1, <1>3, <1>4, <1>5 DEF DashboardInv, DashboardShape, OutcomesSound, FillsOf
  <1> QED BY <1>6, <1>7, <1>8 DEF DashboardInv

\* A refusal or a close writes the outcome of one setup, between requests.
LEMMA RecordedAtRest ==
    ASSUME DashboardAssumption, DashboardInv, NEW s \in DOMAIN stored,
           NEW status \in {"BLOCKED", "CLOSED"}, Record(s, status), running = Idle,
           status = "CLOSED" => s \in OpenOutcomes,
           status = "BLOCKED" => s \notin DOMAIN outcomes,
           UNCHANGED <<clock, stored, paperIntents, used, running, opened, reanalysed, paperDeaths>>
    PROVE  DashboardInv'
  <1> DEFINE new == [status |-> status, day |-> Day]
  <1>1. new \in PaperOutcomes /\ new.status = status
    BY DayInDays DEF DashboardInv, DashboardShape, PaperOutcomes, Days
  <1> HIDE DEF new
  <1>2. /\ DOMAIN outcomes' = DOMAIN outcomes \cup {s} /\ outcomes'[s] = new
        /\ \A t \in DOMAIN outcomes : t # s => outcomes'[t] = outcomes[t]
    BY DEF Record, With, new
  <1>3. OpenOutcomes' \subseteq OpenOutcomes
    BY <1>1, <1>2 DEF OpenOutcomes
  <1>4. DashboardShape'
    BY <1>1, <1>2 DEF DashboardInv, DashboardShape
  <1>5. RequestSound' /\ FillsSound' /\ GuardCounts'
    BY DEF DashboardInv, RequestSound, FillsSound, GuardCounts, FillsOn, FillsOf, Idle
  <1>6. \A t \in DOMAIN outcomes' : outcomes'[t].status # "BLOCKED" =>
          t \in DOMAIN outcomes /\ outcomes[t].status # "BLOCKED"
    BY <1>1, <1>2 DEF OpenOutcomes
  <1>7. OutcomesSound'
    BY <1>3, <1>6 DEF DashboardInv, OutcomesSound, FillsOf
  <1> QED BY <1>4, <1>5, <1>7 DEF DashboardInv

LEMMA BlockedSound ==
    ASSUME DashboardAssumption, DashboardInv, NEW s \in Setups, Blocked(s) PROVE DashboardInv'
  BY RecordedAtRest DEF Blocked

LEMMA RecordCloseSound ==
    ASSUME DashboardAssumption, DashboardInv, NEW s \in Setups, RecordClose(s) PROVE DashboardInv'
  <1>1. s \in DOMAIN stored
    BY DEF RecordClose, OpenOutcomes, DashboardInv, DashboardShape
  <1> QED BY <1>1, RecordedAtRest DEF RecordClose

\* The executor's claim: a setup with no intent has no fill.
LEMMA ClaimPaperIntentSound ==
    ASSUME DashboardAssumption, DashboardInv, NEW s \in Setups, ClaimPaperIntent(s)
    PROVE  DashboardInv'
  <1>1. /\ running = Idle /\ s \in DOMAIN stored /\ s \notin DOMAIN outcomes
        /\ stored[s].state = "READY" /\ OpenOutcomes = {} /\ s \notin DOMAIN paperIntents
        /\ UNCHANGED <<clock, stored, outcomes, used, opened, reanalysed, paperDeaths>>
    BY DEF ClaimPaperIntent, Refuse, PolicyAllows
  <1>2. /\ DOMAIN paperIntents' = DOMAIN paperIntents \cup {s} /\ paperIntents'[s] = "PENDING"
        /\ \A t \in DOMAIN paperIntents : t # s => paperIntents'[t] = paperIntents[t]
    BY DEF ClaimPaperIntent, With
  <1>3. /\ running' = [id |-> s, at |-> "claimed", day |-> Day]
        /\ running'.id = s /\ running'.at = "claimed"
    BY DEF ClaimPaperIntent
  <1>4. running' \in [id : Setups \cup {"none"}, at : RunSteps, day : Days]
    BY <1>3, DayInDays DEF RunSteps, DashboardInv, DashboardShape
  <1>5. FillsOf(s) = {} /\ stored[s].levels
    BY <1>1 DEF DashboardInv, FillsSound, FillsOf, OutcomesSound
  <1>6. OpenOutcomes' = {}
    BY <1>1 DEF OpenOutcomes
  <1>7. DashboardShape'
    BY <1>1, <1>2, <1>4 DEF DashboardInv, DashboardShape
  <1>8. RequestSound'
    BY <1>1, <1>2, <1>3, <1>5, <1>6 DEF RequestSound, FillsOf
  <1>9. FillsSound' /\ GuardCounts' /\ OutcomesSound'
    BY <1>1, <1>2, <1>3, <1>6 DEF DashboardInv, FillsSound, GuardCounts, FillsOn, FillsOf,
           OutcomesSound
  <1> QED BY <1>7, <1>8, <1>9 DEF DashboardInv

\* The guard counts before the fill.
LEMMA ConsumeSubmissionSound ==
    ASSUME DashboardAssumption, DashboardInv, ConsumeSubmission PROVE DashboardInv'
  <1>1. /\ running.at = "claimed" /\ running.id \in DOMAIN stored
        /\ running.id \notin DOMAIN outcomes /\ running.id \in DOMAIN paperIntents
        /\ UNCHANGED <<clock, stored, outcomes, opened, reanalysed, paperDeaths>>
    BY DEF ConsumeSubmission, DashboardInv, RequestSound
  <1>2. OpenOutcomes' = OpenOutcomes
    BY <1>1 DEF OpenOutcomes
  <1>3. Day \in Days
    BY DayInDays DEF DashboardInv, DashboardShape
  <1>4. CASE used[Day] < SubmissionLimit
    <2>1. /\ used' = [used EXCEPT ![Day] = @ + 1] /\ UNCHANGED paperIntents
          /\ running' = [running EXCEPT !.at = "consumed", !.day = Day]
      BY <1>4 DEF ConsumeSubmission
    <2>2. /\ running' \in [id : Setups \cup {"none"}, at : RunSteps, day : Days]
          /\ running'.id = running.id /\ running'.at = "consumed" /\ running'.day = Day
      BY <1>3, <2>1 DEF RunSteps, DashboardInv, DashboardShape
    <2>3. used' \in [Days -> 0 .. SubmissionLimit]
      BY <1>3, <1>4, <2>1 DEF DashboardInv, DashboardShape, DashboardAssumption
    <2>4. \A d \in Days : used'[d] = IF d = Day THEN used[d] + 1 ELSE used[d]
      BY <2>1 DEF DashboardInv, DashboardShape
    <2>5. \A d \in Days : used[d] \in Nat /\ Cardinality(FillsOn(d)) \in Nat
      <3>1. \A d \in Days : FillsOn(d) \subseteq opened
        BY DEF FillsOn
      <3> QED BY <3>1, FS_Subset, FS_CardinalityType DEF DashboardInv, DashboardShape
    <2>6. GuardCounts'
      <3>1. \A d \in Days : FillsOn(d)' = FillsOn(d)
        BY <1>1 DEF FillsOn
      <3> QED BY <2>2, <2>4, <2>5, <3>1 DEF DashboardInv, GuardCounts
    <2>7. DashboardShape'
      BY <1>1, <2>1, <2>2, <2>3 DEF DashboardInv, DashboardShape
    <2>8. RequestSound' /\ FillsSound' /\ OutcomesSound'
      BY <1>1, <1>2, <2>1, <2>2 DEF DashboardInv, RequestSound, FillsSound, OutcomesSound, FillsOf
    <2> QED BY <2>6, <2>7, <2>8 DEF DashboardInv
  <1>5. CASE ~(used[Day] < SubmissionLimit)
    <2>1. /\ paperIntents' = [paperIntents EXCEPT ![running.id] = "UNKNOWN"] /\ UNCHANGED used
          /\ running' = [running EXCEPT !.at = "failed"]
      BY <1>5 DEF ConsumeSubmission
    <2>2. /\ running' \in [id : Setups \cup {"none"}, at : RunSteps, day : Days]
          /\ running'.id = running.id /\ running'.at = "failed"
      BY <2>1 DEF RunSteps, DashboardInv, DashboardShape
    <2>3. /\ DOMAIN paperIntents' = DOMAIN paperIntents /\ paperIntents'[running.id] = "UNKNOWN"
          /\ \A t \in DOMAIN paperIntents : t # running.id => paperIntents'[t] = paperIntents[t]
      BY <1>1, <2>1
    <2>4. DashboardShape'
      BY <1>1, <2>1, <2>2, <2>3 DEF DashboardInv, DashboardShape
    <2>5. RequestSound' /\ FillsSound' /\ OutcomesSound'
      BY <1>1, <1>2, <2>2, <2>3 DEF DashboardInv, RequestSound, FillsSound, OutcomesSound, FillsOf
    <2>6. GuardCounts'
      BY <1>1, <2>1, <2>2 DEF DashboardInv, GuardCounts, FillsOn
    <2> QED BY <2>4, <2>5, <2>6 DEF DashboardInv
  <1> QED BY <1>4, <1>5

\* The fill was counted, and it is the first of its setup.
LEMMA FillPaperOrderSound ==
    ASSUME DashboardAssumption, DashboardInv, FillPaperOrder PROVE DashboardInv'
  <1> DEFINE fill == <<running.id, running.day>>
  <1>1. /\ running.at = "consumed" /\ running.id \in DOMAIN stored /\ FillsOf(running.id) = {}
        /\ running.id \notin DOMAIN outcomes /\ running.id \in DOMAIN paperIntents
        /\ opened' = opened \cup {fill}
        /\ UNCHANGED <<clock, stored, outcomes, used, reanalysed, paperDeaths>>
    BY DEF FillPaperOrder, DashboardInv, RequestSound
  <1>2. /\ running' \in [id : Setups \cup {"none"}, at : RunSteps, day : Days]
        /\ running'.id = running.id /\ running'.at = "accepted" /\ running'.day = running.day
        /\ running.day \in Days
    BY DEF FillPaperOrder, RunSteps, DashboardInv, DashboardShape
  <1>3. /\ DOMAIN paperIntents' = DOMAIN paperIntents /\ paperIntents'[running.id] = "ACCEPTED"
        /\ \A t \in DOMAIN paperIntents : t # running.id => paperIntents'[t] = paperIntents[t]
    BY <1>1 DEF FillPaperOrder
  <1>4. OpenOutcomes' = OpenOutcomes
    BY <1>1 DEF OpenOutcomes
  <1>5. fill \in Setups \X Days /\ fill[1] = running.id /\ fill[2] = running.day
    BY <1>1, <1>2 DEF DashboardInv, DashboardShape
  <1> HIDE DEF fill
  <1>6. IsFiniteSet(opened')
    BY <1>1, FS_AddElement DEF DashboardInv, DashboardShape
  <1>7. DashboardShape'
    BY <1>1, <1>2, <1>3, <1>5, <1>6 DEF DashboardInv, DashboardShape
  <1>8. RequestSound' /\ FillsSound'
    <2>1. running'.at = "accepted" => <<running'.id, running'.day>> \in opened'
      BY <1>1, <1>2 DEF fill
    <2>2. RequestSound'
      BY <1>1, <1>2, <1>3, <1>4, <2>1 DEF DashboardInv, RequestSound
    <2>3. \A o \in opened : o[1] # running.id
      BY <1>1 DEF FillsOf
    <2> QED BY <1>1, <1>3, <1>5, <2>2, <2>3 DEF DashboardInv, FillsSound
  <1>9. OutcomesSound'
    BY <1>1, <1>3, <1>4 DEF DashboardInv, OutcomesSound, FillsOf
  <1>10. GuardCounts'
    <2> SUFFICES ASSUME NEW d \in Days PROVE Cardinality(FillsOn(d)') <= used[d]
      BY <1>1, <1>2 DEF GuardCounts
    <2>1. IsFiniteSet(FillsOn(d)) /\ used[d] \in Nat
      <3>1. FillsOn(d) \subseteq opened
        BY DEF FillsOn
      <3> QED BY <3>1, FS_Subset DEF DashboardInv, DashboardShape
    <2>2. Cardinality(FillsOn(d)) \in Nat
      BY <2>1, FS_CardinalityType
    <2>3. CASE d = running.day
      <3>1. FillsOn(d)' = FillsOn(d) \cup {fill}
        BY <1>1, <1>5, <2>3 DEF FillsOn
      <3>2. Cardinality(FillsOn(d)') <= Cardinality(FillsOn(d)) + 1
        <4>1. fill \notin FillsOn(d)
          BY <1>1, <1>5 DEF FillsOn, FillsOf
        <4>2. Cardinality(FillsOn(d) \cup {fill}) = Cardinality(FillsOn(d)) + 1
          BY <2>1, <4>1, FS_AddElement
        <4> QED BY <2>2, <3>1, <4>2
      <3>3. Cardinality(FillsOn(d)') \in Nat
        BY <2>1, <3>1, FS_AddElement, FS_CardinalityType
      <3> QED BY <1>1, <2>1, <2>2, <2>3, <3>2, <3>3 DEF DashboardInv, GuardCounts
    <2>4. CASE d # running.day
      <3>1. FillsOn(d)' = FillsOn(d)
        BY <1>1, <1>5, <2>4 DEF FillsOn
      <3> QED BY <3>1 DEF DashboardInv, GuardCounts
    <2> QED BY <2>3, <2>4
  <1> QED BY <1>7, <1>8, <1>9, <1>10 DEF DashboardInv

\* The outcome of the request, OPENED only behind an accepted intent and a fill.
LEMMA RecordOutcomeSound ==
    ASSUME DashboardAssumption, DashboardInv, RecordOutcome PROVE DashboardInv'
  <1> DEFINE s == running.id
             status == IF running.at = "accepted" THEN "OPENED" ELSE "BLOCKED"
             new == [status |-> status, day |-> Day]
  <1>1. /\ running.at \in {"accepted", "failed"} /\ s \in DOMAIN stored /\ stored[s].levels
        /\ s \notin DOMAIN outcomes /\ s \in DOMAIN paperIntents /\ OpenOutcomes = {}
        /\ UNCHANGED <<clock, stored, paperIntents, used, opened, reanalysed, paperDeaths>>
    BY DEF RecordOutcome, DashboardInv, RequestSound
  <1>2. new \in PaperOutcomes /\ new.status = status
    BY DayInDays DEF DashboardInv, DashboardShape, PaperOutcomes, Days
  <1>3. outcomes' = With(outcomes, s, new)
    BY DEF RecordOutcome, Record
  <1>4. running.at = "accepted" => paperIntents[s] = "ACCEPTED" /\ FillsOf(s) # {}
    BY DEF DashboardInv, RequestSound, FillsOf
  <1>5. /\ running' \in [id : Setups \cup {"none"}, at : RunSteps, day : Days]
        /\ running'.at # "idle" => running.at = "accepted" /\ running'.id = s /\ running'.at = "recorded"
        /\ running'.at = "idle" => running' = Idle
    <2>1. CASE running.at = "accepted"
      BY <2>1 DEF RecordOutcome, DashboardInv, DashboardShape, RunSteps
    <2>2. CASE running.at # "accepted"
      <3>1. running' = Idle /\ 0 \in Days
        BY <2>2 DEF RecordOutcome, Days, DashboardAssumption
      <3> QED BY <3>1 DEF Idle, RunSteps
    <2> QED BY <2>1, <2>2
  <1> HIDE DEF new, s
  <1>6. /\ DOMAIN outcomes' = DOMAIN outcomes \cup {s} /\ outcomes'[s] = new
        /\ \A t \in DOMAIN outcomes : t # s => outcomes'[t] = outcomes[t]
    BY <1>3 DEF With
  <1>7. /\ OpenOutcomes' \subseteq {s}
        /\ running.at # "accepted" => OpenOutcomes' = {}
    BY <1>1, <1>2, <1>6 DEF OpenOutcomes
  <1>8. DashboardShape'
    BY <1>1, <1>2, <1>5, <1>6 DEF DashboardInv, DashboardShape
  <1>9. RequestSound'
    BY <1>1, <1>5 DEF RequestSound
  <1>10. FillsSound' /\ GuardCounts'
    BY <1>1, <1>5 DEF DashboardInv, FillsSound, GuardCounts, FillsOn
  <1>11. OutcomesSound'
    BY <1>1, <1>2, <1>4, <1>6, <1>7 DEF DashboardInv, OutcomesSound, FillsOf
  <1> QED BY <1>8, <1>9, <1>10, <1>11 DEF DashboardInv

LEMMA MarkExecutedSound ==
    ASSUME DashboardAssumption, DashboardInv, MarkExecuted PROVE DashboardInv'
  <1>1. /\ running.id \in DOMAIN stored /\ running' = Idle
        /\ stored' = [stored EXCEPT ![running.id].state = "EXECUTED"]
        /\ UNCHANGED <<clock, outcomes, paperIntents, used, opened, reanalysed, paperDeaths>>
    BY DEF MarkExecuted, DashboardInv, RequestSound
  <1>2. /\ DOMAIN stored' = DOMAIN stored
        /\ \A t \in DOMAIN stored : t # running.id => stored'[t] = stored[t]
        /\ stored'[running.id] = [stored[running.id] EXCEPT !.state = "EXECUTED"]
    BY <1>1
  <1>3. /\ stored'[running.id] \in StoredSetups
        /\ stored'[running.id].levels = stored[running.id].levels
        /\ stored'[running.id].state = "EXECUTED"
    BY <1>1, <1>2 DEF DashboardInv, DashboardShape, StoredSetups
  <1>4. running' \in [id : Setups \cup {"none"}, at : RunSteps, day : Days] /\ running'.at = "idle"
    <2>1. 0 \in Days
      BY DEF Days, DashboardAssumption
    <2> QED BY <1>1, <2>1 DEF Idle, RunSteps
  <1>5. OpenOutcomes' = OpenOutcomes
    BY <1>1 DEF OpenOutcomes
  <1>6. DashboardShape'
    BY <1>1, <1>2, <1>3, <1>4 DEF DashboardInv, DashboardShape
  <1>7. RequestSound' /\ FillsSound' /\ GuardCounts'
    BY <1>1, <1>4 DEF DashboardInv, RequestSound, FillsSound, GuardCounts, FillsOn
  <1>8. OutcomesSound'
    BY <1>1, <1>2, <1>3, <1>5 DEF DashboardInv, DashboardShape, OutcomesSound, OpenOutcomes, FillsOf
  <1> QED BY <1>6, <1>7, <1>8 DEF DashboardInv

\* A death forgets the request; its intent and its count stay.
LEMMA ServerDiesSound ==
    ASSUME DashboardAssumption, DashboardInv, ServerDies PROVE DashboardInv'
  <1>1. running' \in [id : Setups \cup {"none"}, at : RunSteps, day : Days] /\ running'.at = "idle"
        /\ running' = Idle
    <2>1. 0 \in Days
      BY DEF Days, DashboardAssumption
    <2> QED BY <2>1 DEF ServerDies, Idle, RunSteps
  <1>2. /\ UNCHANGED <<clock, stored, outcomes, paperIntents, used, opened, reanalysed>>
        /\ paperDeaths' \in 0 .. MaxPaperDeaths
    BY DEF ServerDies, DashboardInv, DashboardShape, DashboardAssumption
  <1>3. DashboardShape'
    BY <1>1, <1>2 DEF DashboardInv, DashboardShape
  <1> QED BY <1>1, <1>2, <1>3 DEF DashboardInv, RequestSound, FillsSound, GuardCounts, FillsOn,
         OutcomesSound, OpenOutcomes, FillsOf

LEMMA ClockTicksSound ==
    ASSUME DashboardAssumption, DashboardInv, ClockTicks PROVE DashboardInv'
  <1>1. /\ UNCHANGED <<stored, outcomes, paperIntents, used, running, opened, reanalysed, paperDeaths>>
        /\ clock' \in 0 .. MaxTime
    BY DEF ClockTicks, DashboardInv, DashboardShape, DashboardAssumption
  <1> QED BY <1>1 DEF DashboardInv, DashboardShape, RequestSound, FillsSound, GuardCounts, FillsOn,
         OutcomesSound, OpenOutcomes, FillsOf

LEMMA DashboardInvStep ==
    ASSUME DashboardAssumption, DashboardInv, [DashboardNext]_dashVars PROVE DashboardInv'
  <1>1. CASE UNCHANGED dashVars
    BY <1>1 DEF dashVars, DashboardInv, DashboardShape, RequestSound, FillsSound, GuardCounts,
           FillsOn, OutcomesSound, OpenOutcomes, FillsOf
  <1>2. CASE DashboardNext
    BY <1>2, AnalyseSound, BlockedSound, ClaimPaperIntentSound, RecordCloseSound,
       ConsumeSubmissionSound, FillPaperOrderSound, RecordOutcomeSound, MarkExecutedSound,
       ServerDiesSound, ClockTicksSound DEF DashboardNext
  <1> QED BY <1>1, <1>2

LEMMA DashboardInvSound ==
    ASSUME DashboardAssumption, DashboardInv PROVE DashboardTypeOK /\ PaperBookSound
  <1>1. DashboardTypeOK
    BY DEF DashboardInv, DashboardShape, StoredSetups, PaperOutcomes, DashboardTypeOK
  <1>2. \A s \in Setups : Cardinality({o \in opened : o[1] = s}) <= 1
    <2> SUFFICES ASSUME NEW s \in Setups PROVE Cardinality(FillsOf(s)) <= 1
      BY DEF FillsOf
    <2>1. \A o, p \in FillsOf(s) : o = p
      BY DEF DashboardInv, FillsSound, FillsOf
    <2> QED BY <2>1, AtMostOne
  <1>3. \A d \in Days : Cardinality({o \in opened : o[2] = d}) <= SubmissionLimit
    <2> SUFFICES ASSUME NEW d \in Days PROVE Cardinality(FillsOn(d)) <= SubmissionLimit
      BY DEF FillsOn
    <2>1. Cardinality(FillsOn(d)) \in Nat
      <3>1. FillsOn(d) \subseteq opened
        BY DEF FillsOn
      <3> QED BY <3>1, FS_Subset, FS_CardinalityType DEF DashboardInv, DashboardShape
    <2> QED BY <2>1 DEF DashboardInv, DashboardShape, GuardCounts, DashboardAssumption
  <1>4. Cardinality(OpenOutcomes) <= 1
    <2>1. \A s, t \in OpenOutcomes : s = t
      BY DEF DashboardInv, OutcomesSound
    <2> QED BY <2>1, AtMostOne
  <1>5. ASSUME NEW s \in DOMAIN outcomes, outcomes[s].status # "BLOCKED"
        PROVE  paperIntents[s] = "ACCEPTED" /\ \E d \in Days : <<s, d>> \in opened
    <2>1. PICK o \in opened : o[1] = s
      BY <1>5 DEF DashboardInv, OutcomesSound, FillsOf
    <2>2. o = <<s, o[2]>> /\ o[2] \in Days
      BY <2>1 DEF DashboardInv, DashboardShape
    <2> QED BY <1>5, <2>1, <2>2 DEF DashboardInv, OutcomesSound
  <1>6. \A s \in OpenOutcomes : stored[s].levels \/ s \in reanalysed
    BY DEF DashboardInv, OutcomesSound
  <1> QED BY <1>1, <1>2, <1>3, <1>4, <1>5, <1>6 DEF PaperBookSound

\* The dashboard's paper book, across deaths, retries and closes: one fill a setup, the
\* cap of a day, one open position, and an accepted intent behind every outcome
\* (dashboard_paper.py, simulation_daily_guard.py).
THEOREM DashboardSafe ==
    ASSUME DashboardAssumption
    PROVE  DashboardSpec => [](DashboardTypeOK /\ PaperBookSound)
  <1>1. DashboardInit => DashboardInv
    BY DashboardInvInit
  <1>2. DashboardInv /\ [DashboardNext]_dashVars => DashboardInv'
    BY DashboardInvStep
  <1>3. DashboardInv => DashboardTypeOK /\ PaperBookSound
    BY DashboardInvSound
  <1> QED BY <1>1, <1>2, <1>3, PTL DEF DashboardSpec

(***************************************************************************)
(* The live-paper campaign.  The lifetime slot stands for the one order,   *)
(* in a session's hand or at the broker; a candidate reaches the entry     *)
(* branch only confirmed and on its own candle.                            *)
(***************************************************************************)
Sending == {s \in Sessions : at[s] = "send"}
EntrySteps == {"entry", "submit", "send", "lookup"}

\* One order at most, from the slot to the broker.
SlotSound ==
    /\ slotUsed = 0 => Sent = {} /\ Sending = {}
    /\ Sent = {} \/ Sending = {}
    /\ \A t, u \in Sent : t = u
    /\ \A s, r \in Sending : s = r

CandidatesDue ==
    \A s \in Sessions : at[s] \in EntrySteps => /\ pendingCandidate[s].confirmed
                                                /\ lastCandle[s] = pendingCandidate[s].signal + 2

\* An open position without an open row is accounted for, and so is an order that works.
LedgerSound ==
    /\ \A s \in Sessions : at[s] = "lookup" => inHand[s] \in OrderTickets
    /\ \A t \in OrderTickets :
          /\ positions[t] = "working" => t \in excused
          /\ positions[t] = "open" /\ ledgerRow[t] # "open" =>
                t \in excused \/ \E s \in Sessions : inHand[s] = t
    /\ misread \/ \A t \in ManualTickets : ledgerRow[t] = "absent"

CampaignInv == CampaignTypeOK /\ SlotSound /\ CandidatesDue /\ LedgerSound

LEMMA CampaignInvInit == ASSUME CampaignAssumption, CampaignInit PROVE CampaignInv
  <1>1. NoCandidate \in Candidates
    BY DEF NoCandidate, Candidates, CampaignAssumption
  <1>2. /\ at \in [Sessions -> CampaignSteps] /\ newest \in 1 .. MaxCampaignCandle
        /\ lastCandle \in [Sessions -> 0 .. MaxCampaignCandle] /\ slotUsed \in 0 .. 1
    BY DEF CampaignInit, CampaignSteps, CampaignAssumption
  <1>3. CampaignTypeOK
    BY <1>1, <1>2 DEF CampaignInit, CampaignTypeOK
  <1>4. SlotSound /\ CandidatesDue /\ LedgerSound
    BY DEF CampaignInit, SlotSound, CandidatesDue, LedgerSound, Sent, Sending, EntrySteps, Tickets
  <1> QED BY <1>3, <1>4 DEF CampaignInv

\* An entry is due only for the confirmed candidate of two candles ago, and it is kept.
LEMMA CandidateObserved ==
    ASSUME CampaignAssumption, NEW c \in Candidates, NEW candle \in 1 .. MaxCampaignCandle,
           NEW passes \in BOOLEAN, NEW signal \in BOOLEAN,
           NEW t, t = ObserveCandidate(c, candle, passes)
    PROVE  /\ QueueCandidate(t, candle, signal) \in Candidates
           /\ t.state = "ENTRY_DUE" => /\ QueueCandidate(t, candle, signal) = c
                                       /\ c.confirmed /\ candle = c.signal + 2
  <1>1. NoCandidate \in Candidates /\ NoCandidate.confirmed = FALSE
    BY DEF NoCandidate, Candidates, CampaignAssumption
  <1>2. /\ c.signal \in 0 .. MaxCampaignCandle /\ c.confirmed \in BOOLEAN
        /\ [c EXCEPT !.confirmed = TRUE] \in Candidates
    BY DEF Candidates
  <1>3. [signal |-> candle, confirmed |-> FALSE] \in Candidates
    BY DEF Candidates, CampaignAssumption
  <1>4. t.next \in Candidates
    BY <1>1, <1>2 DEF ObserveCandidate, CampaignAssumption
  <1>5. t.state = "ENTRY_DUE" => t.next = c /\ c.confirmed /\ candle = c.signal + 2
    BY <1>1, <1>2 DEF ObserveCandidate, CampaignAssumption
  <1> QED BY <1>3, <1>4, <1>5 DEF QueueCandidate

\* A session starts, or goes on without its recovery.
LEMMA SessionBeginsSound ==
    ASSUME CampaignAssumption, CampaignInv, NEW s \in Sessions,
           StartSession(s) \/ RecoveryUnavailable(s)
    PROVE  CampaignInv'
  <1>1. NoCandidate \in Candidates
    BY DEF NoCandidate, Candidates, CampaignAssumption
  <1>2. CampaignTypeOK'
    BY <1>1 DEF CampaignInv, CampaignTypeOK, StartSession, RecoveryUnavailable, CampaignGoto,
           CampaignSteps, CampaignAssumption
  <1>3. UNCHANGED <<positions, slotUsed, ledgerRow, inHand, excused, misread>>
    BY DEF StartSession, RecoveryUnavailable
  <1>4. /\ at'[s] \in {"recover", "poll"}
        /\ \A r \in Sessions : r # s => /\ at'[r] = at[r] /\ lastCandle'[r] = lastCandle[r]
                                        /\ pendingCandidate'[r] = pendingCandidate[r]
    BY DEF CampaignInv, CampaignTypeOK, StartSession, RecoveryUnavailable, CampaignGoto
  <1>5. Sent' = Sent /\ Sending' \subseteq Sending
    BY <1>3, <1>4 DEF Sent, Sending
  <1> QED BY <1>2, <1>3, <1>4, <1>5 DEF CampaignInv, SlotSound, CandidatesDue, LedgerSound, EntrySteps

\* Startup recovery: a row it closes wrongly is excused, a row it brings back is not.
LEMMA RecoverPositionsSound ==
    ASSUME CampaignAssumption, CampaignInv, NEW s \in Sessions, RecoverPositions(s)
    PROVE  CampaignInv'
  <1>1. PICK seen \in Listings :
          LET gone == listed[s] \ seen
              back == Rerecorded(s, seen)
              mine == (listed[s] \cap seen) \cup back
          IN  /\ ledgerRow' = [t \in Tickets |-> IF t \in back THEN "open" ELSE ClosedRows(gone)[t]]
              /\ tracked' = [tracked EXCEPT ![s] = mine]
              /\ own' = [own EXCEPT ![s] = mine]
              /\ excused' = (excused \cup WronglyClosed(gone)) \ back
    BY DEF RecoverPositions
  <1> DEFINE gone == listed[s] \ seen
             back == Rerecorded(s, seen)
             mine == (listed[s] \cap seen) \cup back
  <1>2. /\ at[s] = "recover" /\ at' = [at EXCEPT ![s] = "poll"]
        /\ listed' = [listed EXCEPT ![s] = {}]
        /\ UNCHANGED <<campaignTerminal, newest, positions, slotUsed, lastCandle, pendingCandidate,
                       inHand, misread>>
    BY DEF RecoverPositions, CampaignGoto
  <1>3. /\ seen \subseteq OpenTickets /\ OpenTickets \subseteq Tickets /\ listed[s] \subseteq Tickets
        /\ back \subseteq seen /\ back \subseteq OrderTickets /\ back \cap gone = {}
        /\ mine \subseteq Tickets
    BY DEF Listings, OpenTickets, Rerecorded, CampaignInv, CampaignTypeOK
  <1>4. /\ ledgerRow' \in [Tickets -> {"absent", "open", "closed"}]
        /\ \A t \in back : ledgerRow'[t] = "open"
        /\ \A t \in Tickets : t \notin back => ledgerRow'[t] = IF t \in gone /\ ledgerRow[t] = "open"
                                                              THEN "closed" ELSE ledgerRow[t]
    BY <1>1, <1>3 DEF ClosedRows, CampaignInv, CampaignTypeOK
  <1>5. excused' = (excused \cup (gone \cap OpenTickets \cap OrderTickets)) \ back
    BY <1>1 DEF WronglyClosed
  <1> HIDE DEF gone, back, mine
  <1>6. CampaignTypeOK'
    <2>1. tracked' \in [Sessions -> SUBSET Tickets] /\ own' \in [Sessions -> SUBSET Tickets]
      BY <1>1, <1>3 DEF CampaignInv, CampaignTypeOK, mine, back
    <2>2. excused' \in SUBSET OrderTickets
      BY <1>5 DEF CampaignInv, CampaignTypeOK
    <2> QED BY <1>2, <1>4, <2>1, <2>2 DEF CampaignInv, CampaignTypeOK, CampaignSteps
  <1>7. /\ at'[s] = "poll" /\ \A r \in Sessions : r # s => at'[r] = at[r]
        /\ Sent' = Sent /\ Sending' \subseteq Sending
    BY <1>2 DEF CampaignInv, CampaignTypeOK, Sent, Sending
  <1>8. SlotSound' /\ CandidatesDue'
    BY <1>2, <1>7 DEF CampaignInv, SlotSound, CandidatesDue, EntrySteps
  <1>9. LedgerSound'
    <2>1. ASSUME NEW t \in OrderTickets, positions[t] = "working" PROVE t \in excused'
      <3>1. t \in excused /\ t \notin OpenTickets
        BY <2>1 DEF CampaignInv, LedgerSound, OpenTickets
      <3> QED BY <1>3, <1>5, <3>1
    <2>2. ASSUME NEW t \in OrderTickets, positions[t] = "open", ledgerRow'[t] # "open"
          PROVE  t \in excused' \/ \E r \in Sessions : inHand[r] = t
      <3>1. t \in Tickets /\ t \in OpenTickets /\ t \notin back
        BY <1>4, <2>2 DEF Tickets, OpenTickets
      <3> QED BY <1>4, <1>5, <2>2, <3>1 DEF CampaignInv, LedgerSound
    <2>3. ASSUME NEW t \in ManualTickets, ledgerRow[t] = "absent" PROVE ledgerRow'[t] = "absent"
      <3>1. t \in Tickets /\ t \notin back
        BY <1>3 DEF CampaignAssumption, Tickets
      <3> QED BY <1>4, <2>3, <3>1
    <2> QED BY <1>2, <1>7, <2>1, <2>2, <2>3 DEF CampaignInv, LedgerSound
  <1> QED BY <1>6, <1>8, <1>9 DEF CampaignInv

\* A pass over a new candle enters the entry branch only with a candidate that is due.
LEMMA PollCandleSound ==
    ASSUME CampaignAssumption, CampaignInv, NEW s \in Sessions, PollCandle(s) PROVE CampaignInv'
  <1>1. PICK passes \in BOOLEAN, signal \in BOOLEAN :
          LET t == ObserveCandidate(pendingCandidate[s], newest, passes)
          IN  /\ pendingCandidate' = [pendingCandidate EXCEPT ![s] = QueueCandidate(t, newest, signal)]
              /\ CampaignGoto(s, IF t.state = "ENTRY_DUE" THEN "entry" ELSE "monitor")
    BY DEF PollCandle
  <1> DEFINE t == ObserveCandidate(pendingCandidate[s], newest, passes)
             queued == QueueCandidate(t, newest, signal)
             step == IF t.state = "ENTRY_DUE" THEN "entry" ELSE "monitor"
  <1>2. /\ pendingCandidate[s] \in Candidates /\ newest \in 1 .. MaxCampaignCandle
        /\ newest \in 0 .. MaxCampaignCandle
    BY DEF CampaignInv, CampaignTypeOK, CampaignAssumption
  <1>3. /\ queued \in Candidates
        /\ step = "entry" => queued.confirmed /\ newest = queued.signal + 2
    BY <1>2, CandidateObserved
  <1>4. /\ pendingCandidate' = [pendingCandidate EXCEPT ![s] = queued] /\ at' = [at EXCEPT ![s] = step]
        /\ lastCandle' = [lastCandle EXCEPT ![s] = newest] /\ step \in {"entry", "monitor"}
        /\ UNCHANGED <<campaignTerminal, newest, positions, slotUsed, ledgerRow, tracked, own, listed,
                       inHand, excused, misread>>
    BY <1>1 DEF PollCandle, CampaignGoto
  <1> HIDE DEF t, queued, step
  <1>5. CampaignTypeOK'
    BY <1>2, <1>3, <1>4 DEF CampaignInv, CampaignTypeOK, CampaignSteps
  <1>6. /\ at'[s] = step /\ lastCandle'[s] = newest /\ pendingCandidate'[s] = queued
        /\ \A r \in Sessions : r # s => /\ at'[r] = at[r] /\ lastCandle'[r] = lastCandle[r]
                                        /\ pendingCandidate'[r] = pendingCandidate[r]
    BY <1>4 DEF CampaignInv, CampaignTypeOK
  <1>7. Sent' = Sent /\ Sending' \subseteq Sending
    BY <1>4, <1>6 DEF Sent, Sending
  <1> QED BY <1>3, <1>4, <1>5, <1>6, <1>7 DEF CampaignInv, SlotSound, CandidatesDue, LedgerSound,
         EntrySteps

\* What the end of an entry branch leaves of the session.
LEMMA EntryDoneEffect ==
    ASSUME CampaignAssumption, CampaignTypeOK, NEW s \in Sessions, EntryDone(s)
    PROVE  /\ at' \in [Sessions -> CampaignSteps] /\ listed' \in [Sessions -> SUBSET Tickets]
           /\ pendingCandidate' \in [Sessions -> Candidates]
           /\ at'[s] = "poll"
           /\ \A r \in Sessions : r # s => /\ at'[r] = at[r]
                                           /\ pendingCandidate'[r] = pendingCandidate[r]
  <1>1. NoCandidate \in Candidates
    BY DEF NoCandidate, Candidates, CampaignAssumption
  <1> QED BY <1>1 DEF EntryDone, CampaignGoto, CampaignTypeOK, CampaignSteps

\* Refusals on the way to the broker, its own included: the slot stays as it is.
LEMMA EntryRefusedSound ==
    ASSUME CampaignAssumption, CampaignInv, NEW s \in Sessions,
           SpacingRefused(s) \/ SubmissionStopped(s) \/ OrderRefused(s)
    PROVE  CampaignInv'
  <1>1. /\ EntryDone(s)
        /\ UNCHANGED <<campaignTerminal, newest, positions, slotUsed, ledgerRow, lastCandle, tracked,
                       own, inHand, excused, misread>>
    BY DEF SpacingRefused, SubmissionStopped, OrderRefused
  <1>2. /\ at' \in [Sessions -> CampaignSteps] /\ listed' \in [Sessions -> SUBSET Tickets]
        /\ pendingCandidate' \in [Sessions -> Candidates]
        /\ at'[s] = "poll"
        /\ \A r \in Sessions : r # s => /\ at'[r] = at[r]
                                        /\ pendingCandidate'[r] = pendingCandidate[r]
    BY <1>1, EntryDoneEffect DEF CampaignInv
  <1>3. CampaignTypeOK'
    BY <1>1, <1>2 DEF CampaignInv, CampaignTypeOK
  <1>4. Sent' = Sent /\ Sending' \subseteq Sending
    BY <1>1, <1>2 DEF Sent, Sending
  <1> QED BY <1>1, <1>2, <1>3, <1>4 DEF CampaignInv, SlotSound, CandidatesDue, LedgerSound, EntrySteps

\* Rows closed for a listing that lacks them are excused if their position is open.
LEMMA DropMissingSound ==
    ASSUME CampaignAssumption, CampaignInv, NEW s \in Sessions, NEW seen \in Listings,
           DropMissing(s, seen), UNCHANGED <<positions, inHand, misread>>
    PROVE  /\ tracked' \in [Sessions -> SUBSET Tickets]
           /\ ledgerRow' \in [Tickets -> {"absent", "open", "closed"}]
           /\ excused' \in SUBSET OrderTickets
           /\ \A t \in OrderTickets :
                /\ positions'[t] = "working" => t \in excused'
                /\ positions'[t] = "open" /\ ledgerRow'[t] # "open" =>
                      t \in excused' \/ \E r \in Sessions : inHand'[r] = t
           /\ misread' \/ \A t \in ManualTickets : ledgerRow'[t] = "absent"
  <1> DEFINE gone == tracked[s] \ seen
  <1>1. /\ tracked' = [tracked EXCEPT ![s] = @ \cap seen]
        /\ ledgerRow' = [t \in Tickets |-> IF t \in gone /\ ledgerRow[t] = "open"
                                           THEN "closed" ELSE ledgerRow[t]]
        /\ excused' = excused \cup (gone \cap OpenTickets \cap OrderTickets)
    BY DEF DropMissing, ClosedRows, WronglyClosed
  <1> HIDE DEF gone
  <1>2. /\ tracked' \in [Sessions -> SUBSET Tickets]
        /\ ledgerRow' \in [Tickets -> {"absent", "open", "closed"}]
        /\ excused' \in SUBSET OrderTickets
    BY <1>1 DEF CampaignInv, CampaignTypeOK
  <1>3. \A t \in OrderTickets : positions[t] = "open" => t \in OpenTickets /\ t \in Tickets
    BY DEF OpenTickets, Tickets
  <1>4. \A t \in OrderTickets :
          /\ positions'[t] = "working" => t \in excused'
          /\ positions'[t] = "open" /\ ledgerRow'[t] # "open" =>
                t \in excused' \/ \E r \in Sessions : inHand'[r] = t
    BY <1>1, <1>3 DEF CampaignInv, LedgerSound
  <1>5. misread' \/ \A t \in ManualTickets : ledgerRow'[t] = "absent"
    BY <1>1 DEF CampaignInv, LedgerSound, Tickets
  <1> QED BY <1>2, <1>4, <1>5

LEMMA PrepareEntrySound ==
    ASSUME CampaignAssumption, CampaignInv, NEW s \in Sessions, PrepareEntry(s) PROVE CampaignInv'
  <1>1. PICK seen \in Listings :
          /\ DropMissing(s, seen)
          /\ \/ EntryDone(s)
             \/ /\ ~BlockedByOwn(s, seen) /\ CampaignGoto(s, "submit")
                /\ listed' = [listed EXCEPT ![s] = seen]
                /\ UNCHANGED pendingCandidate
    BY DEF PrepareEntry
  <1>2. /\ at[s] = "entry"
        /\ UNCHANGED <<campaignTerminal, newest, positions, slotUsed, lastCandle, own, inHand, misread>>
    BY DEF PrepareEntry
  <1>3. /\ tracked' \in [Sessions -> SUBSET Tickets]
        /\ ledgerRow' \in [Tickets -> {"absent", "open", "closed"}]
        /\ excused' \in SUBSET OrderTickets
        /\ \A t \in OrderTickets :
             /\ positions'[t] = "working" => t \in excused'
             /\ positions'[t] = "open" /\ ledgerRow'[t] # "open" =>
                   t \in excused' \/ \E r \in Sessions : inHand'[r] = t
        /\ misread' \/ \A t \in ManualTickets : ledgerRow'[t] = "absent"
    BY <1>1, <1>2, DropMissingSound
  <1>4. /\ at' \in [Sessions -> CampaignSteps] /\ listed' \in [Sessions -> SUBSET Tickets]
        /\ pendingCandidate' \in [Sessions -> Candidates]
        /\ at'[s] = "poll" \/ (at'[s] = "submit" /\ pendingCandidate'[s] = pendingCandidate[s])
        /\ \A r \in Sessions : r # s => /\ at'[r] = at[r]
                                        /\ pendingCandidate'[r] = pendingCandidate[r]
    <2>1. CASE EntryDone(s)
      BY <2>1, EntryDoneEffect DEF CampaignInv
    <2>2. CASE CampaignGoto(s, "submit") /\ listed' = [listed EXCEPT ![s] = seen] /\ UNCHANGED pendingCandidate
      <3>1. seen \subseteq Tickets
        BY DEF Listings, OpenTickets
      <3> QED BY <2>2, <3>1 DEF CampaignGoto, CampaignInv, CampaignTypeOK, CampaignSteps
    <2> QED BY <1>1, <2>1, <2>2
  <1>5. CampaignTypeOK'
    BY <1>2, <1>3, <1>4 DEF CampaignInv, CampaignTypeOK
  <1>6. Sent' = Sent /\ Sending' \subseteq Sending
    BY <1>2, <1>4 DEF Sent, Sending
  <1> QED BY <1>2, <1>3, <1>4, <1>5, <1>6 DEF CampaignInv, SlotSound, CandidatesDue, LedgerSound,
         EntrySteps

\* Only an unused slot lets an order through, so none was sent before.
LEMMA SubmitCampaignOrderSound ==
    ASSUME CampaignAssumption, CampaignInv, NEW s \in Sessions, SubmitCampaignOrder(s)
    PROVE  CampaignInv'
  <1>1. /\ at[s] = "submit" /\ slotUsed = 0 /\ slotUsed' = 1 /\ at' = [at EXCEPT ![s] = "send"]
        /\ UNCHANGED <<campaignTerminal, newest, positions, ledgerRow, lastCandle, pendingCandidate,
                       tracked, own, listed, inHand, excused, misread>>
    BY DEF SubmitCampaignOrder, ConsumeSlot, CampaignGoto
  <1>2. at'[s] = "send" /\ \A r \in Sessions : r # s => at'[r] = at[r]
    BY <1>1 DEF CampaignInv, CampaignTypeOK
  <1>3. CampaignTypeOK'
    BY <1>1 DEF CampaignInv, CampaignTypeOK, CampaignSteps
  <1>4. Sent' = {} /\ Sending' = {s}
    BY <1>1, <1>2 DEF CampaignInv, SlotSound, Sent, Sending
  <1> QED BY <1>1, <1>2, <1>3, <1>4 DEF CampaignInv, SlotSound, CandidatesDue, LedgerSound, EntrySteps

\* The broker takes the order: it leaves the session's hand, and no other was there.
LEMMA OrderTakenSound ==
    ASSUME CampaignAssumption, CampaignInv, NEW s \in Sessions, OrderFilled(s) \/ OrderPending(s)
    PROVE  CampaignInv'
  <1>1. PICK t \in {x \in OrderTickets : positions[x] = "none"} :
          \/ /\ positions' = [positions EXCEPT ![t] = "open"]
             /\ inHand' = [inHand EXCEPT ![s] = t] /\ CampaignGoto(s, "lookup")
             /\ UNCHANGED <<excused, pendingCandidate, listed>>
          \/ /\ \/ positions' = [positions EXCEPT ![t] = "open"]
                \/ positions' = [positions EXCEPT ![t] = "working"]
             /\ excused' = excused \cup {t} /\ EntryDone(s) /\ UNCHANGED inHand
    BY DEF OrderFilled, OrderPending
  <1>2. /\ at[s] = "send"
        /\ UNCHANGED <<campaignTerminal, newest, slotUsed, ledgerRow, lastCandle, tracked, own, misread>>
    BY DEF OrderFilled, OrderPending
  <1>3. Sent = {} /\ Sending = {s} /\ slotUsed # 0
    BY <1>2 DEF CampaignInv, SlotSound, Sending
  <1>4. /\ positions' \in [Tickets -> {"none", "working", "open", "closed"}]
        /\ positions'[t] \in {"open", "working"} /\ t \in Tickets
        /\ \A u \in Tickets : u # t => positions'[u] = positions[u]
    BY <1>1 DEF CampaignInv, CampaignTypeOK, Tickets
  <1>5. Sent' = {t} /\ \A u \in OrderTickets : u # t => positions'[u] = "none"
    BY <1>3, <1>4 DEF Sent, Tickets
  <1>6. CASE /\ positions' = [positions EXCEPT ![t] = "open"]
             /\ inHand' = [inHand EXCEPT ![s] = t] /\ CampaignGoto(s, "lookup")
             /\ UNCHANGED <<excused, pendingCandidate, listed>>
    <2>1. /\ at' \in [Sessions -> CampaignSteps] /\ at'[s] = "lookup"
          /\ \A r \in Sessions : r # s => at'[r] = at[r]
          /\ inHand' \in [Sessions -> OrderTickets \cup {NoTicket}] /\ inHand'[s] = t
          /\ \A r \in Sessions : r # s => inHand'[r] = inHand[r]
          /\ positions'[t] = "open"
      BY <1>1, <1>4, <1>6 DEF CampaignGoto, CampaignInv, CampaignTypeOK, CampaignSteps
    <2>2. CampaignTypeOK'
      BY <1>2, <1>4, <1>6, <2>1 DEF CampaignInv, CampaignTypeOK
    <2>3. Sending' = {}
      BY <1>3, <2>1 DEF Sending
    <2>4. CandidatesDue'
      BY <1>2, <1>6, <2>1 DEF CampaignInv, CandidatesDue, EntrySteps
    <2>5. LedgerSound'
      BY <1>1, <1>2, <1>5, <1>6, <2>1 DEF CampaignInv, LedgerSound
    <2> QED BY <1>2, <1>3, <1>5, <2>2, <2>3, <2>4, <2>5 DEF CampaignInv, SlotSound
  <1>7. CASE excused' = excused \cup {t} /\ EntryDone(s) /\ UNCHANGED inHand
    <2>1. /\ at' \in [Sessions -> CampaignSteps] /\ listed' \in [Sessions -> SUBSET Tickets]
          /\ pendingCandidate' \in [Sessions -> Candidates]
          /\ at'[s] = "poll"
          /\ \A r \in Sessions : r # s => /\ at'[r] = at[r]
                                          /\ pendingCandidate'[r] = pendingCandidate[r]
      BY <1>7, EntryDoneEffect DEF CampaignInv
    <2>2. CampaignTypeOK'
      BY <1>2, <1>4, <1>7, <2>1 DEF CampaignInv, CampaignTypeOK
    <2>3. Sending' = {}
      BY <1>3, <2>1 DEF Sending
    <2>4. CandidatesDue'
      BY <1>2, <2>1 DEF CampaignInv, CandidatesDue, EntrySteps
    <2>5. LedgerSound'
      BY <1>2, <1>5, <1>7, <2>1 DEF CampaignInv, LedgerSound
    <2> QED BY <1>2, <1>3, <1>5, <2>2, <2>3, <2>4, <2>5 DEF CampaignInv, SlotSound
  <1> QED BY <1>1, <1>6, <1>7

\* The fill gets its row, or another position of the listing is taken for it.
LEMMA RecordOpenSound ==
    ASSUME CampaignAssumption, CampaignInv, NEW s \in Sessions, RecordOpen(s) PROVE CampaignInv'
  <1>1. PICK seen \in Listings \cup {OpenTickets \ {inHand[s]}} :
          LET t == MatchedPosition(s, seen)
          IN  /\ ledgerRow' = OpenedRows({t})
              /\ own' = [own EXCEPT ![s] = @ \cup {t}]
              /\ tracked' = [tracked EXCEPT ![s] = @ \cup {t}]
              /\ misread' = (misread \/ inHand[s] \notin seen)
              /\ excused' = IF t = inHand[s] THEN excused ELSE excused \cup {inHand[s]}
    BY DEF RecordOpen
  <1> DEFINE t == MatchedPosition(s, seen)
             hand == inHand[s]
  <1>2. /\ at[s] = "lookup" /\ EntryDone(s) /\ inHand' = [inHand EXCEPT ![s] = NoTicket]
        /\ UNCHANGED <<campaignTerminal, newest, positions, slotUsed, lastCandle>>
    BY DEF RecordOpen
  <1>3. hand \in OrderTickets /\ seen \subseteq Tickets /\ hand \in Tickets
    BY <1>2 DEF CampaignInv, LedgerSound, Listings, OpenTickets, Tickets
  <1>4. t \in Tickets /\ (t # hand => hand \notin seen)
    <2>1. CASE hand \notin seen /\ Cardinality(seen \ listed[s]) = 1
      <3>1. seen \ listed[s] # {}
        BY <2>1, FS_EmptySet
      <3>2. t = CHOOSE x \in seen \ listed[s] : TRUE
        BY <2>1 DEF MatchedPosition
      <3>3. t \in seen \ listed[s]
        BY <3>1, <3>2
      <3> QED BY <1>3, <2>1, <3>3
    <2>2. CASE ~(hand \notin seen /\ Cardinality(seen \ listed[s]) = 1)
      BY <1>3, <2>2 DEF MatchedPosition
    <2> QED BY <2>1, <2>2
  <1>5. /\ ledgerRow' = [u \in Tickets |-> IF u = t THEN "open" ELSE ledgerRow[u]]
        /\ misread' = (misread \/ hand \notin seen)
        /\ excused' = IF t = hand THEN excused ELSE excused \cup {hand}
        /\ own' = [own EXCEPT ![s] = @ \cup {t}] /\ tracked' = [tracked EXCEPT ![s] = @ \cup {t}]
    BY <1>1 DEF OpenedRows
  <1>6. /\ at' \in [Sessions -> CampaignSteps] /\ listed' \in [Sessions -> SUBSET Tickets]
        /\ pendingCandidate' \in [Sessions -> Candidates]
        /\ at'[s] = "poll"
        /\ \A r \in Sessions : r # s => /\ at'[r] = at[r]
                                        /\ pendingCandidate'[r] = pendingCandidate[r]
    BY <1>2, EntryDoneEffect DEF CampaignInv
  <1> HIDE DEF t
  <1>7. CampaignTypeOK'
    <2>1. /\ own' \in [Sessions -> SUBSET Tickets] /\ tracked' \in [Sessions -> SUBSET Tickets]
          /\ ledgerRow' \in [Tickets -> {"absent", "open", "closed"}]
      BY <1>4, <1>5 DEF CampaignInv, CampaignTypeOK
    <2>2. /\ inHand' \in [Sessions -> OrderTickets \cup {NoTicket}] /\ excused' \in SUBSET OrderTickets
      BY <1>2, <1>3, <1>5 DEF CampaignInv, CampaignTypeOK
    <2>3. misread' \in BOOLEAN
      BY <1>5 DEF CampaignInv, CampaignTypeOK
    <2> QED BY <1>2, <1>6, <2>1, <2>2, <2>3 DEF CampaignInv, CampaignTypeOK
  <1>8. Sent' = Sent /\ Sending' \subseteq Sending
    BY <1>2, <1>6 DEF Sent, Sending
  <1>9. SlotSound' /\ CandidatesDue'
    BY <1>2, <1>6, <1>8 DEF CampaignInv, SlotSound, CandidatesDue, EntrySteps
  <1>10. LedgerSound'
    <2>1. \A r \in Sessions : r # s => inHand'[r] = inHand[r]
      BY <1>2 DEF CampaignInv, CampaignTypeOK
    <2>2. ASSUME NEW u \in OrderTickets, positions[u] = "open", ledgerRow'[u] # "open"
          PROVE  u \in excused' \/ \E r \in Sessions : inHand'[r] = u
      <3>1. u \in Tickets /\ u # t /\ ledgerRow[u] # "open"
        BY <1>5, <2>2 DEF Tickets
      <3>2. u \in excused \/ \E r \in Sessions : inHand[r] = u
        BY <2>2, <3>1 DEF CampaignInv, LedgerSound
      <3> QED BY <1>5, <2>1, <3>1, <3>2
    <2>3. ASSUME ~misread' PROVE \A u \in ManualTickets : ledgerRow'[u] = "absent"
      <3>1. ~misread /\ t = hand
        BY <1>4, <1>5, <2>3 DEF CampaignInv, CampaignTypeOK
      <3> QED BY <1>3, <1>5, <3>1 DEF CampaignInv, LedgerSound, CampaignAssumption, Tickets
    <2>4. \A u \in OrderTickets : positions[u] = "working" => u \in excused'
      BY <1>5 DEF CampaignInv, LedgerSound
    <2>5. misread' \/ \A u \in ManualTickets : ledgerRow'[u] = "absent"
      BY <2>3
    <2> QED BY <1>2, <1>6, <2>1, <2>2, <2>4, <2>5 DEF CampaignInv, LedgerSound
  <1> QED BY <1>7, <1>9, <1>10 DEF CampaignInv

LEMMA MonitorClosesSound ==
    ASSUME CampaignAssumption, CampaignInv, NEW s \in Sessions, MonitorCloses(s) PROVE CampaignInv'
  <1>1. /\ at' = [at EXCEPT ![s] = "poll"]
        /\ UNCHANGED <<campaignTerminal, newest, positions, slotUsed, lastCandle, pendingCandidate, own,
                       listed, inHand, misread>>
    BY DEF MonitorCloses, CampaignGoto
  <1>2. /\ tracked' \in [Sessions -> SUBSET Tickets]
        /\ ledgerRow' \in [Tickets -> {"absent", "open", "closed"}]
        /\ excused' \in SUBSET OrderTickets
        /\ \A t \in OrderTickets :
             /\ positions'[t] = "working" => t \in excused'
             /\ positions'[t] = "open" /\ ledgerRow'[t] # "open" =>
                   t \in excused' \/ \E r \in Sessions : inHand'[r] = t
        /\ misread' \/ \A t \in ManualTickets : ledgerRow'[t] = "absent"
    BY <1>1, DropMissingSound DEF MonitorCloses
  <1>3. at'[s] = "poll" /\ \A r \in Sessions : r # s => at'[r] = at[r]
    BY <1>1 DEF CampaignInv, CampaignTypeOK
  <1>4. CampaignTypeOK'
    BY <1>1, <1>2 DEF CampaignInv, CampaignTypeOK, CampaignSteps
  <1>5. Sent' = Sent /\ Sending' \subseteq Sending
    BY <1>1, <1>3 DEF Sent, Sending
  <1> QED BY <1>1, <1>2, <1>3, <1>4, <1>5 DEF CampaignInv, SlotSound, CandidatesDue, LedgerSound,
         EntrySteps

\* A session ends with a fill in hand: the ledger may lose it.
LEMMA SessionEndsSound ==
    ASSUME CampaignAssumption, CampaignInv, NEW s \in Sessions, SessionEnds(s) PROVE CampaignInv'
  <1>1. /\ at' = [at EXCEPT ![s] = "down"] /\ excused' = excused \cup ({inHand[s]} \cap OrderTickets)
        /\ inHand' = [inHand EXCEPT ![s] = NoTicket]
        /\ pendingCandidate' = [pendingCandidate EXCEPT ![s] = NoCandidate]
        /\ tracked' = [tracked EXCEPT ![s] = {}] /\ own' = [own EXCEPT ![s] = {}]
        /\ listed' = [listed EXCEPT ![s] = {}] /\ lastCandle' = [lastCandle EXCEPT ![s] = 0]
        /\ UNCHANGED <<campaignTerminal, newest, positions, slotUsed, ledgerRow, misread>>
    BY DEF SessionEnds, CampaignGoto
  <1>2. NoCandidate \in Candidates
    BY DEF NoCandidate, Candidates, CampaignAssumption
  <1>3. CampaignTypeOK'
    BY <1>1, <1>2 DEF CampaignInv, CampaignTypeOK, CampaignSteps, CampaignAssumption
  <1>4. /\ at'[s] = "down"
        /\ \A r \in Sessions : r # s => /\ at'[r] = at[r] /\ lastCandle'[r] = lastCandle[r]
                                        /\ pendingCandidate'[r] = pendingCandidate[r]
                                        /\ inHand'[r] = inHand[r]
    BY <1>1 DEF CampaignInv, CampaignTypeOK
  <1>5. Sent' = Sent /\ Sending' \subseteq Sending
    BY <1>1, <1>4 DEF Sent, Sending
  <1>6. SlotSound' /\ CandidatesDue'
    BY <1>1, <1>4, <1>5 DEF CampaignInv, SlotSound, CandidatesDue, EntrySteps
  <1>7. LedgerSound'
    BY <1>1, <1>4 DEF CampaignInv, LedgerSound
  <1> QED BY <1>3, <1>6, <1>7 DEF CampaignInv

LEMMA CampaignCandleClosesSound ==
    ASSUME CampaignAssumption, CampaignInv, CampaignCandleCloses PROVE CampaignInv'
  <1>1. /\ newest' \in 1 .. MaxCampaignCandle
        /\ UNCHANGED <<campaignTerminal, positions, slotUsed, ledgerRow, at, lastCandle,
                       pendingCandidate, tracked, own, listed, inHand, excused, misread>>
    BY DEF CampaignCandleCloses, CampaignInv, CampaignTypeOK, CampaignAssumption
  <1> QED BY <1>1 DEF CampaignInv, CampaignTypeOK, SlotSound, CandidatesDue, LedgerSound, Sent, Sending

\* The market moves a position: an order it fills later was already excused.
LEMMA PositionMovesSound ==
    ASSUME CampaignAssumption, CampaignInv, NEW t \in Tickets, PositionMoves(t) PROVE CampaignInv'
  <1>1. UNCHANGED <<campaignTerminal, newest, slotUsed, ledgerRow, at, lastCandle, pendingCandidate,
                    tracked, own, listed, inHand, excused, misread>>
    BY DEF PositionMoves
  <1>2. /\ positions' \in [Tickets -> {"none", "working", "open", "closed"}]
        /\ \A u \in Tickets : u # t => positions'[u] = positions[u]
        /\ positions'[t] \in {"open", "closed"}
        /\ positions[t] = "none" => t \in ManualTickets
        /\ positions'[t] = "open" => positions[t] = "working" \/ t \in ManualTickets
    BY DEF PositionMoves, CampaignInv, CampaignTypeOK
  <1>3. Sent' = Sent /\ Sending' = Sending
    BY <1>1, <1>2 DEF Sent, Sending, CampaignAssumption, Tickets
  <1>4. LedgerSound'
    <2>1. ASSUME NEW u \in OrderTickets
          PROVE  /\ positions'[u] = "working" => u \in excused
                 /\ positions'[u] = "open" /\ ledgerRow[u] # "open" =>
                       u \in excused \/ \E s \in Sessions : inHand[s] = u
      <3>1. CASE u = t
        BY <1>2, <3>1 DEF CampaignInv, LedgerSound, CampaignAssumption
      <3>2. CASE u # t
        BY <1>2, <3>2 DEF CampaignInv, LedgerSound, Tickets
      <3> QED BY <3>1, <3>2
    <2> QED BY <1>1, <2>1 DEF CampaignInv, LedgerSound
  <1> QED BY <1>1, <1>2, <1>3, <1>4 DEF CampaignInv, CampaignTypeOK, SlotSound, CandidatesDue

LEMMA CampaignInvStep ==
    ASSUME CampaignAssumption, CampaignInv, [CampaignNext]_campaignVars PROVE CampaignInv'
  <1>1. CASE UNCHANGED campaignVars
    BY <1>1 DEF campaignVars, CampaignInv, CampaignTypeOK, SlotSound, CandidatesDue, LedgerSound,
           Sent, Sending
  <1>2. CASE CampaignNext
    BY <1>2, SessionBeginsSound, RecoverPositionsSound, PollCandleSound, EntryRefusedSound,
       PrepareEntrySound, SubmitCampaignOrderSound, OrderTakenSound, RecordOpenSound,
       MonitorClosesSound, SessionEndsSound, CampaignCandleClosesSound, PositionMovesSound
       DEF CampaignNext
  <1> QED BY <1>1, <1>2

LEMMA CampaignInvSound ==
    ASSUME CampaignInv PROVE CampaignTypeOK /\ OneLifetimeOrder /\ CampaignLedgerSound
  <1>1. Cardinality(Sent) + Cardinality(Sending) <= 1
    <2>1. Cardinality(Sent) \in 0 .. 1 /\ Cardinality(Sending) \in 0 .. 1
      BY AtMostOne DEF CampaignInv, SlotSound
    <2>2. Cardinality(Sent) = 0 \/ Cardinality(Sending) = 0
      BY FS_EmptySet DEF CampaignInv, SlotSound
    <2> QED BY <2>1, <2>2
  <1>2. OneLifetimeOrder
    BY <1>1 DEF OneLifetimeOrder, Sending, CampaignInv, CandidatesDue, EntrySteps
  <1>3. CampaignLedgerSound
    BY DEF CampaignInv, LedgerSound, CampaignLedgerSound
  <1> QED BY <1>2, <1>3 DEF CampaignInv

\* The live-paper campaign, however many sessions run, die and restart: one order in its
\* lifetime, sent on the candle it was confirmed for, and a ledger that loses an open
\* position only in the ways the code admits (live_paper_campaign.py).
THEOREM CampaignSafe ==
    ASSUME CampaignAssumption
    PROVE  CampaignSpec => [](CampaignTypeOK /\ OneLifetimeOrder /\ CampaignLedgerSound)
  <1>1. CampaignInit => CampaignInv
    BY CampaignInvInit
  <1>2. CampaignInv /\ [CampaignNext]_campaignVars => CampaignInv'
    BY CampaignInvStep
  <1>3. CampaignInv => CampaignTypeOK /\ OneLifetimeOrder /\ CampaignLedgerSound
    BY CampaignInvSound
  <1> QED BY <1>1, <1>2, <1>3, PTL DEF CampaignSpec

(***************************************************************************)
(* The demo tools.  Where a run is tells what it has verified: the account *)
(* it connected to, the guard's row for it, the loss it was given.         *)
(***************************************************************************)
ToolSteps == {"none", "connect", "identity", "market", "risk", "quantity", "policy", "reverify",
              "send", "candles", "pipeline", "close", "finish", "done"}
ToolModes == {"NONE", "PREVIEW", "SUBMIT_ONE", "VERIFY"}
ToolOutcomes == {"NOT_RUN", "PREVIEW_BLOCKED", "PREVIEW_READY", "BLOCKED", "FAILED",
                 "SUBMITTED_ONE_DEMO_ORDER", "SUBMISSION_NOT_PERFORMED", "VERIFIED_READ_ONLY"}
Reasons == {"safety", "stop", "unresolved", "enabled", "connect", "identity", "symbol", "market-data",
            "risk", "history", "plan", "quantity", "policy", "unsafe-account", "error"}
FailedSteps == {"candles", "session-closed"}
ToolRecords == [mode : ToolModes, step : ToolSteps, blockers : SUBSET Reasons, failed : SUBSET FailedSteps,
                account : ToolAccounts \cup {"none"}, loss : Nat, submissions : 0 .. 1,
                orders : 0 .. 1, raised : BOOLEAN, outcome : ToolOutcomes]

ToolShape ==
    /\ loggedIn \in ToolAccounts /\ tool \in ToolRecords /\ toolRuns \in Nat
    /\ world \in [snapshot : {"OBSERVED", "STALE", "NONE"}, stop : {"CLEAR", "ACTIVE"},
                   unresolved : BOOLEAN, held : 0 .. 1]

\* What a run has at each of its steps.
RunSound ==
    /\ tool.step \in {"identity", "market", "risk", "quantity", "policy", "reverify", "send"} =>
          ConfiguredLogin \in verifications
    /\ tool.step \in {"market", "risk", "quantity", "policy", "reverify", "send"} =>
          tool.account = ConfiguredLogin
    /\ tool.step \in {"policy", "reverify", "send"} => tool.loss <= AuthorizedRisk
    /\ tool.step \in {"reverify", "send"} => tool.mode = "SUBMIT_ONE"
    /\ tool.step \in {"none", "connect", "identity", "market", "risk", "quantity", "policy",
                      "reverify", "send", "candles", "pipeline"} => tool.submissions = 0
    /\ tool.mode = "VERIFY" /\ tool.step # "connect" /\ tool.blockers = {} =>
          tool.account = ConfiguredLogin
    /\ tool.step = "none" => tool = NoRun
    /\ tool.orders <= tool.submissions
    /\ tool.orders = 1 => tool.mode = "SUBMIT_ONE"
    /\ tool.raised => tool.blockers # {}
    /\ tool.outcome # "NOT_RUN" => tool.step = "done"

\* An order of the run under way is counted by the run.
OrdersCounted ==
    /\ \A a, b \in sentOrders : a.run = b.run => a = b
    /\ \A o \in sentOrders : o.run \in 0 .. toolRuns
    /\ tool.step # "none" /\ tool.orders = 0 => \A o \in sentOrders : o.run # toolRuns

OrdersAllowed ==
    \A o \in sentOrders : /\ o.mode = "SUBMIT_ONE" /\ o.account = ConfiguredLogin
                          /\ o.planned = ConfiguredLogin /\ o.loss <= AuthorizedRisk
                          /\ ConfiguredLogin \in verifications

ReportsSound ==
    /\ tool.outcome \in {"PREVIEW_READY", "SUBMISSION_NOT_PERFORMED", "VERIFIED_READ_ONLY"} =>
          tool.orders = 0
    /\ tool.outcome = "SUBMITTED_ONE_DEMO_ORDER" => tool.submissions = 1 /\ ~tool.raised
    /\ tool.outcome = "VERIFIED_READ_ONLY" => tool.account = ConfiguredLogin /\ tool.failed = {}

DemoToolsInv == ToolShape /\ RunSound /\ OrdersCounted /\ OrdersAllowed /\ ReportsSound

LEMMA DemoToolsInvInit == ASSUME DemoToolsAssumption, DemoToolsInit PROVE DemoToolsInv
  <1>1. NoRun \in ToolRecords
    BY DEF NoRun, ToolRecords, ToolModes, ToolSteps, ToolOutcomes
  <1>2. ToolShape
    BY <1>1 DEF DemoToolsInit, ToolShape, DemoToolsAssumption
  <1> QED BY <1>2 DEF DemoToolsInit, DemoToolsInv, RunSound, OrdersCounted, OrdersAllowed,
         ReportsSound, NoRun

\* The fields of a run that a change of its step and blockers leaves alone.
SameRun(u) ==
    /\ u.mode = tool.mode /\ u.failed = tool.failed /\ u.account = tool.account
    /\ u.loss = tool.loss /\ u.submissions = tool.submissions /\ u.orders = tool.orders
    /\ u.raised = tool.raised /\ u.outcome = tool.outcome

LEMMA RunProceeds ==
    ASSUME tool \in ToolRecords, NEW step \in ToolSteps, NEW B \in SUBSET Reasons,
           \/ tool' = [tool EXCEPT !.step = step, !.blockers = @ \cup B]
           \/ tool' = [tool EXCEPT !.blockers = @ \cup B, !.step = step]
    PROVE  /\ tool' \in ToolRecords /\ tool'.step = step /\ tool'.blockers = tool.blockers \cup B
           /\ SameRun(tool')
  <1>1. tool.blockers \cup B \in SUBSET Reasons
    BY DEF ToolRecords
  <1> QED BY <1>1 DEF ToolRecords, SameRun

\* What Proceed and Block make of a run.
LEMMA RunMoves ==
    ASSUME tool \in ToolRecords, NEW step \in ToolSteps, NEW B \in SUBSET Reasons,
           Proceed(step, B) \/ (step = "close" /\ Block(B))
    PROVE  /\ tool' \in ToolRecords /\ tool'.step = step /\ tool'.blockers = tool.blockers \cup B
           /\ SameRun(tool')
  <1>1. tool' = [tool EXCEPT !.step = step, !.blockers = @ \cup B]
    BY DEF Proceed, Block
  <1> QED BY <1>1, RunProceeds

\* A step of a run that neither sends nor reports.
LEMMA QuietStep ==
    ASSUME DemoToolsAssumption, DemoToolsInv, tool' \in ToolRecords, RunSound',
           verifications \subseteq verifications', tool.step # "none", tool'.step # "none",
           tool'.orders = tool.orders, tool'.outcome = "NOT_RUN",
           UNCHANGED <<loggedIn, world, sentOrders, toolRuns, worldMoves>>
    PROVE  DemoToolsInv'
  BY DEF DemoToolsInv, ToolShape, OrdersCounted, OrdersAllowed, ReportsSound

\* A run begins: its number is new.
LEMMA RunBeginsSound ==
    ASSUME DemoToolsAssumption, DemoToolsInv,
           StartVerification \/ \E mode \in Preview : PreviewGates(mode)
    PROVE  DemoToolsInv'
  <1>1. /\ tool = NoRun /\ toolRuns' = toolRuns + 1 /\ toolRuns \in Nat
        /\ UNCHANGED <<loggedIn, world, verifications, sentOrders, worldMoves>>
    BY DEF StartVerification, PreviewGates, DemoToolsInv, ToolShape
  <1>2. CASE StartVerification
    <2>1. /\ tool' \in ToolRecords
          /\ tool'.mode = "VERIFY" /\ tool'.step = "connect" /\ tool'.outcome = "NOT_RUN"
          /\ tool'.submissions = 0 /\ tool'.orders = 0 /\ tool'.raised = FALSE
      <3>1. tool' = [NoRun EXCEPT !.mode = "VERIFY", !.step = "connect"]
        BY <1>2 DEF StartVerification
      <3>2. NoRun \in ToolRecords
        BY DEF NoRun, ToolRecords, ToolModes, ToolSteps, ToolOutcomes
      <3>3. tool' \in ToolRecords /\ tool'.mode = "VERIFY" /\ tool'.step = "connect"
        BY <3>1, <3>2 DEF ToolRecords, ToolModes, ToolSteps
      <3>4. /\ tool'.outcome = "NOT_RUN" /\ tool'.submissions = 0 /\ tool'.orders = 0
            /\ tool'.raised = FALSE
        BY <3>1 DEF NoRun
      <3> QED BY <3>3, <3>4
    <2>2. RunSound'
      BY <2>1 DEF RunSound
    <2>3. OrdersCounted'
      BY <1>1 DEF DemoToolsInv, OrdersCounted
    <2> QED BY <1>1, <2>1, <2>2, <2>3 DEF DemoToolsInv, ToolShape, OrdersAllowed, ReportsSound
  <1>3. CASE \E mode \in Preview : PreviewGates(mode)
    <2>1. PICK mode \in Preview, enabled \in BOOLEAN, stopConfigured \in BOOLEAN :
            LET reasons == SafetyBlocks(stopConfigured) \cup (IF enabled THEN {"enabled"} ELSE {})
            IN tool' = [NoRun EXCEPT !.mode = mode, !.blockers = reasons,
                           !.step = IF reasons \subseteq {"safety"} THEN "connect" ELSE "finish"]
      BY <1>3 DEF PreviewGates
    <2> DEFINE reasons == SafetyBlocks(stopConfigured) \cup (IF enabled THEN {"enabled"} ELSE {})
               step == IF reasons \subseteq {"safety"} THEN "connect" ELSE "finish"
    <2>2. reasons \in SUBSET Reasons /\ step \in {"connect", "finish"}
      BY DEF SafetyBlocks, Reasons
    <2>3. tool' = [NoRun EXCEPT !.mode = mode, !.blockers = reasons, !.step = step]
      BY <2>1
    <2> HIDE DEF reasons, step
    <2>4. /\ tool'.mode = mode /\ tool'.step = step /\ tool'.outcome = "NOT_RUN"
          /\ tool'.submissions = 0 /\ tool'.orders = 0 /\ tool'.raised = FALSE
      BY <2>3 DEF NoRun
    <2>5. tool' \in ToolRecords /\ mode \in {"PREVIEW", "SUBMIT_ONE"}
      <3>1. NoRun \in ToolRecords
        BY DEF NoRun, ToolRecords, ToolModes, ToolSteps, ToolOutcomes
      <3>2. mode \in ToolModes /\ step \in ToolSteps /\ mode \in {"PREVIEW", "SUBMIT_ONE"}
        BY <2>2 DEF Preview, ToolModes, ToolSteps
      <3> QED BY <2>2, <2>3, <3>1, <3>2 DEF ToolRecords
    <2>6. RunSound'
      BY <2>2, <2>4, <2>5 DEF RunSound
    <2>7. OrdersCounted'
      BY <1>1 DEF DemoToolsInv, OrdersCounted
    <2> QED BY <1>1, <2>4, <2>5, <2>6, <2>7 DEF DemoToolsInv, ToolShape, OrdersAllowed, ReportsSound
  <1> QED BY <1>2, <1>3

\* The preview connects to the configured account, and the guard has its row.
LEMMA PreviewConnectSound ==
    ASSUME DemoToolsAssumption, DemoToolsInv, PreviewConnect PROVE DemoToolsInv'
  <1>1. /\ tool.mode \in Preview /\ tool.step = "connect" /\ tool \in ToolRecords
        /\ tool.outcome = "NOT_RUN" /\ verifications \subseteq verifications'
        /\ loggedIn = ConfiguredLogin => ConfiguredLogin \in verifications'
        /\ UNCHANGED <<loggedIn, world, sentOrders, toolRuns, worldMoves>>
    BY DEF PreviewConnect, At, Elsewhere, GuardRecords, GuardPasses, DemoToolsInv, ToolShape,
           RunSound, DemoToolsAssumption
  <1>2. /\ tool' \in ToolRecords /\ SameRun(tool') /\ tool.blockers \subseteq tool'.blockers
        /\ tool'.step \in {"identity", "finish"}
        /\ tool'.step = "identity" => loggedIn = ConfiguredLogin
    <2>1. CASE loggedIn = ConfiguredLogin /\ Proceed("identity", {})
      BY <1>1, <2>1, RunMoves DEF ToolSteps
    <2>2. CASE tool' = [tool EXCEPT !.step = "finish", !.blockers = @ \cup {"connect"}]
      <3>1. {"connect"} \in SUBSET Reasons /\ "finish" \in ToolSteps
        BY DEF Reasons, ToolSteps
      <3> QED BY <1>1, <2>2, <3>1, RunProceeds
    <2> QED BY <2>1, <2>2 DEF PreviewConnect
  <1>3. RunSound'
    BY <1>1, <1>2 DEF DemoToolsInv, RunSound, SameRun, Preview
  <1> QED BY <1>1, <1>2, <1>3, QuietStep DEF SameRun

\* The account of the plan is the configured one.
LEMMA PreviewIdentitySound ==
    ASSUME DemoToolsAssumption, DemoToolsInv, PreviewIdentity PROVE DemoToolsInv'
  <1>1. /\ tool.mode \in Preview /\ tool.step = "identity" /\ tool \in ToolRecords
        /\ tool.outcome = "NOT_RUN" /\ loggedIn \in ToolAccounts
        /\ UNCHANGED <<loggedIn, world, verifications, sentOrders, toolRuns, worldMoves>>
    BY DEF PreviewIdentity, At, Elsewhere, DemoToolsInv, ToolShape, RunSound
  <1>2. CASE loggedIn = ConfiguredLogin
    <2>1. tool' = [tool EXCEPT !.step = "market", !.account = loggedIn]
      BY <1>2 DEF PreviewIdentity
    <2>2. /\ tool' \in ToolRecords /\ tool'.step = "market" /\ tool'.account = ConfiguredLogin
          /\ tool'.mode = tool.mode /\ tool'.blockers = tool.blockers /\ tool'.orders = tool.orders
          /\ tool'.submissions = tool.submissions /\ tool'.raised = tool.raised
          /\ tool'.outcome = "NOT_RUN"
      BY <1>1, <1>2, <2>1 DEF ToolRecords, ToolSteps
    <2>3. RunSound'
      BY <1>1, <2>2 DEF DemoToolsInv, RunSound, Preview
    <2> QED BY <1>1, <2>2, <2>3, QuietStep
  <1>3. CASE loggedIn # ConfiguredLogin
    <2>1. Block({"identity"}) /\ {"identity"} \in SUBSET Reasons /\ "close" \in ToolSteps
      BY <1>3 DEF PreviewIdentity, Reasons, ToolSteps
    <2>2. /\ tool' \in ToolRecords /\ tool'.step = "close" /\ tool.blockers \subseteq tool'.blockers
          /\ SameRun(tool')
      BY <1>1, <2>1, RunMoves
    <2>3. RunSound'
      BY <1>1, <2>2 DEF DemoToolsInv, RunSound, SameRun, Preview
    <2> QED BY <1>1, <2>2, <2>3, QuietStep DEF SameRun
  <1> QED BY <1>2, <1>3

\* Market data and risk: a block ends the run, a refusal that only blocks goes with it.
LEMMA PreviewPlansSound ==
    ASSUME DemoToolsAssumption, DemoToolsInv, PreviewMarket \/ PreviewRisk PROVE DemoToolsInv'
  <1>1. /\ tool.mode \in Preview /\ tool.step \in {"market", "risk"} /\ tool \in ToolRecords
        /\ tool.outcome = "NOT_RUN"
        /\ UNCHANGED <<loggedIn, world, verifications, sentOrders, toolRuns, worldMoves>>
    BY DEF PreviewMarket, PreviewRisk, At, Elsewhere, DemoToolsInv, ToolShape, RunSound
  <1>2. /\ tool' \in ToolRecords /\ SameRun(tool') /\ tool.blockers \subseteq tool'.blockers
        /\ tool'.step \in {"risk", "quantity", "close"}
    <2>1. CASE PreviewMarket
      <3>1. /\ {} \in SUBSET Reasons /\ {"symbol"} \in SUBSET Reasons
            /\ {"market-data"} \in SUBSET Reasons /\ "risk" \in ToolSteps /\ "close" \in ToolSteps
        BY DEF Reasons, ToolSteps
      <3> QED BY <1>1, <2>1, <3>1, RunMoves DEF PreviewMarket
    <2>2. CASE PreviewRisk
      <3>1. PICK approved \in BOOLEAN, covered \in BOOLEAN, planned \in BOOLEAN :
              LET reasons == (IF approved THEN {} ELSE {"risk"})
                      \cup (IF covered THEN {} ELSE {"history"}) \cup (IF planned THEN {} ELSE {"plan"})
              IN IF planned THEN Proceed("quantity", reasons) ELSE Block(reasons)
        BY <2>2 DEF PreviewRisk
      <3> DEFINE reasons == (IF approved THEN {} ELSE {"risk"})
                      \cup (IF covered THEN {} ELSE {"history"}) \cup (IF planned THEN {} ELSE {"plan"})
      <3>2. reasons \in SUBSET Reasons /\ "quantity" \in ToolSteps /\ "close" \in ToolSteps
        BY DEF Reasons, ToolSteps
      <3>3. Proceed("quantity", reasons) \/ Block(reasons)
        BY <3>1
      <3> HIDE DEF reasons
      <3> QED BY <1>1, <3>2, <3>3, RunMoves
    <2> QED BY <2>1, <2>2
  <1>3. RunSound'
    BY <1>1, <1>2 DEF DemoToolsInv, RunSound, SameRun, Preview
  <1> QED BY <1>1, <1>2, <1>3, QuietStep DEF SameRun

\* The lot is given a loss within the authorized risk.
LEMMA PreviewQuantitySound ==
    ASSUME DemoToolsAssumption, DemoToolsInv, PreviewQuantity PROVE DemoToolsInv'
  <1>1. /\ tool.mode \in Preview /\ tool.step = "quantity" /\ tool \in ToolRecords
        /\ tool.outcome = "NOT_RUN"
        /\ UNCHANGED <<loggedIn, world, verifications, sentOrders, toolRuns, worldMoves>>
    BY DEF PreviewQuantity, At, Elsewhere, DemoToolsInv, ToolShape, RunSound
  <1>2. PICK loss \in Losses, margin \in BOOLEAN :
          IF QuantityAuthorized(loss, margin)
          THEN tool' = [tool EXCEPT !.step = "policy", !.loss = loss]
          ELSE Block({"quantity"})
    BY DEF PreviewQuantity
  <1>3. CASE QuantityAuthorized(loss, margin)
    <2>1. tool' = [tool EXCEPT !.step = "policy", !.loss = loss] /\ loss \in Nat /\ loss <= AuthorizedRisk
      BY <1>2, <1>3 DEF QuantityAuthorized, DemoToolsAssumption
    <2>2. /\ tool' \in ToolRecords /\ tool'.step = "policy" /\ tool'.loss = loss
          /\ tool'.mode = tool.mode /\ tool'.blockers = tool.blockers /\ tool'.orders = tool.orders
          /\ tool'.submissions = tool.submissions /\ tool'.raised = tool.raised
          /\ tool'.outcome = "NOT_RUN" /\ tool'.account = tool.account
      BY <1>1, <2>1 DEF ToolRecords, ToolSteps
    <2>3. RunSound'
      BY <1>1, <2>1, <2>2 DEF DemoToolsInv, RunSound, Preview
    <2> QED BY <1>1, <2>2, <2>3, QuietStep
  <1>4. CASE ~QuantityAuthorized(loss, margin)
    <2>1. Block({"quantity"}) /\ {"quantity"} \in SUBSET Reasons /\ "close" \in ToolSteps
      BY <1>2, <1>4 DEF Reasons, ToolSteps
    <2>2. /\ tool' \in ToolRecords /\ tool'.step = "close" /\ tool.blockers \subseteq tool'.blockers
          /\ SameRun(tool')
      BY <1>1, <2>1, RunMoves
    <2>3. RunSound'
      BY <1>1, <2>2 DEF DemoToolsInv, RunSound, SameRun, Preview
    <2> QED BY <1>1, <2>2, <2>3, QuietStep DEF SameRun
  <1> QED BY <1>3, <1>4

\* Only a run in submit mode goes on to send.
LEMMA PreviewPolicySound ==
    ASSUME DemoToolsAssumption, DemoToolsInv, PreviewPolicy PROVE DemoToolsInv'
  <1> DEFINE held == IF world.held > 0 THEN {"policy"} ELSE {}
             step == IF tool.mode = "SUBMIT_ONE" /\ tool.blockers \cup held = {}
                     THEN "reverify" ELSE "close"
  <1>1. /\ tool.mode \in Preview /\ tool.step = "policy" /\ tool \in ToolRecords
        /\ tool.outcome = "NOT_RUN"
        /\ UNCHANGED <<loggedIn, world, verifications, sentOrders, toolRuns, worldMoves>>
    BY DEF PreviewPolicy, At, Elsewhere, DemoToolsInv, ToolShape, RunSound
  <1>2. tool' = [tool EXCEPT !.blockers = tool.blockers \cup held, !.step = step]
    BY DEF PreviewPolicy
  <1>3. /\ held \in SUBSET Reasons /\ step \in ToolSteps
        /\ step \in {"reverify", "close"} /\ (step = "reverify" => tool.mode = "SUBMIT_ONE")
    BY DEF Reasons, ToolSteps
  <1> HIDE DEF held, step
  <1>4. tool' = [tool EXCEPT !.blockers = @ \cup held, !.step = step]
    BY <1>2
  <1>5. /\ tool' \in ToolRecords /\ tool'.step = step /\ tool.blockers \subseteq tool'.blockers
        /\ SameRun(tool')
    BY <1>1, <1>3, <1>4, RunProceeds
  <1>6. RunSound'
    BY <1>1, <1>3, <1>5 DEF DemoToolsInv, RunSound, SameRun, Preview
  <1> QED BY <1>1, <1>3, <1>5, <1>6, QuietStep DEF SameRun

LEMMA PreviewReverifySound ==
    ASSUME DemoToolsAssumption, DemoToolsInv, PreviewReverify PROVE DemoToolsInv'
  <1>1. /\ tool.mode \in Preview /\ tool.step = "reverify" /\ tool \in ToolRecords
        /\ tool.outcome = "NOT_RUN" /\ verifications \subseteq verifications'
        /\ UNCHANGED <<loggedIn, world, sentOrders, toolRuns, worldMoves>>
    BY DEF PreviewReverify, At, Elsewhere, GuardRecords, DemoToolsInv, ToolShape, RunSound
  <1>2. /\ tool' \in ToolRecords /\ SameRun(tool') /\ tool.blockers \subseteq tool'.blockers
        /\ tool'.step \in {"send", "close"}
    <2>1. /\ {} \in SUBSET Reasons /\ {"unsafe-account"} \in SUBSET Reasons
          /\ "send" \in ToolSteps /\ "close" \in ToolSteps
      BY DEF Reasons, ToolSteps
    <2> QED BY <1>1, <2>1, RunMoves DEF PreviewReverify
  <1>3. RunSound'
    BY <1>1, <1>2 DEF DemoToolsInv, RunSound, SameRun, Preview
  <1> QED BY <1>1, <1>2, <1>3, QuietStep DEF SameRun

\* The one submission: what is sent is what the run planned, on the account it planned for.
LEMMA PreviewSendSound ==
    ASSUME DemoToolsAssumption, DemoToolsInv, PreviewSend PROVE DemoToolsInv'
  <1>1. /\ tool.step = "send" /\ tool.submissions = 0 /\ tool \in ToolRecords
        /\ tool.outcome = "NOT_RUN" /\ tool.mode = "SUBMIT_ONE" /\ tool.account = ConfiguredLogin
        /\ tool.loss <= AuthorizedRisk /\ ConfiguredLogin \in verifications /\ tool.orders = 0
        /\ \A o \in sentOrders : o.run # toolRuns
        /\ UNCHANGED <<loggedIn, verifications, toolRuns, worldMoves>>
    <2>1. /\ tool.step = "send" /\ tool.submissions = 0 /\ tool \in ToolRecords
          /\ UNCHANGED <<loggedIn, verifications, toolRuns, worldMoves>>
      BY DEF PreviewSend, At, DemoToolsInv, ToolShape
    <2>2. tool.orders = 0
      BY <2>1 DEF DemoToolsInv, RunSound, ToolRecords
    <2> QED BY <2>1, <2>2 DEF DemoToolsInv, RunSound, OrdersCounted
  <1>2. CASE tool' = [tool EXCEPT !.step = "close", !.submissions = 1] /\ UNCHANGED <<world, sentOrders>>
    <2>1. /\ tool' \in ToolRecords /\ tool'.step = "close" /\ tool'.submissions = 1
          /\ tool'.mode = tool.mode /\ tool'.blockers = tool.blockers /\ tool'.orders = tool.orders
          /\ tool'.raised = tool.raised /\ tool'.outcome = "NOT_RUN"
      <3>1. "close" \in ToolSteps /\ 1 \in 0 .. 1
        BY DEF ToolSteps
      <3> QED BY <1>1, <1>2, <3>1 DEF ToolRecords
    <2>2. RunSound'
      BY <1>1, <2>1 DEF DemoToolsInv, RunSound
    <2> QED BY <1>1, <1>2, <2>1, <2>2, QuietStep
  <1>3. CASE /\ loggedIn = ConfiguredLogin
             /\ sentOrders' = sentOrders \cup {[run |-> toolRuns, account |-> loggedIn,
                    planned |-> tool.account, mode |-> tool.mode, loss |-> tool.loss]}
             /\ world' = [world EXCEPT !.held = 1]
             /\ \E raised \in BOOLEAN :
                   tool' = [tool EXCEPT !.step = "close", !.submissions = 1, !.orders = 1,
                       !.raised = raised,
                       !.blockers = IF raised THEN @ \cup {"error"} ELSE @]
    <2> DEFINE o == [run |-> toolRuns, account |-> loggedIn, planned |-> tool.account,
                     mode |-> tool.mode, loss |-> tool.loss]
    <2>1. PICK raised \in BOOLEAN :
            tool' = [tool EXCEPT !.step = "close", !.submissions = 1, !.orders = 1,
                       !.raised = raised, !.blockers = IF raised THEN @ \cup {"error"} ELSE @]
      BY <1>3
    <2>2. /\ tool'.step = "close" /\ tool'.submissions = 1 /\ tool'.orders = 1
          /\ tool'.mode = tool.mode /\ tool'.outcome = "NOT_RUN" /\ tool'.raised = raised
          /\ tool'.blockers = IF raised THEN tool.blockers \cup {"error"} ELSE tool.blockers
      BY <1>1, <2>1 DEF ToolRecords
    <2>3. tool' \in ToolRecords
      <3>1. "close" \in ToolSteps /\ 1 \in 0 .. 1
        BY DEF ToolSteps
      <3>2. (IF raised THEN tool.blockers \cup {"error"} ELSE tool.blockers) \in SUBSET Reasons
        BY <1>1 DEF ToolRecords, Reasons
      <3> QED BY <1>1, <2>1, <3>1, <3>2 DEF ToolRecords
    <2>4. RunSound'
      BY <1>1, <2>2 DEF RunSound
    <2>5. /\ o.run = toolRuns /\ o.account = ConfiguredLogin /\ o.planned = ConfiguredLogin
          /\ o.mode = "SUBMIT_ONE" /\ o.loss <= AuthorizedRisk
      BY <1>1, <1>3
    <2>6. sentOrders' = sentOrders \cup {o}
      BY <1>3
    <2> HIDE DEF o
    <2>7. OrdersCounted' /\ OrdersAllowed'
      BY <1>1, <2>2, <2>5, <2>6 DEF DemoToolsInv, ToolShape, OrdersCounted, OrdersAllowed
    <2>8. ToolShape'
      BY <1>1, <1>3, <2>3 DEF DemoToolsInv, ToolShape
    <2>9. ReportsSound'
      BY <2>2 DEF ReportsSound
    <2> QED BY <2>4, <2>7, <2>8, <2>9 DEF DemoToolsInv
  <1> QED BY <1>2, <1>3 DEF PreviewSend

\* The reports: an order of the run, a lost answer or a failed step shows in them.
LEMMA FinishSound ==
    ASSUME DemoToolsAssumption, DemoToolsInv, PreviewFinish \/ VerifyFinish PROVE DemoToolsInv'
  <1>1. /\ tool.step = "finish" /\ tool \in ToolRecords
        /\ UNCHANGED <<loggedIn, world, verifications, sentOrders, toolRuns, worldMoves>>
    BY DEF PreviewFinish, VerifyFinish, At, Elsewhere, DemoToolsInv, ToolShape
  <1>2. PICK outcome \in ToolOutcomes :
          /\ tool' = [tool EXCEPT !.step = "done", !.outcome = outcome]
          /\ outcome = "PREVIEW_READY" => tool.mode = "PREVIEW"
          /\ outcome = "SUBMISSION_NOT_PERFORMED" => tool.submissions # 1
          /\ outcome = "SUBMITTED_ONE_DEMO_ORDER" => tool.submissions = 1 /\ tool.blockers = {}
          /\ outcome = "VERIFIED_READ_ONLY" => /\ tool.mode = "VERIFY" /\ tool.blockers = {}
                                               /\ tool.failed = {}
    BY DEF PreviewFinish, VerifyFinish, At, Preview, ToolOutcomes
  <1>3. /\ tool' \in ToolRecords /\ tool'.step = "done" /\ tool'.outcome = outcome
        /\ tool'.mode = tool.mode /\ tool'.blockers = tool.blockers /\ tool'.failed = tool.failed
        /\ tool'.account = tool.account /\ tool'.submissions = tool.submissions
        /\ tool'.orders = tool.orders /\ tool'.raised = tool.raised
        /\ tool.submissions \in 0 .. 1 /\ tool.orders \in 0 .. 1
    BY <1>1, <1>2 DEF ToolRecords, ToolSteps
  <1>4. RunSound'
    BY <1>1, <1>3 DEF DemoToolsInv, RunSound
  <1>5. ReportsSound'
    BY <1>1, <1>2, <1>3 DEF DemoToolsInv, RunSound, ReportsSound
  <1> QED BY <1>1, <1>3, <1>4, <1>5 DEF DemoToolsInv, ToolShape, OrdersCounted, OrdersAllowed

\* A verification has an account once it is connected.
LEMMA VerifyConnectSound ==
    ASSUME DemoToolsAssumption, DemoToolsInv, VerifyConnect PROVE DemoToolsInv'
  <1>1. /\ tool.mode = "VERIFY" /\ tool.step = "connect" /\ tool \in ToolRecords
        /\ tool.outcome = "NOT_RUN" /\ verifications \subseteq verifications'
        /\ loggedIn \in ToolAccounts
        /\ UNCHANGED <<loggedIn, world, sentOrders, toolRuns, worldMoves>>
    BY DEF VerifyConnect, At, Elsewhere, GuardRecords, DemoToolsInv, ToolShape, RunSound
  <1>2. CASE loggedIn = ConfiguredLogin /\ tool' = [tool EXCEPT !.step = "candles", !.account = loggedIn]
    <2>1. /\ tool' \in ToolRecords /\ tool'.step = "candles" /\ tool'.account = ConfiguredLogin
          /\ tool'.mode = tool.mode /\ tool'.blockers = tool.blockers /\ tool'.orders = tool.orders
          /\ tool'.submissions = tool.submissions /\ tool'.raised = tool.raised
          /\ tool'.outcome = "NOT_RUN"
      BY <1>1, <1>2 DEF ToolRecords, ToolSteps
    <2>2. RunSound'
      BY <1>1, <2>1 DEF DemoToolsInv, RunSound
    <2> QED BY <1>1, <2>1, <2>2, QuietStep
  <1>3. CASE tool' = [tool EXCEPT !.step = "finish", !.blockers = {"connect"}]
    <2>1. {"connect"} \in SUBSET Reasons /\ "finish" \in ToolSteps
      BY DEF Reasons, ToolSteps
    <2>2. /\ tool' \in ToolRecords /\ tool'.step = "finish" /\ tool'.blockers = {"connect"}
          /\ SameRun(tool')
      BY <1>1, <1>3, <2>1 DEF ToolRecords, SameRun
    <2>3. RunSound'
      BY <1>1, <2>2 DEF DemoToolsInv, RunSound, SameRun
    <2> QED BY <1>1, <2>2, <2>3, QuietStep DEF SameRun
  <1> QED BY <1>2, <1>3 DEF VerifyConnect

LEMMA VerifyPipelineSound ==
    ASSUME DemoToolsAssumption, DemoToolsInv, VerifyCandles \/ EvaluatePipeline PROVE DemoToolsInv'
  <1>1. /\ tool.mode = "VERIFY" /\ tool.step \in {"candles", "pipeline"} /\ tool \in ToolRecords
        /\ tool.outcome = "NOT_RUN"
        /\ UNCHANGED <<loggedIn, world, verifications, sentOrders, toolRuns, worldMoves>>
    BY DEF VerifyCandles, EvaluatePipeline, At, Elsewhere, DemoToolsInv, ToolShape, RunSound
  <1>2. /\ tool' \in ToolRecords /\ tool'.step \in {"pipeline", "close"}
        /\ tool'.blockers = {} => tool.blockers = {}
        /\ tool'.mode = tool.mode /\ tool'.account = tool.account /\ tool'.orders = tool.orders
        /\ tool'.submissions = tool.submissions /\ tool'.raised = tool.raised
        /\ tool'.outcome = "NOT_RUN"
    <2>1. CASE Proceed("pipeline", {}) \/ Proceed("close", {}) \/ Block({"symbol"})
      <3>1. /\ {} \in SUBSET Reasons /\ {"symbol"} \in SUBSET Reasons
            /\ "pipeline" \in ToolSteps /\ "close" \in ToolSteps
        BY DEF Reasons, ToolSteps
      <3>2. /\ tool' \in ToolRecords /\ SameRun(tool') /\ tool.blockers \subseteq tool'.blockers
            /\ tool'.step \in {"pipeline", "close"}
        BY <1>1, <2>1, <3>1, RunMoves
      <3> QED BY <1>1, <3>2 DEF SameRun
    <2>2. CASE tool' = [tool EXCEPT !.step = "close", !.failed = {"candles"}, !.blockers = {"market-data"}]
      <3>1. /\ {"market-data"} \in SUBSET Reasons /\ {"candles"} \in SUBSET FailedSteps
            /\ "close" \in ToolSteps
        BY DEF Reasons, FailedSteps, ToolSteps
      <3> QED BY <1>1, <2>2, <3>1 DEF ToolRecords
    <2> QED BY <2>1, <2>2 DEF VerifyCandles, EvaluatePipeline
  <1>3. RunSound'
    BY <1>1, <1>2 DEF DemoToolsInv, RunSound
  <1> QED BY <1>1, <1>2, <1>3, QuietStep

LEMMA CloseSessionSound ==
    ASSUME DemoToolsAssumption, DemoToolsInv, CloseSession PROVE DemoToolsInv'
  <1>1. /\ tool.step = "close" /\ tool \in ToolRecords /\ tool.outcome = "NOT_RUN"
        /\ UNCHANGED <<loggedIn, world, verifications, sentOrders, toolRuns, worldMoves>>
    BY DEF CloseSession, Elsewhere, DemoToolsInv, ToolShape, RunSound
  <1>2. /\ tool' \in ToolRecords /\ tool'.step = "finish" /\ tool.blockers \subseteq tool'.blockers
        /\ tool'.mode = tool.mode /\ tool'.account = tool.account /\ tool'.orders = tool.orders
        /\ tool'.submissions = tool.submissions /\ tool'.raised = tool.raised
        /\ tool'.outcome = "NOT_RUN"
    <2>1. CASE tool' = [tool EXCEPT !.step = "finish"]
      BY <1>1, <2>1 DEF ToolRecords, ToolSteps
    <2>2. CASE tool' = [tool EXCEPT !.step = "finish", !.blockers = @ \cup {"error"}]
      <3>1. {"error"} \in SUBSET Reasons /\ "finish" \in ToolSteps
        BY DEF Reasons, ToolSteps
      <3>2. /\ tool' \in ToolRecords /\ tool'.step = "finish" /\ SameRun(tool')
            /\ tool.blockers \subseteq tool'.blockers
        BY <1>1, <2>2, <3>1, RunProceeds
      <3> QED BY <1>1, <3>2 DEF SameRun
    <2>3. CASE tool' = [tool EXCEPT !.step = "finish", !.failed = @ \cup {"session-closed"}]
      <3>1. tool.failed \cup {"session-closed"} \in SUBSET FailedSteps /\ "finish" \in ToolSteps
        BY <1>1 DEF ToolRecords, FailedSteps, ToolSteps
      <3> QED BY <1>1, <2>3, <3>1 DEF ToolRecords
    <2> QED BY <2>1, <2>2, <2>3 DEF CloseSession
  <1>3. RunSound'
    BY <1>1, <1>2 DEF DemoToolsInv, RunSound
  <1> QED BY <1>1, <1>2, <1>3, QuietStep

LEMMA NextRunSound == ASSUME DemoToolsAssumption, DemoToolsInv, NextRun PROVE DemoToolsInv'
  <1>1. /\ tool' = NoRun
        /\ UNCHANGED <<loggedIn, world, verifications, sentOrders, toolRuns, worldMoves>>
    BY DEF NextRun, Elsewhere
  <1>2. /\ tool' \in ToolRecords /\ tool'.step = "none" /\ tool'.mode = "NONE" /\ tool'.orders = 0
        /\ tool'.submissions = 0 /\ tool'.raised = FALSE /\ tool'.outcome = "NOT_RUN"
    BY <1>1 DEF NoRun, ToolRecords, ToolModes, ToolSteps, ToolOutcomes
  <1> QED BY <1>1, <1>2 DEF DemoToolsInv, ToolShape, RunSound, OrdersCounted, OrdersAllowed,
         ReportsSound

\* The world moves between the steps of a run.
LEMMA WorldMovesSound == ASSUME DemoToolsAssumption, DemoToolsInv, WorldMoves PROVE DemoToolsInv'
  <1>1. UNCHANGED <<tool, verifications, sentOrders, toolRuns>>
    BY DEF WorldMoves
  <1>2. loggedIn' \in ToolAccounts
    BY DEF WorldMoves, DemoToolsInv, ToolShape
  <1>3. world' \in [snapshot : {"OBSERVED", "STALE", "NONE"}, stop : {"CLEAR", "ACTIVE"},
                    unresolved : BOOLEAN, held : 0 .. 1]
    <2>1. world \in [snapshot : {"OBSERVED", "STALE", "NONE"}, stop : {"CLEAR", "ACTIVE"},
                     unresolved : BOOLEAN, held : 0 .. 1]
      BY DEF DemoToolsInv, ToolShape
    <2>2. CASE world' = [world EXCEPT !.snapshot = "STALE"]
      BY <2>1, <2>2
    <2>3. CASE world' = [world EXCEPT !.snapshot = "NONE"]
      BY <2>1, <2>3
    <2>4. CASE world' = [world EXCEPT !.stop = "ACTIVE", !.snapshot = "OBSERVED"]
      BY <2>1, <2>4
    <2>5. CASE world' = [world EXCEPT !.unresolved = ~@]
      BY <2>1, <2>5
    <2>6. CASE world' = [world EXCEPT !.held = 1 - @]
      BY <2>1, <2>6
    <2> QED BY <2>1, <2>2, <2>3, <2>4, <2>5, <2>6 DEF WorldMoves
  <1> QED BY <1>1, <1>2, <1>3 DEF DemoToolsInv, ToolShape, RunSound, OrdersCounted, OrdersAllowed, ReportsSound

LEMMA DemoToolsInvStep ==
    ASSUME DemoToolsAssumption, DemoToolsInv, [DemoToolsNext]_toolVars PROVE DemoToolsInv'
  <1>1. CASE UNCHANGED toolVars
    BY <1>1 DEF toolVars, DemoToolsInv, ToolShape, RunSound, OrdersCounted, OrdersAllowed, ReportsSound
  <1>2. CASE DemoToolsNext
    BY <1>2, RunBeginsSound, PreviewConnectSound, PreviewIdentitySound, PreviewPlansSound,
       PreviewQuantitySound, PreviewPolicySound, PreviewReverifySound, PreviewSendSound,
       FinishSound, VerifyConnectSound, VerifyPipelineSound, CloseSessionSound, NextRunSound,
       WorldMovesSound DEF DemoToolsNext
  <1> QED BY <1>1, <1>2

LEMMA DemoToolsInvSound ==
    ASSUME DemoToolsAssumption, DemoToolsInv PROVE DemoToolsTypeOK /\ DemoToolsSound
  <1>1. DemoToolsTypeOK
    BY DEF DemoToolsInv, ToolShape, ToolRecords, ToolOutcomes, DemoToolsTypeOK
  <1>2. tool.outcome \in {"PREVIEW_READY", "SUBMISSION_NOT_PERFORMED", "VERIFIED_READ_ONLY"} =>
          \A o \in sentOrders : o.run # toolRuns
    BY DEF DemoToolsInv, RunSound, OrdersCounted, ReportsSound
  <1> QED BY <1>1, <1>2 DEF DemoToolsInv, OrdersCounted, OrdersAllowed, ReportsSound,
         DemoToolsAssumption, DemoToolsSound

\* The demo tools, however the world moves between their steps: no order their checks did
\* not allow, and no order behind a clean report (demo_trade_preview.py,
\* demo_synthetic_verification.py).
THEOREM DemoToolsSafe ==
    ASSUME DemoToolsAssumption
    PROVE  DemoToolsSpec => [](DemoToolsTypeOK /\ DemoToolsSound)
  <1>1. DemoToolsInit => DemoToolsInv
    BY DemoToolsInvInit
  <1>2. DemoToolsInv /\ [DemoToolsNext]_toolVars => DemoToolsInv'
    BY DemoToolsInvStep
  <1>3. DemoToolsInv => DemoToolsTypeOK /\ DemoToolsSound
    BY DemoToolsInvSound
  <1> QED BY <1>1, <1>2, <1>3, PTL DEF DemoToolsSpec
================================================================================
