---------------------------- MODULE TerminalAudit ----------------------------
(***************************************************************************)
(* execution/continuous_reconciliation.py: the auditor that compares the   *)
(* broker's positions with the trades JQE tracks, and the circuit breaker  *)
(* around it.  A position is its id, symbol, side and whether it carries   *)
(* the expected magic number; of volumes only "the tracked volume differs" *)
(* is kept.                                                                *)
(***************************************************************************)
EXTENDS Integers, Sequences, FiniteSets, FiniteSetsExt

CONSTANTS AuditIds,       \* position ids
          AuditSymbols,
          MaxListed       \* bound on positions and on tracked trades

\* What the code and its configuration guarantee of these values.
AuditAssumption == MaxListed \in Nat /\ AuditIds \subseteq Nat \ {0}

VARIABLES
  listing,   \* what gateway.get_positions() answers, in its order
  trades,    \* the tracked trades in the order audit gathers them
  report,    \* the last report, by is_clean
  latched,   \* _emergency_stop_latched
  stopSetting,  \* settings.emergency_stop of the process of the auditor
  auditing,  \* run_loop is running
  breach     \* whether the BLOCKED snapshot of a breach reached the store

auditVars == <<listing, trades, report, latched, stopSetting, auditing, breach>>

NoId == 0
Sides == {"BUY", "SELL"}
AuditPositions == [id : AuditIds, symbol : AuditSymbols, side : Sides, ours : BOOLEAN]

(* Where a tracked trade comes from fixes what it can say: a plan has no    *)
(* id, a ledger row is taken for a BUY whatever was bought, and only an     *)
(* explicitly tracked trade carries a volume.  Accepted intents never come  *)
(* up: list_unresolved lists only pending and unknown ones.                 *)
LedgerTrades == {[id |-> i, symbol |-> s, side |-> "BUY", source |-> "ledger", volumeDiffers |-> FALSE] :
                   i \in AuditIds, s \in AuditSymbols}
PlanTrades == {[id |-> NoId, symbol |-> s, side |-> d, source |-> "plan", volumeDiffers |-> FALSE] :
                 s \in AuditSymbols, d \in Sides}
ExplicitTrades == {[id |-> i, symbol |-> s, side |-> "SELL", source |-> "explicit", volumeDiffers |-> v] :
                     i \in AuditIds, s \in AuditSymbols, v \in BOOLEAN}
TrackedTrades == LedgerTrades \cup PlanTrades \cup ExplicitTrades

AuditTypeOK ==
  /\ listing \in Seq(AuditPositions) /\ Len(listing) <= MaxListed
  /\ trades \in Seq(TrackedTrades) /\ Len(trades) <= MaxListed
  /\ report \in {"none", "clean", "unclean"}
  /\ latched \in BOOLEAN /\ stopSetting \in BOOLEAN /\ auditing \in BOOLEAN
  /\ breach \in {"none", "published", "unpublished"}

AuditInit ==
  /\ listing = <<>> /\ trades = <<>> /\ report = "none"
  /\ latched = FALSE /\ stopSetting = FALSE /\ auditing = TRUE
  /\ breach = "none"

-----------------------------------------------------------------------------
(* Trades and positions are named by their places in trades and listing;   *)
(* known are the trades the audit has gathered.                            *)

(* Step 3 of audit for one broker position: by its id, or else the first   *)
(* trade of its symbol that has no id or whose id is not matched yet.      *)
TradesById(known, i) == {n \in known : trades[n].id = i}
Unmatched(known, symbol, matched) ==
  {n \in known : trades[n].symbol = symbol /\ (trades[n].id = NoId \/ trades[n].id \notin matched)}
MatchOf(known, p, matched) ==
  LET exact == TradesById(known, p.id)
      free == Unmatched(known, p.symbol, matched)
  IN  IF exact # {} THEN {Max(exact)} ELSE IF free # {} THEN {Min(free)} ELSE {}

(* Mutant: the sides are not compared. *)
MismatchesAnySide(p, t) ==
  {r \in {"SYMBOL_MISMATCH", "VOLUME_MISMATCH", "EXTERNAL_MANUAL_TRADE"} :
     \/ r = "SYMBOL_MISMATCH" /\ p.symbol # t.symbol
     \/ r = "VOLUME_MISMATCH" /\ t.volumeDiffers
     \/ r = "EXTERNAL_MANUAL_TRADE" /\ ~p.ours}

Mismatches(p, t) ==
  {r \in {"SYMBOL_MISMATCH", "SIDE_MISMATCH", "VOLUME_MISMATCH", "EXTERNAL_MANUAL_TRADE"} :
     \/ r = "SYMBOL_MISMATCH" /\ p.symbol # t.symbol
     \/ r = "SIDE_MISMATCH" /\ p.side # t.side
     \/ r = "VOLUME_MISMATCH" /\ t.volumeDiffers
     \/ r = "EXTERNAL_MANUAL_TRADE" /\ ~p.ours}

(* The ids matched by the first k positions, in the order of the listing.   *)
MatchedIds(known) ==
  LET matched[k \in 0 .. Len(listing)] ==
        IF k = 0 THEN {}
        ELSE matched[k - 1]
             \cup ({trades[n].id : n \in MatchOf(known, listing[k], matched[k - 1])} \ {NoId})
  IN  matched

AuditPosition(known, k) ==
  LET p == listing[k]
      match == MatchOf(known, p, MatchedIds(known)[k - 1])
  IN  IF match = {} THEN {IF p.ours THEN "UNTRACKED" ELSE "EXTERNAL_MANUAL_TRADE"}
      ELSE UNION {Mismatches(p, trades[n]) : n \in match}

(* The discrepancies of the listing against the gathered trades; step 4     *)
(* adds the tracked ids that nothing was matched with.                     *)
Phantoms(known) ==
  {n \in known : trades[n].id # NoId /\ trades[n].id \notin MatchedIds(known)[Len(listing)]}
Discrepancies(known) ==
  (UNION {AuditPosition(known, k) : k \in DOMAIN listing})
    \cup (IF Phantoms(known) = {} THEN {} ELSE {"PHANTOM_INTERNAL_POSITION"})

(* reconcile_and_protect on an unclean report: the latch, the settings of   *)
(* this process and a BLOCKED snapshot, whose publication may fail.         *)
Trip == /\ latched' = TRUE /\ stopSetting' = TRUE /\ auditing' = FALSE
        /\ breach' \in {"published", "unpublished"}

(* One pass of run_loop.  A ledger that cannot be read is logged and left  *)
(* out; a broker that cannot be read, or answers something that is no      *)
(* position, is a discrepancy.                                             *)
Readable(ledgerFails) ==
  {n \in DOMAIN trades : ledgerFails => trades[n].source # "ledger"}

AuditPass ==
  /\ auditing
  /\ \E failure \in {{}, {"BROKER_UNAVAILABLE"}, {"MALFORMED_BROKER_DATA"}}, ledgerFails \in BOOLEAN :
       LET known == Readable(ledgerFails)
           reasons == IF failure = {"BROKER_UNAVAILABLE"} THEN failure
                      ELSE failure \cup Discrepancies(known)
       IN  /\ report' = IF reasons = {} THEN "clean" ELSE "unclean"
           /\ IF reasons = {} THEN UNCHANGED <<latched, stopSetting, auditing, breach>> ELSE Trip
  /\ UNCHANGED <<listing, trades>>

-----------------------------------------------------------------------------
(* External: positions appear and go, and trades come to be tracked, under  *)
(* ids that are unique on either side.                                      *)
PositionAppears ==
  /\ Len(listing) < MaxListed
  /\ \E p \in AuditPositions : /\ \A i \in 1 .. Len(listing) : listing[i].id # p.id
                               /\ listing' = Append(listing, p)
  /\ UNCHANGED <<trades, report, latched, stopSetting, auditing, breach>>
PositionVanishes ==
  /\ listing # <<>> /\ listing' = Tail(listing)
  /\ UNCHANGED <<trades, report, latched, stopSetting, auditing, breach>>
TradeTracked ==
  /\ Len(trades) < MaxListed
  /\ \E t \in TrackedTrades : /\ \A i \in 1 .. Len(trades) : trades[i].id \notin {t.id} \ {NoId}
                              /\ trades' = Append(trades, t)
  /\ UNCHANGED <<listing, report, latched, stopSetting, auditing, breach>>

(* A new process: the latch and its settings are those of a fresh start. *)
RestartAuditor ==
  /\ auditing' = TRUE /\ latched' = FALSE /\ stopSetting' = FALSE
  /\ report' = "none" /\ breach' = "none"
  /\ UNCHANGED <<listing, trades>>

AuditNext == AuditPass \/ PositionAppears \/ PositionVanishes \/ TradeTracked \/ RestartAuditor

-----------------------------------------------------------------------------
TrackedIdsOn(known, s) == {n \in known : trades[n].symbol = s /\ trades[n].id # NoId}
OpenOn(s) == {k \in DOMAIN listing : listing[k].symbol = s}
CleanlyAudited(known) == Discrepancies(known) = {}
AuditedTrades == {Readable(ledgerFails) : ledgerFails \in BOOLEAN}

(* A clean audit hides no phantom: however the symbol fallback pairs       *)
(* positions and trades, and in whatever order the broker lists them, no   *)
(* symbol has more tracked ids than open positions, and every position is  *)
(* JQE's own and has a tracked trade of its symbol and side.  After an     *)
(* unclean audit the stop is latched and the loop has ended.               *)
CleanAuditAccounts ==
  /\ \A known \in AuditedTrades : CleanlyAudited(known) =>
       /\ \A s \in AuditSymbols :
            Cardinality(TrackedIdsOn(known, s)) <= Cardinality(OpenOn(s))
       /\ \A k \in DOMAIN listing :
            /\ listing[k].ours
            /\ \E n \in known : trades[n].symbol = listing[k].symbol /\ trades[n].side = listing[k].side
  /\ report = "unclean" => latched /\ stopSetting /\ ~auditing
=============================================================================
