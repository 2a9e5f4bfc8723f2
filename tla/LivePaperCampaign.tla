-------------------------- MODULE LivePaperCampaign --------------------------
(***************************************************************************)
(* run_live_campaign of tools/live_paper_campaign.py: sessions that watch  *)
(* closed candles of one symbol on a demo account, queue a strategy        *)
(* candidate at candle i, confirm it at i+1 and enter at i+2               *)
(* (HistoricalConfirmationState), and keep a position ledger that outlives *)
(* the session.  The ledger file and the one-order lifetime guard          *)
(* (SQLiteOneShotExecutionGuard) are shared by every session; candidates,  *)
(* intents and the sets of tracked positions are not.                      *)
(* A candle is its index, a position its ticket; ManualTickets are opened  *)
(* by hand and do not carry the campaign's magic number.                   *)
(***************************************************************************)
EXTENDS Integers, FiniteSets

CONSTANTS Sessions,       \* processes running a campaign on the account
          OrderTickets,   \* tickets the broker gives to campaign orders
          ManualTickets,  \* positions opened by hand on the same symbol
          MaxCampaignCandle

\* What the code and its configuration guarantee of these values.
CampaignAssumption == OrderTickets \cap ManualTickets = {} /\ MaxCampaignCandle \in Nat \ {0}

VARIABLES
  campaignTerminal,   \* "mt5" or "deriv": the gateway the campaign runs on
  newest,     \* index of the newest closed candle
  positions,  \* ticket -> what the broker has of it
  slotUsed,   \* execution_lifetime_counter.submissions of the account
  ledgerRow,  \* ticket -> state of its live_paper_positions row
  at,         \* session -> the step of its loop
  lastCandle, \* session -> last_candle_time
  pendingCandidate,  \* session -> confirmation.pending
  tracked,    \* session -> _open_trades
  own,        \* session -> _own_order_ids
  listed,     \* session -> tickets of the last listing it still uses
  inHand,     \* session -> ticket answered by the broker, not yet recorded
  excused,    \* history: open campaign tickets the code knows it can lose
  misread     \* history: a fill was looked up in a listing that lacked it

campaignVars == <<campaignTerminal, newest, positions, slotUsed, ledgerRow, at, lastCandle,
                  pendingCandidate, tracked, own, listed, inHand, excused, misread>>

Tickets == OrderTickets \cup ManualTickets
NoTicket == "none"
NoCandidate == [signal |-> 0, confirmed |-> FALSE]
Candidates == [signal : 0 .. MaxCampaignCandle, confirmed : BOOLEAN]
CampaignSteps == {"down", "recover", "poll", "entry", "submit", "send", "lookup", "monitor"}
OpenTickets == {t \in Tickets : positions[t] = "open"}

CampaignTypeOK ==
  /\ campaignTerminal \in {"mt5", "deriv"} /\ newest \in 1 .. MaxCampaignCandle
  /\ positions \in [Tickets -> {"none", "working", "open", "closed"}]
  /\ slotUsed \in 0 .. 1
  /\ ledgerRow \in [Tickets -> {"absent", "open", "closed"}]
  /\ at \in [Sessions -> CampaignSteps]
  /\ lastCandle \in [Sessions -> 0 .. MaxCampaignCandle]
  /\ pendingCandidate \in [Sessions -> Candidates]
  /\ tracked \in [Sessions -> SUBSET Tickets] /\ own \in [Sessions -> SUBSET Tickets]
  /\ listed \in [Sessions -> SUBSET Tickets]
  /\ inHand \in [Sessions -> OrderTickets \cup {NoTicket}]
  /\ excused \in SUBSET OrderTickets /\ misread \in BOOLEAN

CampaignInit ==
  /\ campaignTerminal \in {"mt5", "deriv"} /\ newest = 1
  /\ positions = [t \in Tickets |-> "none"] /\ slotUsed = 0
  /\ ledgerRow = [t \in Tickets |-> "absent"]
  /\ at = [s \in Sessions |-> "down"] /\ lastCandle = [s \in Sessions |-> 0]
  /\ pendingCandidate = [s \in Sessions |-> NoCandidate]
  /\ tracked = [s \in Sessions |-> {}] /\ own = [s \in Sessions |-> {}]
  /\ listed = [s \in Sessions |-> {}]
  /\ inHand = [s \in Sessions |-> NoTicket]
  /\ excused = {} /\ misread = FALSE

-----------------------------------------------------------------------------
(* What gateway.get_positions() may answer: the open positions, or, from a *)
(* terminal that answers None, nothing at all.  A raised error is read as  *)
(* an empty listing everywhere but at the start and after a fill.          *)
Listings == {OpenTickets, {}}

(* mark_closed: only a row that is still open. *)
ClosedRows(gone) == [t \in Tickets |-> IF t \in gone /\ ledgerRow[t] = "open"
                                         THEN "closed" ELSE ledgerRow[t]]

(* record_open: inserts the row or reopens it. *)
OpenedRows(new) == [t \in Tickets |-> IF t \in new THEN "open" ELSE ledgerRow[t]]

(* Campaign positions that a listing wrongly lacks lose their open row. *)
WronglyClosed(gone) == gone \cap OpenTickets \cap OrderTickets

CampaignGoto(s, step) == at' = [at EXCEPT ![s] = step]

(* A session begins with empty memory; it reads the open ledger rows before *)
(* it asks the broker.                                                      *)
StartSession(s) ==
  /\ at[s] = "down" /\ CampaignGoto(s, "recover")
  /\ listed' = [listed EXCEPT ![s] = {t \in Tickets : ledgerRow[t] = "open"}]
  /\ lastCandle' = [lastCandle EXCEPT ![s] = 0]
  /\ pendingCandidate' = [pendingCandidate EXCEPT ![s] = NoCandidate]
  /\ tracked' = [tracked EXCEPT ![s] = {}] /\ own' = [own EXCEPT ![s] = {}]
  /\ UNCHANGED <<campaignTerminal, newest, positions, slotUsed, ledgerRow, inHand, excused, misread>>

(* Startup recovery: rows absent at the broker are closed, rows present are *)
(* tracked again, and on MT5 a position with the campaign's magic number    *)
(* but no open row gets its row back.                                       *)
Rerecorded(s, seen) == IF campaignTerminal = "mt5" THEN (seen \ listed[s]) \cap OrderTickets ELSE {}

RecoverPositions(s) ==
  /\ at[s] = "recover" /\ CampaignGoto(s, "poll")
  /\ \E seen \in Listings :
       LET gone == listed[s] \ seen
           back == Rerecorded(s, seen)
           mine == (listed[s] \cap seen) \cup back
       IN  /\ ledgerRow' = [t \in Tickets |-> IF t \in back THEN "open" ELSE ClosedRows(gone)[t]]
           /\ tracked' = [tracked EXCEPT ![s] = mine]
           /\ own' = [own EXCEPT ![s] = mine]
           /\ excused' = (excused \cup WronglyClosed(gone)) \ back
  /\ listed' = [listed EXCEPT ![s] = {}]
  /\ UNCHANGED <<campaignTerminal, newest, positions, slotUsed, lastCandle, pendingCandidate,
                 inHand, misread>>

(* The startup query raised: the session goes on without any recovery. *)
RecoveryUnavailable(s) ==
  /\ at[s] = "recover" /\ CampaignGoto(s, "poll")
  /\ listed' = [listed EXCEPT ![s] = {}]
  /\ UNCHANGED <<campaignTerminal, newest, positions, slotUsed, ledgerRow, lastCandle,
                 pendingCandidate, tracked, own, inHand, excused, misread>>

-----------------------------------------------------------------------------
(* HistoricalConfirmationState.observe on a candle that closed in a regime *)
(* that does or does not pass, as [state, pending candidate afterwards].   *)
ObserveCandidate(c, candle, passes) ==
  CASE c = NoCandidate -> [state |-> "NO_PENDING_CANDIDATE", next |-> c]
    [] c # NoCandidate /\ candle <= c.signal -> [state |-> "PENDING_CONFIRMATION", next |-> c]
    [] c # NoCandidate /\ candle = c.signal + 1 ->
         (CASE c.confirmed -> [state |-> "DUPLICATE_CONFIRMATION_PREVENTED", next |-> c]
            [] ~c.confirmed /\ passes -> [state |-> "CONFIRMED", next |-> [c EXCEPT !.confirmed = TRUE]]
            [] OTHER -> [state |-> "CONFIRMATION_FAILED", next |-> NoCandidate])
    [] c # NoCandidate /\ candle > c.signal + 1 /\ ~c.confirmed ->
         [state |-> "INCOMPLETE_CONFIRMATION", next |-> NoCandidate]
    [] c.confirmed /\ candle > c.signal + 2 -> [state |-> "INCOMPLETE_ENTRY", next |-> NoCandidate]
    [] c.confirmed /\ candle = c.signal + 2 -> [state |-> "ENTRY_DUE", next |-> c]

(* HistoricalConfirmationState.queue, reached only when observe answered   *)
(* that nothing was pending or that the confirmation candle is still to    *)
(* come.                                                                   *)
QueueCandidate(t, candle, signal) ==
  IF t.state \in {"NO_PENDING_CANDIDATE", "PENDING_CONFIRMATION"}
       /\ t.next = NoCandidate /\ signal
    THEN [signal |-> candle, confirmed |-> FALSE] ELSE t.next

(* One pass of the loop over the newest closed candle, if it is new.  The  *)
(* candles in between are skipped when the session polled too late.  An    *)
(* entry that is due is no longer pending for confirmation; it is kept     *)
(* here until the entry branch has dealt with it.                          *)
PollCandle(s) ==
  /\ at[s] = "poll" /\ newest > lastCandle[s]
  /\ lastCandle' = [lastCandle EXCEPT ![s] = newest]
  /\ \E passes, signal \in BOOLEAN :
       LET t == ObserveCandidate(pendingCandidate[s], newest, passes)
       IN  /\ pendingCandidate' = [pendingCandidate EXCEPT ![s] = QueueCandidate(t, newest, signal)]
           /\ CampaignGoto(s, IF t.state = "ENTRY_DUE" THEN "entry" ELSE "monitor")
  /\ UNCHANGED <<campaignTerminal, newest, positions, slotUsed, ledgerRow, tracked, own, listed,
                 inHand, excused, misread>>

(* `continue` after the entry branch: the loop goes on without the close monitor. *)
EntryDone(s) == /\ CampaignGoto(s, "poll")
                /\ pendingCandidate' = [pendingCandidate EXCEPT ![s] = NoCandidate]
                /\ listed' = [listed EXCEPT ![s] = {}]

(* _OrderSpacingGuard.check_and_record refuses a submission that is too early. *)
SpacingRefused(s) ==
  /\ at[s] = "entry" /\ EntryDone(s)
  /\ UNCHANGED <<campaignTerminal, newest, positions, slotUsed, ledgerRow, lastCandle, tracked, own,
                 inHand, excused, misread>>

(* Tracked positions that the listing lacks are dropped and closed in the  *)
(* ledger; the limit of one own position, the duplicate-symbol rule and    *)
(* the sizing may refuse the entry.                                        *)
BlockedByOwn(s, seen) == seen \cap own[s] # {}

DropMissing(s, seen) ==
  LET gone == tracked[s] \ seen
  IN  /\ tracked' = [tracked EXCEPT ![s] = @ \cap seen]
      /\ ledgerRow' = ClosedRows(gone)
      /\ excused' = excused \cup WronglyClosed(gone)

PrepareEntry(s) ==
  /\ at[s] = "entry"
  /\ \E seen \in Listings :
       /\ DropMissing(s, seen)
       /\ \/ EntryDone(s)
          \/ /\ ~BlockedByOwn(s, seen) /\ CampaignGoto(s, "submit")
             /\ listed' = [listed EXCEPT ![s] = seen]
             /\ UNCHANGED pendingCandidate
  /\ UNCHANGED <<campaignTerminal, newest, positions, slotUsed, lastCandle, own, inHand, misread>>

(* Mutant: the row is written without looking at it. *)
ConsumeSlotBlindly == slotUsed' = 1

(* SQLiteOneShotExecutionGuard.consume: one transaction that raises once    *)
(* the slot is used and otherwise counts the submission.                    *)
ConsumeSlot == slotUsed = 0 /\ slotUsed' = 1

(* The executor's policy or the lifetime guard, its before_submit hook,     *)
(* stops the order.                                                         *)
SubmissionStopped(s) ==
  /\ at[s] = "submit" /\ EntryDone(s)
  /\ UNCHANGED <<campaignTerminal, newest, positions, slotUsed, ledgerRow, lastCandle, tracked, own,
                 inHand, excused, misread>>

SubmitCampaignOrder(s) ==
  /\ at[s] = "submit" /\ ConsumeSlot /\ CampaignGoto(s, "send")
  /\ UNCHANGED <<campaignTerminal, newest, positions, ledgerRow, lastCandle, pendingCandidate,
                 tracked, own, listed, inHand, excused, misread>>

(* The broker takes the order as filled or as pending, or refuses it; the   *)
(* answer may get lost (UNKNOWN), and a pending order is only announced.    *)
OrderFilled(s) ==
  /\ at[s] = "send"
  /\ \E t \in {x \in OrderTickets : positions[x] = "none"} :
       /\ positions' = [positions EXCEPT ![t] = "open"]
       /\ \/ /\ inHand' = [inHand EXCEPT ![s] = t] /\ CampaignGoto(s, "lookup")
             /\ UNCHANGED <<excused, pendingCandidate, listed>>
          \/ excused' = excused \cup {t} /\ EntryDone(s) /\ UNCHANGED inHand
  /\ UNCHANGED <<campaignTerminal, newest, slotUsed, ledgerRow, lastCandle, tracked, own, misread>>

OrderPending(s) ==
  /\ at[s] = "send"
  /\ \E t \in {x \in OrderTickets : positions[x] = "none"} :
       /\ positions' = [positions EXCEPT ![t] = "working"]
       /\ excused' = excused \cup {t}
  /\ EntryDone(s)
  /\ UNCHANGED <<campaignTerminal, newest, slotUsed, ledgerRow, lastCandle, tracked, own, inHand, misread>>

OrderRefused(s) ==
  /\ at[s] = "send" /\ EntryDone(s)
  /\ UNCHANGED <<campaignTerminal, newest, positions, slotUsed, ledgerRow, lastCandle, tracked, own,
                 inHand, excused, misread>>

(* The fill is looked up by its order id, else as the only position of the *)
(* symbol that was not there before; record_open follows the fill.  The    *)
(* listing may not show the fill yet.                                      *)
MatchedPosition(s, seen) ==
  IF inHand[s] \notin seen /\ Cardinality(seen \ listed[s]) = 1
    THEN CHOOSE t \in seen \ listed[s] : TRUE ELSE inHand[s]

RecordOpen(s) ==
  /\ at[s] = "lookup"
  /\ \E seen \in Listings \cup {OpenTickets \ {inHand[s]}} :
       LET t == MatchedPosition(s, seen)
       IN  /\ ledgerRow' = OpenedRows({t})
           /\ own' = [own EXCEPT ![s] = @ \cup {t}]
           /\ tracked' = [tracked EXCEPT ![s] = @ \cup {t}]
           /\ misread' = (misread \/ inHand[s] \notin seen)
           /\ excused' = IF t = inHand[s] THEN excused ELSE excused \cup {inHand[s]}
  /\ inHand' = [inHand EXCEPT ![s] = NoTicket]
  /\ EntryDone(s)
  /\ UNCHANGED <<campaignTerminal, newest, positions, slotUsed, lastCandle>>

(* The close monitor at the end of a pass. *)
MonitorCloses(s) ==
  /\ at[s] = "monitor" /\ CampaignGoto(s, "poll")
  /\ \E seen \in Listings : DropMissing(s, seen)
  /\ UNCHANGED <<campaignTerminal, newest, positions, slotUsed, lastCandle, pendingCandidate, own,
                 listed, inHand, misread>>

(* The session reaches its stop condition, raises or is killed; everything *)
(* it held in memory is gone, a fill it had not recorded too.               *)
SessionEnds(s) ==
  /\ at[s] # "down" /\ CampaignGoto(s, "down")
  /\ excused' = excused \cup ({inHand[s]} \cap OrderTickets)
  /\ inHand' = [inHand EXCEPT ![s] = NoTicket]
  /\ pendingCandidate' = [pendingCandidate EXCEPT ![s] = NoCandidate]
  /\ tracked' = [tracked EXCEPT ![s] = {}] /\ own' = [own EXCEPT ![s] = {}]
  /\ listed' = [listed EXCEPT ![s] = {}] /\ lastCandle' = [lastCandle EXCEPT ![s] = 0]
  /\ UNCHANGED <<campaignTerminal, newest, positions, slotUsed, ledgerRow, misread>>

(* External: the market and the broker. *)
CampaignCandleCloses ==
  /\ newest < MaxCampaignCandle /\ newest' = newest + 1
  /\ UNCHANGED <<campaignTerminal, positions, slotUsed, ledgerRow, at, lastCandle, pendingCandidate,
                 tracked, own, listed, inHand, excused, misread>>

PositionMoves(t) ==
  /\ \/ positions[t] = "none" /\ t \in ManualTickets /\ positions' = [positions EXCEPT ![t] = "open"]
     \/ positions[t] = "working" /\ positions' = [positions EXCEPT ![t] = "open"]
     \/ positions[t] = "open" /\ positions' = [positions EXCEPT ![t] = "closed"]
  /\ UNCHANGED <<campaignTerminal, newest, slotUsed, ledgerRow, at, lastCandle, pendingCandidate,
                 tracked, own, listed, inHand, excused, misread>>

CampaignNext ==
  \/ \E s \in Sessions :
       \/ StartSession(s) \/ RecoverPositions(s) \/ RecoveryUnavailable(s)
       \/ PollCandle(s) \/ SpacingRefused(s) \/ PrepareEntry(s) \/ SubmissionStopped(s)
       \/ SubmitCampaignOrder(s) \/ OrderFilled(s) \/ OrderPending(s) \/ OrderRefused(s)
       \/ RecordOpen(s) \/ MonitorCloses(s) \/ SessionEnds(s)
  \/ CampaignCandleCloses
  \/ \E t \in Tickets : PositionMoves(t)

CampaignSpec == CampaignInit /\ [][CampaignNext]_campaignVars

-----------------------------------------------------------------------------
Sent == {t \in OrderTickets : positions[t] # "none"}

(* The lifetime guard: however many sessions run, die and restart on the   *)
(* account, and whatever becomes of the order's answer, the campaign sends *)
(* at most one order, and it sends only at i+2 of a candidate i that its   *)
(* own session confirmed at i+1.                                           *)
OneLifetimeOrder ==
  /\ Cardinality(Sent) + Cardinality({s \in Sessions : at[s] = "send"}) <= 1
  /\ \A s \in Sessions : at[s] \in {"entry", "submit", "send", "lookup"} =>
       /\ pendingCandidate[s].confirmed
       /\ lastCandle[s] = pendingCandidate[s].signal + 2

(* The position ledger: an open campaign position has an open row, unless   *)
(* a session is about to write it or lost it in one of the ways the code   *)
(* admits (a lost or pending answer, a crash before record_open, an empty  *)
(* listing), and a restart on MT5 whose listing shows it brings its row    *)
(* back; a position opened by hand is only ever taken for the campaign's   *)
(* when the listing after a fill lacked the fill.                          *)
CampaignLedgerSound ==
  /\ \A t \in OrderTickets :
       positions[t] = "open" /\ ledgerRow[t] # "open" =>
         t \in excused \/ \E s \in Sessions : inHand[s] = t
  /\ misread \/ \A t \in ManualTickets : ledgerRow[t] = "absent"
=============================================================================
