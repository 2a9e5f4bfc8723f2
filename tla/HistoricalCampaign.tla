--------------------------- MODULE HistoricalCampaign ---------------------------
(***************************************************************************)
(* A historical paper campaign (tools/paper_campaign.py): the candles of a *)
(* fixed dataset pass one by one through the paper runtime; a candidate    *)
(* signalled at candle i must be confirmed at exactly i+1 and enters at    *)
(* exactly i+2 (research/historical_confirmation.py).  Every candle leaves *)
(* a diagnostics record (research/paper_diagnostics.py), every step of a   *)
(* candidate an evidence event, sealed at the end                          *)
(* (research/campaign_provenance.py).                                      *)
(*                                                                         *)
(* The process may die between any two commits and be started again, with  *)
(* or without --resume.  Diagnostics, evidence, the confirmation file, the *)
(* runtime's observation row and its heartbeat are on disk; the engine's   *)
(* positions and the facts of the last decision are not.                   *)
(***************************************************************************)
EXTENDS Naturals, Sequences, FiniteSets

CONSTANTS
    Datasets,         \* increasing sequences of candle times; a skipped time is a gap
    CodeVersions,     \* what the research fingerprint may come out as
    MaxFailures       \* bound on deaths and raised errors

\* What the code and its configuration guarantee of these values.
HistoricalAssumption ==
    /\ MaxFailures \in Nat
    /\ Datasets \subseteq Seq(Nat \ {0})
    /\ \A s \in Datasets : \A i, j \in DOMAIN s : i < j => s[i] < s[j]

VARIABLES
    series,           \* the dataset
    signalled,        \* candles at which the strategy signals
    passing,          \* candles whose regime confirms
    code,             \* the code and configuration on disk
    diagnostics,      \* [status, records]; records: candle -> the signal it reports
    sealed,           \* campaign evidence: [status, fingerprint]
    events,           \* campaign evidence events, in order
    confirmFile,      \* the saved pending candidate, NoPending or Absent
    obsRow,           \* the runtime's observation row: [at, state]
    openBeat,         \* open positions in the durable heartbeat
    summaryOut,       \* the summary: "none" or "published"
    proc,             \* the process: [stage, next, pending, signal, action, entry, position, done]
    failures,
    decidedUnder      \* fingerprints under which candles were decided

historicalVars == <<series, signalled, passing, code, diagnostics, sealed, events, confirmFile,
                    obsRow, openBeat, summaryOut, proc, failures, decidedUnder>>
durable == <<diagnostics, sealed, events, confirmFile, obsRow, openBeat, summaryOut>>
inputs == <<series, signalled, passing, code>>

NoPending == [signal |-> 0, confirmed |-> FALSE]
Absent == [signal |-> 0, confirmed |-> TRUE]
NoSignal == FALSE
NoProcess == [stage |-> "down", next |-> 0, pending |-> NoPending, signal |-> NoSignal,
              action |-> "NONE", entry |-> 0, position |-> 0, closed |-> FALSE]

HistoricalInit ==
    /\ series \in Datasets
    /\ \E s, p \in [DOMAIN series -> BOOLEAN] :
          /\ signalled = {series[i] : i \in {j \in DOMAIN series : s[j]}}
          /\ passing = {series[i] : i \in {j \in DOMAIN series : p[j]}}
    /\ code = CHOOSE v \in CodeVersions : TRUE
    /\ diagnostics = [status |-> "NONE", records |-> [k \in {} |-> FALSE]]
    /\ sealed = [status |-> "NONE", fingerprint |-> code]
    /\ events = <<>> /\ confirmFile = Absent
    /\ obsRow = [at |-> 0, state |-> "COMPLETE"] /\ openBeat = 0
    /\ summaryOut = "none" /\ proc = NoProcess
    /\ failures = 0 /\ decidedUnder = {}

Candle == series[proc.next]
Event(type, candidate, at) == [type |-> type, candidate |-> candidate, at |-> at]

---------------------------------------------------------------------------
(* HistoricalConfirmationState.                                            *)

\* observe: what a candle makes of the pending candidate, and what stays pending.
Observe(pending, t) ==
    CASE pending = NoPending -> [state |-> "NO_PENDING", left |-> NoPending]
      [] pending # NoPending /\ t > pending.signal + 1 /\ ~pending.confirmed ->
            [state |-> "INCOMPLETE_CONFIRMATION", left |-> NoPending]
      [] pending # NoPending /\ t = pending.signal + 1 ->
            IF pending.confirmed THEN [state |-> "DUPLICATE", left |-> pending]
            ELSE IF t \in passing
            THEN [state |-> "CONFIRMED", left |-> [signal |-> pending.signal, confirmed |-> TRUE]]
            ELSE [state |-> "CONFIRMATION_FAILED", left |-> NoPending]
      [] pending # NoPending /\ pending.confirmed /\ t > pending.signal + 2 ->
            [state |-> "INCOMPLETE_ENTRY", left |-> NoPending]
      [] pending # NoPending /\ pending.confirmed /\ t = pending.signal + 2 ->
            [state |-> "ENTRY_DUE", left |-> NoPending]
      [] OTHER -> [state |-> "PENDING", left |-> pending]

---------------------------------------------------------------------------
(* The process.                                                            *)

\* Mutant: the fingerprint on record is not compared.
MayStartAnyCode(resume) ==
    /\ proc = NoProcess
    /\ diagnostics.status # "COMPLETED"
    /\ resume => diagnostics.status # "NONE" /\ confirmFile # Absent
    /\ sealed.status # "COMPLETED"

\* run_campaign up to its loop.  Refused: a completed session, a resume of none,
\* another fingerprint, sealed evidence; a heartbeat with open positions fails it.
MayStart(resume) ==
    /\ proc = NoProcess
    /\ diagnostics.status # "COMPLETED"
    /\ resume => diagnostics.status # "NONE" /\ confirmFile # Absent
    /\ sealed.status # "COMPLETED"
    /\ sealed.status # "NONE" => sealed.fingerprint = code

StartCampaign(resume) ==
    /\ MayStart(resume) /\ openBeat = 0
    /\ sealed' = [status |-> "RUNNING", fingerprint |-> code]
    /\ diagnostics' = [diagnostics EXCEPT !.status = IF @ = "NONE" THEN "RUNNING" ELSE @]
    /\ confirmFile' = IF resume THEN confirmFile ELSE NoPending
    /\ proc' = [NoProcess EXCEPT !.stage = "claim", !.pending = confirmFile',
                                 !.next = Cardinality(DOMAIN diagnostics.records) + 1]
    /\ UNCHANGED <<inputs, events, obsRow, openBeat, summaryOut, failures, decidedUnder>>

StartBlocked(resume) ==
    /\ MayStart(resume) /\ openBeat > 0 /\ failures < MaxFailures
    /\ failures' = failures + 1
    /\ sealed' = [status |-> "RUNNING", fingerprint |-> code]
    /\ diagnostics' = [diagnostics EXCEPT !.status = "FAILED"]
    /\ confirmFile' = IF resume THEN confirmFile ELSE NoPending
    /\ UNCHANGED <<inputs, events, obsRow, openBeat, summaryOut, proc, decidedUnder>>

\* run_once up to the claim.  A row still PROCESSING is an error of every later
\* cycle and a repeated candle is ignored: both leave the facts as they were.
ClaimCandle ==
    /\ proc.stage = "claim" /\ proc.next <= Len(series)
    /\ IF obsRow.state = "PROCESSING" \/ Candle <= obsRow.at
       THEN /\ proc' = [proc EXCEPT !.stage = "record", !.action = "IGNORED", !.closed = FALSE]
            /\ UNCHANGED obsRow
       ELSE /\ obsRow' = [at |-> Candle, state |-> "PROCESSING"]
            /\ \E out \in {FALSE, proc.position # 0} :
                  proc' = [proc EXCEPT !.stage = "decide", !.closed = out]
    /\ UNCHANGED <<inputs, diagnostics, sealed, events, confirmFile, openBeat, summaryOut,
                   failures, decidedUnder>>

\* decide: the evidence of a new candidate, of what became of the pending one, and
\* of an entry that is due; then the candidate is queued if none was pending.
Decide ==
    LET seen == Observe(proc.pending, Candle)
        new == Candle \in signalled
        due == seen.state = "ENTRY_DUE"
        queues == new /\ proc.pending = NoPending
        c == proc.pending.signal
    IN /\ proc.stage = "decide"
       /\ events' = events
            \o (IF new THEN <<Event(IF queues THEN "CANDIDATE" ELSE "OVERLAP", Candle, Candle)>> ELSE <<>>)
            \o (IF seen.state \in {"CONFIRMED", "CONFIRMATION_FAILED"} THEN <<Event(seen.state, c, Candle)>>
                ELSE IF seen.state \in {"INCOMPLETE_CONFIRMATION", "INCOMPLETE_ENTRY", "ENTRY_DUE", "DUPLICATE"}
                THEN <<Event("DISPOSITION", c, Candle)>> ELSE <<>>)
            \o (IF due THEN <<Event("ENTRY", c, Candle), Event("RISK", c, Candle)>> ELSE <<>>)
       /\ proc' = [proc EXCEPT !.stage = "save", !.signal = new, !.entry = IF due THEN c ELSE 0,
                               !.pending = IF queues THEN [signal |-> Candle, confirmed |-> FALSE]
                                                     ELSE seen.left]
       /\ decidedUnder' = decidedUnder \cup {code}
       /\ UNCHANGED <<inputs, diagnostics, sealed, confirmFile, obsRow, openBeat, summaryOut, failures>>

SavePending ==
    /\ proc.stage = "save"
    /\ confirmFile' = proc.pending
    /\ proc' = [proc EXCEPT !.stage = "submit"]
    /\ UNCHANGED <<inputs, diagnostics, sealed, events, obsRow, openBeat, summaryOut, failures,
                   decidedUnder>>

\* The entry, unless risk made none: blocked by an open position or the venue, or
\* opened.  Then the row is complete.
SubmitCandidate ==
    /\ proc.stage = "submit"
    /\ LET held == IF proc.closed THEN 0 ELSE proc.position IN
       \E action \in IF proc.entry = 0 THEN {"NONE"}
                     ELSE IF held # 0 THEN {"NONE", "BLOCKED"} ELSE {"NONE", "BLOCKED", "OPENED"} :
          proc' = [proc EXCEPT !.stage = "publish", !.action = action,
                               !.position = IF action = "OPENED" THEN proc.entry ELSE held]
    /\ obsRow' = [obsRow EXCEPT !.state = "COMPLETE"]
    /\ UNCHANGED <<inputs, diagnostics, sealed, events, confirmFile, openBeat, summaryOut, failures,
                   decidedUnder>>

PublishBeat ==
    /\ proc.stage = "publish"
    /\ openBeat' = IF proc.position = 0 THEN 0 ELSE 1
    /\ proc' = [proc EXCEPT !.stage = "record"]
    /\ UNCHANGED <<inputs, diagnostics, sealed, events, confirmFile, obsRow, summaryOut, failures,
                   decidedUnder>>

\* PaperDiagnosticsStore.append: INSERT OR IGNORE.
AppendedRecord(records, k, signal) ==
    [c \in DOMAIN records \cup {k} |-> IF c \in DOMAIN records THEN records[c] ELSE signal]

\* _record and append: what the facts of this cycle say.
AppendRecord ==
    /\ proc.stage = "record"
    /\ diagnostics' = [diagnostics EXCEPT !.records = AppendedRecord(@, Candle, proc.signal)]
    /\ proc' = [proc EXCEPT !.stage = "tell"]
    /\ UNCHANGED <<inputs, sealed, events, confirmFile, obsRow, openBeat, summaryOut, failures,
                   decidedUnder>>

\* The evidence of the policy, of an opened and of a closed position.
TellPosition ==
    /\ proc.stage = "tell"
    /\ events' = events
         \o (CASE proc.action = "OPENED" -> <<Event("POLICY", proc.entry, Candle), Event("OPENED", proc.entry, Candle)>>
               [] proc.action = "BLOCKED" -> <<Event("POLICY", proc.entry, Candle)>>
               [] OTHER -> <<>>)
         \o (IF proc.closed THEN <<Event("CLOSED", 0, Candle)>> ELSE <<>>)
    /\ proc' = [proc EXCEPT !.stage = "claim", !.next = @ + 1, !.action = "NONE", !.closed = FALSE]
    /\ UNCHANGED <<inputs, diagnostics, sealed, confirmFile, obsRow, openBeat, summaryOut, failures,
                   decidedUnder>>

\* decide or the venue raises: run_once reports ERROR, the row stays PROCESSING.
CycleRaises ==
    /\ proc.stage \in {"decide", "save", "submit"} /\ failures < MaxFailures
    /\ failures' = failures + 1
    /\ proc' = [proc EXCEPT !.stage = "record", !.action = "NONE",
                            !.position = IF proc.closed THEN 0 ELSE proc.position]
    /\ UNCHANGED <<inputs, durable, decidedUnder>>

\* After the last candle: a pending candidate is disposed of at the boundary.
FinishCandidates ==
    /\ proc.stage = "claim" /\ proc.next > Len(series)
    /\ events' = IF proc.pending = NoPending THEN events
                 ELSE Append(events, Event("DISPOSITION", proc.pending.signal, series[Len(series)]))
    /\ confirmFile' = NoPending
    /\ proc' = [proc EXCEPT !.stage = "seal", !.pending = NoPending]
    /\ UNCHANGED <<inputs, diagnostics, sealed, obsRow, openBeat, summaryOut, failures, decidedUnder>>

Seal ==
    /\ proc.stage = "seal"
    /\ sealed' = [sealed EXCEPT !.status = "COMPLETED"]
    /\ proc' = [proc EXCEPT !.stage = "finish"]
    /\ UNCHANGED <<inputs, diagnostics, events, confirmFile, obsRow, openBeat, summaryOut, failures,
                   decidedUnder>>

FinishSession ==
    /\ proc.stage = "finish"
    /\ diagnostics' = [diagnostics EXCEPT !.status = "COMPLETED"]
    /\ proc' = [proc EXCEPT !.stage = "replace"]
    /\ UNCHANGED <<inputs, sealed, events, confirmFile, obsRow, openBeat, summaryOut, failures,
                   decidedUnder>>

PublishSummary ==
    /\ proc.stage = "replace"
    /\ summaryOut' = "published" /\ proc' = NoProcess
    /\ UNCHANGED <<inputs, diagnostics, sealed, events, confirmFile, obsRow, openBeat, failures,
                   decidedUnder>>

\* Killed; or stopped by an error outside run_once, which marks the session FAILED.
CampaignDies ==
    /\ proc # NoProcess /\ failures < MaxFailures
    /\ failures' = failures + 1
    /\ proc' = NoProcess
    /\ \/ UNCHANGED diagnostics
       \/ diagnostics' = [diagnostics EXCEPT !.status = "FAILED"]
    /\ UNCHANGED <<inputs, sealed, events, confirmFile, obsRow, openBeat, summaryOut, decidedUnder>>

CodeChanges ==
    /\ proc = NoProcess /\ failures > 0
    /\ code' \in CodeVersions \ {code}
    /\ UNCHANGED <<series, signalled, passing, durable, proc, failures, decidedUnder>>

HistoricalNext ==
    \/ \E resume \in BOOLEAN : StartCampaign(resume) \/ StartBlocked(resume)
    \/ ClaimCandle \/ Decide \/ SavePending \/ SubmitCandidate \/ PublishBeat \/ AppendRecord
    \/ TellPosition \/ CycleRaises \/ FinishCandidates \/ Seal \/ FinishSession \/ PublishSummary
    \/ CampaignDies \/ CodeChanges

---------------------------------------------------------------------------
(* Properties.                                                             *)

HistoricalTypeOK ==
    /\ diagnostics.status \in {"NONE", "RUNNING", "FAILED", "COMPLETED"}
    /\ DOMAIN diagnostics.records \subseteq {series[i] : i \in DOMAIN series}
    /\ sealed.status \in {"NONE", "RUNNING", "COMPLETED"}
    /\ obsRow.state \in {"PROCESSING", "COMPLETE"} /\ openBeat \in 0 .. 1

Occurs(type, c, at) == \E i \in DOMAIN events : events[i] = Event(type, c, at)
Before(a, b) == \E i, j \in DOMAIN events : i < j /\ events[i] = a /\ events[j] = b

\* Through crashes, resumes and plain restarts: an entry is only ever for a candidate
\* confirmed at the very next candle and made at the one after it, nothing is said
\* of a candidate twice (save its end, when the process died between the event and
\* the saved file), and an opened position has its entry and policy on record.
CandidatesInOrder ==
    /\ \A i, j \in DOMAIN events :
          i # j /\ events[i] = events[j] => events[i].type = "DISPOSITION" /\ failures > 0
    /\ \A i \in DOMAIN events :
          LET e == events[i] c == e.candidate IN
          /\ e.type = "ENTRY" =>
                /\ e.at = c + 2 /\ c + 1 \in passing
                /\ Before(Event("CANDIDATE", c, c), Event("CONFIRMED", c, c + 1))
                /\ Before(Event("CONFIRMED", c, c + 1), e)
          /\ e.type = "OPENED" =>
                Before(Event("ENTRY", c, e.at), e) /\ Before(Event("POLICY", c, e.at), e)

\* A published summary is of a completed session, that of sealed evidence with a
\* record of every candle, all decided under one fingerprint; and if nothing failed on
\* the way, every record is of its own candle and every candidate came to one end.
SummariesAreComplete ==
    /\ summaryOut = "published" => diagnostics.status = "COMPLETED"
    /\ diagnostics.status = "COMPLETED" =>
          sealed.status = "COMPLETED" /\ DOMAIN diagnostics.records = {series[i] : i \in DOMAIN series}
    /\ Cardinality(decidedUnder) <= 1
    /\ diagnostics.status = "COMPLETED" /\ failures = 0 =>
          /\ \A k \in DOMAIN diagnostics.records : diagnostics.records[k] = (k \in signalled)
          /\ \A i \in DOMAIN events : events[i].type = "CANDIDATE" =>
                Cardinality({j \in DOMAIN events : events[j].candidate = events[i].candidate
                    /\ events[j].type \in {"CONFIRMATION_FAILED", "DISPOSITION"}}) = 1

HistoricalSound == CandidatesInOrder /\ SummariesAreComplete
=============================================================================
