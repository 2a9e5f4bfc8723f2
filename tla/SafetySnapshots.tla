---------------------------- MODULE SafetySnapshots ----------------------------
(***************************************************************************)
(* The two latest-observation rows of state/execution_safety.sqlite3: the  *)
(* risk row and the safety row (execution/safety.py), written by the       *)
(* durable cycle (main.py, run) and by the read-only preflight             *)
(* (tools/evaluate_execution_safety.py), and what the HTTP API answers     *)
(* from them (api/service.py).                                             *)
(*                                                                         *)
(* Every publish is a transaction of its own, so the two rows come from    *)
(* different moments, a preflight may publish between two publishes of a   *)
(* cycle, and the cycle may die after any of them.  The balances and the   *)
(* texts of the rows are left out; a row keeps the cycle that wrote it     *)
(* (0 for a preflight) so that a stale approval can be told from a current *)
(* one.                                                                    *)
(***************************************************************************)
EXTENDS Naturals

CONSTANTS
    MaxCycles,        \* bound on the cycles started
    MaxWall,          \* bound on the wall clock
    FreshFor,         \* risk_ and execution_safety_freshness_seconds
    SnapshotAccounts  \* account ids the settings may name

\* What the code and its configuration guarantee of these values.
SnapshotAssumption == {MaxCycles, MaxWall, FreshFor} \subseteq Nat

VARIABLES
    wall,        \* the UTC clock of the machine
    snapshotLogin,       \* the account the settings name
    cycleNo,     \* cycles started so far; the last one may be under way
    cycleAt,     \* where that cycle stands
    riskRow, safetyRow,
    unresolved,  \* a PENDING or UNKNOWN intent is in the intent store
    halted,      \* a post-fill integrity halt is recorded
    accepted,    \* cycles whose order the broker accepted
    preflight    \* the preflight: idle, or what it has still to publish

snapshotVars == <<wall, snapshotLogin, cycleNo, cycleAt, riskRow, safetyRow, unresolved,
                  halted, accepted, preflight>>
snapshotRows == <<riskRow, safetyRow>>

NoSnapshotRow == [state |-> "NONE", cycle |-> 0, account |-> "none", quantity |-> FALSE, at |-> 0]
Stages == {"idle", "reset", "connected", "analysed", "sized", "unsized", "submitting", "answered",
           "observing"}

SnapshotInit ==
    /\ wall = 0 /\ snapshotLogin \in SnapshotAccounts
    /\ cycleNo = 0 /\ cycleAt = "idle"
    /\ riskRow = NoSnapshotRow /\ safetyRow = NoSnapshotRow
    /\ unresolved = FALSE /\ halted = FALSE /\ accepted = {}
    /\ preflight = [at |-> "idle", account |-> "none"]

\* RiskAuthorizationSnapshot: only an authorized row exposes a quantity.
RiskRow(state, cycle, quantity) ==
    [state |-> state, cycle |-> cycle, at |-> wall,
     account |-> IF state \in {"AUTHORIZED", "BLOCKED"} THEN snapshotLogin ELSE "none",
     quantity |-> quantity /\ state = "AUTHORIZED"]

SafetyRow(state, cycle) ==
    [state |-> state, cycle |-> cycle, account |-> "none", quantity |-> FALSE, at |-> wall]

PublishRisk(state, quantity) ==
    riskRow' = RiskRow(state, cycleNo, quantity) /\ UNCHANGED safetyRow
PublishSafety(state) ==
    safetyRow' = SafetyRow(state, cycleNo) /\ UNCHANGED riskRow

Stage(from, to) == cycleAt = from /\ cycleAt' = to
Outside == UNCHANGED <<wall, snapshotLogin, preflight>>

\* publish_risk(NOT_EVALUATED): the first thing a cycle does.
BeginCycle ==
    /\ Stage("idle", "reset") /\ cycleNo < MaxCycles
    /\ cycleNo' = cycleNo + 1
    /\ riskRow' = RiskRow("NOT_EVALUATED", cycleNo + 1, FALSE) /\ UNCHANGED safetyRow
    /\ UNCHANGED <<unresolved, halted, accepted>> /\ Outside

ResetSafety ==
    /\ Stage("reset", "connected")
    /\ PublishSafety("NOT_EVALUATED")
    /\ UNCHANGED <<cycleNo, unresolved, halted, accepted>> /\ Outside

\* A recorded halt raises at once; otherwise startup recovery may settle the
\* unresolved intent, and one that remains blocks the cycle.
RecoverAtStart ==
    /\ cycleAt = "connected"
    /\ \/ /\ halted
          /\ cycleAt' = "idle" /\ UNCHANGED <<unresolved, snapshotRows>>
       \/ /\ ~halted /\ unresolved' \in {unresolved, FALSE}
          /\ \/ unresolved' /\ cycleAt' = "idle" /\ PublishSafety("BLOCKED")
             \/ ~unresolved' /\ cycleAt' = "analysed" /\ UNCHANGED snapshotRows
    /\ UNCHANGED <<cycleNo, halted, accepted>> /\ Outside

\* The risk engine refuses; or the plan lacks its levels, which is authorized
\* without a quantity; or the broker's sizing yields one or not.
EvaluateRisk ==
    /\ cycleAt = "analysed"
    /\ \/ cycleAt' = "idle" /\ PublishRisk("BLOCKED", FALSE)
       \/ cycleAt' = "idle" /\ PublishRisk("AUTHORIZED", FALSE)
       \/ cycleAt' = "unsized" /\ PublishRisk("AUTHORIZED", FALSE)
       \/ cycleAt' = "sized" /\ PublishRisk("AUTHORIZED", TRUE)
    /\ UNCHANGED <<cycleNo, unresolved, halted, accepted>> /\ Outside

\* The intent is already on record: the cycle reconciles it and publishes nothing.
AlreadyOnRecord ==
    /\ cycleAt \in {"sized", "unsized"} /\ cycleAt' = "idle"
    /\ UNCHANGED <<cycleNo, snapshotRows, unresolved, halted, accepted>> /\ Outside

\* executor.submit up to before_submit: the policy refuses (always, without a
\* verified quantity) or the instrument's daily cap is reached; or the
\* submission start is counted and published.
DecideSubmission ==
    /\ \/ /\ cycleAt \in {"sized", "unsized"} /\ cycleAt' = "idle"
          /\ PublishSafety("BLOCKED")
       \/ Stage("sized", "submitting") /\ PublishSafety("NOT_EVALUATED")
    /\ UNCHANGED <<cycleNo, unresolved, halted, accepted>> /\ Outside

\* The claim, the broker call and the transition of the record.
SubmitIntent ==
    /\ Stage("submitting", "answered")
    /\ \/ unresolved' = FALSE /\ accepted' = accepted \cup {cycleNo}
       \/ unresolved' = FALSE /\ UNCHANGED accepted
       \/ unresolved' = TRUE /\ UNCHANGED accepted
    /\ UNCHANGED <<cycleNo, snapshotRows, halted>> /\ Outside

\* publish_submission_result.
ResultState ==
    IF cycleNo \in accepted THEN "AUTHORIZED" ELSE IF unresolved THEN "UNKNOWN" ELSE "BLOCKED"
PublishResult ==
    /\ cycleAt = "answered"
    /\ PublishSafety(ResultState)
    /\ cycleAt' = IF cycleNo \in accepted THEN "observing" ELSE "idle"
    /\ UNCHANGED <<cycleNo, unresolved, halted, accepted>> /\ Outside

\* _observe_confirmed_weltrade_fill: a fill that cannot be verified records
\* the halt and then publishes BLOCKED.
ObserveFill ==
    /\ Stage("observing", "idle")
    /\ \/ UNCHANGED <<snapshotRows, halted>>
       \/ halted' = TRUE /\ PublishSafety("BLOCKED")
    /\ UNCHANGED <<cycleNo, unresolved, accepted>> /\ Outside

\* The process dies, or an exception ends the cycle; a death inside the
\* broker call leaves the intent unresolved.
CycleDies ==
    /\ cycleAt # "idle" /\ cycleAt' = "idle"
    /\ unresolved' \in IF cycleAt = "submitting" THEN BOOLEAN ELSE {unresolved}
    /\ halted' \in IF cycleAt = "observing" THEN BOOLEAN ELSE {halted}
    /\ UNCHANGED <<cycleNo, snapshotRows, accepted>> /\ Outside

\* _publish_evidence: never an authorization; the account is known only when
\* the terminal could be read and verified.
PublishPreflightSafety ==
    /\ preflight.at = "idle"
    /\ \E known \in {"none", snapshotLogin} : preflight' = [at |-> "risk", account |-> known]
    /\ safetyRow' = SafetyRow("BLOCKED", 0)
    /\ UNCHANGED <<wall, snapshotLogin, cycleNo, cycleAt, riskRow, unresolved, halted, accepted>>

PublishPreflightRisk ==
    /\ preflight.at = "risk"
    /\ preflight' = [at |-> "idle", account |-> "none"]
    /\ riskRow' = RiskRow(IF preflight.account = "none" THEN "UNKNOWN" ELSE "BLOCKED", 0, FALSE)
    /\ UNCHANGED <<wall, snapshotLogin, cycleNo, cycleAt, safetyRow, unresolved, halted, accepted>>

\* External: time passes; the operator points the settings at another account
\* while nothing runs.
WallTicks ==
    /\ wall < MaxWall /\ wall' = wall + 1
    /\ UNCHANGED <<snapshotLogin, cycleNo, cycleAt, riskRow, safetyRow, unresolved, halted, accepted,
                   preflight>>
SettingsChange ==
    /\ cycleAt = "idle" /\ preflight.at = "idle"
    /\ snapshotLogin' \in SnapshotAccounts \ {snapshotLogin}
    /\ UNCHANGED <<wall, cycleNo, cycleAt, riskRow, safetyRow, unresolved, halted, accepted,
                   preflight>>

SnapshotNext ==
    \/ BeginCycle \/ ResetSafety \/ RecoverAtStart \/ EvaluateRisk \/ AlreadyOnRecord
    \/ DecideSubmission \/ SubmitIntent \/ PublishResult \/ ObserveFill \/ CycleDies
    \/ PublishPreflightSafety \/ PublishPreflightRisk \/ WallTicks \/ SettingsChange

SnapshotSpec == SnapshotInit /\ [][SnapshotNext]_snapshotVars

(***************************************************************************)
(* What the API would answer now                                           *)
(***************************************************************************)
\* get_risk_status.
RiskStatus ==
    CASE riskRow.state = "NONE" -> "NOT_OBSERVED"
      [] riskRow.state \in {"AUTHORIZED", "BLOCKED"} /\ riskRow.account # snapshotLogin ->
            "CONTEXT_MISMATCH"
      [] OTHER -> IF wall - riskRow.at > FreshFor THEN "STALE"
                  ELSE IF riskRow.state \in {"NOT_EVALUATED", "UNKNOWN"} THEN "UNAVAILABLE"
                  ELSE "FRESH"
RiskApproved == RiskStatus = "FRESH" /\ riskRow.state = "AUTHORIZED"

\* get_execution_safety.
SafetyAuthorized ==
    safetyRow.state = "AUTHORIZED" /\ wall - safetyRow.at <= FreshFor

\* get_recovery_diagnostics.
DiagnosticsStatus == IF unresolved THEN "BLOCKED" ELSE "CLEAR"

(***************************************************************************)
(* Properties                                                              *)
(***************************************************************************)
Rows ==
    [state : {"NONE", "AUTHORIZED", "BLOCKED", "NOT_EVALUATED", "UNKNOWN"},
     cycle : 0 .. MaxCycles, account : SnapshotAccounts \cup {"none"}, quantity : BOOLEAN,
     at : 0 .. MaxWall]

SnapshotTypeOK ==
    /\ wall \in 0 .. MaxWall /\ snapshotLogin \in SnapshotAccounts
    /\ cycleNo \in 0 .. MaxCycles /\ cycleAt \in Stages
    /\ riskRow \in Rows /\ safetyRow \in Rows
    /\ unresolved \in BOOLEAN /\ halted \in BOOLEAN /\ accepted \subseteq 1 .. MaxCycles
    /\ preflight \in [at : {"idle", "risk"}, account : SnapshotAccounts \cup {"none"}]

(* An approval the API reports is not left over from an earlier            *)
(* evaluation: approved risk was authorized in the last cycle started, for *)
(* the account the settings name; AUTHORIZED safety means that the broker  *)
(* accepted the order of the cycle that wrote it and that the recovery     *)
(* diagnostics show no unresolved intent, and no later cycle has evaluated *)
(* its risk (one that dies between its first two publishes leaves the old  *)
(* AUTHORIZED beside its own NOT_EVALUATED).                               *)
ApprovalsAreCurrent ==
    /\ RiskApproved =>
          riskRow.cycle = cycleNo /\ riskRow.account = snapshotLogin
          /\ cycleAt \notin {"reset", "connected", "analysed"}
    /\ SafetyAuthorized =>
          /\ safetyRow.cycle \in accepted /\ DiagnosticsStatus = "CLEAR"
          /\ riskRow.cycle > safetyRow.cycle => riskRow.state = "NOT_EVALUATED"
=============================================================================
