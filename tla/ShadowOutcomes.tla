----------------------------- MODULE ShadowOutcomes -----------------------------
(***************************************************************************)
(* Shadow outcomes: plans are resolved against recorded prices and the     *)
(* result is kept per source and plan (research/shadow_outcomes.py,        *)
(* tools/run_shadow_outcomes.py, research/shadow_history.py).  The "live"  *)
(* source reads the terminal, the forming bar included, drills into the    *)
(* minute bars of a bar and into ticks when both barriers were met; the    *)
(* "replay" source reads whole closed bars from the cache.  The tool and   *)
(* the daily resolver of the observation supervisor may run at once.       *)
(*                                                                         *)
(* Prices are reduced to what a plan can tell apart: a minute bar meets    *)
(* the plan's stop, its target, both (and then one of them first), neither *)
(* or has no spread (then its bar has none either: a bar carries the       *)
(* spread of its first minute).  A bar is BarLength minutes, time is       *)
(* counted in minutes, a plan is for the close of a bar.                   *)
(***************************************************************************)
EXTENDS Naturals, Sequences, FiniteSets

CONSTANTS
    BarLength,        \* minute bars per bar
    HorizonBars,      \* horizon_bars of a plan
    MaxMinutes,       \* bound on the recorded history
    OutcomeResolvers         \* processes that may run the resolver

\* What the code and its configuration guarantee of these values.
ShadowAssumption == {BarLength, HorizonBars, MaxMinutes} \subseteq Nat \ {0}

VARIABLES
    minutes,          \* recorded minute bars
    plans,            \* persisted plans: [close, valid]; close counts bars
    book,             \* shadow_outcomes: <<source, plan>> -> outcome
    resolved,         \* resolver -> what it is about to write
    crossed           \* a resolver wrote while another one was between read and write

shadowVars == <<minutes, plans, book, resolved, crossed>>

MinuteKinds ==
    {[hit |-> h, first |-> "none"] : h \in {"none", "stop", "target", "unknown"}}
    \cup {[hit |-> "both", first |-> f] : f \in {"stop", "target"}}
Sources == {"live", "replay"}
NothingResolved == [k \in {} |-> "UNRESOLVED"]
Decided == {"TP", "SL"}

ShadowInit ==
    /\ minutes = <<>> /\ plans = {}
    /\ book = NothingResolved
    /\ resolved = [r \in OutcomeResolvers |-> NothingResolved]
    /\ crossed = FALSE

---------------------------------------------------------------------------
(* Bars.                                                                   *)

ClosedBars == Len(minutes) \div BarLength
TerminalBars == (Len(minutes) + BarLength - 1) \div BarLength
MinutesOf(bar) == {i \in DOMAIN minutes : (i - 1) \div BarLength = bar - 1}

\* _triggered over a set of minutes: a bar without spread cannot be judged.
HitOf(ms) ==
    LET hits == {minutes[i].hit : i \in ms}
    IN CASE "unknown" \in hits -> "unknown"
         [] "unknown" \notin hits /\ ("both" \in hits \/ {"stop", "target"} \subseteq hits) -> "both"
         [] OTHER -> CASE "stop" \in hits -> "stop" [] "target" \in hits -> "target"
                       [] OTHER -> "none"

Earliest(ms) == CHOOSE i \in ms : \A j \in ms : i <= j

\* The ticks of a stretch of minutes: which barrier they meet first.
FirstTick(ms) ==
    LET i == Earliest({j \in ms : minutes[j].hit # "none"})
    IN IF minutes[i].hit = "both" THEN minutes[i].first ELSE minutes[i].hit

---------------------------------------------------------------------------
(* resolve_signal.                                                         *)

Outcome(status, at) == [status |-> status, at |-> at]
StatusOfHit(hit) == CASE hit = "stop" -> "SL" [] hit = "target" -> "TP"
                      [] hit = "both" -> "AMBIGUOUS" [] OTHER -> "UNRESOLVED"

\* The bars that are examined, in the units they are examined in: the minutes
\* of a bar when minute detail is there, the whole bar when it is not.
Examined(plan, last, fine) ==
    LET horizon == {b \in plan.close + 1 .. plan.close + HorizonBars : b <= last}
    IN IF fine THEN {{i} : i \in UNION {MinutesOf(b) : b \in horizon}}
               ELSE {MinutesOf(b) : b \in horizon}

\* Mutant: a collision is decided for the target.
ResolveTargetFirst(units, ticks) ==
    LET met == {u \in units : HitOf(u) # "none"}
        u == CHOOSE v \in met : \A w \in met : Earliest(v) <= Earliest(w)
        opening == Earliest(u) - 1
    IN Outcome(StatusOfHit(IF HitOf(u) = "both" THEN "target" ELSE HitOf(u)), opening)

\* _resolve_sequence: the first unit that meets a barrier decides; ticks decide a
\* collision only if they are filed under the opening time of the unit's bar.
ResolveSequence(units, ticks) ==
    LET met == {u \in units : HitOf(u) # "none"}
        u == CHOOSE v \in met : \A w \in met : Earliest(v) <= Earliest(w)
        opening == Earliest(u) - 1
        drilled == ticks /\ opening % BarLength = 0
    IN IF HitOf(u) = "both" /\ drilled
       THEN Outcome(StatusOfHit(FirstTick(u)), opening)
       ELSE Outcome(StatusOfHit(HitOf(u)), opening)

Resolve(plan, last, fine, ticks) ==
    LET units == Examined(plan, last, fine)
        entry == MinutesOf(plan.close + 1)
    IN IF plan.close + 1 > last \/ HitOf(entry) = "unknown" \/ ~plan.valid
       THEN Outcome("UNRESOLVED", 0)
       ELSE IF \E u \in units : HitOf(u) # "none"
            THEN ResolveSequence(units, ticks)
            ELSE Outcome("TIMEOUT", BarLength * (IF plan.close + HorizonBars <= last
                                                 THEN plan.close + HorizonBars ELSE last))

---------------------------------------------------------------------------
MinutePasses ==
    /\ Len(minutes) < MaxMinutes
    /\ \E k \in MinuteKinds :
          /\ plans = {} => k.hit = "none"      \* kinds are relative to a plan
          /\ Len(minutes) % BarLength # 0 => k.hit # "unknown"
          /\ minutes' = Append(minutes, k)
    /\ UNCHANGED <<plans, book, resolved, crossed>>

\* A plan for the bar that has just closed; valid: its stop still lies on the
\* right side of the next open.
EmitPlan ==
    /\ ClosedBars > 0 /\ Cardinality(plans) < 1
    /\ \E valid \in BOOLEAN : plans' = plans \cup {[close |-> ClosedBars, valid |-> valid]}
    /\ UNCHANGED <<minutes, book, resolved, crossed>>

\* run_live up to its write: all plans, then once more with ticks for the
\* ambiguous ones.  Minute bars or ticks may be missing.
ReadLive(r) ==
    /\ resolved[r] = NothingResolved /\ plans # {}
    /\ \E fine, ticks \in BOOLEAN :
          resolved' = [resolved EXCEPT ![r] =
              [k \in {<<"live", p>> : p \in plans} |->
                  LET pass == Resolve(k[2], TerminalBars, fine, FALSE)
                  IN IF pass.status = "AMBIGUOUS"
                     THEN Resolve(k[2], TerminalBars, fine, ticks) ELSE pass]]
    /\ UNCHANGED <<minutes, plans, book, crossed>>

\* run_replay: closed bars of the cache, no drilling.
ReadReplay(r) ==
    /\ resolved[r] = NothingResolved /\ plans # {}
    /\ resolved' = [resolved EXCEPT ![r] =
           [k \in {<<"replay", p>> : p \in plans} |->
               Resolve(k[2], ClosedBars, FALSE, FALSE)]]
    /\ UNCHANGED <<minutes, plans, book, crossed>>

\* upsert: unconditionally, in one transaction.
Upsert(r) ==
    /\ resolved[r] # NothingResolved
    /\ book' = [k \in DOMAIN book \cup DOMAIN resolved[r] |->
                  IF k \in DOMAIN resolved[r] THEN resolved[r][k] ELSE book[k]]
    /\ crossed' = (crossed \/ \E s \in OutcomeResolvers \ {r} : resolved[s] # NothingResolved)
    /\ resolved' = [resolved EXCEPT ![r] = NothingResolved]
    /\ UNCHANGED <<minutes, plans>>

ShadowNext ==
    \/ MinutePasses \/ EmitPlan
    \/ \E r \in OutcomeResolvers : ReadLive(r) \/ ReadReplay(r) \/ Upsert(r)

---------------------------------------------------------------------------
(* Properties.                                                             *)

ShadowTypeOK ==
    /\ \A i \in DOMAIN minutes : minutes[i] \in MinuteKinds
    /\ \A p \in plans : p.close \in 1 .. MaxMinutes
    /\ DOMAIN book \subseteq Sources \X plans
    /\ \A k \in DOMAIN book :
          book[k].status \in Decided \cup {"AMBIGUOUS", "UNRESOLVED", "TIMEOUT"}

\* What the prices did to the plan: the barrier met first, within the horizon.
MetFirst(plan) ==
    LET after == {i \in DOMAIN minutes :
                     /\ (i - 1) \div BarLength >= plan.close
                     /\ (i - 1) \div BarLength < plan.close + HorizonBars
                     /\ minutes[i].hit # "none"}
    IN IF after = {} THEN "none" ELSE FirstTick(after)

\* A target or stop on record is what the prices really did first, at either
\* source, whatever detail was missing when it was resolved.
DecidedOutcomesAreTrue ==
    \A k \in DOMAIN book : book[k].status \in Decided =>
        k[2].valid /\ book[k].status = StatusOfHit(MetFirst(k[2]))

\* Of a step: decided outcomes are true, and a later resolution does not undo one (it may
\* fall back to AMBIGUOUS when the minute bars or ticks that decided it are
\* gone), unless two resolvers overlapped and the older answer came last.
ShadowBookSound ==
    /\ DecidedOutcomesAreTrue'
    /\ \A k \in DOMAIN book :
          book[k].status \in Decided /\ ~crossed' =>
              book'[k].status \in {book[k].status, "AMBIGUOUS"}
=============================================================================
