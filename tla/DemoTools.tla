-------------------------------- MODULE DemoTools --------------------------------
(***************************************************************************)
(* The two operator tools that connect to the demo terminal:               *)
(* tools/demo_trade_preview.py plans one order, through every gate, and in *)
(* its submit mode sends it; tools/demo_synthetic_verification.py runs the *)
(* same pipeline read-only.  Each run gathers its facts one await at a     *)
(* time while the world moves on: the terminal's account is switched,      *)
(* positions open, intents are claimed, the safety snapshot is rewritten.  *)
(* The demo guard (broker/demo_guard.py) leaves a row per verification.    *)
(***************************************************************************)
EXTENDS Naturals, FiniteSets

CONSTANTS
    ToolAccounts,     \* accounts the terminal may be logged in to
    DemoLogins,       \* those whose trade mode is demo
    ConfiguredLogin,  \* the account of the settings
    Losses,           \* possible broker-computed losses of the minimum lot
    AuthorizedRisk,
    MaxToolRuns,      \* bound on runs of the tools
    MaxWorldMoves     \* bound on changes of the world

\* What the code and its configuration guarantee of these values.
DemoToolsAssumption ==
    /\ DemoLogins \subseteq ToolAccounts /\ ConfiguredLogin \in DemoLogins
    /\ Losses \subseteq Nat /\ {AuthorizedRisk, MaxToolRuns, MaxWorldMoves} \subseteq Nat

VARIABLES
    loggedIn,         \* the terminal's account
    world,            \* [snapshot, stop, unresolved, held]
    tool,             \* the run: see NoRun
    verifications,    \* accounts with a row in the guard's evidence store
    sentOrders,       \* orders the tools sent
    toolRuns, worldMoves

toolVars == <<loggedIn, world, tool, verifications, sentOrders, toolRuns, worldMoves>>

\* mode: PREVIEW, SUBMIT_ONE or VERIFY; failed: steps a verification reports FAILED.
NoRun == [mode |-> "NONE", step |-> "none", blockers |-> {}, failed |-> {}, account |-> "none",
          loss |-> 0, submissions |-> 0, orders |-> 0, raised |-> FALSE, outcome |-> "NOT_RUN"]

DemoToolsInit ==
    /\ loggedIn = ConfiguredLogin
    /\ world = [snapshot |-> "OBSERVED", stop |-> "CLEAR", unresolved |-> FALSE, held |-> 0]
    /\ tool = NoRun /\ verifications = {} /\ sentOrders = {}
    /\ toolRuns = 0 /\ worldMoves = 0

At(mode, step) == tool.mode \in mode /\ tool.step = step
Preview == {"PREVIEW", "SUBMIT_ONE"}

\* DemoOnlyGuard.assert_demo_account: by the trade mode alone.
GuardPasses == loggedIn \in DemoLogins
GuardRecords == verifications' = IF GuardPasses THEN verifications \cup {loggedIn} ELSE verifications

\* The steps after which the session is closed, with what blocked the run.
Block(reasons) == tool' = [tool EXCEPT !.step = "close", !.blockers = @ \cup reasons]
Proceed(step, reasons) == tool' = [tool EXCEPT !.step = step, !.blockers = @ \cup reasons]
Elsewhere == UNCHANGED <<loggedIn, world, sentOrders, toolRuns, worldMoves>>

---------------------------------------------------------------------------
(* demo_trade_preview.                                                     *)

\* _observe_safety and _unresolved_intents, read once.
SafetyBlocks(stopConfigured) ==
    (IF world.snapshot # "OBSERVED" THEN {"safety"} ELSE {})
       \cup (IF stopConfigured \/ (world.snapshot # "NONE" /\ world.stop = "ACTIVE")
             THEN {"stop"} ELSE {})
       \cup (IF world.unresolved THEN {"unresolved"} ELSE {})

\* run: execution enabled or the stop configured ends it at once, and so do an
\* active stop in the snapshot (a stale one too) and an unresolved intent; a
\* snapshot that is missing or stale only blocks.
PreviewGates(mode) ==
    /\ tool = NoRun /\ toolRuns < MaxToolRuns
    /\ toolRuns' = toolRuns + 1
    /\ \E enabled, stopConfigured \in BOOLEAN :
          LET reasons == SafetyBlocks(stopConfigured) \cup (IF enabled THEN {"enabled"} ELSE {})
          IN tool' = [NoRun EXCEPT !.mode = mode, !.blockers = reasons,
                         !.step = IF reasons \subseteq {"safety"} THEN "connect" ELSE "finish"]
    /\ UNCHANGED <<loggedIn, world, verifications, sentOrders, worldMoves>>

\* The gateway connects only to the configured demo account (MT5 session).
PreviewConnect ==
    /\ At(Preview, "connect")
    /\ GuardRecords
    /\ \/ loggedIn = ConfiguredLogin /\ Proceed("identity", {})
       \/ tool' = [tool EXCEPT !.step = "finish", !.blockers = @ \cup {"connect"}]
    /\ Elsewhere

\* get_account_info raises unless the terminal is still on the pinned account.
PreviewIdentity ==
    /\ At(Preview, "identity")
    /\ IF loggedIn = ConfiguredLogin
       THEN tool' = [tool EXCEPT !.step = "market", !.account = loggedIn]
       ELSE Block({"identity"})
    /\ UNCHANGED verifications /\ Elsewhere

\* Symbol discovery and closed candles: any of it may be missing.
PreviewMarket ==
    /\ At(Preview, "market")
    /\ Proceed("risk", {}) \/ Block({"symbol"}) \/ Block({"market-data"})
    /\ UNCHANGED verifications /\ Elsewhere

\* Risk and history refusals only block; without a valid plan there is no order.
PreviewRisk ==
    /\ At(Preview, "risk")
    /\ \E approved, covered, planned \in BOOLEAN :
          LET reasons == (IF approved THEN {} ELSE {"risk"})
                  \cup (IF covered THEN {} ELSE {"history"}) \cup (IF planned THEN {} ELSE {"plan"})
          IN IF planned THEN Proceed("quantity", reasons) ELSE Block(reasons)
    /\ UNCHANGED verifications /\ Elsewhere

\* The smallest lot: its loss at the stop and its margin as the broker computes them.
QuantityAuthorized(loss, margin) == loss > 0 /\ loss <= AuthorizedRisk /\ margin

PreviewQuantity ==
    /\ At(Preview, "quantity")
    /\ \E loss \in Losses, margin \in BOOLEAN :
          IF QuantityAuthorized(loss, margin)
          THEN tool' = [tool EXCEPT !.step = "policy", !.loss = loss]
          ELSE Block({"quantity"})
    /\ UNCHANGED verifications /\ Elsewhere

\* ExecutionPolicy with the positions of this moment; then the decision to send.
PreviewPolicy ==
    /\ At(Preview, "policy")
    /\ LET reasons == tool.blockers \cup (IF world.held > 0 THEN {"policy"} ELSE {})
       IN tool' = [tool EXCEPT !.blockers = reasons,
              !.step = IF tool.mode = "SUBMIT_ONE" /\ reasons = {} THEN "reverify" ELSE "close"]
    /\ UNCHANGED verifications /\ Elsewhere

PreviewReverify ==
    /\ At(Preview, "reverify")
    /\ GuardRecords
    /\ IF GuardPasses THEN Proceed("send", {}) ELSE Block({"unsafe-account"})
    /\ Elsewhere

\* One canonical submission: the executor refuses (an unresolved intent, or a
\* position its own positions check finds), or the gateway, still on the configured
\* account, sends; the answer may be lost in an error.
PreviewSend ==
    /\ At(Preview, "send") /\ tool.submissions = 0
    /\ UNCHANGED <<loggedIn, verifications, toolRuns, worldMoves>>
    /\ \/ /\ tool' = [tool EXCEPT !.step = "close", !.submissions = 1]
          /\ UNCHANGED <<world, sentOrders>>
       \/ /\ ~world.unresolved /\ world.held = 0 /\ loggedIn = ConfiguredLogin
          /\ sentOrders' = sentOrders \cup {[run |-> toolRuns, account |-> loggedIn,
                 planned |-> tool.account, mode |-> tool.mode, loss |-> tool.loss]}
          /\ world' = [world EXCEPT !.held = 1]
          /\ \E raised \in BOOLEAN :
                tool' = [tool EXCEPT !.step = "close", !.submissions = 1, !.orders = 1,
                    !.raised = raised,
                    !.blockers = IF raised THEN @ \cup {"error"} ELSE @]

PreviewFinish ==
    /\ At(Preview, "finish")
    /\ tool' = [tool EXCEPT !.step = "done",
           !.outcome = IF tool.blockers # {} THEN "PREVIEW_BLOCKED"
                       ELSE IF tool.mode = "PREVIEW" THEN "PREVIEW_READY"
                       ELSE IF tool.submissions = 1 THEN "SUBMITTED_ONE_DEMO_ORDER"
                       ELSE "SUBMISSION_NOT_PERFORMED"]
    /\ UNCHANGED verifications /\ Elsewhere

---------------------------------------------------------------------------
(* demo_synthetic_verification.                                            *)

\* The broker it selects, and selects back at its end, can only be Weltrade.
StartVerification ==
    /\ tool = NoRun /\ toolRuns < MaxToolRuns
    /\ toolRuns' = toolRuns + 1
    /\ tool' = [NoRun EXCEPT !.mode = "VERIFY", !.step = "connect"]
    /\ UNCHANGED <<loggedIn, world, verifications, sentOrders, worldMoves>>

VerifyConnect ==
    /\ At({"VERIFY"}, "connect")
    /\ GuardRecords
    /\ \/ loggedIn = ConfiguredLogin
          /\ tool' = [tool EXCEPT !.step = "candles", !.account = loggedIn]
       \/ tool' = [tool EXCEPT !.step = "finish", !.blockers = {"connect"}]
    /\ Elsewhere

\* Symbols and candles; then the pipeline, whose status is never FAILED: too few
\* closed candles or invalid data pass.
VerifyCandles ==
    /\ At({"VERIFY"}, "candles")
    /\ Proceed("pipeline", {}) \/ Block({"symbol"})
       \/ tool' = [tool EXCEPT !.step = "close", !.failed = {"candles"}, !.blockers = {"market-data"}]
    /\ UNCHANGED verifications /\ Elsewhere

EvaluatePipeline ==
    /\ At({"VERIFY"}, "pipeline")
    /\ Proceed("close", {})
    /\ UNCHANGED verifications /\ Elsewhere

VerifyFinish ==
    /\ At({"VERIFY"}, "finish")
    /\ tool' = [tool EXCEPT !.step = "done",
           !.outcome = IF tool.blockers # {} THEN "BLOCKED"
                       ELSE IF tool.failed # {} THEN "FAILED" ELSE "VERIFIED_READ_ONLY"]
    /\ UNCHANGED verifications /\ Elsewhere

---------------------------------------------------------------------------
\* The session is released on every path; a preview reports an error of the release
\* as a block, a verification a session still connected as a failed step.
CloseSession ==
    /\ tool.step = "close"
    /\ \/ tool' = [tool EXCEPT !.step = "finish"]
       \/ /\ tool.mode \in Preview
          /\ tool' = [tool EXCEPT !.step = "finish", !.blockers = @ \cup {"error"}]
       \/ /\ tool.mode = "VERIFY"
          /\ tool' = [tool EXCEPT !.step = "finish", !.failed = @ \cup {"session-closed"}]
    /\ UNCHANGED verifications /\ Elsewhere

NextRun == tool.step = "done" /\ tool' = NoRun /\ UNCHANGED verifications /\ Elsewhere

WorldMoves ==
    /\ worldMoves < MaxWorldMoves /\ worldMoves' = worldMoves + 1
    /\ \/ loggedIn' \in ToolAccounts \ {loggedIn} /\ UNCHANGED world
       \/ /\ UNCHANGED loggedIn
          /\ world' \in {[world EXCEPT !.snapshot = "STALE"], [world EXCEPT !.snapshot = "NONE"],
                         [world EXCEPT !.stop = "ACTIVE", !.snapshot = "OBSERVED"],
                         [world EXCEPT !.unresolved = ~@], [world EXCEPT !.held = 1 - @]}
    /\ UNCHANGED <<tool, verifications, sentOrders, toolRuns>>

DemoToolsNext ==
    \/ \E mode \in Preview : PreviewGates(mode)
    \/ PreviewConnect \/ PreviewIdentity \/ PreviewMarket \/ PreviewRisk \/ PreviewQuantity
    \/ PreviewPolicy \/ PreviewReverify \/ PreviewSend \/ PreviewFinish
    \/ StartVerification \/ VerifyConnect \/ VerifyCandles \/ EvaluatePipeline \/ VerifyFinish
    \/ CloseSession \/ NextRun \/ WorldMoves

DemoToolsSpec == DemoToolsInit /\ [][DemoToolsNext]_toolVars

---------------------------------------------------------------------------
(* Properties.                                                             *)

DemoToolsTypeOK ==
    /\ loggedIn \in ToolAccounts /\ world.held \in 0 .. 1 /\ world.unresolved \in BOOLEAN
    /\ world.snapshot \in {"OBSERVED", "STALE", "NONE"} /\ world.stop \in {"CLEAR", "ACTIVE"}
    /\ tool.outcome \in {"NOT_RUN", "PREVIEW_BLOCKED", "PREVIEW_READY", "BLOCKED", "FAILED",
           "SUBMITTED_ONE_DEMO_ORDER", "SUBMISSION_NOT_PERFORMED", "VERIFIED_READ_ONLY"}

\* However the world moves between the steps of a run: a run sends at most one order,
\* in submit mode only, to the demo account it was planned for and the guard has a row
\* of, at a loss within the authorized risk; and its report never hides an order behind
\* a clean outcome, nor calls a run verified that did not connect to the demo account.
DemoToolsSound ==
    /\ \A a, b \in sentOrders : a.run = b.run => a = b
    /\ \A o \in sentOrders :
          /\ o.mode = "SUBMIT_ONE" /\ o.account = o.planned
          /\ o.account \in verifications /\ o.account \in DemoLogins
          /\ o.loss <= AuthorizedRisk
    /\ tool.outcome \in {"PREVIEW_READY", "SUBMISSION_NOT_PERFORMED", "VERIFIED_READ_ONLY"} =>
          \A o \in sentOrders : o.run # toolRuns
    /\ tool.outcome = "SUBMITTED_ONE_DEMO_ORDER" => tool.submissions = 1 /\ ~tool.raised
    /\ tool.outcome = "VERIFIED_READ_ONLY" => tool.account = ConfiguredLogin /\ tool.failed = {}
=============================================================================
