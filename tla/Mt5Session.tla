------------------------------- MODULE Mt5Session -------------------------------
(***************************************************************************)
(* The MetaTrader 5 session of a process and the orders sent through it:   *)
(* the process-wide session authority (core/mt5_session.py,                *)
(* core/mt5_connection.py), the gateways that share it                     *)
(* (broker/mt5_gateway.py, broker/mt5_demo.py, broker/weltrade_gateway.py, *)
(* broker/demo_guard.py) and the terminal behind them.                     *)
(*                                                                         *)
(* connect, disconnect and the account read hold the session lock;         *)
(* submitting and closing do not: each is a chain of awaited calls, and    *)
(* the terminal, which other processes and its user share, may change      *)
(* accounts between any two of them.  Volumes are whole units; prices,     *)
(* stop distances and symbol lookup are the single outcome "refused before *)
(* sending".                                                               *)
(***************************************************************************)
EXTENDS Integers, FiniteSets

CONSTANTS
    Gateways,          \* gateway objects of the process
    TerminalAccounts,  \* accounts the terminal may be logged into
    DemoAccounts,      \* those with trade_mode 0
    Configured,        \* login and server of the settings
    Volumes,           \* volumes asked for
    VolumeMin, VolumeMax, VolumeStep,
    MaxOrders,         \* bound on the orders the server executes
    NoGateway, NoAccount

\* What the code and its configuration guarantee of these values.
SessionAssumption ==
    /\ DemoAccounts \subseteq TerminalAccounts /\ Configured \in TerminalAccounts
    /\ NoGateway \notin Gateways /\ NoAccount \notin TerminalAccounts
    /\ VolumeStep \in Nat \ {0} /\ VolumeMin \in Nat \ {0} /\ VolumeMax \in Nat
    /\ Volumes \subseteq Nat /\ MaxOrders \in Nat

VARIABLES
    owner, active,  \* MT5SessionAuthority
    terminal,       \* the account the terminal is logged into, or NoAccount
    pinned,         \* gateway -> _pinned_identity
    task,           \* gateway -> the call under way: [at, volume, order]
    outcome,        \* gateway -> how its last call ended: [status, code, volume, asked]
    orders,         \* orders executed: number -> [account, volume, strayed, open]
    exposed         \* gateways whose terminal changed accounts since they verified it

sessionVars == <<owner, active, terminal, pinned, task, outcome, orders, exposed>>

IdleTask == [at |-> "idle", volume |-> 0, order |-> 0]
NoOutcome == [status |-> "NONE", code |-> "NONE", volume |-> 0, asked |-> 0, order |-> 0]
Connected(g) == owner = g /\ active
OrderCount == Cardinality(DOMAIN orders)

SessionInit ==
    /\ owner = NoGateway /\ active = FALSE
    /\ terminal \in {Configured, NoAccount}
    /\ pinned = [g \in Gateways |-> NoAccount]
    /\ task = [g \in Gateways |-> IdleTask]
    /\ outcome = [g \in Gateways |-> NoOutcome]
    /\ orders = [n \in {} |-> NoOutcome] /\ exposed = {}

\* Mutant: any demo account passes.
IdentityVerifiedAnyDemo(g) == terminal \in DemoAccounts

\* _verify_connection_identity: demo, the pinned identity if there is one, and
\* the login and server of the settings.
IdentityVerified(g) ==
    /\ terminal \in DemoAccounts /\ terminal = Configured
    /\ pinned[g] \in {NoAccount, terminal}

\* _connect_session: reserve, initialize and log in, verify, pin; any failure
\* shuts the terminal down and gives the session up.  Refused while another
\* gateway owns the session.
Reservable(g) == owner \in {NoGateway, g}

Connect(g) ==
    /\ task[g].at = "idle" /\ Reservable(g)
    /\ \/ /\ Configured \in DemoAccounts
          /\ terminal' = Configured /\ pinned' = [pinned EXCEPT ![g] = Configured]
          /\ owner' = g /\ active' = TRUE
          /\ task' = [task EXCEPT ![g].at = "connecting"]
       \/ /\ terminal' = NoAccount /\ pinned' = [pinned EXCEPT ![g] = NoAccount]
          /\ owner' = NoGateway /\ active' = FALSE /\ UNCHANGED task
    /\ UNCHANGED <<outcome, orders, exposed>>

ShutDown(g) ==
    /\ owner' = NoGateway /\ active' = FALSE /\ terminal' = NoAccount
    /\ pinned' = [pinned EXCEPT ![g] = NoAccount]

\* MT5DemoGateway.connect: the demo guard, after the lock was released.
GuardConnect(g) ==
    /\ task[g].at = "connecting" /\ task' = [task EXCEPT ![g] = IdleTask]
    /\ IF terminal \in DemoAccounts
       THEN UNCHANGED <<owner, active, terminal, pinned>>
       ELSE ShutDown(g)
    /\ UNCHANGED <<outcome, orders, exposed>>

\* _disconnect_session: only the owner shuts the terminal down.
DisconnectMt5(g) ==
    /\ task[g].at = "idle" /\ owner = g
    /\ ShutDown(g)
    /\ UNCHANGED <<task, outcome, orders, exposed>>

\* _read_verified_account_info: an account that is not the pinned demo account
\* deactivates the session and leaves it with its owner.
ReadAccount(g) ==
    /\ task[g].at = "idle" /\ Connected(g) /\ ~IdentityVerified(g)
    /\ active' = FALSE
    /\ UNCHANGED <<owner, terminal, pinned, task, outcome, orders, exposed>>

(***************************************************************************)
(* submit_order                                                            *)
(***************************************************************************)
Ends(g, status, code, volume) ==
    /\ task' = [task EXCEPT ![g] = IdleTask]
    /\ outcome' = [outcome EXCEPT ![g] =
          [status |-> status, code |-> code, volume |-> volume, asked |-> task[g].volume,
           order |-> task[g].order]]

\* MT5DemoGateway.submit_order: the demo guard on a fresh account read.
BeginSubmit(g, v) ==
    /\ task[g].at = "idle" /\ Connected(g) /\ terminal \in DemoAccounts
    /\ task' = [task EXCEPT ![g] = [at |-> "guarded", volume |-> v, order |-> 0]]
    /\ outcome' = [outcome EXCEPT ![g] = NoOutcome]
    /\ UNCHANGED <<owner, active, terminal, pinned, orders, exposed>>

\* The readiness check: a terminal that does not verify, or does not allow
\* trading, deactivates the session.
VerifyReady(g) ==
    /\ task[g].at = "guarded"
    /\ \/ /\ IdentityVerified(g) /\ task' = [task EXCEPT ![g].at = "verified"]
          /\ exposed' = exposed \ {g} /\ UNCHANGED <<active, outcome>>
       \/ /\ Ends(g, "NOT_SENT", "NONE", 0)
          /\ active' = (active /\ owner # g) /\ UNCHANGED exposed
    /\ UNCHANGED <<owner, terminal, pinned, orders>>

\* _normalize_volume: down to the step, within the symbol's limits.
NormalizeVolume(v) == (v \div VolumeStep) * VolumeStep
VolumeOK(v) == v >= VolumeMin /\ v <= VolumeMax /\ NormalizeVolume(v) >= VolumeMin

\* Symbol, tick, stops, filling mode and order_check: refused, or ready to send.
PrepareOrder(g) ==
    /\ task[g].at = "verified"
    /\ \/ VolumeOK(task[g].volume) /\ task' = [task EXCEPT ![g].at = "checked"]
          /\ UNCHANGED outcome
       \/ Ends(g, "NOT_SENT", "NONE", 0)
    /\ UNCHANGED <<owner, active, terminal, pinned, orders, exposed>>

Executed(g, volume) ==
    orders' = [n \in 1 .. OrderCount + 1 |->
        IF n <= OrderCount THEN orders[n]
        ELSE [account |-> terminal, volume |-> volume, strayed |-> g \in exposed, open |-> TRUE]]

\* order_send.  The server executes the order or not, and the terminal returns
\* a code, or nothing when the answer is lost.  An ambiguous code (timeout, lost
\* connection) may come with either.
SendMarketOrder(g) ==
    /\ task[g].at = "checked"
    /\ \E code \in {"DONE", "DONE_PARTIAL", "REFUSED", "AMBIGUOUS", "LOST"}, done \in BOOLEAN :
          /\ code \in {"DONE", "DONE_PARTIAL"} => done
          /\ code = "REFUSED" => ~done
          /\ done => terminal # NoAccount /\ OrderCount < MaxOrders
          /\ LET full == NormalizeVolume(task[g].volume)
             IN \E volume \in IF code = "DONE_PARTIAL" THEN 1 .. full - 1 ELSE {full} :
                   /\ IF done THEN Executed(g, volume) ELSE UNCHANGED orders
                   /\ task' = [task EXCEPT ![g] =
                         [at |-> code, volume |-> task[g].volume,
                          order |-> IF done THEN OrderCount + 1 ELSE 0]]
    /\ UNCHANGED <<owner, active, terminal, pinned, outcome, exposed>>

\* The return code: done and partly done with evidence is FILLED, without a
\* code the outcome is indeterminate, everything else is REJECTED.
StatusOf(code) ==
    CASE code \in {"DONE", "DONE_PARTIAL"} -> "FILLED"
      [] code = "LOST" -> "INDETERMINATE"
      [] OTHER -> "REJECTED"

ReturnResult(g) ==
    /\ task[g].at \in {"DONE", "DONE_PARTIAL", "REFUSED", "AMBIGUOUS", "LOST"}
    /\ \/ LET status == StatusOf(task[g].at)
              filled == IF task[g].at = "DONE_PARTIAL" THEN orders[task[g].order].volume
                        ELSE NormalizeVolume(task[g].volume)
          IN Ends(g, status, task[g].at, IF status = "FILLED" THEN filled ELSE 0)
       \/ /\ StatusOf(task[g].at) = "FILLED"   \* no ticket or price in the answer
          /\ Ends(g, "INDETERMINATE", task[g].at, 0)
    /\ UNCHANGED <<owner, active, terminal, pinned, orders, exposed>>

(***************************************************************************)
(* close_position                                                          *)
(***************************************************************************)
BeginClose(g, n) ==
    /\ task[g].at = "idle" /\ Connected(g) /\ n \in DOMAIN orders
    /\ outcome' = [outcome EXCEPT ![g] = NoOutcome]
    /\ IF IdentityVerified(g) /\ orders[n].open /\ orders[n].account = terminal
       THEN /\ task' = [task EXCEPT ![g] =
                  [at |-> "closing", volume |-> orders[n].volume, order |-> n]]
            /\ exposed' = exposed \ {g} /\ UNCHANGED active
       ELSE /\ active' = IdentityVerified(g) /\ UNCHANGED <<task, exposed>>
    /\ UNCHANGED <<owner, terminal, pinned, orders>>

\* order_send of the closing deal; only DONE goes on to the confirmation.
SendClose(g) ==
    /\ task[g].at = "closing"
    /\ \E done \in BOOLEAN, answered \in BOOLEAN :
          /\ done => orders[task[g].order].account = terminal
          /\ IF done THEN orders' = [orders EXCEPT ![task[g].order].open = FALSE]
             ELSE UNCHANGED orders
          /\ IF answered THEN task' = [task EXCEPT ![g].at = "confirming"] /\ UNCHANGED outcome
             ELSE Ends(g, "INDETERMINATE", "LOST", 0)
    /\ UNCHANGED <<owner, active, terminal, pinned, exposed>>

\* positions_get must no longer show the ticket; a terminal on another account,
\* or down, shows no position either.
ConfirmClose(g) ==
    /\ task[g].at = "confirming"
    /\ IF orders[task[g].order].open /\ orders[task[g].order].account = terminal
       THEN Ends(g, "INDETERMINATE", "DONE", 0)
       ELSE Ends(g, "CLOSED", "DONE", task[g].volume)
    /\ UNCHANGED <<owner, active, terminal, pinned, orders, exposed>>

\* External: the terminal's user or another process logs into another account,
\* or the terminal loses its connection.
TerminalSwitches ==
    /\ terminal' \in (TerminalAccounts \cup {NoAccount}) \ {terminal}
    /\ exposed' = exposed \cup {g \in Gateways : task[g].at # "idle"}
    /\ UNCHANGED <<owner, active, pinned, task, outcome, orders>>

SessionNext ==
    \/ \E g \in Gateways :
          \/ Connect(g) \/ GuardConnect(g) \/ DisconnectMt5(g) \/ ReadAccount(g)
          \/ \E v \in Volumes : BeginSubmit(g, v)
          \/ VerifyReady(g) \/ PrepareOrder(g) \/ SendMarketOrder(g) \/ ReturnResult(g)
          \/ \E n \in 1 .. MaxOrders : BeginClose(g, n)
          \/ SendClose(g) \/ ConfirmClose(g)
    \/ TerminalSwitches

SessionSpec == SessionInit /\ [][SessionNext]_sessionVars

(***************************************************************************)
(* Properties                                                              *)
(***************************************************************************)
SessionTypeOK ==
    /\ owner \in Gateways \cup {NoGateway} /\ active \in BOOLEAN
    /\ terminal \in TerminalAccounts \cup {NoAccount}
    /\ pinned \in [Gateways -> TerminalAccounts \cup {NoAccount}]
    /\ \A g \in Gateways : task[g].volume \in Nat /\ task[g].order \in 0 .. MaxOrders
    /\ DOMAIN orders \subseteq 1 .. MaxOrders /\ exposed \subseteq Gateways

(* Every order is executed on the pinned demo account of the settings,      *)
(* except one whose terminal changed accounts after the gateway had         *)
(* verified it for that very submission; and while a gateway is in a call,  *)
(* no other gateway owns the session.                                       *)
OrdersOnVerifiedAccount ==
    /\ \A n \in DOMAIN orders :
          orders[n].account \in DemoAccounts \cap {Configured} \/ orders[n].strayed
    /\ \A g \in Gateways : task[g].at # "idle" => owner \in {g, NoGateway}

(* What a gateway answers is what happened at the broker: FILLED names the   *)
(* volume executed, never more than was asked for; an order not sent was not *)
(* executed; REJECTED was not executed unless the return code was one the    *)
(* server also uses when it cannot tell; a position reported CLOSED is       *)
(* closed unless the terminal left its account meanwhile.                    *)
AnswersMatchBroker ==
    \A g \in Gateways :
        LET o == outcome[g]
        IN /\ o.status = "FILLED" =>
                 /\ o.order \in DOMAIN orders /\ o.volume = orders[o.order].volume
                 /\ o.volume <= o.asked
           /\ o.status = "NOT_SENT" => o.order = 0
           /\ o.status = "REJECTED" => o.order = 0 \/ o.code = "AMBIGUOUS"
           /\ o.status = "CLOSED" => ~orders[o.order].open \/ g \in exposed
=============================================================================
