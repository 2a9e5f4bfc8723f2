------------------------------ MODULE BrokerProofs ------------------------------
(***************************************************************************)
(* Machine-checked proofs about the two broker adapters, Mt5Session and    *)
(* DerivGateway, for any number of gateways, orders, submissions and       *)
(* sockets.                                                                *)
(***************************************************************************)
EXTENDS Mt5Session, DerivGateway, FiniteSetTheorems, TLAPS

(***************************************************************************)
(* The MetaTrader session.  A gateway that is in a call owns the session,  *)
(* so the other gateways are idle and cannot move the terminal: only the   *)
(* terminal itself can, and that is on record in exposed.                  *)
(***************************************************************************)
Codes == {"DONE", "DONE_PARTIAL", "REFUSED", "AMBIGUOUS", "LOST"}
SessionSteps ==
    {"idle", "connecting", "guarded", "verified", "checked", "closing", "confirming"} \cup Codes
OrderRecords == [account : TerminalAccounts, volume : Nat, strayed : BOOLEAN, open : BOOLEAN]
TaskRecords == [at : SessionSteps, volume : Nat, order : 0 .. MaxOrders]
Statuses == {"NONE", "NOT_SENT", "FILLED", "REJECTED", "INDETERMINATE", "CLOSED"}
AnswerRecords ==
    [status : Statuses, code : Codes \cup {"NONE"}, volume : Int, asked : Nat,
     order : 0 .. MaxOrders]

SessionShape ==
    /\ owner \in Gateways \cup {NoGateway} /\ active \in BOOLEAN
    /\ terminal \in TerminalAccounts \cup {NoAccount}
    /\ pinned \in [Gateways -> TerminalAccounts \cup {NoAccount}]
    /\ task \in [Gateways -> TaskRecords]
    /\ outcome \in [Gateways -> AnswerRecords]
    /\ exposed \subseteq Gateways
    /\ \E n \in 0 .. MaxOrders : orders \in [1 .. n -> OrderRecords]

CallOwnsSession == \A g \in Gateways : task[g].at # "idle" => owner = g

OnVerified(g) == g \in exposed \/ terminal \in DemoAccounts \cap {Configured}

TaskSound(g) ==
    LET k == task[g] IN
    /\ k.at \in {"guarded", "verified", "checked"} => k.order = 0
    /\ k.at \in {"verified", "checked"} => OnVerified(g)
    /\ k.at \in {"DONE", "DONE_PARTIAL", "closing", "confirming"} => k.order \in DOMAIN orders
    /\ k.at = "DONE" => orders[k.order].volume = NormalizeVolume(k.volume)
    /\ k.at = "DONE_PARTIAL" => orders[k.order].volume <= NormalizeVolume(k.volume)
    /\ k.at = "REFUSED" => k.order = 0
    /\ k.at \in {"closing", "confirming"} => orders[k.order].account = terminal \/ g \in exposed
    /\ k.at = "guarded" => outcome[g].status = "NONE"

OutcomeSound(g) ==
    LET o == outcome[g] IN
    /\ o.status \in {"FILLED", "CLOSED"} => o.order \in DOMAIN orders
    /\ o.status = "FILLED" => o.volume = orders[o.order].volume /\ o.volume <= o.asked
    /\ o.status = "NOT_SENT" => o.order = 0
    /\ o.status = "REJECTED" => o.order = 0 \/ o.code = "AMBIGUOUS"
    /\ o.status = "CLOSED" => ~orders[o.order].open \/ g \in exposed

OrdersSound ==
    \A n \in DOMAIN orders :
        orders[n].account \in DemoAccounts \cap {Configured} \/ orders[n].strayed

SessionInv ==
    /\ SessionShape /\ CallOwnsSession /\ OrdersSound
    /\ \A g \in Gateways : TaskSound(g) /\ OutcomeSound(g)

\* Rounding a volume down to the step never gives more than was asked for.
LEMMA NormalizeRoundsDown ==
    ASSUME SessionAssumption, NEW v \in Nat
    PROVE  NormalizeVolume(v) \in Nat /\ NormalizeVolume(v) <= v
  BY DEF SessionAssumption, NormalizeVolume

\* The orders are numbered in the order of their execution.
LEMMA OrdersNumbered ==
    ASSUME SessionAssumption, SessionShape
    PROVE  /\ OrderCount \in 0 .. MaxOrders
           /\ orders \in [1 .. OrderCount -> OrderRecords]
  <1>1. PICK n \in 0 .. MaxOrders : orders \in [1 .. n -> OrderRecords]
    BY DEF SessionShape
  <1>2. n \in Nat /\ DOMAIN orders = 1 .. n
    BY <1>1 DEF SessionAssumption
  <1>3. Cardinality(1 .. n) = n
    BY <1>2, FS_Interval
  <1>4. OrderCount = n
    BY <1>2, <1>3 DEF OrderCount
  <1> QED BY <1>1, <1>4

\* A fresh process.
LEMMA SessionInvInit == ASSUME SessionAssumption, SessionInit PROVE SessionInv
  <1>1. SessionShape
    <2>1. orders \in [1 .. 0 -> OrderRecords]
      BY DEF SessionInit
    <2>2. 0 \in 0 .. MaxOrders
      BY DEF SessionAssumption
    <2>3. IdleTask \in TaskRecords
      BY <2>2 DEF IdleTask, SessionSteps, TaskRecords
    <2>4. NoOutcome \in AnswerRecords
      BY <2>2 DEF NoOutcome, AnswerRecords, Statuses
    <2> QED BY <2>1, <2>2, <2>3, <2>4 DEF SessionInit, SessionShape, SessionAssumption
  <1>2. CallOwnsSession /\ OrdersSound
    BY DEF SessionInit, CallOwnsSession, OrdersSound, IdleTask
  <1>3. \A g \in Gateways : TaskSound(g) /\ OutcomeSound(g)
    BY DEF SessionInit, TaskSound, OutcomeSound, IdleTask, NoOutcome
  <1> QED BY <1>1, <1>2, <1>3 DEF SessionInv

\* Nothing that was executed is taken back, and nothing closed reopens.
OrdersKept ==
    /\ DOMAIN orders \subseteq DOMAIN orders'
    /\ \A n \in DOMAIN orders : /\ orders'[n].volume = orders[n].volume
                                /\ orders'[n].account = orders[n].account
                                /\ orders'[n].strayed = orders[n].strayed
                                /\ orders'[n].open => orders[n].open

\* An answer that is not given again stays true.
LEMMA OutcomeKept ==
    ASSUME NEW g \in Gateways, OutcomeSound(g), OrdersKept,
           outcome'[g] = outcome[g], g \in exposed => g \in exposed'
    PROVE  OutcomeSound(g)'
  BY DEF OutcomeSound, OrdersKept

\* A step in the call of one gateway, while the others are idle.
LEMMA CallStep ==
    ASSUME SessionInv, NEW g \in Gateways,
           \A h \in Gateways \ {g} : /\ task[h].at = "idle" /\ task'[h] = task[h]
                                     /\ outcome'[h] = outcome[h]
                                     /\ h \in exposed => h \in exposed',
           OrdersKept, SessionShape', OrdersSound',
           task'[g].at # "idle" => owner' = g,
           TaskSound(g)', OutcomeSound(g)'
    PROVE  SessionInv'
  <1>1. CallOwnsSession'
    BY DEF CallOwnsSession
  <1>2. \A h \in Gateways \ {g} : TaskSound(h)'
    BY DEF TaskSound
  <1>3. \A h \in Gateways \ {g} : OutcomeSound(h)'
    BY OutcomeKept DEF SessionInv
  <1> QED BY <1>1, <1>2, <1>3 DEF SessionInv

\* The gateway that owns the session is the only one in a call.
LEMMA OthersIdle ==
    ASSUME SessionAssumption, SessionInv, NEW g \in Gateways, owner \in {g, NoGateway}
    PROVE  \A h \in Gateways \ {g} : task[h].at = "idle"
  BY DEF SessionInv, CallOwnsSession, SessionAssumption

\* Steps that execute nothing keep the orders.
LEMMA NoOrderStep ==
    ASSUME SessionInv, orders' = orders
    PROVE  OrdersKept /\ OrdersSound'
  BY DEF SessionInv, OrdersKept, OrdersSound

\* Connecting, and its demo guard.
LEMMA ConnectKeeps ==
    ASSUME SessionAssumption, SessionInv, NEW g \in Gateways, Connect(g) \/ GuardConnect(g)
    PROVE  SessionInv'
  <1>0. owner \in {g, NoGateway}
    BY DEF Connect, GuardConnect, Reservable, SessionInv, CallOwnsSession
  <1>1. \A h \in Gateways \ {g} : task[h].at = "idle"
    BY <1>0, OthersIdle
  <1>2. UNCHANGED <<outcome, orders, exposed>>
    BY DEF Connect, GuardConnect
  <1>3. task \in [Gateways -> TaskRecords]
    BY DEF SessionInv, SessionShape
  <1>4. \/ task' = task /\ task[g].at = "idle"
        \/ task' = [task EXCEPT ![g].at = "connecting"] /\ owner' = g
        \/ task' = [task EXCEPT ![g] = IdleTask]
    BY DEF Connect, GuardConnect
  <1>5. \A h \in Gateways \ {g} : task'[h] = task[h]
    BY <1>3, <1>4
  <1>6. task'[g].at \in {"idle", "connecting"} /\ (task'[g].at # "idle" => owner' = g)
    BY <1>3, <1>4 DEF IdleTask, TaskRecords
  <1>7. SessionShape'
    <2>1. task' \in [Gateways -> TaskRecords]
      BY <1>3, <1>4 DEF SessionSteps, IdleTask, SessionAssumption, TaskRecords
    <2>2. /\ owner' \in Gateways \cup {NoGateway} /\ active' \in BOOLEAN
          /\ terminal' \in TerminalAccounts \cup {NoAccount}
          /\ pinned' \in [Gateways -> TerminalAccounts \cup {NoAccount}]
      BY DEF Connect, GuardConnect, ShutDown, SessionInv, SessionShape, SessionAssumption
    <2> QED BY <1>2, <2>1, <2>2 DEF SessionInv, SessionShape
  <1>8. TaskSound(g)'
    BY <1>6 DEF TaskSound
  <1>9. OutcomeSound(g)'
    BY <1>2, NoOrderStep, OutcomeKept DEF SessionInv
  <1> QED BY <1>1, <1>2, <1>5, <1>6, <1>7, <1>8, <1>9, NoOrderStep, CallStep

\* The owner gives the session up, or finds that it is on the wrong account.
LEMMA IdleOwnerKeeps ==
    ASSUME SessionAssumption, SessionInv, NEW g \in Gateways, DisconnectMt5(g) \/ ReadAccount(g)
    PROVE  SessionInv'
  <1>1. \A h \in Gateways \ {g} : task[h].at = "idle"
    BY OthersIdle DEF DisconnectMt5, ReadAccount, Connected
  <1>2. UNCHANGED <<task, outcome, orders, exposed>> /\ task[g].at = "idle"
    BY DEF DisconnectMt5, ReadAccount
  <1>3. SessionShape'
    <2>1. /\ owner' \in Gateways \cup {NoGateway} /\ active' \in BOOLEAN
          /\ terminal' \in TerminalAccounts \cup {NoAccount}
          /\ pinned' \in [Gateways -> TerminalAccounts \cup {NoAccount}]
      BY DEF DisconnectMt5, ReadAccount, ShutDown, SessionInv, SessionShape
    <2> QED BY <1>2, <2>1 DEF SessionInv, SessionShape
  <1>4. TaskSound(g)'
    BY <1>2 DEF TaskSound
  <1>5. OutcomeSound(g)'
    BY <1>2, NoOrderStep, OutcomeKept DEF SessionInv
  <1> QED BY <1>1, <1>2, <1>3, <1>4, <1>5, NoOrderStep, CallStep

\* How a call ends: its gateway is idle again and its answer has the right shape.
LEMMA EndsShape ==
    ASSUME SessionAssumption, SessionInv, NEW g \in Gateways,
           NEW status \in Statuses,
           NEW code \in Codes \cup {"NONE"}, NEW volume \in Int, Ends(g, status, code, volume)
    PROVE  /\ task' \in [Gateways -> TaskRecords]
           /\ outcome' \in [Gateways -> AnswerRecords]
           /\ task'[g].at = "idle" /\ TaskSound(g)'
           /\ outcome'[g] = [status |-> status, code |-> code, volume |-> volume,
                             asked |-> task[g].volume, order |-> task[g].order]
           /\ \A h \in Gateways \ {g} : task'[h] = task[h] /\ outcome'[h] = outcome[h]
  <1>1. /\ task \in [Gateways -> TaskRecords]
        /\ outcome \in [Gateways -> AnswerRecords]
    BY DEF SessionInv, SessionShape
  <1>2. IdleTask \in TaskRecords
    BY DEF SessionAssumption, IdleTask, SessionSteps, TaskRecords
  <1>3. /\ task' \in [Gateways -> TaskRecords]
        /\ task'[g] = IdleTask /\ \A h \in Gateways \ {g} : task'[h] = task[h]
    BY <1>1, <1>2 DEF Ends
  <1>4. task[g].volume \in Nat /\ task[g].order \in 0 .. MaxOrders
    BY <1>1 DEF TaskRecords
  <1>5. /\ outcome' \in [Gateways -> AnswerRecords]
        /\ outcome'[g] = [status |-> status, code |-> code, volume |-> volume,
                          asked |-> task[g].volume, order |-> task[g].order]
        /\ \A h \in Gateways \ {g} : outcome'[h] = outcome[h]
    BY <1>1, <1>4 DEF Ends, AnswerRecords
  <1>6. task'[g].at = "idle"
    BY <1>3 DEF IdleTask
  <1>7. TaskSound(g)'
    BY <1>6 DEF TaskSound
  <1> QED BY <1>3, <1>5, <1>6, <1>7

\* A call that ends and executes nothing.
LEMMA EndKeeps ==
    ASSUME SessionAssumption, SessionInv, NEW g \in Gateways, owner = g,
           NEW status \in Statuses,
           NEW code \in Codes \cup {"NONE"}, NEW volume \in Int, Ends(g, status, code, volume),
           UNCHANGED <<owner, terminal, pinned, exposed>>, active' \in BOOLEAN,
           OrdersKept, OrdersSound', \E n \in 0 .. MaxOrders : orders' \in [1 .. n -> OrderRecords],
           OutcomeSound(g)'
    PROVE  SessionInv'
  <1>1. \A h \in Gateways \ {g} : task[h].at = "idle"
    BY OthersIdle
  <1>2. SessionShape'
    BY EndsShape DEF SessionInv, SessionShape
  <1> QED BY <1>1, <1>2, EndsShape, CallStep

\* The demo guard of a submission: the gateway's previous answer is gone.
LEMMA BeginSubmitKeeps ==
    ASSUME SessionAssumption, SessionInv, NEW g \in Gateways, NEW v \in Volumes, BeginSubmit(g, v)
    PROVE  SessionInv'
  <1>1. \A h \in Gateways \ {g} : task[h].at = "idle"
    BY OthersIdle DEF BeginSubmit, Connected
  <1>2. UNCHANGED <<owner, active, terminal, pinned, orders, exposed>> /\ owner = g
    BY DEF BeginSubmit, Connected
  <1>3. [at |-> "guarded", volume |-> v, order |-> 0]
            \in TaskRecords
    BY DEF SessionAssumption, SessionSteps, TaskRecords
  <1>4. NoOutcome \in AnswerRecords
    BY DEF NoOutcome, SessionAssumption, AnswerRecords, Statuses
  <1>5. SessionShape'
    BY <1>2, <1>3, <1>4 DEF BeginSubmit, SessionInv, SessionShape
  <1>6. /\ task'[g] = [at |-> "guarded", volume |-> v, order |-> 0] /\ outcome'[g] = NoOutcome
        /\ \A h \in Gateways \ {g} : task'[h] = task[h] /\ outcome'[h] = outcome[h]
    BY DEF BeginSubmit, SessionInv, SessionShape
  <1>7. TaskSound(g)' /\ OutcomeSound(g)'
    BY <1>6 DEF TaskSound, OutcomeSound, NoOutcome
  <1> QED BY <1>1, <1>2, <1>5, <1>6, <1>7, NoOrderStep, CallStep

\* The next step of a call.
LEMMA MovesTo ==
    ASSUME SessionInv, NEW g \in Gateways, NEW step \in SessionSteps,
           task' = [task EXCEPT ![g].at = step]
    PROVE  /\ task' \in [Gateways -> TaskRecords]
           /\ task'[g].at = step /\ task'[g].volume = task[g].volume
           /\ task'[g].order = task[g].order
           /\ \A h \in Gateways \ {g} : task'[h] = task[h]
  BY DEF SessionInv, SessionShape, TaskRecords

\* The readiness check of a submission.
LEMMA VerifyReadyKeeps ==
    ASSUME SessionAssumption, SessionInv, NEW g \in Gateways, VerifyReady(g)
    PROVE  SessionInv'
  <1>1. task[g].at = "guarded" /\ UNCHANGED <<owner, terminal, pinned, orders>>
    BY DEF VerifyReady
  <1>2. owner = g /\ task[g].order = 0 /\ outcome[g].status = "NONE"
    BY <1>1 DEF SessionInv, CallOwnsSession, TaskSound
  <1>3. OrdersKept /\ OrdersSound'
    BY <1>1, NoOrderStep
  <1>4. CASE IdentityVerified(g) /\ task' = [task EXCEPT ![g].at = "verified"]
             /\ exposed' = exposed \ {g} /\ UNCHANGED <<active, outcome>>
    <2>1. \A h \in Gateways \ {g} : task[h].at = "idle"
      BY <1>2, OthersIdle
    <2>2. "verified" \in SessionSteps
      BY DEF SessionSteps
    <2>3. SessionShape'
      BY <1>1, <1>4, <2>2, MovesTo DEF SessionInv, SessionShape
    <2>4. TaskSound(g)'
      BY <1>1, <1>2, <1>4, <2>2, MovesTo DEF TaskSound, OnVerified, IdentityVerified
    <2>5. OutcomeSound(g)'
      BY <1>2, <1>4 DEF OutcomeSound
    <2> QED BY <1>1, <1>2, <1>3, <1>4, <2>1, <2>2, <2>3, <2>4, <2>5, MovesTo, CallStep
  <1>5. CASE Ends(g, "NOT_SENT", "NONE", 0) /\ active' = (active /\ owner # g) /\ UNCHANGED exposed
    <2>1. "NOT_SENT" \in Statuses /\ "NONE" \in Codes \cup {"NONE"} /\ 0 \in Int
      BY DEF Statuses
    <2>2. outcome'[g] = [status |-> "NOT_SENT", code |-> "NONE", volume |-> 0,
                         asked |-> task[g].volume, order |-> task[g].order]
      BY <1>5, <2>1, EndsShape
    <2>3. OutcomeSound(g)'
      BY <1>2, <2>2 DEF OutcomeSound
    <2>4. active' \in BOOLEAN /\ \E n \in 0 .. MaxOrders : orders' \in [1 .. n -> OrderRecords]
      BY <1>1, <1>5 DEF SessionInv, SessionShape
    <2> QED BY <1>1, <1>2, <1>3, <1>5, <2>1, <2>3, <2>4, EndKeeps
  <1> QED BY <1>4, <1>5 DEF VerifyReady

\* The checks before an order is sent.
LEMMA PrepareOrderKeeps ==
    ASSUME SessionAssumption, SessionInv, NEW g \in Gateways, PrepareOrder(g)
    PROVE  SessionInv'
  <1>1. task[g].at = "verified" /\ UNCHANGED <<owner, active, terminal, pinned, orders, exposed>>
    BY DEF PrepareOrder
  <1>2. owner = g /\ task[g].order = 0 /\ OnVerified(g)
    BY <1>1 DEF SessionInv, CallOwnsSession, TaskSound
  <1>3. OrdersKept /\ OrdersSound'
    BY <1>1, NoOrderStep
  <1>4. CASE task' = [task EXCEPT ![g].at = "checked"] /\ UNCHANGED outcome
    <2>1. \A h \in Gateways \ {g} : task[h].at = "idle"
      BY <1>2, OthersIdle
    <2>2. "checked" \in SessionSteps
      BY DEF SessionSteps
    <2>3. SessionShape'
      BY <1>1, <1>4, <2>2, MovesTo DEF SessionInv, SessionShape
    <2>4. TaskSound(g)'
      BY <1>1, <1>2, <1>4, <2>2, MovesTo DEF TaskSound, OnVerified
    <2>5. OutcomeSound(g)'
      BY <1>1, <1>3, <1>4, OutcomeKept DEF SessionInv
    <2> QED BY <1>1, <1>2, <1>3, <1>4, <2>1, <2>2, <2>3, <2>4, <2>5, MovesTo, CallStep
  <1>5. CASE Ends(g, "NOT_SENT", "NONE", 0)
    <2>1. "NOT_SENT" \in Statuses /\ "NONE" \in Codes \cup {"NONE"} /\ 0 \in Int
      BY DEF Statuses
    <2>2. outcome'[g] = [status |-> "NOT_SENT", code |-> "NONE", volume |-> 0,
                         asked |-> task[g].volume, order |-> task[g].order]
      BY <1>5, <2>1, EndsShape
    <2>3. OutcomeSound(g)'
      BY <1>2, <2>2 DEF OutcomeSound
    <2>4. active' \in BOOLEAN /\ \E n \in 0 .. MaxOrders : orders' \in [1 .. n -> OrderRecords]
      BY <1>1 DEF SessionInv, SessionShape
    <2> QED BY <1>1, <1>2, <1>3, <1>5, <2>1, <2>3, <2>4, EndKeeps
  <1> QED BY <1>1, <1>4, <1>5 DEF PrepareOrder

\* An executed order is on the verified account or marked as strayed.
LEMMA ExecutedOrders ==
    ASSUME SessionAssumption, SessionInv, NEW g \in Gateways, NEW volume \in Nat,
           task[g].at = "checked", terminal # NoAccount, OrderCount < MaxOrders,
           Executed(g, volume)
    PROVE  /\ OrderCount + 1 \in 1 .. MaxOrders
           /\ orders' \in [1 .. OrderCount + 1 -> OrderRecords]
           /\ OrdersKept /\ OrdersSound' /\ orders'[OrderCount + 1].volume = volume
           /\ OrderCount + 1 \in DOMAIN orders'
  <1> DEFINE k == OrderCount
             new == [account |-> terminal, volume |-> volume, strayed |-> g \in exposed,
                     open |-> TRUE]
  <1>1. k \in 0 .. MaxOrders /\ orders \in [1 .. k -> OrderRecords]
    BY OrdersNumbered DEF SessionInv
  <1>2. k \in Nat /\ k + 1 \in 1 .. MaxOrders
    BY <1>1 DEF SessionAssumption
  <1>3. new \in OrderRecords
    BY DEF SessionInv, SessionShape, OrderRecords
  <1>4. orders' = [n \in 1 .. k + 1 |-> IF n <= k THEN orders[n] ELSE new]
    BY DEF Executed
  <1> HIDE DEF k, new
  <1>5. orders' \in [1 .. k + 1 -> OrderRecords]
    BY <1>1, <1>2, <1>3, <1>4
  <1>6. DOMAIN orders = 1 .. k /\ DOMAIN orders' = 1 .. k + 1
    BY <1>1, <1>4
  <1>7. \A n \in 1 .. k : orders'[n] = orders[n]
    BY <1>2, <1>4
  <1>8. orders'[k + 1] = new
    BY <1>2, <1>4
  <1>9. OrdersKept
    BY <1>2, <1>6, <1>7 DEF OrdersKept
  <1>10. new.account \in DemoAccounts \cap {Configured} \/ new.strayed
    BY DEF new, SessionInv, TaskSound, OnVerified
  <1>11. OrdersSound'
    <2> SUFFICES ASSUME NEW n \in 1 .. k + 1
                 PROVE  orders'[n].account \in DemoAccounts \cap {Configured} \/ orders'[n].strayed
      BY <1>6 DEF OrdersSound
    <2>1. CASE n \in 1 .. k
      BY <1>6, <1>7, <2>1 DEF SessionInv, OrdersSound
    <2>2. CASE n = k + 1
      BY <1>8, <1>10, <2>2
    <2> QED BY <1>2, <2>1, <2>2
  <1>12. new.volume = volume
    BY DEF new
  <1> QED BY <1>2, <1>5, <1>6, <1>8, <1>9, <1>11, <1>12 DEF k

\* order_send: the answer names what the server did.
LEMMA SendMarketOrderKeeps ==
    ASSUME SessionAssumption, SessionInv, NEW g \in Gateways, SendMarketOrder(g)
    PROVE  SessionInv'
  <1> DEFINE full == NormalizeVolume(task[g].volume)
  <1>1. task[g].at = "checked" /\ UNCHANGED <<owner, active, terminal, pinned, outcome, exposed>>
    BY DEF SendMarketOrder
  <1>2. PICK code \in Codes, done \in BOOLEAN :
          /\ code \in {"DONE", "DONE_PARTIAL"} => done
          /\ code = "REFUSED" => ~done
          /\ done => terminal # NoAccount /\ OrderCount < MaxOrders
          /\ \E volume \in IF code = "DONE_PARTIAL" THEN 1 .. full - 1 ELSE {full} :
                /\ IF done THEN Executed(g, volume) ELSE UNCHANGED orders
                /\ task' = [task EXCEPT ![g] =
                      [at |-> code, volume |-> task[g].volume,
                       order |-> IF done THEN OrderCount + 1 ELSE 0]]
    BY DEF SendMarketOrder, Codes
  <1>3. task[g].volume \in Nat
    BY DEF SessionInv, SessionShape, TaskRecords
  <1>4. full \in Nat /\ full <= task[g].volume
    BY <1>3, NormalizeRoundsDown
  <1> HIDE DEF full
  <1>5. PICK volume \in IF code = "DONE_PARTIAL" THEN 1 .. full - 1 ELSE {full} :
                /\ IF done THEN Executed(g, volume) ELSE UNCHANGED orders
                /\ task' = [task EXCEPT ![g] =
                      [at |-> code, volume |-> task[g].volume,
                       order |-> IF done THEN OrderCount + 1 ELSE 0]]
    BY <1>2
  <1>6. /\ volume \in Nat /\ (code = "DONE" => volume = full)
        /\ (code = "DONE_PARTIAL" => volume <= full)
    BY <1>4, <1>5
  <1> DEFINE number == IF done THEN OrderCount + 1 ELSE 0
  <1>7. /\ number \in 0 .. MaxOrders /\ OrdersKept /\ OrdersSound'
        /\ \E n \in 0 .. MaxOrders : orders' \in [1 .. n -> OrderRecords]
        /\ done => number \in DOMAIN orders' /\ orders'[number].volume = volume
    <2>1. CASE done
      <3>1. /\ OrderCount + 1 \in 1 .. MaxOrders
            /\ orders' \in [1 .. OrderCount + 1 -> OrderRecords]
            /\ OrdersKept /\ OrdersSound' /\ orders'[OrderCount + 1].volume = volume
            /\ OrderCount + 1 \in DOMAIN orders'
        BY <1>1, <1>2, <1>5, <1>6, <2>1, ExecutedOrders
      <3>2. OrderCount + 1 \in 0 .. MaxOrders
        BY <3>1, OrdersNumbered DEF SessionInv, SessionAssumption
      <3> QED BY <2>1, <3>1, <3>2
    <2>2. CASE ~done
      BY <1>5, <2>2, NoOrderStep DEF SessionAssumption, SessionInv, SessionShape
    <2> QED BY <2>1, <2>2
  <1>8. task' = [task EXCEPT ![g] = [at |-> code, volume |-> task[g].volume, order |-> number]]
    BY <1>5
  <1> HIDE DEF number
  <1>9. [at |-> code, volume |-> task[g].volume, order |-> number] \in TaskRecords
    BY <1>3, <1>7 DEF TaskRecords, SessionSteps
  <1>10. /\ task' \in [Gateways -> TaskRecords]
         /\ task'[g] = [at |-> code, volume |-> task[g].volume, order |-> number]
         /\ \A h \in Gateways \ {g} : task'[h] = task[h]
    BY <1>8, <1>9 DEF SessionInv, SessionShape
  <1>11. SessionShape'
    BY <1>1, <1>7, <1>10 DEF SessionInv, SessionShape
  <1>12. TaskSound(g)'
    <2>1. code \notin {"guarded", "verified", "checked", "closing", "confirming"}
      BY DEF Codes
    <2>2. code \in {"DONE", "DONE_PARTIAL"} =>
            number \in DOMAIN orders' /\ orders'[number].volume = volume
      BY <1>2, <1>7
    <2>3. code = "REFUSED" => number = 0
      BY <1>2 DEF number
    <2> QED BY <1>6, <1>10, <2>1, <2>2, <2>3 DEF TaskSound, full
  <1>13. OutcomeSound(g)'
    BY <1>1, <1>7, OutcomeKept DEF SessionInv
  <1>14. owner = g
    BY <1>1 DEF SessionInv, CallOwnsSession
  <1>15. \A h \in Gateways \ {g} : task[h].at = "idle"
    BY <1>14, OthersIdle
  <1> QED BY <1>1, <1>7, <1>10, <1>11, <1>12, <1>13, <1>14, <1>15, CallStep

\* The answer of a submission.
LEMMA ReturnResultKeeps ==
    ASSUME SessionAssumption, SessionInv, NEW g \in Gateways, ReturnResult(g)
    PROVE  SessionInv'
  <1> DEFINE status == StatusOf(task[g].at)
             filled == IF task[g].at = "DONE_PARTIAL" THEN orders[task[g].order].volume
                       ELSE NormalizeVolume(task[g].volume)
  <1>1. task[g].at \in Codes /\ UNCHANGED <<owner, active, terminal, pinned, orders, exposed>>
    BY DEF ReturnResult, Codes
  <1>2. owner = g
    BY <1>1 DEF SessionInv, CallOwnsSession, Codes
  <1>3. task[g].volume \in Nat /\ task[g].at \in Codes
    BY <1>1 DEF SessionInv, SessionShape, TaskRecords
  <1>4. NormalizeVolume(task[g].volume) \in Nat /\ NormalizeVolume(task[g].volume) <= task[g].volume
    BY <1>3, NormalizeRoundsDown
  <1>5. TaskSound(g)
    BY DEF SessionInv
  <1>6. status = "FILLED" => /\ task[g].order \in DOMAIN orders
                             /\ filled = orders[task[g].order].volume
                             /\ filled \in Int /\ filled <= task[g].volume
    <2>1. ASSUME status = "FILLED" PROVE task[g].at \in {"DONE", "DONE_PARTIAL"}
      BY <2>1 DEF StatusOf
    <2>2. \A n \in DOMAIN orders : orders[n].volume \in Int
      BY OrdersNumbered DEF SessionInv, OrderRecords
    <2> QED BY <1>3, <1>4, <1>5, <2>1, <2>2 DEF TaskSound
  <1>7. status = "REJECTED" => task[g].order = 0 \/ task[g].at = "AMBIGUOUS"
    <2>1. ASSUME status = "REJECTED" PROVE task[g].at \in {"REFUSED", "AMBIGUOUS"}
      BY <1>3, <2>1 DEF StatusOf, Codes
    <2> QED BY <1>5, <2>1 DEF TaskSound
  <1>8. status \in Statuses /\ status \in {"FILLED", "INDETERMINATE", "REJECTED"}
    BY DEF StatusOf, Statuses
  <1>9. OrdersKept /\ OrdersSound' /\ active' \in BOOLEAN
        /\ \E n \in 0 .. MaxOrders : orders' \in [1 .. n -> OrderRecords]
    BY <1>1, NoOrderStep DEF SessionInv, SessionShape
  <1> DEFINE said == IF status = "FILLED" THEN filled ELSE 0
             code == task[g].at
  <1>10. Ends(g, status, code, said) \/ Ends(g, "INDETERMINATE", code, 0)
    BY DEF ReturnResult
  <1>11. said \in Int /\ (status = "FILLED" => said = filled)
    BY <1>6
  <1>12. code \in Codes \cup {"NONE"}
    BY <1>3
  <1> HIDE DEF said, status, filled
  <1>13. CASE Ends(g, status, code, said)
    <2>1. outcome'[g] = [status |-> status, code |-> code, volume |-> said,
                         asked |-> task[g].volume, order |-> task[g].order]
      BY <1>8, <1>11, <1>12, <1>13, EndsShape
    <2>2. OutcomeSound(g)'
      BY <1>1, <1>6, <1>7, <1>8, <1>11, <2>1 DEF OutcomeSound
    <2> QED BY <1>1, <1>2, <1>8, <1>9, <1>11, <1>12, <1>13, <2>2, EndKeeps
  <1>14. CASE Ends(g, "INDETERMINATE", code, 0)
    <2>1. "INDETERMINATE" \in Statuses /\ 0 \in Int
      BY DEF Statuses
    <2>2. outcome'[g] = [status |-> "INDETERMINATE", code |-> code, volume |-> 0,
                         asked |-> task[g].volume, order |-> task[g].order]
      BY <1>12, <1>14, <2>1, EndsShape
    <2>3. OutcomeSound(g)'
      BY <2>2 DEF OutcomeSound
    <2> QED BY <1>1, <1>2, <1>9, <1>12, <1>14, <2>1, <2>3, EndKeeps
  <1> QED BY <1>10, <1>13, <1>14

\* A close is begun on the account that holds the position.
LEMMA BeginCloseKeeps ==
    ASSUME SessionAssumption, SessionInv, NEW g \in Gateways, NEW n \in 1 .. MaxOrders,
           BeginClose(g, n)
    PROVE  SessionInv'
  <1>1. /\ owner = g /\ task[g].at = "idle" /\ n \in DOMAIN orders
        /\ UNCHANGED <<owner, terminal, pinned, orders>>
    BY DEF BeginClose, Connected
  <1>2. \A h \in Gateways \ {g} : task[h].at = "idle"
    BY <1>1, OthersIdle
  <1>3. NoOutcome \in AnswerRecords
    BY DEF NoOutcome, SessionAssumption, AnswerRecords, Statuses
  <1>4. /\ outcome' \in [Gateways -> AnswerRecords] /\ outcome'[g] = NoOutcome
        /\ \A h \in Gateways \ {g} : outcome'[h] = outcome[h]
    BY <1>3 DEF BeginClose, SessionInv, SessionShape
  <1>5. OutcomeSound(g)'
    BY <1>4 DEF OutcomeSound, NoOutcome
  <1>6. CASE IdentityVerified(g) /\ orders[n].open /\ orders[n].account = terminal
    <2> DEFINE closing == [at |-> "closing", volume |-> orders[n].volume, order |-> n]
    <2>1. /\ task' = [task EXCEPT ![g] = closing] /\ exposed' = exposed \ {g} /\ UNCHANGED active
      BY <1>6 DEF BeginClose
    <2>2. closing \in TaskRecords
      BY <1>1, OrdersNumbered DEF SessionInv, OrderRecords, TaskRecords, SessionSteps, SessionAssumption
    <2> HIDE DEF closing
    <2>3. task' \in [Gateways -> TaskRecords] /\ task'[g] = closing
          /\ \A h \in Gateways \ {g} : task'[h] = task[h]
      BY <2>1, <2>2 DEF SessionInv, SessionShape
    <2>4. SessionShape'
      BY <1>1, <1>4, <2>1, <2>3 DEF SessionInv, SessionShape
    <2>5. TaskSound(g)'
      BY <1>1, <1>6, <2>3 DEF closing, TaskSound
    <2> QED BY <1>1, <1>2, <1>4, <1>5, <2>1, <2>3, <2>4, <2>5, NoOrderStep, CallStep
  <1>7. CASE ~(IdentityVerified(g) /\ orders[n].open /\ orders[n].account = terminal)
    <2>1. active' = IdentityVerified(g) /\ UNCHANGED <<task, exposed>>
      BY <1>7 DEF BeginClose
    <2>2. SessionShape'
      BY <1>1, <1>4, <2>1 DEF SessionInv, SessionShape, IdentityVerified
    <2>3. TaskSound(g)'
      BY <1>1, <2>1 DEF TaskSound
    <2> QED BY <1>1, <1>2, <1>4, <1>5, <2>1, <2>2, <2>3, NoOrderStep, CallStep
  <1> QED BY <1>6, <1>7

\* The closing deal.
LEMMA SendCloseKeeps ==
    ASSUME SessionAssumption, SessionInv, NEW g \in Gateways, SendClose(g)
    PROVE  SessionInv'
  <1> DEFINE k == OrderCount
             t == task[g].order
  <1>1. task[g].at = "closing" /\ UNCHANGED <<owner, active, terminal, pinned, exposed>>
    BY DEF SendClose
  <1>2. /\ owner = g /\ t \in DOMAIN orders
        /\ orders[t].account = terminal \/ g \in exposed
    BY <1>1 DEF SessionInv, CallOwnsSession, TaskSound
  <1>3. k \in 0 .. MaxOrders /\ orders \in [1 .. k -> OrderRecords]
    BY OrdersNumbered DEF SessionInv
  <1>4. \/ orders' = [orders EXCEPT ![t].open = FALSE]
        \/ orders' = orders
    BY DEF SendClose
  <1>5. \/ task' = [task EXCEPT ![g].at = "confirming"] /\ UNCHANGED outcome
        \/ Ends(g, "INDETERMINATE", "LOST", 0)
    BY DEF SendClose
  <1> HIDE DEF k, t
  <1>6. /\ orders' \in [1 .. k -> OrderRecords] /\ DOMAIN orders' = DOMAIN orders
        /\ \A n \in DOMAIN orders : /\ orders'[n].volume = orders[n].volume
                                    /\ orders'[n].account = orders[n].account
                                    /\ orders'[n].strayed = orders[n].strayed
                                    /\ orders'[n].open => orders[n].open
    <2>1. CASE orders' = orders
      BY <1>3, <2>1
    <2>2. CASE orders' = [orders EXCEPT ![t].open = FALSE]
      <3>1. DOMAIN orders' = DOMAIN orders
        BY <2>2
      <3>2. \A n \in DOMAIN orders : n # t => orders'[n] = orders[n]
        BY <2>2
      <3>3. orders'[t] = [orders[t] EXCEPT !.open = FALSE]
        BY <1>2, <2>2
      <3>4. orders[t] \in OrderRecords
        BY <1>2, <1>3
      <3>5. /\ orders'[t] \in OrderRecords /\ orders'[t].volume = orders[t].volume
            /\ orders'[t].account = orders[t].account /\ orders'[t].strayed = orders[t].strayed
            /\ ~orders'[t].open
        BY <3>3, <3>4 DEF OrderRecords
      <3>6. orders' \in [1 .. k -> OrderRecords]
        BY <1>3, <2>2, <3>2, <3>5
      <3> QED BY <3>1, <3>2, <3>5, <3>6
    <2> QED BY <1>4, <2>1, <2>2
  <1>7. OrdersKept
    BY <1>6 DEF OrdersKept
  <1>8. OrdersSound'
    BY <1>6 DEF SessionInv, OrdersSound
  <1>9. \E n \in 0 .. MaxOrders : orders' \in [1 .. n -> OrderRecords]
    BY <1>3, <1>6
  <1>10. CASE task' = [task EXCEPT ![g].at = "confirming"] /\ UNCHANGED outcome
    <2>1. \A h \in Gateways \ {g} : task[h].at = "idle"
      BY <1>2, OthersIdle
    <2>2. "confirming" \in SessionSteps
      BY DEF SessionSteps
    <2>3. SessionShape'
      BY <1>1, <1>9, <1>10, <2>2, MovesTo DEF SessionInv, SessionShape
    <2>4. TaskSound(g)'
      BY <1>1, <1>2, <1>6, <1>10, <2>2, MovesTo DEF TaskSound, t
    <2>5. OutcomeSound(g)'
      BY <1>1, <1>7, <1>10, OutcomeKept DEF SessionInv
    <2> QED BY <1>1, <1>2, <1>7, <1>8, <1>10, <2>1, <2>2, <2>3, <2>4, <2>5, MovesTo, CallStep
  <1>11. CASE Ends(g, "INDETERMINATE", "LOST", 0)
    <2>1. "INDETERMINATE" \in Statuses /\ "LOST" \in Codes \cup {"NONE"} /\ 0 \in Int
      BY DEF Statuses, Codes
    <2>2. outcome'[g] = [status |-> "INDETERMINATE", code |-> "LOST", volume |-> 0,
                         asked |-> task[g].volume, order |-> task[g].order]
      BY <1>11, <2>1, EndsShape
    <2>3. OutcomeSound(g)' /\ active' \in BOOLEAN
      BY <1>1, <2>2 DEF OutcomeSound, SessionInv, SessionShape
    <2> QED BY <1>1, <1>2, <1>7, <1>8, <1>9, <1>11, <2>1, <2>3, EndKeeps
  <1> QED BY <1>5, <1>10, <1>11

\* The confirmation of a close.
LEMMA ConfirmCloseKeeps ==
    ASSUME SessionAssumption, SessionInv, NEW g \in Gateways, ConfirmClose(g)
    PROVE  SessionInv'
  <1> DEFINE t == task[g].order
             shown == orders[t].open /\ orders[t].account = terminal
  <1>1. task[g].at = "confirming" /\ UNCHANGED <<owner, active, terminal, pinned, orders, exposed>>
    BY DEF ConfirmClose
  <1>2. /\ owner = g /\ t \in DOMAIN orders
        /\ orders[t].account = terminal \/ g \in exposed
    BY <1>1 DEF SessionInv, CallOwnsSession, TaskSound
  <1>3. OrdersKept /\ OrdersSound' /\ active' \in BOOLEAN
        /\ \E n \in 0 .. MaxOrders : orders' \in [1 .. n -> OrderRecords]
    BY <1>1, NoOrderStep DEF SessionInv, SessionShape
  <1>4. {"INDETERMINATE", "CLOSED"} \subseteq Statuses /\ "DONE" \in Codes \cup {"NONE"} /\ 0 \in Int
        /\ task[g].volume \in Int
    BY DEF Statuses, Codes, SessionInv, SessionShape, TaskRecords
  <1>5. CASE shown
    <2>1. Ends(g, "INDETERMINATE", "DONE", 0)
      BY <1>5 DEF ConfirmClose
    <2>2. outcome'[g] = [status |-> "INDETERMINATE", code |-> "DONE", volume |-> 0,
                         asked |-> task[g].volume, order |-> t]
      BY <1>4, <2>1, EndsShape
    <2>3. OutcomeSound(g)'
      BY <2>2 DEF OutcomeSound
    <2> QED BY <1>1, <1>2, <1>3, <1>4, <2>1, <2>3, EndKeeps
  <1>6. CASE ~shown
    <2>1. Ends(g, "CLOSED", "DONE", task[g].volume)
      BY <1>6 DEF ConfirmClose
    <2>2. outcome'[g] = [status |-> "CLOSED", code |-> "DONE", volume |-> task[g].volume,
                         asked |-> task[g].volume, order |-> t]
      BY <1>4, <2>1, EndsShape
    <2>3. OutcomeSound(g)'
      BY <1>1, <1>2, <1>6, <2>2 DEF OutcomeSound
    <2> QED BY <1>1, <1>2, <1>3, <1>4, <2>1, <2>3, EndKeeps
  <1> QED BY <1>5, <1>6

\* A terminal that changes accounts exposes every call under way.
LEMMA TerminalSwitchesKeeps ==
    ASSUME SessionAssumption, SessionInv, TerminalSwitches
    PROVE  SessionInv'
  <1>1. UNCHANGED <<owner, active, pinned, task, outcome, orders>> /\ exposed \subseteq exposed'
        /\ \A g \in Gateways : task[g].at # "idle" => g \in exposed'
    BY DEF TerminalSwitches
  <1>2. SessionShape'
    BY <1>1 DEF TerminalSwitches, SessionInv, SessionShape
  <1>3. CallOwnsSession'
    BY <1>1 DEF SessionInv, CallOwnsSession
  <1>4. OrdersKept /\ OrdersSound'
    BY <1>1, NoOrderStep
  <1>5. \A g \in Gateways : OutcomeSound(g)'
    BY <1>1, <1>4, OutcomeKept DEF SessionInv
  <1>6. \A g \in Gateways : TaskSound(g)'
    BY <1>1 DEF SessionInv, TaskSound, OnVerified
  <1> QED BY <1>2, <1>3, <1>4, <1>5, <1>6 DEF SessionInv

\* Every step of the session keeps the invariant.
LEMMA SessionInvStep ==
    ASSUME SessionAssumption, SessionInv, [SessionNext]_sessionVars
    PROVE  SessionInv'
  <1>1. CASE UNCHANGED sessionVars
    BY <1>1 DEF sessionVars, SessionInv, SessionShape, CallOwnsSession, OrdersSound, TaskSound,
                OutcomeSound, OnVerified
  <1>2. CASE TerminalSwitches
    BY <1>2, TerminalSwitchesKeeps
  <1>3. ASSUME NEW g \in Gateways, Connect(g) \/ GuardConnect(g) PROVE SessionInv'
    BY <1>3, ConnectKeeps
  <1>4. ASSUME NEW g \in Gateways, DisconnectMt5(g) \/ ReadAccount(g) PROVE SessionInv'
    BY <1>4, IdleOwnerKeeps
  <1>5. ASSUME NEW g \in Gateways, NEW v \in Volumes, BeginSubmit(g, v) PROVE SessionInv'
    BY <1>5, BeginSubmitKeeps
  <1>6. ASSUME NEW g \in Gateways,
               VerifyReady(g) \/ PrepareOrder(g) \/ SendMarketOrder(g) \/ ReturnResult(g)
        PROVE  SessionInv'
    BY <1>6, VerifyReadyKeeps, PrepareOrderKeeps, SendMarketOrderKeeps, ReturnResultKeeps
  <1>7. ASSUME NEW g \in Gateways, NEW n \in 1 .. MaxOrders, BeginClose(g, n) PROVE SessionInv'
    BY <1>7, BeginCloseKeeps
  <1>8. ASSUME NEW g \in Gateways, SendClose(g) \/ ConfirmClose(g) PROVE SessionInv'
    BY <1>8, SendCloseKeeps, ConfirmCloseKeeps
  <1> QED BY <1>1, <1>2, <1>3, <1>4, <1>5, <1>6, <1>7, <1>8 DEF SessionNext

\* What the invariant says of the session's properties.
LEMMA SessionInvSound ==
    ASSUME SessionAssumption, SessionInv
    PROVE  SessionTypeOK /\ OrdersOnVerifiedAccount /\ AnswersMatchBroker
  <1>1. SessionTypeOK
    <2>1. DOMAIN orders \subseteq 1 .. MaxOrders
      BY OrdersNumbered DEF SessionInv, SessionAssumption
    <2> QED BY <2>1 DEF SessionInv, SessionShape, SessionTypeOK, TaskRecords
  <1>2. OrdersOnVerifiedAccount
    BY DEF SessionInv, OrdersSound, CallOwnsSession, OrdersOnVerifiedAccount
  <1>3. AnswersMatchBroker
    BY DEF SessionInv, OutcomeSound, AnswersMatchBroker
  <1> QED BY <1>1, <1>2, <1>3

\* The MetaTrader session, whatever else runs: every order is on the verified account, and
\* every answer of a gateway is what happened at the broker (mt5_gateway.py, mt5_session.py).
THEOREM SessionSafe ==
    ASSUME SessionAssumption
    PROVE  SessionSpec => [](SessionTypeOK /\ OrdersOnVerifiedAccount /\ AnswersMatchBroker)
  <1>1. SessionInit => SessionInv
    BY SessionInvInit
  <1>2. SessionInv /\ [SessionNext]_sessionVars => SessionInv'
    BY SessionInvStep
  <1>3. SessionInv => SessionTypeOK /\ OrdersOnVerifiedAccount /\ AnswersMatchBroker
    BY SessionInvSound
  <1> QED BY <1>1, <1>2, <1>3, PTL DEF SessionSpec

(***************************************************************************)
(* The Deriv gateway.  A request is awaited only by the step that sent it, *)
(* the one buy request of a submission is on the wire at most once and its *)
(* answer tells whether the contract was opened, and the connection a      *)
(* submission uses stays on the DEMO login it was checked on unless        *)
(* connect() is entered again.                                             *)
(***************************************************************************)
Bodies == {"request", "ok", "error", "malformed"}
Messages == [request : Requests, socket : Sockets, body : Bodies]

\* Sockets are numbered as they are opened.
SocketsNumbered ==
    \E n \in 0 .. MaxSockets :
        login \in [1 .. n -> Logins] /\ (connecting = "opening" => n < MaxSockets)

GatewayShape ==
    /\ GatewayTypeOK /\ SocketsNumbered
    /\ wire \subseteq Messages /\ \A m \in wire : m.socket \in DOMAIN login
    /\ \A r \in DOMAIN answered : answered[r] \in (Bodies \ {"request"}) \cup {"failed"}
    /\ calls \in [Calls -> CallSteps \cup Ended \cup {"idle"}]
    /\ bought \subseteq Calls \X DOMAIN login

\* Nobody waits for a request but the step that sent it.
Awaited == pending \cup DOMAIN answered
WaitsOwned ==
    /\ \A c \in Calls, step \in CallSteps : Tag(c, step) \in Awaited => calls[c] = step
    /\ \A s \in Sockets : AuthorizeTag(s) \in Awaited => s \in DOMAIN login

OnDemo == connection # 0 => login[connection] = "demo"
BoundToDemo ==
    /\ pat => OnDemo
    /\ account # "None" => connecting = "idle" /\ OnDemo
    /\ \A c \in Calls : InFlight(c) /\ c \notin overtaken => connecting = "idle" /\ OnDemo

BuyMessages(c) == {m \in wire : m.request = Tag(c, "buy")}
Contracts(c) == {b \in bought : b[1] = c}
OnceBought(c) ==
    /\ \A m1, m2 \in BuyMessages(c) : m1 = m2
    /\ \A b1, b2 \in Contracts(c) : b1 = b2
    /\ BuyMessages(c) # {} \/ Contracts(c) # {} => calls[c] \in {"buy", "FILLED", "raised"}
    /\ \A m \in BuyMessages(c) : Contracts(c) = {} <=> m.body \in {"request", "error"}
    /\ Tag(c, "buy") \in DOMAIN answered =>
          /\ answered[Tag(c, "buy")] = "ok" => Contracts(c) # {}
          /\ answered[Tag(c, "buy")] = "error" => Contracts(c) = {} /\ BuyMessages(c) = {}
    /\ calls[c] = "FILLED" => Contracts(c) # {}

MayBuyOn(c, s) == login[s] = "demo" \/ (c \in overtaken /\ ~pat)
BoughtOnDemo ==
    \A c \in Calls : /\ \A m \in BuyMessages(c) : MayBuyOn(c, m.socket)
                     /\ \A b \in Contracts(c) : MayBuyOn(c, b[2])

GatewayInv ==
    /\ GatewayShape /\ WaitsOwned /\ BoundToDemo /\ BoughtOnDemo
    /\ \A c \in Calls : OnceBought(c)

\* Requests are told apart by who sent them and which of its requests they are.
LEMMA RequestNames ==
    /\ \A c \in Calls, step \in CallSteps : Tag(c, step) \in Requests
    /\ \A s \in Sockets : AuthorizeTag(s) \in Requests
    /\ \A c, d \in Calls, step, other \in CallSteps :
          Tag(c, step) = Tag(d, other) => c = d /\ step = other
    /\ \A s, t \in Sockets : AuthorizeTag(s) = AuthorizeTag(t) => s = t
    /\ \A c \in Calls, step \in CallSteps, s \in Sockets : Tag(c, step) # AuthorizeTag(s)
    /\ \A r \in Requests : r[2] = "buy" => r[1] \in Calls /\ r = Tag(r[1], "buy")
    /\ \A c \in Calls, step \in CallSteps : Tag(c, step)[1] = c /\ Tag(c, step)[2] = step
  BY DEF Tag, AuthorizeTag, Requests, CallSteps, Connector

\* A gateway that has never connected.
LEMMA GatewayInvInit == ASSUME SocketsAssumption, GatewayInit PROVE GatewayInv
  <1>1. SocketsNumbered
    <2>1. 0 \in 0 .. MaxSockets /\ login \in [1 .. 0 -> Logins]
      BY DEF GatewayInit, SocketsAssumption
    <2> QED BY <2>1 DEF GatewayInit, SocketsNumbered
  <1>2. GatewayTypeOK
    BY DEF GatewayInit, GatewayTypeOK, Logins
  <1>3. GatewayShape
    BY <1>1, <1>2 DEF GatewayInit, GatewayShape
  <1>4. WaitsOwned /\ BoundToDemo /\ BoughtOnDemo
    BY DEF GatewayInit, WaitsOwned, Awaited, BoundToDemo, OnDemo, BoughtOnDemo, InFlight, CallSteps,
           BuyMessages, Contracts
  <1>5. \A c \in Calls : OnceBought(c)
    BY DEF GatewayInit, OnceBought, BuyMessages, Contracts
  <1> QED BY <1>3, <1>4, <1>5 DEF GatewayInv

\* The number of sockets opened so far, and the one opened next.
LEMMA SocketNumbers ==
    ASSUME SocketsAssumption, SocketsNumbered
    PROVE  /\ Cardinality(DOMAIN login) \in 0 .. MaxSockets
           /\ login \in [1 .. Cardinality(DOMAIN login) -> Logins]
           /\ DOMAIN login = 1 .. Cardinality(DOMAIN login)
           /\ connecting = "opening" => Cardinality(DOMAIN login) < MaxSockets
  <1>1. PICK n \in 0 .. MaxSockets :
          login \in [1 .. n -> Logins] /\ (connecting = "opening" => n < MaxSockets)
    BY DEF SocketsNumbered
  <1>2. n \in Nat /\ DOMAIN login = 1 .. n
    BY <1>1 DEF SocketsAssumption
  <1>3. Cardinality(1 .. n) = n
    BY <1>2, FS_Interval
  <1> QED BY <1>1, <1>2, <1>3

\* Opening a socket adds it to the login table and changes no other entry.
LEMMA OpenedSockets ==
    ASSUME SocketsAssumption, SocketsNumbered, connecting = "opening", NEW l \in Logins
    PROVE  /\ NextSocket \in Sockets /\ NextSocket \notin DOMAIN login /\ NextSocket # 0
           /\ DOMAIN Opened(l) = DOMAIN login \cup {NextSocket}
           /\ \A s \in DOMAIN login : Opened(l)[s] = login[s]
           /\ Opened(l)[NextSocket] = l
           /\ DOMAIN Opened(l) \subseteq Sockets
           /\ \E n \in 0 .. MaxSockets : Opened(l) \in [1 .. n -> Logins]
  <1> DEFINE n == Cardinality(DOMAIN login)
  <1>1. n \in 0 .. MaxSockets /\ login \in [1 .. n -> Logins] /\ DOMAIN login = 1 .. n
        /\ n < MaxSockets
    BY SocketNumbers
  <1>2. NextSocket = n + 1
    BY DEF NextSocket
  <1> HIDE DEF n
  <1>3. n \in Nat /\ n + 1 \in Nat /\ n + 1 \in 1 .. MaxSockets /\ n + 1 \notin 1 .. n /\ n + 1 # 0
        /\ n + 1 \in 0 .. MaxSockets
    BY <1>1 DEF SocketsAssumption
  <1>4. (1 .. n) \cup {n + 1} = 1 .. n + 1 /\ 1 .. n + 1 \subseteq 1 .. MaxSockets
    BY <1>1, <1>3 DEF SocketsAssumption
  <1>5. Opened(l) = [s \in 1 .. n + 1 |-> IF s = n + 1 THEN l ELSE login[s]]
    BY <1>1, <1>2, <1>4 DEF Opened
  <1>6. Opened(l) \in [1 .. n + 1 -> Logins]
    BY <1>1, <1>3, <1>4, <1>5
  <1> QED BY <1>1, <1>2, <1>3, <1>4, <1>5, <1>6 DEF Sockets

\* What a step that sends no buy request and opens no contract must keep for c.
LEMMA OnceBoughtKept ==
    ASSUME NEW c \in Calls, OnceBought(c), Contracts(c)' = Contracts(c),
           BuyMessages(c)' \subseteq BuyMessages(c),
           calls'[c] = calls[c] \/ (calls'[c] = "raised") \/
             (calls[c] \notin {"buy", "FILLED", "raised"} /\ calls'[c] # "FILLED"),
           Tag(c, "buy") \in DOMAIN answered' =>
              \/ answered'[Tag(c, "buy")] = "failed"
              \/ /\ Tag(c, "buy") \in DOMAIN answered
                 /\ answered'[Tag(c, "buy")] = answered[Tag(c, "buy")]
    PROVE  OnceBought(c)'
  <1>1. BuyMessages(c)' # {} \/ Contracts(c)' # {} => calls'[c] \in {"buy", "FILLED", "raised"}
    BY DEF OnceBought
  <1>2. calls'[c] = "FILLED" => Contracts(c)' # {}
    BY DEF OnceBought
  <1> QED BY <1>1, <1>2 DEF OnceBought

\* A step that sends no buy request and opens no contract.
LEMMA BoughtOnDemoKept ==
    ASSUME BoughtOnDemo, bought' = bought, pat' = pat, overtaken \subseteq overtaken',
           GatewayShape, \A s \in DOMAIN login : login'[s] = login[s],
           \A c \in Calls : \A m \in BuyMessages(c)' : \E k \in BuyMessages(c) : m.socket = k.socket
    PROVE  BoughtOnDemo'
  <1> SUFFICES ASSUME NEW c \in Calls
               PROVE  /\ \A m \in BuyMessages(c)' : MayBuyOn(c, m.socket)'
                      /\ \A b \in Contracts(c)' : MayBuyOn(c, b[2])'
    BY DEF BoughtOnDemo
  <1>1. \A s \in DOMAIN login : MayBuyOn(c, s) => MayBuyOn(c, s)'
    BY DEF MayBuyOn
  <1>2. \A m \in BuyMessages(c) : m.socket \in DOMAIN login /\ MayBuyOn(c, m.socket)
    BY DEF BoughtOnDemo, BuyMessages, GatewayShape
  <1>3. \A b \in Contracts(c)' : b[2] \in DOMAIN login /\ MayBuyOn(c, b[2])
    BY DEF BoughtOnDemo, Contracts, GatewayShape
  <1>4. \A m \in BuyMessages(c)' : m.socket \in DOMAIN login /\ MayBuyOn(c, m.socket)
    BY <1>2
  <1> QED BY <1>1, <1>3, <1>4

\* Futures are only ever failed, or keep what they were resolved with.
AnswersKeptOrFailed ==
    \A c \in Calls : Tag(c, "buy") \in DOMAIN answered' =>
        \/ answered'[Tag(c, "buy")] = "failed"
        \/ /\ Tag(c, "buy") \in DOMAIN answered
           /\ answered'[Tag(c, "buy")] = answered[Tag(c, "buy")]

\* A step of the connection: no submission moves, and none of their messages is added.
LEMMA ConnectionStep ==
    ASSUME GatewayInv, UNCHANGED <<calls, bought, pat>>, overtaken \subseteq overtaken',
           \A s \in DOMAIN login : login'[s] = login[s],
           \A c \in Calls : BuyMessages(c)' \subseteq BuyMessages(c),
           AnswersKeptOrFailed, GatewayShape', WaitsOwned', BoundToDemo'
    PROVE  GatewayInv'
  <1>1. \A c \in Calls : OnceBought(c)'
    BY OnceBoughtKept DEF GatewayInv, AnswersKeptOrFailed, Contracts
  <1>2. BoughtOnDemo'
    BY BoughtOnDemoKept DEF GatewayInv
  <1> QED BY <1>1, <1>2 DEF GatewayInv

\* Entering connect().
LEMMA BeginConnectKeeps ==
    ASSUME SocketsAssumption, GatewayInv, BeginConnect
    PROVE  GatewayInv'
  <1>1. /\ UNCHANGED <<socketVars, connected, demoVerified, pending, answered, wire, calls, bought>>
        /\ connecting = "idle" /\ connecting' = "opening" /\ account' = "None"
        /\ currency' = FALSE /\ identity' = "UNVERIFIED" /\ Cardinality(DOMAIN login) < MaxSockets
        /\ overtaken' = overtaken \cup {c \in Calls : InFlight(c)}
    BY DEF BeginConnect, ClearIdentity
  <1>2. SocketsNumbered'
    BY <1>1, SocketNumbers DEF GatewayInv, GatewayShape, SocketsNumbered, socketVars
  <1>3. GatewayShape'
    BY <1>1, <1>2 DEF GatewayInv, GatewayShape, GatewayTypeOK, socketVars
  <1>4. WaitsOwned'
    BY <1>1 DEF GatewayInv, WaitsOwned, Awaited, socketVars
  <1>5. BoundToDemo'
    BY <1>1 DEF GatewayInv, BoundToDemo, OnDemo, InFlight, socketVars
  <1>6. \A c \in Calls : BuyMessages(c)' \subseteq BuyMessages(c)
    BY <1>1 DEF BuyMessages
  <1> QED BY <1>1, <1>3, <1>4, <1>5, <1>6, ConnectionStep DEF AnswersKeptOrFailed, socketVars

\* connect() fails before a socket is open, or its wait runs out.
LEMMA ConnectRaises ==
    ASSUME SocketsAssumption, GatewayInv, OpenFails \/ AuthorizeTimesOut
    PROVE  GatewayInv'
  <1>1. /\ UNCHANGED <<socketVars, connected, demoVerified, answered, wire, calls, bought, overtaken>>
        /\ connecting # "idle" /\ connecting' = "idle"
        /\ pending' \subseteq pending /\ account' \in {account, "None"}
        /\ currency' \in {currency, FALSE}
        /\ identity' \in {identity, "AMBIGUOUS", "AUTHENTICATION_FAILED"}
    BY DEF OpenFails, AuthorizeTimesOut, ClearIdentity, derivSessionVars
  <1>2. SocketsNumbered'
    BY <1>1 DEF GatewayInv, GatewayShape, SocketsNumbered, socketVars
  <1>3. GatewayShape'
    BY <1>1, <1>2 DEF GatewayInv, GatewayShape, GatewayTypeOK, socketVars
  <1>4. WaitsOwned'
    BY <1>1 DEF GatewayInv, WaitsOwned, Awaited, socketVars
  <1>5. BoundToDemo'
    BY <1>1 DEF GatewayInv, BoundToDemo, OnDemo, InFlight, socketVars
  <1>6. \A c \in Calls : BuyMessages(c)' \subseteq BuyMessages(c)
    BY <1>1 DEF BuyMessages
  <1> QED BY <1>1, <1>3, <1>4, <1>5, <1>6, ConnectionStep DEF AnswersKeptOrFailed, socketVars

\* A legacy socket replaces the connection before it is authorized.
LEMMA OpenLegacySocketKeeps ==
    ASSUME SocketsAssumption, GatewayInv, OpenLegacySocket
    PROVE  GatewayInv'
  <1> DEFINE r == AuthorizeTag(NextSocket)
  <1>1. PICK l \in Logins :
          /\ login' = Opened(l)
          /\ live' = live \cup {NextSocket}
          /\ connection' = NextSocket
          /\ readers' = readers \cup {NextSocket} /\ readerTask' = NextSocket
          /\ pending' = pending \cup {r}
          /\ wire' = wire \cup {[request |-> r, socket |-> NextSocket, body |-> "request"]}
    BY DEF OpenLegacySocket
  <1>2. /\ connecting = "opening" /\ ~pat /\ connecting' = "authorizing"
        /\ UNCHANGED <<pat, derivSessionVars, demoVerified, answered, calls, bought, overtaken>>
    BY DEF OpenLegacySocket
  <1>3. /\ NextSocket \in Sockets /\ NextSocket \notin DOMAIN login /\ NextSocket # 0
        /\ DOMAIN login' = DOMAIN login \cup {NextSocket}
        /\ \A s \in DOMAIN login : login'[s] = login[s]
        /\ login'[NextSocket] = l
        /\ DOMAIN login' \subseteq Sockets
        /\ \E n \in 0 .. MaxSockets : login' \in [1 .. n -> Logins]
    BY <1>1, <1>2, OpenedSockets DEF GatewayInv, GatewayShape
  <1>4. r \in Requests /\ \A c \in Calls, step \in CallSteps : Tag(c, step) # r
    BY <1>3, RequestNames
  <1> DEFINE new == [request |-> r, socket |-> NextSocket, body |-> "request"]
  <1>5. new \in Messages /\ new.request = r /\ new.socket = NextSocket
    BY <1>3, <1>4 DEF Messages, Bodies
  <1>6. r \notin Awaited
    BY <1>3 DEF GatewayInv, WaitsOwned
  <1> HIDE DEF r, new
  <1>7. wire' = wire \cup {new} /\ pending' = pending \cup {r}
    BY <1>1 DEF new, r
  <1>8. GatewayShape'
    <2>1. SocketsNumbered'
      BY <1>2, <1>3 DEF SocketsNumbered
    <2>2. GatewayTypeOK'
      BY <1>1, <1>2, <1>3, <1>4, <1>6, <1>7
         DEF GatewayInv, GatewayShape, GatewayTypeOK, derivSessionVars, Awaited
    <2>3. wire' \subseteq Messages /\ \A m \in wire' : m.socket \in DOMAIN login'
      BY <1>3, <1>5, <1>7 DEF GatewayInv, GatewayShape
    <2> QED BY <1>2, <1>3, <2>1, <2>2, <2>3 DEF GatewayInv, GatewayShape
  <1>9. WaitsOwned'
    <2>1. Awaited' = Awaited \cup {r}
      BY <1>2, <1>7 DEF Awaited
    <2>2. \A s \in Sockets : AuthorizeTag(s) = r => s = NextSocket
      BY <1>3, RequestNames DEF r
    <2> QED BY <1>2, <1>3, <1>4, <2>1, <2>2 DEF GatewayInv, WaitsOwned
  <1>10. BoundToDemo'
    BY <1>2 DEF GatewayInv, BoundToDemo, InFlight, derivSessionVars
  <1>11. \A c \in Calls : BuyMessages(c)' \subseteq BuyMessages(c)
    <2>1. \A c \in Calls : new.request # Tag(c, "buy")
      BY <1>4, <1>5 DEF CallSteps
    <2> QED BY <1>7, <2>1 DEF BuyMessages
  <1> QED BY <1>2, <1>3, <1>8, <1>9, <1>10, <1>11, ConnectionStep DEF AnswersKeptOrFailed

\* A PAT socket is adopted only when it is on the DEMO login.
LEMMA OpenVerifiedSessionKeeps ==
    ASSUME SocketsAssumption, GatewayInv, OpenVerifiedSession
    PROVE  GatewayInv'
  <1>1. PICK l \in Logins :
          /\ login' = Opened(l)
          /\ live' = live \cup {NextSocket}
          /\ IF l = "demo"
             THEN /\ connection' = NextSocket
                  /\ account' = l /\ identity' = "VERIFIED_DEMO"
                  /\ readers' = readers \cup {NextSocket} /\ readerTask' = NextSocket
                  /\ connected' = TRUE /\ demoVerified' = TRUE
                  /\ UNCHANGED currency
             ELSE /\ ClearIdentity("MISMATCH")
                  /\ UNCHANGED <<connection, readers, readerTask, connected, demoVerified>>
    BY DEF OpenVerifiedSession
  <1>2. /\ connecting = "opening" /\ pat /\ connecting' = "idle"
        /\ UNCHANGED <<pat, pending, answered, wire, calls, bought, overtaken>>
    BY DEF OpenVerifiedSession
  <1>3. /\ NextSocket \in Sockets /\ NextSocket \notin DOMAIN login /\ NextSocket # 0
        /\ DOMAIN login' = DOMAIN login \cup {NextSocket}
        /\ \A s \in DOMAIN login : login'[s] = login[s]
        /\ login'[NextSocket] = l
        /\ DOMAIN login' \subseteq Sockets
        /\ \E n \in 0 .. MaxSockets : login' \in [1 .. n -> Logins]
    BY <1>1, <1>2, OpenedSockets DEF GatewayInv, GatewayShape
  <1>4. GatewayShape'
    <2>1. SocketsNumbered'
      BY <1>2, <1>3 DEF SocketsNumbered
    <2>2. GatewayTypeOK'
      <3>1. GatewayTypeOK /\ l \in {"demo", "real"}
        BY DEF GatewayInv, GatewayShape, Logins
      <3>2. /\ connected' \in BOOLEAN /\ demoVerified' \in BOOLEAN /\ currency' \in BOOLEAN
            /\ pat' \in BOOLEAN
        BY <1>1, <1>2, <3>1 DEF GatewayTypeOK, ClearIdentity
      <3>3. /\ readers' \subseteq DOMAIN login' /\ live' \subseteq DOMAIN login'
            /\ {connection', readerTask'} \subseteq DOMAIN login' \cup {0}
        BY <1>1, <1>3, <3>1 DEF GatewayTypeOK
      <3>4. /\ account' \in Logins \cup {"None"}
            /\ identity' \in {"UNVERIFIED", "VERIFIED_DEMO", "MISMATCH", "AMBIGUOUS",
                             "AUTHENTICATION_FAILED", "SESSION_CLOSED"}
        BY <1>1 DEF ClearIdentity
      <3>5. \A s \in DOMAIN login' : login'[s] \in Logins
        BY <1>3, <3>1 DEF GatewayTypeOK
      <3> QED BY <1>2, <1>3, <3>1, <3>2, <3>3, <3>4, <3>5 DEF GatewayTypeOK
    <2>3. wire' \subseteq Messages /\ \A m \in wire' : m.socket \in DOMAIN login'
      BY <1>2, <1>3 DEF GatewayInv, GatewayShape
    <2> QED BY <1>2, <1>3, <2>1, <2>2, <2>3 DEF GatewayInv, GatewayShape
  <1>5. WaitsOwned'
    BY <1>2, <1>3 DEF GatewayInv, WaitsOwned, Awaited
  <1>6. BoundToDemo'
    <2>1. connection \in DOMAIN login \cup {0}
      BY DEF GatewayInv, GatewayShape, GatewayTypeOK
    <2>2. OnDemo'
      BY <1>1, <1>2, <1>3, <2>1 DEF GatewayInv, BoundToDemo, OnDemo
    <2> QED BY <1>2, <2>2 DEF BoundToDemo
  <1>7. \A c \in Calls : BuyMessages(c)' \subseteq BuyMessages(c)
    BY <1>2 DEF BuyMessages
  <1> QED BY <1>2, <1>3, <1>4, <1>5, <1>6, <1>7, ConnectionStep DEF AnswersKeptOrFailed

\* The end of a session: its waiters fail, whoever ends it.
LEMMA SessionEndStep ==
    ASSUME SocketsAssumption, GatewayInv, connected' = FALSE,
           readers' \subseteq readers, live' \subseteq live,
           readerTask' \in {readerTask, 0}, connection' \in {connection, 0},
           account' = "None" /\ currency' = FALSE /\ identity' = "SESSION_CLOSED",
           pending' = {},
           DOMAIN answered' \subseteq DOMAIN answered \cup pending,
           \A q \in DOMAIN answered' :
               answered'[q] = IF q \in pending THEN "failed" ELSE answered[q],
           UNCHANGED <<pat, login, demoVerified, wire, calls, bought, overtaken>>,
           connecting' \in {connecting, "idle"}
    PROVE  GatewayInv'
  <1>1. SocketsNumbered'
    BY DEF GatewayInv, GatewayShape, SocketsNumbered
  <1>2. GatewayTypeOK'
    <2>1. GatewayTypeOK
      BY DEF GatewayInv, GatewayShape
    <2>2. pending' \subseteq Requests /\ DOMAIN answered' \subseteq Requests
          /\ pending' \cap DOMAIN answered' = {}
      BY <2>1 DEF GatewayTypeOK
    <2>3. connected' \in BOOLEAN /\ currency' \in BOOLEAN
      OBVIOUS
    <2> QED BY <2>1, <2>2, <2>3 DEF GatewayTypeOK
  <1>3. \A q \in DOMAIN answered' : answered'[q] \in (Bodies \ {"request"}) \cup {"failed"}
    BY DEF GatewayInv, GatewayShape
  <1>4. GatewayShape'
    BY <1>1, <1>2, <1>3 DEF GatewayInv, GatewayShape
  <1>5. WaitsOwned'
    BY DEF GatewayInv, WaitsOwned, Awaited
  <1>6. BoundToDemo'
    BY DEF GatewayInv, BoundToDemo, OnDemo, InFlight
  <1>7. \A c \in Calls : BuyMessages(c)' \subseteq BuyMessages(c)
    BY DEF BuyMessages
  <1>8. AnswersKeptOrFailed
    BY DEF AnswersKeptOrFailed
  <1> QED BY <1>4, <1>5, <1>6, <1>7, <1>8, ConnectionStep

\* disconnect(), and a reader that ends.
LEMMA DisconnectDerivKeeps ==
    ASSUME SocketsAssumption, GatewayInv, DisconnectDeriv \/ ReaderEnds
    PROVE  GatewayInv'
  <1>1. /\ connected' = FALSE /\ readers' \subseteq readers /\ live' \subseteq live
        /\ readerTask' \in {readerTask, 0} /\ connection' \in {connection, 0}
        /\ account' = "None" /\ currency' = FALSE /\ identity' = "SESSION_CLOSED"
        /\ pending' = {} /\ answered' = ResolveFuture(pending, "failed")
        /\ UNCHANGED <<pat, login, demoVerified, wire, calls, bought, overtaken, connecting>>
    BY DEF DisconnectDeriv, Teardown, ReaderEnds, ClearIdentity
  <1>2. /\ DOMAIN answered' \subseteq DOMAIN answered \cup pending
        /\ \A q \in DOMAIN answered' :
               answered'[q] = IF q \in pending THEN "failed" ELSE answered[q]
    BY <1>1 DEF ResolveFuture
  <1> QED BY <1>1, <1>2, SessionEndStep

\* Dropping a resolved future.
LEMMA Forgets ==
    ASSUME NEW r
    PROVE  /\ DOMAIN Forget(r) = DOMAIN answered \ {r}
           /\ \A q \in DOMAIN answered \ {r} : Forget(r)[q] = answered[q]
  BY DEF Forget

\* The legacy connect() resumes: only an authorized DEMO login makes the session usable.
LEMMA FinishLegacyConnectKeeps ==
    ASSUME SocketsAssumption, GatewayInv, FinishLegacyConnect
    PROVE  GatewayInv'
  <1> DEFINE r == AuthorizeTag(connection)
  <1>1. /\ connecting = "authorizing" /\ connecting' = "idle" /\ r \in DOMAIN answered
        /\ UNCHANGED <<wire, calls, bought, overtaken>>
    BY DEF FinishLegacyConnect
  <1>2. \/ /\ answered' = Forget(r)
           /\ UNCHANGED <<socketVars, derivSessionVars, demoVerified, pending>>
        \/ /\ connected' = FALSE
           /\ readers' = readers \ {readerTask} /\ readerTask' = 0
           /\ live' = live \ {connection} /\ connection' = 0
           /\ answered' = [q \in (DOMAIN answered \cup pending) \ {r} |->
                             IF q \in pending THEN "failed" ELSE answered[q]]
           /\ pending' = {}
           /\ ClearIdentity("SESSION_CLOSED")
           /\ UNCHANGED <<pat, login, demoVerified>>
        \/ /\ AuthorizedAsDemo(answered[r])
           /\ account' = login[connection] /\ currency' = TRUE
           /\ connected' = TRUE /\ demoVerified' = TRUE
           /\ answered' = Forget(r)
           /\ UNCHANGED <<socketVars, identity, pending>>
    BY DEF FinishLegacyConnect
  <1>3. CASE /\ connected' = FALSE
             /\ readers' = readers \ {readerTask} /\ readerTask' = 0
             /\ live' = live \ {connection} /\ connection' = 0
             /\ answered' = [q \in (DOMAIN answered \cup pending) \ {r} |->
                               IF q \in pending THEN "failed" ELSE answered[q]]
             /\ pending' = {}
             /\ ClearIdentity("SESSION_CLOSED")
             /\ UNCHANGED <<pat, login, demoVerified>>
    <2> HIDE DEF r
    <2>1. /\ DOMAIN answered' \subseteq DOMAIN answered \cup pending
          /\ \A q \in DOMAIN answered' :
                 answered'[q] = IF q \in pending THEN "failed" ELSE answered[q]
      BY <1>3
    <2> QED BY <1>1, <1>3, <2>1, SessionEndStep DEF ClearIdentity
  <1>4. CASE /\ answered' = Forget(r) /\ UNCHANGED <<socketVars, pending>>
             /\ \/ UNCHANGED <<derivSessionVars, demoVerified>>
                \/ /\ AuthorizedAsDemo(answered[r])
                   /\ account' = login[connection] /\ currency' = TRUE
                   /\ connected' = TRUE /\ demoVerified' = TRUE /\ UNCHANGED identity
    <2> HIDE DEF r
    <2>1. /\ DOMAIN answered' = DOMAIN answered \ {r}
          /\ \A q \in DOMAIN answered' : answered'[q] = answered[q]
      BY <1>4, Forgets
    <2>2. GatewayTypeOK /\ GatewayShape
      BY DEF GatewayInv, GatewayShape
    <2>3. SocketsNumbered'
      BY <1>1, <1>4, <2>2 DEF GatewayShape, SocketsNumbered, socketVars
    <2>4. account' \in Logins \cup {"None"} /\ connected' \in BOOLEAN /\ demoVerified' \in BOOLEAN
          /\ currency' \in BOOLEAN /\ identity' = identity
      BY <1>4, <2>2 DEF GatewayTypeOK, AuthorizedAsDemo, derivSessionVars, Logins
    <2>5. GatewayTypeOK'
      BY <1>1, <1>4, <2>1, <2>2, <2>4 DEF GatewayTypeOK, socketVars
    <2>6. GatewayShape'
      BY <1>1, <1>4, <2>1, <2>2, <2>3, <2>5 DEF GatewayShape, socketVars
    <2>7. WaitsOwned'
      BY <1>1, <1>4, <2>1 DEF GatewayInv, WaitsOwned, Awaited, socketVars
    <2>8. BoundToDemo'
      BY <1>1, <1>4 DEF GatewayInv, BoundToDemo, OnDemo, InFlight, AuthorizedAsDemo, socketVars,
                        derivSessionVars
    <2>9. \A c \in Calls : BuyMessages(c)' \subseteq BuyMessages(c)
      BY <1>1 DEF BuyMessages
    <2>10. AnswersKeptOrFailed
      BY <2>1 DEF AnswersKeptOrFailed
    <2> QED BY <1>1, <1>4, <2>6, <2>7, <2>8, <2>9, <2>10, ConnectionStep DEF socketVars
  <1> QED BY <1>2, <1>3, <1>4

\* A socket dies.
LEMMA SocketDiesKeeps ==
    ASSUME GatewayInv, SocketDies
    PROVE  GatewayInv'
  <1>1. /\ live' \subseteq live
        /\ UNCHANGED <<pat, login, connection, readers, readerTask, derivSessionVars, demoVerified,
                       connecting, pending, answered, wire, calls, bought, overtaken>>
    BY DEF SocketDies
  <1>2. SocketsNumbered'
    BY <1>1 DEF GatewayInv, GatewayShape, SocketsNumbered
  <1>3. GatewayShape'
    BY <1>1, <1>2 DEF GatewayInv, GatewayShape, GatewayTypeOK, derivSessionVars
  <1>4. WaitsOwned'
    BY <1>1 DEF GatewayInv, WaitsOwned, Awaited
  <1>5. BoundToDemo'
    BY <1>1 DEF GatewayInv, BoundToDemo, OnDemo, InFlight, derivSessionVars
  <1>6. \A c \in Calls : BuyMessages(c)' \subseteq BuyMessages(c)
    BY <1>1 DEF BuyMessages
  <1> QED BY <1>1, <1>3, <1>4, <1>5, <1>6, ConnectionStep DEF AnswersKeptOrFailed

\* A message is read: an answer that somebody awaits is the answer of the broker.
LEMMA ReadMessageKeeps ==
    ASSUME SocketsAssumption, GatewayInv, ReadMessage
    PROVE  GatewayInv'
  <1>1. PICK m \in wire :
          /\ m.body # "request" /\ wire' = wire \ {m}
          /\ IF m.request \in pending
             THEN /\ pending' = pending \ {m.request}
                  /\ answered' = ResolveFuture({m.request}, m.body)
             ELSE UNCHANGED <<pending, answered>>
    BY DEF ReadMessage
  <1>2. UNCHANGED <<socketVars, derivSessionVars, demoVerified, connecting, calls, bought, overtaken>>
    BY DEF ReadMessage
  <1>3. m \in Messages /\ m.body \in Bodies \ {"request"}
    BY <1>1 DEF GatewayInv, GatewayShape, Messages
  <1> DEFINE r == m.request
  <1>4. /\ Awaited' = Awaited
        /\ pending' \cap DOMAIN answered' = {}
        /\ \A q \in DOMAIN answered' :
              \/ q \in DOMAIN answered /\ answered'[q] = answered[q]
              \/ q = r /\ answered'[q] = m.body
    BY <1>1 DEF GatewayInv, GatewayShape, GatewayTypeOK, Awaited, ResolveFuture
  <1>5. SocketsNumbered'
    BY <1>2 DEF GatewayInv, GatewayShape, SocketsNumbered, socketVars
  <1>6. GatewayTypeOK'
    <2>1. pending' \cup DOMAIN answered' \subseteq Requests
      BY <1>4 DEF GatewayInv, GatewayShape, GatewayTypeOK, Awaited
    <2> QED BY <1>2, <1>4, <2>1 DEF GatewayInv, GatewayShape, GatewayTypeOK, socketVars, derivSessionVars
  <1>7. GatewayShape'
    <2>1. \A q \in DOMAIN answered' : answered'[q] \in (Bodies \ {"request"}) \cup {"failed"}
      BY <1>3, <1>4 DEF GatewayInv, GatewayShape
    <2> QED BY <1>1, <1>2, <1>5, <1>6, <2>1 DEF GatewayInv, GatewayShape, socketVars
  <1>8. WaitsOwned'
    BY <1>2, <1>4 DEF GatewayInv, WaitsOwned, socketVars
  <1>9. BoundToDemo'
    BY <1>2 DEF GatewayInv, BoundToDemo, OnDemo, InFlight, socketVars, derivSessionVars
  <1>10. \A c \in Calls : BuyMessages(c)' \subseteq BuyMessages(c) \ {m}
    BY <1>1 DEF BuyMessages
  <1>11. BoughtOnDemo'
    BY <1>2, <1>10, BoughtOnDemoKept DEF GatewayInv, socketVars
  <1>12. ASSUME NEW c \in Calls PROVE OnceBought(c)'
    <2>1. OnceBought(c) /\ Contracts(c)' = Contracts(c)
      BY <1>2 DEF GatewayInv, Contracts
    <2>2. CASE r # Tag(c, "buy")
      BY <1>2, <1>4, <1>10, <2>1, <2>2, OnceBoughtKept
    <2>3. CASE r = Tag(c, "buy")
      <3>1. m \in BuyMessages(c)
        BY <2>3 DEF BuyMessages
      <3>2. BuyMessages(c)' = {}
        BY <1>10, <2>1, <3>1 DEF OnceBought
      <3>3. Contracts(c) = {} <=> m.body \in {"request", "error"}
        BY <2>1, <3>1 DEF OnceBought
      <3>4. CASE Tag(c, "buy") \in DOMAIN answered' /\ answered'[Tag(c, "buy")] = m.body
        BY <1>2, <2>1, <3>2, <3>3, <3>4 DEF OnceBought
      <3>5. CASE ~(Tag(c, "buy") \in DOMAIN answered' /\ answered'[Tag(c, "buy")] = m.body)
        BY <1>2, <1>4, <1>10, <2>1, <3>5, OnceBoughtKept
      <3> QED BY <3>4, <3>5
    <2> QED BY <2>2, <2>3
  <1> QED BY <1>7, <1>8, <1>9, <1>11, <1>12 DEF GatewayInv

\* The broker serves a request, or the request is lost with its socket.
LEMMA BrokerServesKeeps ==
    ASSUME SocketsAssumption, GatewayInv, BrokerServes
    PROVE  GatewayInv'
  <1>1. /\ UNCHANGED <<socketVars, derivSessionVars, demoVerified, connecting, pending, answered,
                       calls, overtaken>>
        /\ \E m \in wire : m.body = "request" /\
              \/ \E body \in {"ok", "error", "malformed"} :
                    /\ wire' = (wire \ {m}) \cup {[m EXCEPT !.body = body]}
                    /\ bought' = IF m.request[2] = "buy" /\ body # "error"
                                 THEN bought \cup {<<m.request[1], m.socket>>} ELSE bought
              \/ wire' = wire \ {m} /\ UNCHANGED bought
    BY DEF BrokerServes
  <1>2. SocketsNumbered' /\ GatewayTypeOK'
    BY <1>1 DEF GatewayInv, GatewayShape, SocketsNumbered, GatewayTypeOK, socketVars,
                derivSessionVars
  <1>3. WaitsOwned' /\ BoundToDemo'
    BY <1>1 DEF GatewayInv, WaitsOwned, Awaited, BoundToDemo, OnDemo, InFlight, socketVars,
                derivSessionVars
  <1>4. PICK m \in wire : m.body = "request" /\
              \/ \E body \in {"ok", "error", "malformed"} :
                    /\ wire' = (wire \ {m}) \cup {[m EXCEPT !.body = body]}
                    /\ bought' = IF m.request[2] = "buy" /\ body # "error"
                                 THEN bought \cup {<<m.request[1], m.socket>>} ELSE bought
              \/ wire' = wire \ {m} /\ UNCHANGED bought
    BY <1>1
  <1>5. m \in Messages /\ m.request \in Requests /\ m.socket \in DOMAIN login
    BY <1>4 DEF GatewayInv, GatewayShape, Messages
  <1>6. CASE wire' = wire \ {m} /\ UNCHANGED bought
    <2>1. \A c \in Calls : BuyMessages(c)' \subseteq BuyMessages(c)
      BY <1>6 DEF BuyMessages
    <2>2. GatewayShape'
      BY <1>1, <1>2, <1>6 DEF GatewayInv, GatewayShape, socketVars
    <2> QED BY <1>1, <1>3, <1>6, <2>1, <2>2, ConnectionStep DEF AnswersKeptOrFailed, socketVars
  <1>7. ASSUME NEW body \in {"ok", "error", "malformed"},
               wire' = (wire \ {m}) \cup {[m EXCEPT !.body = body]},
               bought' = IF m.request[2] = "buy" /\ body # "error"
                         THEN bought \cup {<<m.request[1], m.socket>>} ELSE bought
        PROVE  GatewayInv'
    <2> DEFINE new == [m EXCEPT !.body = body]
    <2>1. /\ new \in Messages /\ new.request = m.request /\ new.socket = m.socket
          /\ new.body = body
      BY <1>5 DEF Messages, Bodies
    <2> HIDE DEF new
    <2>2. wire' = (wire \ {m}) \cup {new}
      BY <1>7 DEF new
    <2>3. bought' \subseteq Calls \X DOMAIN login
      <3>1. bought \subseteq Calls \X DOMAIN login
        BY DEF GatewayInv, GatewayShape
      <3>2. m.request[2] = "buy" => m.request[1] \in Calls
        BY <1>5, RequestNames
      <3> QED BY <1>5, <1>7, <3>1, <3>2
    <2>4. GatewayShape'
      BY <1>1, <1>2, <1>5, <2>1, <2>2, <2>3 DEF GatewayInv, GatewayShape, socketVars
    <2>5. ASSUME NEW c \in Calls
          PROVE  /\ OnceBought(c)'
                 /\ \A k \in BuyMessages(c)' : \E h \in BuyMessages(c) : k.socket = h.socket
                 /\ \A b \in Contracts(c)' : b \in Contracts(c) \/
                      (b[2] = m.socket /\ m \in BuyMessages(c))
      <3>1. OnceBought(c)
        BY DEF GatewayInv
      <3>2. CASE m.request # Tag(c, "buy")
        <4>1. m \notin BuyMessages(c) /\ BuyMessages(c)' \subseteq BuyMessages(c)
          BY <2>1, <2>2, <3>2 DEF BuyMessages
        <4>2. m.request[2] = "buy" => m.request[1] # c
          BY <1>5, <3>2, RequestNames
        <4>3. Contracts(c)' = Contracts(c)
          BY <1>7, <4>2 DEF Contracts
        <4>4. OnceBought(c)'
          BY <1>1, <3>1, <4>1, <4>3, OnceBoughtKept
        <4> QED BY <4>1, <4>3, <4>4
      <3>3. CASE m.request = Tag(c, "buy")
        <4>1. m \in BuyMessages(c) /\ BuyMessages(c)' = {new}
          BY <2>1, <2>2, <3>1, <3>3 DEF BuyMessages, OnceBought
        <4>2. m.request[1] = c /\ m.request[2] = "buy"
          BY <3>3, RequestNames DEF CallSteps
        <4>3. Contracts(c) = {} /\ calls[c] \in {"buy", "FILLED", "raised"}
          BY <1>4, <3>1, <4>1 DEF OnceBought
        <4>4. Contracts(c)' = IF body = "error" THEN {} ELSE {<<c, m.socket>>}
          BY <1>7, <4>2, <4>3 DEF Contracts
        <4>5. Tag(c, "buy") \in DOMAIN answered =>
                answered[Tag(c, "buy")] # "ok" /\ answered[Tag(c, "buy")] # "error"
          BY <3>1, <4>1, <4>3 DEF OnceBought
        <4>6. calls[c] # "FILLED"
          BY <3>1, <4>3 DEF OnceBought
        <4>7. OnceBought(c)'
          BY <1>1, <2>1, <4>1, <4>3, <4>4, <4>5, <4>6 DEF OnceBought
        <4> QED BY <2>1, <4>1, <4>4, <4>7
      <3> QED BY <3>2, <3>3
    <2>6. BoughtOnDemo'
      BY <1>1, <2>5 DEF GatewayInv, BoughtOnDemo, MayBuyOn, socketVars
    <2> QED BY <1>3, <2>4, <2>5, <2>6 DEF GatewayInv
  <1> QED BY <1>4, <1>6, <1>7

\* A submission moves on before its buy request is answered: it ends without an answer of
\* the broker, or sends its next request over a connection that is on the DEMO login unless
\* connect() was entered meanwhile.
LEMMA CallMoves ==
    ASSUME SocketsAssumption, GatewayInv, NEW c \in Calls,
           calls[c] \in {"idle", "balance", "contracts_for", "proposal"},
           UNCHANGED <<socketVars, connected, account, identity, demoVerified, connecting, bought,
                       overtaken>>,
           currency' \in BOOLEAN,
           DOMAIN answered' \subseteq DOMAIN answered,
           \A q \in DOMAIN answered' : answered'[q] = answered[q],
           \A step \in CallSteps : Tag(c, step) \notin pending \cup DOMAIN answered',
           NEW to \in CallSteps \cup {"raised", "unsafe"},
           calls' = [calls EXCEPT ![c] = to],
           to \notin CallSteps => UNCHANGED <<pending, wire>>,
           to \in CallSteps => /\ CanSend /\ Send(Tag(c, to))
                               /\ c \notin overtaken => connecting = "idle" /\ OnDemo
    PROVE  GatewayInv'
  <1> DEFINE new == [request |-> Tag(c, to), socket |-> connection, body |-> "request"]
  <1>1. calls' \in [Calls -> CallSteps \cup Ended \cup {"idle"}] /\ calls'[c] = to
        /\ \A d \in Calls \ {c} : calls'[d] = calls[d]
    BY DEF GatewayInv, GatewayShape, Ended
  <1>2. to \in CallSteps => /\ new \in Messages /\ new.request = Tag(c, to)
                            /\ new.socket = connection /\ new.body = "request"
                            /\ wire' = wire \cup {new} /\ pending' = pending \cup {Tag(c, to)}
                            /\ connection \in DOMAIN login
    <2>1. ASSUME to \in CallSteps PROVE connection \in DOMAIN login /\ connection \in Sockets
      BY <2>1 DEF CanSend, GatewayInv, GatewayShape, GatewayTypeOK
    <2>2. ASSUME to \in CallSteps PROVE Tag(c, to) \in Requests
      BY <2>2, RequestNames
    <2> QED BY <2>1, <2>2 DEF Send, Messages, Bodies
  <1> HIDE DEF new
  <1>3. SocketsNumbered'
    BY DEF GatewayInv, GatewayShape, SocketsNumbered, socketVars
  <1>4. GatewayTypeOK'
    <2>1. GatewayTypeOK
      BY DEF GatewayInv, GatewayShape
    <2>2. /\ pending' \subseteq Requests /\ DOMAIN answered' \subseteq Requests
          /\ pending' \cap DOMAIN answered' = {}
      BY <1>2, <2>1, RequestNames DEF GatewayTypeOK
    <2> QED BY <1>1, <2>1, <2>2 DEF GatewayTypeOK, socketVars
  <1>5. GatewayShape'
    <2>1. wire' \subseteq Messages /\ \A m \in wire' : m.socket \in DOMAIN login'
      BY <1>2 DEF GatewayInv, GatewayShape, socketVars
    <2>2. \A q \in DOMAIN answered' : answered'[q] \in (Bodies \ {"request"}) \cup {"failed"}
      BY DEF GatewayInv, GatewayShape
    <2> QED BY <1>1, <1>3, <1>4, <2>1, <2>2 DEF GatewayInv, GatewayShape, socketVars
  <1>6. WaitsOwned'
    <2>1. ASSUME NEW d \in Calls, NEW step \in CallSteps, Tag(d, step) \in Awaited'
          PROVE  calls'[d] = step
      <3>1. CASE d = c
        BY <1>1, <1>2, <2>1, <3>1, RequestNames DEF Awaited
      <3>2. CASE d # c
        <4>1. Tag(d, step) \in Awaited
          BY <1>2, <2>1, <3>2, RequestNames DEF Awaited
        <4> QED BY <1>1, <3>2, <4>1 DEF GatewayInv, WaitsOwned
      <3> QED BY <3>1, <3>2
    <2>2. ASSUME NEW s \in Sockets, AuthorizeTag(s) \in Awaited' PROVE s \in DOMAIN login'
      <3>1. AuthorizeTag(s) \in Awaited
        BY <1>2, <2>2, RequestNames DEF Awaited
      <3> QED BY <3>1 DEF GatewayInv, WaitsOwned, socketVars
    <2> QED BY <2>1, <2>2 DEF WaitsOwned
  <1>7. BoundToDemo'
    BY <1>1 DEF GatewayInv, BoundToDemo, OnDemo, InFlight, socketVars
  <1>8. ASSUME NEW d \in Calls PROVE OnceBought(d)'
    <2>1. OnceBought(d) /\ Contracts(d)' = Contracts(d)
      BY DEF GatewayInv, Contracts
    <2>2. CASE d = c /\ to = "buy"
      <3>1. BuyMessages(c) = {} /\ Contracts(c) = {}
        BY <2>1, <2>2 DEF OnceBought
      <3>2. BuyMessages(c)' = {new}
        BY <1>2, <2>2, <3>1 DEF BuyMessages, CallSteps
      <3>3. Tag(c, "buy") \notin DOMAIN answered'
        BY DEF CallSteps
      <3> QED BY <1>1, <1>2, <2>1, <2>2, <3>1, <3>2, <3>3 DEF OnceBought, CallSteps
    <2>3. CASE ~(d = c /\ to = "buy")
      <3>1. to \in CallSteps => Tag(c, to) # Tag(d, "buy")
        BY <2>3, RequestNames DEF CallSteps
      <3>2. BuyMessages(d)' \subseteq BuyMessages(d)
        BY <1>2, <3>1 DEF BuyMessages
      <3>3. calls'[d] = calls[d] \/ (calls[d] \notin {"buy", "FILLED", "raised"} /\ calls'[d] # "FILLED")
        BY <1>1 DEF CallSteps
      <3> QED BY <2>1, <3>2, <3>3, OnceBoughtKept
    <2> QED BY <2>2, <2>3
  <1>9. BoughtOnDemo'
    <2> SUFFICES ASSUME NEW d \in Calls
                 PROVE  /\ \A m \in BuyMessages(d)' : MayBuyOn(d, m.socket)'
                        /\ \A b \in Contracts(d)' : MayBuyOn(d, b[2])'
      BY DEF BoughtOnDemo
    <2>1. \A s : MayBuyOn(d, s)' <=> MayBuyOn(d, s)
      BY DEF MayBuyOn, socketVars
    <2>2. \A b \in Contracts(d)' : MayBuyOn(d, b[2])
      BY DEF GatewayInv, BoughtOnDemo, Contracts
    <2>3. ASSUME NEW m \in BuyMessages(d)' PROVE MayBuyOn(d, m.socket)
      <3>1. CASE m \in wire
        BY <2>3, <3>1 DEF GatewayInv, BoughtOnDemo, BuyMessages
      <3>2. CASE m \notin wire
        <4>1. to \in CallSteps /\ m = new
          BY <1>2, <2>3, <3>2 DEF BuyMessages
        <4>2. d = c
          BY <1>2, <2>3, <4>1, RequestNames DEF BuyMessages, CallSteps
        <4>3. pat => OnDemo
          BY DEF GatewayInv, BoundToDemo
        <4>4. connection # 0
          BY <4>1 DEF CanSend
        <4> QED BY <1>2, <4>1, <4>2, <4>3, <4>4 DEF MayBuyOn, OnDemo
      <3> QED BY <3>1, <3>2
    <2> QED BY <2>1, <2>2, <2>3
  <1> QED BY <1>5, <1>6, <1>7, <1>8, <1>9 DEF GatewayInv

\* submit_order up to its first await.
LEMMA SubmitOrderKeeps ==
    ASSUME SocketsAssumption, GatewayInv, NEW c \in Calls, SubmitOrder(c)
    PROVE  GatewayInv'
  <1>1. /\ calls[c] = "idle"
        /\ UNCHANGED <<socketVars, derivSessionVars, demoVerified, connecting, answered, bought,
                       overtaken>>
    BY DEF SubmitOrder
  <1>2. \A step \in CallSteps : Tag(c, step) \notin pending \cup DOMAIN answered'
    BY <1>1 DEF GatewayInv, WaitsOwned, Awaited, CallSteps
  <1>3. currency' \in BOOLEAN /\ UNCHANGED <<connected, account, identity>>
    BY <1>1 DEF GatewayInv, GatewayShape, GatewayTypeOK, derivSessionVars
  <1> DEFINE first == IF currency THEN "contracts_for" ELSE "balance"
  <1>4. first \in CallSteps /\ {"raised", "unsafe"} \cap CallSteps = {}
    BY DEF CallSteps
  <1>5. \/ /\ calls' = [calls EXCEPT ![c] = "unsafe"] /\ UNCHANGED <<pending, wire>>
        \/ /\ calls' = [calls EXCEPT ![c] = "raised"] /\ UNCHANGED <<pending, wire>>
        \/ /\ MaySubmit /\ CanSend /\ calls' = [calls EXCEPT ![c] = first] /\ Send(Tag(c, first))
    BY DEF SubmitOrder, ProceedCall
  <1>6. MaySubmit => connecting = "idle" /\ OnDemo
    BY DEF MaySubmit, GatewayInv, BoundToDemo
  <1> HIDE DEF first
  <1> QED BY <1>1, <1>2, <1>3, <1>4, <1>5, <1>6, CallMoves

\* A submission resumes with the answer it waited for.
LEMMA ResumeKeeps ==
    ASSUME SocketsAssumption, GatewayInv, NEW c \in Calls,
           NEW step \in {"balance", "contracts_for", "proposal"}, Resumes(c, step),
           NEW to \in CallSteps, answered' = Forget(Tag(c, step)), currency' \in BOOLEAN,
           UNCHANGED <<socketVars, connected, account, identity, demoVerified, connecting, bought,
                       overtaken>>,
           ProceedCall(c, to) \/ RaiseCall(c)
    PROVE  GatewayInv'
  <1>1. calls[c] = step /\ Tag(c, step) \in DOMAIN answered /\ step \in CallSteps
    BY DEF Resumes, CallSteps
  <1>2. /\ DOMAIN answered' = DOMAIN answered \ {Tag(c, step)}
        /\ \A q \in DOMAIN answered' : answered'[q] = answered[q]
    BY Forgets
  <1>3. \A other \in CallSteps : Tag(c, other) \notin pending \cup DOMAIN answered'
    BY <1>1, <1>2 DEF GatewayInv, WaitsOwned, Awaited, GatewayShape, GatewayTypeOK
  <1>4. c \notin overtaken => connecting = "idle" /\ OnDemo
    BY <1>1 DEF GatewayInv, BoundToDemo, InFlight
  <1>5. \/ calls' = [calls EXCEPT ![c] = "raised"] /\ UNCHANGED <<pending, wire>>
        \/ CanSend /\ calls' = [calls EXCEPT ![c] = to] /\ Send(Tag(c, to))
    BY DEF ProceedCall, RaiseCall
  <1>6. "raised" \notin CallSteps
    BY DEF CallSteps
  <1> QED BY <1>1, <1>2, <1>3, <1>4, <1>5, <1>6, CallMoves

\* The answers before the buy request.
LEMMA PrepareBuyKeeps ==
    ASSUME SocketsAssumption, GatewayInv, NEW c \in Calls,
           HaveCurrency(c) \/ HaveMultiplier(c) \/ HaveProposal(c)
    PROVE  GatewayInv'
  <1>1. {"contracts_for", "proposal", "buy"} \subseteq CallSteps /\ currency \in BOOLEAN
    BY DEF CallSteps, GatewayInv, GatewayShape, GatewayTypeOK
  <1>2. CASE HaveCurrency(c)
    <2>1. currency' \in BOOLEAN
      BY <1>1, <1>2 DEF HaveCurrency
    <2> QED BY <1>1, <1>2, <2>1, ResumeKeeps DEF HaveCurrency
  <1>3. CASE HaveMultiplier(c)
    BY <1>1, <1>3, ResumeKeeps DEF HaveMultiplier, derivSessionVars
  <1>4. CASE HaveProposal(c)
    BY <1>1, <1>4, ResumeKeeps DEF HaveProposal, derivSessionVars
  <1> QED BY <1>2, <1>3, <1>4

\* A submission that ends: its buy was answered, or the wait for a request ran out.
LEMMA CallEnds ==
    ASSUME SocketsAssumption, GatewayInv, NEW c \in Calls, HaveBuyAnswer(c) \/ RequestTimesOut(c)
    PROVE  GatewayInv'
  <1>1. /\ UNCHANGED <<socketVars, derivSessionVars, demoVerified, connecting, wire, bought,
                       overtaken>>
        /\ pending' \subseteq pending
        /\ DOMAIN answered' \subseteq DOMAIN answered
        /\ \A q \in DOMAIN answered' : answered'[q] = answered[q]
    BY Forgets DEF HaveBuyAnswer, RequestTimesOut
  <1>2. calls[c] \in CallSteps /\ Tag(c, calls[c]) \notin Awaited'
    <2>1. CASE HaveBuyAnswer(c)
      <3>1. calls[c] = "buy" /\ Tag(c, "buy") \in DOMAIN answered
        BY <2>1 DEF HaveBuyAnswer, Resumes
      <3>2. Tag(c, "buy") \notin DOMAIN answered'
        BY <2>1, Forgets DEF HaveBuyAnswer
      <3> QED BY <1>1, <3>1, <3>2 DEF GatewayInv, GatewayShape, GatewayTypeOK, Awaited, CallSteps
    <2>2. CASE RequestTimesOut(c)
      <3>1. calls[c] \in CallSteps /\ Tag(c, calls[c]) \in pending
            /\ pending' = pending \ {Tag(c, calls[c])} /\ answered' = answered
        BY <2>2 DEF RequestTimesOut, InFlight
      <3> QED BY <3>1 DEF GatewayInv, GatewayShape, GatewayTypeOK, Awaited
    <2> QED BY <2>1, <2>2
  <1>3. /\ calls' \in [Calls -> CallSteps \cup Ended \cup {"idle"}] /\ calls'[c] \in Ended
        /\ \A d \in Calls \ {c} : calls'[d] = calls[d]
    <2>1. PICK to \in Ended : calls' = [calls EXCEPT ![c] = to]
      <3>1. BuyOutcome(Answer(c, "buy")) \in Ended /\ "raised" \in Ended
        BY DEF BuyOutcome, Ended
      <3> QED BY <3>1 DEF HaveBuyAnswer, RequestTimesOut
    <2> QED BY <2>1 DEF GatewayInv, GatewayShape
  <1>4. SocketsNumbered'
    BY <1>1 DEF GatewayInv, GatewayShape, SocketsNumbered, socketVars
  <1>5. GatewayShape'
    <2>1. GatewayTypeOK'
      BY <1>1, <1>3 DEF GatewayInv, GatewayShape, GatewayTypeOK, socketVars, derivSessionVars
    <2> QED BY <1>1, <1>3, <1>4, <2>1 DEF GatewayInv, GatewayShape, socketVars
  <1>6. WaitsOwned'
    BY <1>1, <1>2, <1>3 DEF GatewayInv, WaitsOwned, Awaited, socketVars
  <1>7. BoundToDemo'
    <2>1. Ended \cap CallSteps = {}
      BY DEF Ended, CallSteps
    <2> QED BY <1>1, <1>3, <2>1 DEF GatewayInv, BoundToDemo, OnDemo, InFlight, socketVars,
                                    derivSessionVars
  <1>8. \A d \in Calls : BuyMessages(d)' = BuyMessages(d) /\ Contracts(d)' = Contracts(d)
    BY <1>1 DEF BuyMessages, Contracts
  <1>9. BoughtOnDemo'
    BY <1>1, <1>8, BoughtOnDemoKept DEF GatewayInv, socketVars
  <1>10. ASSUME NEW d \in Calls PROVE OnceBought(d)'
    <2>1. OnceBought(d)
      BY DEF GatewayInv
    <2>2. CASE d # c \/ RequestTimesOut(c)
      <3>1. calls'[d] = calls[d] \/ calls'[d] = "raised"
        BY <1>3, <2>2 DEF RequestTimesOut, GatewayInv, GatewayShape
      <3> QED BY <1>1, <1>8, <2>1, <3>1, OnceBoughtKept
    <2>3. CASE d = c /\ HaveBuyAnswer(c)
      <3>1. /\ calls[c] = "buy" /\ Tag(c, "buy") \in DOMAIN answered
            /\ calls'[c] = BuyOutcome(answered[Tag(c, "buy")])
            /\ Tag(c, "buy") \notin DOMAIN answered'
        BY <2>3, Forgets DEF HaveBuyAnswer, Resumes, Answer, GatewayInv, GatewayShape
      <3>2. /\ calls'[c] = "FILLED" => answered[Tag(c, "buy")] = "ok"
            /\ calls'[c] \notin {"FILLED", "raised"} => answered[Tag(c, "buy")] = "error"
        BY <3>1 DEF BuyOutcome
      <3>3. /\ calls'[c] = "FILLED" => Contracts(c) # {}
            /\ calls'[c] \notin {"FILLED", "raised"} => Contracts(c) = {} /\ BuyMessages(c) = {}
        BY <2>1, <2>3, <3>1, <3>2 DEF OnceBought
      <3> QED BY <1>8, <2>1, <2>3, <3>1, <3>3 DEF OnceBought
    <2> QED BY <2>2, <2>3
  <1> QED BY <1>5, <1>6, <1>7, <1>9, <1>10 DEF GatewayInv

\* Every step of the gateway keeps the invariant.
LEMMA GatewayInvStep ==
    ASSUME SocketsAssumption, GatewayInv, [GatewayNext]_gatewayVars
    PROVE  GatewayInv'
  <1>1. CASE UNCHANGED gatewayVars
    <2>1. UNCHANGED <<pat, login, live, connection, readers, readerTask, connected,
                      account, identity, currency, demoVerified, connecting, pending,
                      answered, wire, calls, bought, overtaken>>
      BY <1>1 DEF gatewayVars
    <2>2. SocketsNumbered' /\ GatewayTypeOK'
      BY <2>1 DEF GatewayInv, GatewayShape, SocketsNumbered, GatewayTypeOK
    <2>3. GatewayShape'
      BY <2>1, <2>2 DEF GatewayInv, GatewayShape
    <2>4. WaitsOwned' /\ BoundToDemo'
      BY <2>1 DEF GatewayInv, WaitsOwned, Awaited, BoundToDemo, OnDemo, InFlight
    <2>5. \A c \in Calls : BuyMessages(c)' \subseteq BuyMessages(c)
      BY <2>1 DEF BuyMessages
    <2> QED BY <2>1, <2>3, <2>4, <2>5, ConnectionStep DEF AnswersKeptOrFailed
  <1>2. CASE BeginConnect \/ OpenLegacySocket \/ OpenFails \/ FinishLegacyConnect
             \/ AuthorizeTimesOut \/ OpenVerifiedSession
    BY <1>2, BeginConnectKeeps, OpenLegacySocketKeeps, ConnectRaises, FinishLegacyConnectKeeps,
       OpenVerifiedSessionKeeps
  <1>3. CASE DisconnectDeriv \/ ReadMessage \/ ReaderEnds \/ SocketDies \/ BrokerServes
    BY <1>3, DisconnectDerivKeeps, ReadMessageKeeps, SocketDiesKeeps, BrokerServesKeeps
  <1>4. ASSUME NEW c \in Calls,
               SubmitOrder(c) \/ HaveCurrency(c) \/ HaveMultiplier(c)
               \/ HaveProposal(c) \/ HaveBuyAnswer(c) \/ RequestTimesOut(c)
        PROVE  GatewayInv'
    BY <1>4, SubmitOrderKeeps, PrepareBuyKeeps, CallEnds
  <1> QED BY <1>1, <1>2, <1>3, <1>4 DEF GatewayNext

\* What the invariant says of the gateway's properties.
LEMMA GatewayInvSound ==
    ASSUME GatewayInv
    PROVE  GatewayTypeOK /\ OrderAnswersTrue /\ ContractsOnVerifiedDemo
  <1>1. GatewayTypeOK
    BY DEF GatewayInv, GatewayShape
  <1>2. OrderAnswersTrue
    <2> SUFFICES ASSUME NEW c \in Calls
                 PROVE  /\ Cardinality(Contracts(c)) <= 1
                        /\ calls[c] = "FILLED" => Cardinality(Contracts(c)) = 1
                        /\ calls[c] \in {"REJECTED", "unsafe"} => Contracts(c) = {}
      BY DEF OrderAnswersTrue, Contracts
    <2>1. OnceBought(c)
      BY DEF GatewayInv
    <2>2. CASE Contracts(c) = {}
      BY <2>1, <2>2, FS_EmptySet DEF OnceBought
    <2>3. CASE Contracts(c) # {}
      <3>1. PICK b \in Contracts(c) : TRUE
        BY <2>3
      <3>2. Contracts(c) = {b}
        BY <2>1, <3>1 DEF OnceBought
      <3>3. Cardinality(Contracts(c)) = 1
        BY <3>2, FS_Singleton
      <3> QED BY <2>1, <2>3, <3>3 DEF OnceBought
    <2> QED BY <2>2, <2>3
  <1>3. ContractsOnVerifiedDemo
    <2> SUFFICES ASSUME NEW b \in bought
                 PROVE  login[b[2]] = "demo" \/ (b[1] \in overtaken /\ ~pat)
      BY DEF ContractsOnVerifiedDemo
    <2>1. b[1] \in Calls
      BY DEF GatewayInv, GatewayShape
    <2> QED BY <2>1 DEF GatewayInv, BoughtOnDemo, Contracts, MayBuyOn
  <1> QED BY <1>1, <1>2, <1>3

\* The Deriv gateway, whatever else runs: the answer of a submission is what happened at
\* the broker, on a DEMO account unless connect() was entered meanwhile (deriv_gateway.py).
THEOREM GatewaySafe ==
    ASSUME SocketsAssumption
    PROVE  GatewaySpec => [](GatewayTypeOK /\ OrderAnswersTrue /\ ContractsOnVerifiedDemo)
  <1>1. GatewayInit => GatewayInv
    BY GatewayInvInit
  <1>2. GatewayInv /\ [GatewayNext]_gatewayVars => GatewayInv'
    BY GatewayInvStep
  <1>3. GatewayInv => GatewayTypeOK /\ OrderAnswersTrue /\ ContractsOnVerifiedDemo
    BY GatewayInvSound
  <1> QED BY <1>1, <1>2, <1>3, PTL DEF GatewaySpec
=============================================================================
