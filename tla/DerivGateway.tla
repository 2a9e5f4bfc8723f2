------------------------------ MODULE DerivGateway ------------------------------
(***************************************************************************)
(* The Deriv demo gateway: DerivDemoGateway (deriv_demo.py) on top of      *)
(* DerivGateway (deriv_gateway.py) and the PAT/OTP session                 *)
(* (deriv_auth.py).  One event loop runs a connect() or disconnect() task, *)
(* order submissions, and one reader task per socket; each await is a      *)
(* place where the others run.  Sockets are numbered in the order they are *)
(* opened; connect() never closes an earlier one, so several readers may   *)
(* be alive and each of them ends by clearing the gateway's one session.   *)
(*                                                                         *)
(* Request ids come from one counter and are never reused: a request is    *)
(* named here by who sent it and which of its requests it is.              *)
(***************************************************************************)
EXTENDS Naturals, FiniteSets

CONSTANTS
    Calls,            \* order submissions, one submit_order() each
    MaxSockets        \* bound on the sockets ever opened

\* What the code and its configuration guarantee of these values.
SocketsAssumption == MaxSockets \in Nat \ {0}

Sockets == 1 .. MaxSockets
Logins == {"demo", "real"}     \* the account the server binds a socket to
Connector == "connect"         \* the connect() task, as the sender of authorize

VARIABLES
    pat,              \* an auth_session was supplied: the PAT/OTP path
    login,            \* socket -> the account behind it; its domain is the sockets opened
    live,             \* sockets not yet closed by either side
    connection,       \* self._connection, 0 for None
    readers,          \* sockets whose _read_loop still runs
    readerTask,       \* the socket of self._reader_task, 0 for None
    connected,        \* self._connected
    account,          \* the login self._account_id names, or "None"
    identity,         \* self._identity_state
    currency,         \* self._currency is known
    demoVerified,     \* self._demo_verified
    connecting,       \* what connect() awaits: nothing, a socket, an answer
    pending,          \* self._pending: requests with an unresolved future
    answered,         \* request -> what its future was resolved with
    wire,             \* requests and answers under way on some socket
    calls,            \* call -> the request it is at, or how it ended
    bought,           \* contracts the broker opened: <<call, socket>>
    overtaken         \* calls during which connect() was entered again

gatewayVars == <<pat, login, live, connection, readers, readerTask, connected,
                 account, identity, currency, demoVerified, connecting, pending,
                 answered, wire, calls, bought, overtaken>>

derivSessionVars == <<connected, account, identity, currency>>
socketVars == <<pat, login, live, connection, readers, readerTask>>

CallSteps == {"balance", "contracts_for", "proposal", "buy"}
Ended == {"FILLED", "REJECTED", "raised", "unsafe"}
Requests == (Calls \X CallSteps \X {0}) \cup ({Connector} \X {"authorize"} \X Sockets)
Tag(c, step) == <<c, step, 0>>
AuthorizeTag(s) == <<Connector, "authorize", s>>
InFlight(c) == calls[c] \in CallSteps

GatewayInit ==
    /\ pat \in BOOLEAN
    /\ login = [s \in {} |-> "demo"]
    /\ live = {} /\ connection = 0 /\ readers = {} /\ readerTask = 0
    /\ connected = FALSE /\ account = "None" /\ identity = "UNVERIFIED"
    /\ currency = FALSE /\ demoVerified = FALSE
    /\ connecting = "idle"
    /\ pending = {} /\ answered = [r \in {} |-> "ok"] /\ wire = {}
    /\ calls = [c \in Calls |-> "idle"]
    /\ bought = {} /\ overtaken = {}

---------------------------------------------------------------------------
(* Requests: _request, _fail_pending and the end of a wait.                *)

Forget(r) == [q \in DOMAIN answered \ {r} |-> answered[q]]
ResolveFuture(rs, outcome) ==
    [q \in DOMAIN answered \cup rs |-> IF q \in rs THEN outcome ELSE answered[q]]

\* _request up to its await: with no connection, or when the send fails, it raises.
CanSend == connection # 0 /\ connection \in live
Send(r) == /\ pending' = pending \cup {r}
           /\ wire' = wire \cup {[request |-> r, socket |-> connection, body |-> "request"]}

ClearIdentity(state) ==
    /\ account' = "None" /\ currency' = FALSE /\ identity' = state

\* _teardown: every waiter is cancelled.  (After mark_expired a PAT socket is dropped
\* without being closed: nothing refers to it any more, so it counts as gone.)
Teardown ==
    /\ connected' = FALSE
    /\ readers' = readers \ {readerTask} /\ readerTask' = 0
    /\ live' = live \ {connection} /\ connection' = 0
    /\ answered' = ResolveFuture(pending, "failed") /\ pending' = {}
    /\ ClearIdentity("SESSION_CLOSED")

---------------------------------------------------------------------------
(* connect() and disconnect().                                             *)

\* DerivDemoGateway.connect -> DerivGateway.connect: identity is cleared, _connected is not.
BeginConnect ==
    /\ connecting = "idle"
    /\ Cardinality(DOMAIN login) < MaxSockets
    /\ connecting' = "opening"
    /\ ClearIdentity("UNVERIFIED")
    /\ overtaken' = overtaken \cup {c \in Calls : InFlight(c)}
    /\ UNCHANGED <<socketVars, connected, demoVerified, pending, answered, wire, calls, bought>>

NextSocket == Cardinality(DOMAIN login) + 1
Opened(l) == [s \in DOMAIN login \cup {NextSocket} |-> IF s = NextSocket THEN l ELSE login[s]]

\* Legacy path: the socket replaces the connection and gets a reader before it is authorized.
OpenLegacySocket ==
    /\ connecting = "opening" /\ ~pat
    /\ \E l \in Logins :
          /\ login' = Opened(l)
          /\ live' = live \cup {NextSocket}
          /\ connection' = NextSocket
          /\ readers' = readers \cup {NextSocket} /\ readerTask' = NextSocket
          /\ pending' = pending \cup {AuthorizeTag(NextSocket)}
          /\ wire' = wire \cup {[request |-> AuthorizeTag(NextSocket),
                                 socket |-> NextSocket, body |-> "request"]}
    /\ connecting' = "authorizing"
    /\ UNCHANGED <<pat, derivSessionVars, demoVerified, answered, calls, bought, overtaken>>

\* The socket cannot be opened, or (PAT) the one-time password is refused.
OpenFails ==
    /\ connecting = "opening"
    /\ connecting' = "idle"
    /\ IF pat
       THEN \E state \in {"AMBIGUOUS", "AUTHENTICATION_FAILED"} : ClearIdentity(state)
       ELSE UNCHANGED <<account, currency, identity>>
    /\ UNCHANGED <<socketVars, connected, demoVerified, pending, answered, wire, calls, bought, overtaken>>

\* What the authorize answer must say; configuration is never taken as proof.
AuthorizedAsDemo(answer) == answer = "ok" /\ login[connection] = "demo"

\* The legacy connect() resumes with the authorize answer.
FinishLegacyConnect ==
    LET r == AuthorizeTag(connection) IN
    /\ connecting = "authorizing" /\ r \in DOMAIN answered
    /\ connecting' = "idle"
    /\ \/ /\ answered[r] = "failed"                    \* raises, nothing is torn down
          /\ answered' = Forget(r)
          /\ UNCHANGED <<socketVars, derivSessionVars, demoVerified, pending>>
       \/ /\ answered[r] # "failed" /\ ~AuthorizedAsDemo(answered[r])
          /\ connected' = FALSE
          /\ readers' = readers \ {readerTask} /\ readerTask' = 0
          /\ live' = live \ {connection} /\ connection' = 0
          /\ answered' = [q \in (DOMAIN answered \cup pending) \ {r} |->
                            IF q \in pending THEN "failed" ELSE answered[q]]
          /\ pending' = {}
          /\ ClearIdentity("SESSION_CLOSED")
          /\ UNCHANGED <<pat, login, demoVerified>>
       \/ /\ AuthorizedAsDemo(answered[r])
          /\ account' = login[connection] /\ currency' = TRUE
          /\ connected' = TRUE /\ demoVerified' = TRUE
          /\ answered' = Forget(r)
          /\ UNCHANGED <<socketVars, identity, pending>>
    /\ UNCHANGED <<wire, calls, bought, overtaken>>

\* The wait for the authorize answer runs out: raises, nothing is torn down.
AuthorizeTimesOut ==
    LET r == AuthorizeTag(connection) IN
    /\ connecting = "authorizing" /\ r \in pending
    /\ connecting' = "idle"
    /\ pending' = pending \ {r}
    /\ UNCHANGED <<socketVars, derivSessionVars, demoVerified, answered, wire, calls, bought, overtaken>>

\* PAT path: the socket is adopted only once its own balance named the configured account.
OpenVerifiedSession ==
    /\ connecting = "opening" /\ pat
    /\ connecting' = "idle"
    /\ \E l \in Logins :
          /\ login' = Opened(l)
          /\ live' = live \cup {NextSocket}
          /\ IF l = "demo"
             THEN /\ connection' = NextSocket
                  /\ account' = l /\ identity' = "VERIFIED_DEMO"
                  /\ readers' = readers \cup {NextSocket} /\ readerTask' = NextSocket
                  /\ connected' = TRUE /\ demoVerified' = TRUE
                  /\ UNCHANGED currency
             ELSE /\ ClearIdentity("MISMATCH")
                  /\ UNCHANGED <<connection, readers, readerTask, connected, demoVerified>>
    /\ UNCHANGED <<pat, pending, answered, wire, calls, bought, overtaken>>

\* The owner of the gateway disconnects after its connect() returned or raised.
DisconnectDeriv ==
    /\ connecting = "idle"
    /\ connection # 0
    /\ Teardown
    /\ UNCHANGED <<pat, login, demoVerified, connecting, wire, calls, bought, overtaken>>

---------------------------------------------------------------------------
(* The reader and the broker.                                              *)

\* A message names a request that is still pending: its future gets the answer.
ReadMessage ==
    \E m \in wire :
        /\ m.body # "request" /\ m.socket \in readers
        /\ wire' = wire \ {m}
        /\ IF m.request \in pending
           THEN /\ pending' = pending \ {m.request}
                /\ answered' = ResolveFuture({m.request}, m.body)
           ELSE UNCHANGED <<pending, answered>>
        /\ UNCHANGED <<socketVars, derivSessionVars, demoVerified, connecting, calls, bought, overtaken>>

\* A reader ends, whichever socket it read: the gateway's session is over.
ReaderEnds ==
    \E s \in readers \ live :
        /\ readers' = readers \ {s}
        /\ connected' = FALSE
        /\ ClearIdentity("SESSION_CLOSED")
        /\ answered' = ResolveFuture(pending, "failed") /\ pending' = {}
        /\ UNCHANGED <<pat, login, live, connection, readerTask, demoVerified,
                       connecting, wire, calls, bought, overtaken>>

SocketDies ==
    \E s \in live :
        /\ live' = live \ {s}
        /\ UNCHANGED <<pat, login, connection, readers, readerTask, derivSessionVars, demoVerified,
                       connecting, pending, answered, wire, calls, bought, overtaken>>

\* The broker: serves a request it received, or the message is lost with its socket.
BrokerServes ==
    \E m \in {w \in wire : w.body = "request"} :
        \/ /\ \E body \in {"ok", "error", "malformed"} :
                 /\ wire' = (wire \ {m}) \cup {[m EXCEPT !.body = body]}
                 /\ bought' = IF m.request[2] = "buy" /\ body # "error"
                              THEN bought \cup {<<m.request[1], m.socket>>} ELSE bought
           /\ UNCHANGED <<socketVars, derivSessionVars, demoVerified, connecting, pending,
                          answered, calls, overtaken>>
        \/ /\ m.socket \notin live
           /\ wire' = wire \ {m}
           /\ UNCHANGED <<socketVars, derivSessionVars, demoVerified, connecting, pending,
                          answered, calls, bought, overtaken>>

---------------------------------------------------------------------------
(* submit_order.                                                           *)

\* The checks made once, before the first await.
MaySubmit == connected /\ demoVerified /\ account # "None"

\* The step that follows: its request is sent now or submit_order raises.
ProceedCall(c, step) ==
    IF CanSend
    THEN calls' = [calls EXCEPT ![c] = step] /\ Send(Tag(c, step))
    ELSE calls' = [calls EXCEPT ![c] = "raised"] /\ UNCHANGED <<pending, wire>>

\* The balance is asked only for when the currency is not known (always so on the PAT path).
SubmitOrder(c) ==
    /\ calls[c] = "idle"
    /\ IF MaySubmit
       THEN ProceedCall(c, IF currency THEN "contracts_for" ELSE "balance")
       ELSE calls' = [calls EXCEPT ![c] = "unsafe"] /\ UNCHANGED <<pending, wire>>
    /\ UNCHANGED <<socketVars, derivSessionVars, demoVerified, connecting, answered, bought, overtaken>>

Answer(c, step) == answered[Tag(c, step)]
Resumes(c, step) == calls[c] = step /\ Tag(c, step) \in DOMAIN answered
RaiseCall(c) == calls' = [calls EXCEPT ![c] = "raised"] /\ UNCHANGED <<pending, wire>>

\* _resolve_account_currency: anything but a usable balance falls back to USD.
HaveCurrency(c) ==
    /\ Resumes(c, "balance")
    /\ answered' = Forget(Tag(c, "balance"))
    /\ currency' = (currency \/ Answer(c, "balance") = "ok")
    /\ IF Answer(c, "balance") = "failed" THEN RaiseCall(c) ELSE ProceedCall(c, "contracts_for")
    /\ UNCHANGED <<socketVars, connected, account, identity, demoVerified, connecting, bought, overtaken>>

\* _resolve_multiplier, then the proposal request.
HaveMultiplier(c) ==
    /\ Resumes(c, "contracts_for")
    /\ answered' = Forget(Tag(c, "contracts_for"))
    /\ IF Answer(c, "contracts_for") = "ok" THEN ProceedCall(c, "proposal") ELSE RaiseCall(c)
    /\ UNCHANGED <<socketVars, derivSessionVars, demoVerified, connecting, bought, overtaken>>

\* _parse_proposal_response, then the one buy request.
HaveProposal(c) ==
    /\ Resumes(c, "proposal")
    /\ answered' = Forget(Tag(c, "proposal"))
    /\ IF Answer(c, "proposal") = "ok" THEN ProceedCall(c, "buy") ELSE RaiseCall(c)
    /\ UNCHANGED <<socketVars, derivSessionVars, demoVerified, connecting, bought, overtaken>>

\* The buy answer: an error is REJECTED, a malformed one an indeterminate outcome.
BuyOutcome(answer) ==
    CASE answer = "ok" -> "FILLED"
      [] answer = "error" -> "REJECTED"
      [] OTHER -> "raised"
HaveBuyAnswer(c) ==
    /\ Resumes(c, "buy")
    /\ answered' = Forget(Tag(c, "buy"))
    /\ calls' = [calls EXCEPT ![c] = BuyOutcome(Answer(c, "buy"))]
    /\ UNCHANGED <<socketVars, derivSessionVars, demoVerified, connecting, pending, wire, bought, overtaken>>

\* A wait runs out: the request is forgotten, a late answer finds nobody.
RequestTimesOut(c) ==
    /\ InFlight(c) /\ Tag(c, calls[c]) \in pending
    /\ pending' = pending \ {Tag(c, calls[c])}
    /\ calls' = [calls EXCEPT ![c] = "raised"]
    /\ UNCHANGED <<socketVars, derivSessionVars, demoVerified, connecting, answered, wire, bought, overtaken>>

GatewayNext ==
    \/ BeginConnect \/ OpenLegacySocket \/ OpenFails \/ FinishLegacyConnect
    \/ AuthorizeTimesOut \/ OpenVerifiedSession \/ DisconnectDeriv
    \/ ReadMessage \/ ReaderEnds \/ SocketDies \/ BrokerServes
    \/ \E c \in Calls :
          \/ SubmitOrder(c) \/ HaveCurrency(c) \/ HaveMultiplier(c)
          \/ HaveProposal(c) \/ HaveBuyAnswer(c) \/ RequestTimesOut(c)

GatewaySpec == GatewayInit /\ [][GatewayNext]_gatewayVars

---------------------------------------------------------------------------
(* Properties.                                                             *)

GatewayTypeOK ==
    /\ pat \in BOOLEAN /\ connected \in BOOLEAN /\ currency \in BOOLEAN /\ demoVerified \in BOOLEAN
    /\ DOMAIN login \subseteq Sockets /\ \A s \in DOMAIN login : login[s] \in Logins
    /\ live \subseteq DOMAIN login /\ readers \subseteq DOMAIN login
    /\ {connection, readerTask} \subseteq DOMAIN login \cup {0}
    /\ account \in Logins \cup {"None"}
    /\ identity \in {"UNVERIFIED", "VERIFIED_DEMO", "MISMATCH", "AMBIGUOUS",
                     "AUTHENTICATION_FAILED", "SESSION_CLOSED"}
    /\ connecting \in {"idle", "opening", "authorizing"}
    /\ pending \subseteq Requests /\ DOMAIN answered \subseteq Requests
    /\ pending \cap DOMAIN answered = {}
    /\ \A c \in Calls : calls[c] \in CallSteps \cup Ended \cup {"idle"}
    /\ overtaken \subseteq Calls

\* A submission opens at most one contract; FILLED stands for exactly one,
\* REJECTED and a refusal by the demo check for none.
OrderAnswersTrue ==
    \A c \in Calls :
        LET opened == {b \in bought : b[1] = c} IN
        /\ Cardinality(opened) <= 1
        /\ calls[c] = "FILLED" => Cardinality(opened) = 1
        /\ calls[c] \in {"REJECTED", "unsafe"} => opened = {}

\* No contract is opened on an account that was not verified as DEMO, although
\* readers of old sockets, failed authorizations and timeouts may leave the
\* gateway on an unverified socket; the one way it can happen is a connect()
\* entered while the submission was waiting.
ContractsOnVerifiedDemo ==
    \A b \in bought : login[b[2]] = "demo" \/ (b[1] \in overtaken /\ ~pat)
===============================================================================
