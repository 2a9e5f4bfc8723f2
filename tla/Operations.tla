----------------------------- MODULE Operations -----------------------------
(***************************************************************************)
(* The components an operator runs beside the live execution path: broker  *)
(* sessions, paper trading, the live-paper campaign, demo tools, risk,     *)
(* snapshots, alerts, the watchlist, the relay, the observers.  They share *)
(* no state while they run, so a behaviour is of one of them: part names   *)
(* it and never changes, and the others rest in an initial state.          *)
(***************************************************************************)
EXTENDS
    DerivGateway, Mt5Session, PaperRuntime, DashboardPaper, LivePaperCampaign,
    DemoTools, RiskDay, SafetySnapshots, Notifications, Watchlist,
    MonitorRelay, ObservationDaemon

(* What the components assume of their constants. *)
ASSUME OperationsAssumption ==
    /\ SocketsAssumption
    /\ SessionAssumption
    /\ PaperAssumption
    /\ DashboardAssumption
    /\ CampaignAssumption
    /\ DemoToolsAssumption
    /\ RiskDayAssumption
    /\ SnapshotAssumption
    /\ NotificationsAssumption
    /\ WatchAssumption
    /\ RelayAssumption
    /\ ObserverAssumption

VARIABLE part

operationsVars ==
    <<part, gatewayVars, sessionVars, paperVars, dashVars, campaignVars,
      toolVars, riskVars, snapshotVars, notificationVars, watchVars,
      relayVars, observationVars>>

(***************************************************************************)
(* The specification.  A component that rests does so in one of its        *)
(* initial states.                                                         *)
(***************************************************************************)
Init ==
    /\ part \in {"deriv", "mt5", "paper", "dashboard", "campaign", "tools",
                 "risk", "snapshots", "notifications", "watchlist", "relay",
                 "observer"}
    /\ GatewayInit /\ SessionInit /\ PaperInit /\ DashboardInit
    /\ CampaignInit /\ DemoToolsInit /\ RiskInit /\ SnapshotInit
    /\ NotificationsInit /\ WatchlistInit /\ RelayInit /\ ObservationInit
    /\ part # "deriv" => ~pat
    /\ part # "mt5" => terminal = NoAccount
    /\ part # "campaign" => campaignTerminal = "mt5"
    /\ part # "risk" => riskVenue = CHOOSE v \in Venues : TRUE
    /\ part # "snapshots" => snapshotLogin = CHOOSE w \in SnapshotAccounts : TRUE

\* The components that are not the part in question stay as they are.
OthersRest ==
    /\ UNCHANGED part
    /\ part # "deriv" => UNCHANGED gatewayVars
    /\ part # "mt5" => UNCHANGED sessionVars
    /\ part # "paper" => UNCHANGED paperVars
    /\ part # "dashboard" => UNCHANGED dashVars
    /\ part # "campaign" => UNCHANGED campaignVars
    /\ part # "tools" => UNCHANGED toolVars
    /\ part # "risk" => UNCHANGED riskVars
    /\ part # "snapshots" => UNCHANGED snapshotVars
    /\ part # "notifications" => UNCHANGED notificationVars
    /\ part # "watchlist" => UNCHANGED watchVars
    /\ part # "relay" => UNCHANGED relayVars
    /\ part # "observer" => UNCHANGED observationVars

Next ==
    \/ part = "deriv" /\ GatewayNext /\ OthersRest
    \/ part = "mt5" /\ SessionNext /\ OthersRest
    \/ part = "paper" /\ PaperNext /\ OthersRest
    \/ part = "dashboard" /\ DashboardNext /\ OthersRest
    \/ part = "campaign" /\ CampaignNext /\ OthersRest
    \/ part = "tools" /\ DemoToolsNext /\ OthersRest
    \/ part = "risk" /\ RiskNext /\ OthersRest
    \/ part = "snapshots" /\ SnapshotNext /\ OthersRest
    \/ part = "notifications" /\ NotificationsNext /\ OthersRest
    \/ part = "watchlist" /\ WatchlistNext /\ OthersRest
    \/ part = "relay" /\ RelayNext /\ OthersRest
    \/ part = "observer" /\ ObservationNext /\ OthersRest

Spec == Init /\ [][Next]_operationsVars

(***************************************************************************)
(* Properties: those of the components, several of one concern together.   *)
(***************************************************************************)
(* Each component keeps to the values its code gives its state. *)
OperationsTypeOK ==
    /\ part = "deriv" => GatewayTypeOK
    /\ part = "mt5" => SessionTypeOK
    /\ part = "paper" => PaperTypeOK
    /\ part = "dashboard" => DashboardTypeOK
    /\ part = "campaign" => CampaignTypeOK
    /\ part = "tools" => DemoToolsTypeOK
    /\ part = "risk" => RiskTypeOK
    /\ part = "snapshots" => SnapshotTypeOK
    /\ part = "notifications" => NotificationsTypeOK
    /\ part = "watchlist" => WatchlistTypeOK
    /\ part = "relay" => RelayTypeOK
    /\ part = "observer" => ObservationTypeOK

(* What a broker adapter answers is what happened at the broker, and every *)
(* order is on the account that was verified for it (mt5_gateway.py,       *)
(* mt5_session.py, deriv_gateway.py).                                      *)
BrokerAnswersTrue ==
    /\ part = "mt5" => OrdersOnVerifiedAccount /\ AnswersMatchBroker
    /\ part = "deriv" => OrderAnswersTrue /\ ContractsOnVerifiedDemo

(* Paper trading across process deaths: the runtime claims candles once    *)
(* and in order, never trades on after it lost a position nor loses more   *)
(* than it authorized (paper_runtime.py), and the dashboard cycle's book   *)
(* has a fill and an accepted intent behind every outcome                  *)
(* (dashboard_paper.py).                                                   *)
PaperTradingSound ==
    [][/\ part = "paper" => /\ CandlesActedOnce
                            /\ LostPositionStopsTrading' /\ LossWithinAuthorization'
       /\ part = "dashboard" => PaperBookSound']_operationsVars

(* The programs that place demo orders: the live-paper campaign sends one  *)
(* order in its lifetime and has a ledger row for the position it opened   *)
(* (live_paper_campaign.py), and no demo tool sends an order its checks    *)
(* did not allow or hides one behind a clean outcome (demo_trade_preview.py*)
(* and the verification tools).                                            *)
DemoProgramsSound ==
    /\ part = "campaign" => OneLifetimeOrder /\ CampaignLedgerSound
    /\ part = "tools" => DemoToolsSound

(* A plan is within the limits of the day it was evaluated on, as far as   *)
(* the history read shows them (risk_engine.py, position_sizing.py), and   *)
(* an approval the API shows is the latest cycle's (api/service.py).       *)
RiskIsCurrent ==
    /\ part = "risk" => RiskDaySound
    /\ part = "snapshots" => ApprovalsAreCurrent

(* Alerts are posted once and their queue is served, no edit of the        *)
(* watchlist is lost, and the relay keeps its slots for the routes they    *)
(* are meant for (the notification gateways, watchlist.py,                 *)
(* monitor_relay.py).                                                      *)
OperatorChannelsSound ==
    /\ part = "notifications" => NotificationsSound
    /\ part = "watchlist" => WatchlistFollowsOperator
    /\ part = "relay" => RelaySound

(* The observers' evidence has no silent gap, the forward sampler counts   *)
(* each close once, and a digest goes out once a day                       *)
(* (observation_daemon.py, forward_shadow_sampler.py).                     *)
ObservedWithoutGaps == part = "observer" => ObservationsComplete
=============================================================================
