SPECIFICATION Spec
CONSTANTS
    Calls = {"c1"}
    MaxSockets = 2
    Gateways = {"g1", "g2"}
    TerminalAccounts = {"demo", "real", "demo2"}
    DemoAccounts = {"demo", "demo2"}
    Configured = "demo"
    Volumes = {3}
    VolumeMin = 2
    VolumeMax = 4
    VolumeStep = 2
    MaxOrders = 1
    NoGateway = "none"
    NoAccount = "none"
    MaxCandle = 3
    Prices <- FourPrices
    Plans <- FourPlans
    Slippage = 1
    RiskBudget = 2
    MaxCrashes = 2
    Setups = {"s1", "s2"}
    Lifetime = 2
    DayLength = 2
    MaxTime = 3
    SubmissionLimit = 1
    MaxDailyTrades = 1
    MaxPaperDeaths = 1
    Sessions = {"s1", "s2"}
    OrderTickets = {"t1", "t2"}
    ManualTickets = {"m1"}
    MaxCampaignCandle = 3
    ToolAccounts = {"demo", "demo2", "real"}
    DemoLogins = {"demo", "demo2"}
    ConfiguredLogin = "demo"
    Losses = {0, 1, 3}
    AuthorizedRisk = 2
    MaxToolRuns = 2
    MaxWorldMoves = 3
    InitialBalance = 25
    RiskShare = 20
    Profits <- LossOrProfit
    StopDistances = {0, 2}
    MinimumQuantity = 1
    Increment = 1
    Cent = 2
    MaxTradesDaily = 2
    MaxDailyLoss = 30
    HistoryLimit = 1
    MaxDay = 1
    MaxFills = 3
    MaxCycles = 2
    MaxWall = 3
    FreshFor = 1
    SnapshotAccounts = {"x", "y"}
    Publishers = {"desk", "bot"}
    Schedulers = {"bot"}
    SlotAlert <- ChannelSlot
    Alerts <- FourAlerts
    DirectGateways = {"telegram"}
    QueueLimit = 2
    Workers = {1, 2}
    MaxPublished = 2
    MaxDeaths = 1
    PostAttempts = 2
    WatchUsers = {"u1", "u2"}
    Seeds <- SeedPairs
    WatchPairs <- ThreePairs
    Clients = {"c1", "c2"}
    ChartKeys = {"h1", "h2"}
    MarketKeys = {"m1"}
    InflightSlots = 3
    MarketSlots = 1
    ChartSlots = 1
    PendingLimit = 3
    RateLimit = 2
    MaxAsked = 3
    ObserverStarts = 1
    MaxBar = 3
    TelemetryWindow = 2
    SampleEvery = 1
    Horizon = 2
    NoAlert = NoAlert
INVARIANTS
    OperationsTypeOK
    BrokerAnswersTrue
    
    
    OperatorChannelsSound
    ObservedWithoutGaps
PROPERTIES
    PaperTradingSound
CHECK_DEADLOCK FALSE
