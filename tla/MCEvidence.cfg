SPECIFICATION Spec
CONSTANTS
    NoSemantics = NoSemantics
    ChainAttempts = 2
    Desks = {"d1", "d2"}
    Proofs = {"p1", "p2"}
    ProofScopes = {"s1"}
    ScopeOf <- OneScope
    ValidFrom <- FromOne
    ValidUntil <- UntilTwo
    Supported = {"p1"}
    Unspecified = {"p2"}
    EvaluationTimes = {0, 1, 3}
    RevocationRecords <- OneRevocation
    NoEntry = "none"
    Artifacts = {"a", "b"}
    RequiredCategories = {"A", "B"}
    Unset = "unset"
    Datasets <- TwoSeries
    CodeVersions = {1, 2}
    MaxFailures = 1
    AuditIds = {1, 2}
    AuditSymbols = {"X", "Y"}
    MaxListed = 2
    MaxForming = 4
    Count = 2
    Tolerance = 1
    Ranges <- TwoRanges
    Jobs = {"j1", "j2"}
    MaxConcurrent = 1
    Series <- ThreeExports
    BarLength = 2
    HorizonBars = 2
    MaxMinutes = 5
    OutcomeResolvers = {"r1", "r2"}
    Instruments = {"i1", "i2"}
    BarsPerDay = 2
    LastBar = 1
    MaxTrades = 3
    LongestTrade = 1
    GlobalCap = 2
    InstrumentCap = 1
    LossStop = 1
    LossBreaker = 1
    MaxControls = 1
    BarPrices <- FivePrices
    LastCandle = 5
    StartingBalance = 64
    RiskPercent = 100
    FeePerTrade = 8
    Adverse = 1
    StopDistance = 2
    TargetDistance = 2
    QuantityIncrement = 1
    MaxHoldingCandles = 2
    Runners = {"r1", "r2"}
    ExperimentIds = {"e1", "e2"}
    Configurations = {"k1", "k2"}
    TotalCandles = 5
    TrainPercent = 60
    ValidationPercent = 20
    Warmup = 1
INVARIANTS
    EvidenceTypeOK
    HistoricalCampaignSound
    
    ServedDataSound
    ResearchSound
PROPERTIES
    EvidenceAdmission
    ProofAuthorityKept
    
CHECK_DEADLOCK FALSE
