SPECIFICATION FairSpec
CHECK_DEADLOCK FALSE
CONSTANTS
    HeartbeatOverwritten = FALSE
    a1 = a1
    a2 = a2
    a3 = a3
    k1 = k1
    k2 = k2
    sA = sA
    sB = sB
    yX = yX
    yZ = yZ
    Null = Null
    Attempts = {a1, a2}
    Keys = {k1, k2}
    Symbols = {yX}
    Scopes = {sA}
    Supervised = {a1, a2}
    IntentOf <- ProgressIntentOf
    AccountOf <- ProgressAccountOf
    SymbolOf <- ProgressSymbolOf
    Lease = 1
    BusyWait = 0
    DayLength = 2
    MaxTime = 3
    MaxOpen = 1
    DailyCap = 1
INVARIANTS
    
    OrdersWithinDailyCap
PROPERTIES
    ReservationEnds
    SubmitEnds
