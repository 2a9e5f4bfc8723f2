SPECIFICATION Spec
CHECK_DEADLOCK FALSE
CONSTANTS
    HeartbeatOverwritten = TRUE
    a1 = a1
    a2 = a2
    a3 = a3
    k1 = k1
    k2 = k2
    sA = sA
    sB = sB
    yX = yX
    yZ = yZ
    Null = Null
    Attempts = {a1, a2, a3}
    Keys = {k1, k2}
    Symbols = {yX, yZ}
    Scopes = {sA}
    Supervised = {a1, a2}
    IntentOf <- ContentionIntentOf
    AccountOf <- ContentionAccountOf
    SymbolOf <- ContentionSymbolOf
    Lease = 1
    BusyWait = 0
    DayLength = 2
    MaxTime = 2
    MaxOpen = 1
    DailyCap = 1
SYMMETRY ContentionSymmetry
INVARIANTS
    TypeOK
    OneUnresolvedPerAccount
    
    IdentityIsExact
    
PROPERTIES
    TerminalIsFinal
    OnlySenderOrOperatorResolves
