SPECIFICATION Spec
CHECK_DEADLOCK FALSE
CONSTANTS
    HeartbeatOverwritten = TRUE
    a1 = a1
    a2 = a2
    a3 = a3
    k1 = k1
    k2 = k2
    sA = sA
    sB = sB
    yX = yX
    yZ = yZ
    Null = Null
    Attempts = {a1, a2}
    Keys = {k1}
    Symbols = {yX}
    Scopes = {sA, sB}
    Supervised = {a1}
    IntentOf <- AccountsIntentOf
    AccountOf <- AccountsAccountOf
    SymbolOf <- AccountsSymbolOf
    Lease = 1
    BusyWait = 1
    DayLength = 2
    MaxTime = 2
    MaxOpen = 1
    DailyCap = 1
INVARIANTS
    AtMostOneOrderPerIntent
PROPERTIES
    ImplementsLifecycle
