SPECIFICATION ServicesSpec
CONSTANTS
    p1 = p1
    p2 = p2
    p3 = p3
    resolve = resolve
    repair = repair
    Nobody = Nobody
    Damaged = Damaged
    Pids = {p1, p2, p3}
    Resolvers = {resolve}
    Repairs = {repair}
    ObserverStarts = 1
    MaxBar = 2
    TelemetryWindow = 1
    SampleEvery = 1
    Horizon = 2
INVARIANTS
    TypeOK
    OneSupervisor
    HeartbeatIsNoGhost
PROPERTIES
    HeartbeatReturns
    CursorCatchesUp
CHECK_DEADLOCK FALSE
