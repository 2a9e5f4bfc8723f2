SPECIFICATION Spec
CHECK_DEADLOCK FALSE
CONSTANTS
    HeartbeatOverwritten = TRUE
    t1 = t1
    t2 = t2
    sup = sup
    tool = tool
    NoTicket = NoTicket
    Tickets = {t1, t2}
    Volume = 1
    Supervisor = sup
    Tools = {}
    Previews = {t2}
    MaxStarts = 1
INVARIANTS
    HaltStopsAllSubmissions
