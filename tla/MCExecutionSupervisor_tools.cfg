SPECIFICATION Spec
CHECK_DEADLOCK FALSE
CONSTANTS
    p1 = p1
    p2 = p2
    resolve = resolve
    repair = repair
    Nobody = Nobody
    Damaged = Damaged
    Pids = {p1, p2}
    Resolvers = {resolve}
    Repairs = {repair}
PROPERTIES
    ToolsRunAlone
