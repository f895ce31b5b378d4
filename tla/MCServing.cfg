\* Planner and shadow worker against operators and the registry.
SPECIFICATION Spec
CONSTANTS
    v1 = v1
    r1 = r1
    q1 = q1
    q2 = q2
    p1 = p1
    p2 = p2
    t1 = t1
    w1 = w1
    None = None
    Versions = {v1}
    Routers = {r1}
    Policies = {q1, q2}
    Policy <- PolicyDef
    Processes = {p1}
    Columns = {{v1}, {t1}}
    DisablementLimit = 1
    TTL = 1
    ReadTicks = 1
    MaxChanges = 2
    Demands <- OneDemand
    Works = {w1}
    Capacity = 1
    CacheLimit = 1
INVARIANTS
    OwnChangesSeen
    StaleOnlyBriefly
    RevokedIsNotPlanned
    NothingStranded
PROPERTIES
    ControlsRespected
CHECK_DEADLOCK FALSE
