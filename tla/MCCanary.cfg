\* The evidence, the gate and the monitor of one gateway process.
SPECIFICATION FairSpec
CONSTANTS
    v1 = v1
    r1 = r1
    q1 = q1
    q2 = q2
    p1 = p1
    s1 = s1
    None = None
    Versions = {v1}
    Routers = {r1}
    Policies = {q1, q2}
    Policy <- PolicyDef
    Processes = {p1}
    Columns = {{v1}}
    MaxInteractions = 2
    SegmentOf <- OneSegment
    MinimumSamples = 1
    RateMax = 0
    DisablementLimit = 1
    TTL = 1
    ReadTicks = 0
    MaxChanges = 2
    MaxFailures = 1
INVARIANTS
    LiveOnEvidence
PROPERTIES
    RollbackOnActive
    BreachRolledBack
CHECK_DEADLOCK FALSE
