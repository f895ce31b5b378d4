\* Safety of the breakers shared by three callers.
SPECIFICATION Spec
CONSTANTS
    d1 = d1
    d2 = d2
    c1 = c1
    c2 = c2
    c3 = c3
    Deployments = {d1, d2}
    Callers = {c1, c2, c3}
    Nowhere = Nowhere
    WindowLimit = 1
    MaxSamples = 3
    Latencies = {1, 3}
    WindowSeconds = 1
    MinimumSamples = 2
    CooldownSeconds = 1
    ErrorRate = 50
    FailureRate = 100
    LatencyLimit = 2
    MaxTime = 4
SYMMETRY Symmetry
INVARIANTS
    ProbeInFlight
    FreshEvidence
CHECK_DEADLOCK FALSE
