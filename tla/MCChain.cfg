\* Requests that fall back from a specialist to the foundation.
SPECIFICATION ChainSpec
CONSTANTS
    d1 = d1
    d2 = d2
    c1 = c1
    c2 = c2
    Deployments = {d1, d2}
    Callers = {c1, c2}
    Nowhere = Nowhere
    WindowLimit = 2
    MaxSamples = 1
    Latencies = {1}
    WindowSeconds = 1
    MinimumSamples = 1
    CooldownSeconds = 1
    ErrorRate = 50
    FailureRate = 100
    LatencyLimit = 2
    MaxTime = 2
    Plans <- PlansDef
    Foundation = d2
    Cost <- CostDef
    Estimate <- EstimateDef
    MaxCost = 1
    MaxAttempts = 2
    HardFallbackOn <- AllReasons
    Patience = 2
SYMMETRY Symmetry
INVARIANTS
    FoundationTried
PROPERTIES
    UsesBreakers
CHECK_DEADLOCK FALSE
