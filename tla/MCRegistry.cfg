\* Promotion, rollback and revocation of two versions, while two evaluations
\* race a baseline replacement.
SPECIFICATION Spec
CONSTANTS
    v1 = v1
    v2 = v2
    r1 = r1
    b1 = b1
    e1 = e1
    e2 = e2
    w1 = w1
    w2 = w2
    t1 = t1
    Versions = {v1, v2}
    Deployments = {r1}
    RegistryOf <- MCRegistryOf
    TenantsOf <- MCTenantsOf
    Routers = {v2}
    Foundation = Foundation
    Reports = {b1, e1, e2}
    Runners = {w1, w2}
    None = None
    MaxRollbacks = 2
SYMMETRY Symmetry
INVARIANTS
    OneProduction
    ApprovedOnEvidence
PROPERTIES
    BaselineChain
    ApprovalIsCurrent
CHECK_DEADLOCK FALSE
