\* Builds, approvals, deletions, a key rotation, backups and restores.
SPECIFICATION Spec
CONSTANTS
    s1 = s1
    a = a
    b = b
    v1 = v1
    v2 = v2
    p1 = p1
    p2 = p2
    None = None
    Total = 4
    Initial = 3
    SubjectOf <- SubjectOfDef
    Versions = {v1, v2}
    BatchSize = 2
    Budgets <- BudgetsDef
    FamiliesOf <- FamiliesOfDef
    TextOf <- TextOfDef
    Near <- NearDef
    FixtureSets <- FixtureSetsDef
    Doubtful = {1}
    Timings = {TRUE, FALSE}
    TrainEnd = 3
    ValidationEnd = 4
    TrainShare = 30
    ValidationShare = 70
    Minimum = 1
    Approvers = {p1, p2}
SYMMETRY Symmetry
INVARIANTS
    RotationComplete
    PairConsistent
    ManifestHasFiles
    SplitsDisjoint
    HeldOutStaysOut
    SurvivorsKept
PROPERTIES
    PublishedIsClean
    ApprovalStands
CHECK_DEADLOCK FALSE
