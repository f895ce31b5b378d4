\* The same calls, cancelled again while they wait for the save.
SPECIFICATION Spec
CONSTANTS
    i1 = i1
    i2 = i2
    i3 = i3
    p1 = p1
    p2 = p2
    Interactions = {i1, i2}
    Subjects = {}
    SubjectOf <- MCSubjectOf
    Keys = {1}
    Prints = {p1, p2}
    Recancelled = {i1, i2}
    None = None
    Retention = 2
    ShadowRetentions = {}
    ReplayTTL = 1
    ReplayCapacity = 1
    MaxTime = 0
SYMMETRY Symmetry
INVARIANTS
    NeverExecutedTwice
CHECK_DEADLOCK FALSE
