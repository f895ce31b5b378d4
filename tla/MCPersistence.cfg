\* Saves, shadows, feedback, deletions and sweeps of two interactions.
SPECIFICATION StorageSpec
CONSTANTS
    i1 = i1
    i2 = i2
    s1 = s1
    Interactions = {i1, i2}
    Subjects = {s1}
    SubjectOf <- MCSubjectOf
    Keys = {1, 2}
    Prints = {p1}
    None = None
    Retention = 2
    ShadowRetentions = {1}
    ReplayTTL = 1
    ReplayCapacity = 1
    MaxTime = 2
SYMMETRY Symmetry
INVARIANTS
    Erased
    RefsResolve
    NothingOutlives
CHECK_DEADLOCK FALSE
