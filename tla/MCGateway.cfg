\* Concurrent and repeated calls of one request id, under cancellation, erasure
\* and restart; one call may be cancelled again while it is saved.
SPECIFICATION FairSpec
CONSTANTS
    i1 = i1
    i2 = i2
    i3 = i3
    p1 = p1
    p2 = p2
    Interactions = {i1, i2}
    Subjects = {}
    SubjectOf <- MCSubjectOf
    Keys = {1}
    Prints = {p1, p2}
    Recancelled = {i1}
    None = None
    Retention = 2
    ShadowRetentions = {}
    ReplayTTL = 1
    ReplayCapacity = 1
    MaxTime = 1
INVARIANTS
    ExecutedOnce
    AnswersItsRequest
PROPERTIES
    LiveReplayKept
    ErasedIsNotReplayed
    Released
CHECK_DEADLOCK FALSE
