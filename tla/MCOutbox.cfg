\* Two dispatchers sharing the table, either of which may crash.
SPECIFICATION FairSpec
CONSTANTS
    started = started
    completed = completed
    deleted = deleted
    i1 = i1
    none = none
    Events <- MCEvents
    Batches <- MCBatches
    Key <- MCKey
    NoKey = none
    NoEvent = NoEvent
    Optional <- MCOptional
    Invalid <- MCInvalid
    Repeatable <- MCRepeatable
    Dispatchers = {d1, d2}
    PendingLimit = 1
    MaxAttempts = 2
    BackoffBase = 1
    BackoffCap = 2
    SinkCapacity = 2
    MaxTime = 2
    MaxRedeliveries = 1
    MaxCrashes = 2
INVARIANTS
    InteractionOrder
PROPERTY
    ImplementsDelivery
    EventuallySettled
CHECK_DEADLOCK FALSE
