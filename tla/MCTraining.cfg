\* Two processes, either backend, with the checkpoints of every attempt.
SPECIFICATION CheckpointsSpec
CONSTANTS
    Jobs = {1, 2}
    Processes = {p1, p2}
    Backends = {"sqlite", "postgres"}
    None = None
    MaxRetries = 1
    MaxFailures = 2
    Workloads <- WorkloadsDef
    Every = 2
INVARIANTS
    Recoverable
    ExportExact
    PublishedOnce
    OutcomesFaithful
PROPERTIES
    Settles
CHECK_DEADLOCK FALSE
