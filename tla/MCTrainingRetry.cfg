\* A retry on PostgreSQL, with the worker in the same process.
SPECIFICATION CheckpointsSpec
CONSTANTS
    Jobs = {1}
    Processes = {p1}
    Backends = {"postgres"}
    None = None
    MaxRetries = 1
    MaxFailures = 1
    Workloads <- RetryWorkloads
    Every = 2
INVARIANTS
    RetryHonoured
CHECK_DEADLOCK FALSE
