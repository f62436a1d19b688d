SPECIFICATION LifecycleSpec
CONSTANTS
    Policies <- SomePolicies
    MaxSize = 1
    WarnInterval = 0
    OnDropLogs = FALSE
    MaxTasks = 2
    Flushes <- Ends
    MaxRecords = 2
    MaxBytes = 10
    Programs <- ClosedBatch
INVARIANT CloseWaitsForSends
\* A process that has exited takes no step.
CHECK_DEADLOCK FALSE
