SPECIFICATION LifecycleSpec
CONSTANTS
    Policies <- SomePolicies
    MaxSize = 1
    WarnInterval = 1
    OnDropLogs = FALSE
    MaxTasks = 3
    Flushes <- Ends
    MaxRecords = 2
    MaxBytes = 10
    Programs <- SomePrograms
INVARIANTS
    LifecycleTypeOK
    EmptiedOnReturn
    NothingQueuedAtExit
    RefusedOnlyLate
PROPERTIES
    CallsReturn
    SignalEnds
\* A process that has exited takes no step.
CHECK_DEADLOCK FALSE
