SPECIFICATION Spec
CONSTANTS
    Policies <- EvictingPolicy
    MaxSize = 2
    WarnInterval = 1
    OnDropLogs = TRUE
    MaxTasks = 5
    Flushes = {f1, f2}
\* A queue with no caller left is at rest.
CHECK_DEADLOCK FALSE
INVARIANT SizeWithinMax
