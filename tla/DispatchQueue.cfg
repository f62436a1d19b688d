SPECIFICATION Spec
CONSTANTS
    Policies <- AllPolicies
    MaxSize = 2
    WarnInterval = 1
    OnDropLogs = FALSE
    MaxTasks = 5
    Flushes = {f1, f2}
INVARIANTS
    TypeOK
    SizeWithinMax
    NothingStranded
    EachTaskOnce
    DropsAccounted
    FlushKeepsPromise
PROPERTIES
    OneAtATimeInOrder
    Progress
    ImplementsContract
\* A queue with no caller left is at rest.
CHECK_DEADLOCK FALSE
