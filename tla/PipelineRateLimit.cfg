SPECIFICATION Spec
CONSTANTS
    Setups <- Limiting
    NoTrace = NoTrace
    MaxPerWindow = 2
    PerSeconds = 2
    MaxKeys = 1
    MaxTraces = 1
    MaxBufferedRecords = 2
    DedupeWindow = 2
    MaxTrackedKeys = 1
    MaxEntries = 2
\* A program that has made its calls is at rest.
CHECK_DEADLOCK FALSE
INVARIANT AtMostMaxInAnyWindow
