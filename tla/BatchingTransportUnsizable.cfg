SPECIFICATION Spec
CONSTANTS
    MaxRecords = 3
    MaxBytes = 5
    Sizes <- SizedOrNot
    MaxWrites = 5
\* A transport nobody writes to any more is at rest.
CHECK_DEADLOCK FALSE
INVARIANT BufferBounded
