SPECIFICATION Spec
CONSTANTS
    MaxRecords = 3
    MaxBytes = 5
    Sizes <- SizedOrRefused
    MaxWrites = 5
INVARIANTS
    TypeOK
    BufferBounded
    BytesMatch
    SentInOrder
    OnePlace
\* A transport nobody writes to any more is at rest.
CHECK_DEADLOCK FALSE
