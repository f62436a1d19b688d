SPECIFICATION SurroundingsSpec
CONSTANTS
    Setups <- Everything
    DYNAMO_BATCH_LIMIT = 2
    SQS_BATCH_LIMIT = 2
    PauseFloor = 2
    RetrySeconds <- Delays
    RetryDates <- Dates
    MaxTicks = 5
    FileSetups <- Files
    MaxLines = 6
    Protocols = {"udp", "tcp"}
    MAX_PENDING_TCP_BYTES = 3
    MessageSizes = {1, 2, 4}
    MaxSockets = 4
    Texts <- SomeTexts
    Absent = absent
    LevelNames <- SomeLevels
INVARIANTS
    SurroundingsTypeOK
    ResolvedMeansSent
    CreatedOnce
    OnlyEarlyBatchesImport
    FileKept
    SocketsKept
PROPERTIES
    PauseKept
    LevelApplied
\* Batches that have settled are at rest, and a backend may never answer.
CHECK_DEADLOCK FALSE
