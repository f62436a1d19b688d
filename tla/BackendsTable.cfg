SPECIFICATION Spec
CONSTANTS
    Setups <- EnsuringPostgres
    DYNAMO_BATCH_LIMIT = 2
    SQS_BATCH_LIMIT = 2
    PauseFloor = 2
    RetrySeconds <- Delays
    RetryDates <- Dates
    MaxTicks = 5
\* Batches that have settled are at rest, and a backend may never answer.
CHECK_DEADLOCK FALSE
INVARIANT TableBeforeRows
