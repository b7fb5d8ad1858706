SPECIFICATION FairSpec
CONSTANTS
    Requests = {r1, r2}
    MaxEvents = 4
    BufferSize = 3
    BatchSize = 2
    MaxRetries = 2
INVARIANTS NoLostWakeup CloseFlushes
PROPERTIES ImplementsQueue EventsLeave FullBatchFlushed
CHECK_DEADLOCK FALSE
