SPECIFICATION HistoryFairSpec
CONSTANTS
    Records = {1, 2, 3}
    BatchSize = 2
    Attempts = 2
INVARIANTS AcceptedIsKept
PROPERTIES ImplementsPipeline PublishedIsDispatched AcceptedIsStored ShutdownEnds
CHECK_DEADLOCK FALSE
CONSTRAINT InOrder
