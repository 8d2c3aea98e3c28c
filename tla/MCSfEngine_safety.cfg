CONSTANTS
    MaxThreads = 2
    SpuriousWakeups = TRUE
    PoliteGui = FALSE
    Searches <- MCSearches
SPECIFICATION Spec
INVARIANTS TypeOK NoLostWakeup FramesAlive PoolOwnership SameRoot ReportAlone OneAnswerPerGo
PROPERTIES AnswerWhenReleased
CHECK_DEADLOCK FALSE
