CONSTANTS
    MaxThreads = 2
    SpuriousWakeups = FALSE
    PoliteGui = TRUE
    Searches <- MCSearches
SPECIFICATION FairSpec
PROPERTIES GoAnswered UciReturns
