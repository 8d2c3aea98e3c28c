CONSTANTS
    p1 = p1
    p2 = p2
    Pids <- MCTwo
    MaxCrashes = 2
SPECIFICATION FairSpec
INVARIANTS FinishedContents RemovedByTheLast NothingLeftBehind
PROPERTIES Returns
