CONSTANTS
    w1 = w1
    w2 = w2
    Workers <- MCTwo
    MAX_TASKS = 2
    RunsOnCpu = FALSE
SPECIFICATION FairSpec
INVARIANTS TakenOnce WaitedForAll
PROPERTIES WaitReturns ShutsDown
CHECK_DEADLOCK FALSE
