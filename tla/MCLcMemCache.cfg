CONSTANTS
    t1 = t1
    t2 = t2
    Threads <- MCThreads
    Holders <- MCThreads
    Keys <- MCKeys
    Values <- MCValues
    Capacities <- MCCapacities
    Positions <- MCPositions
    Workloads <- MCWorkloads
    MaxBatch = 1
    NoEntry = NoEntry
    NoLock = NoLock
    NoResult = NoResult
SPECIFICATION Spec
INVARIANTS ValuesOwned
PROPERTIES ImplementsFifo
SYMMETRY MCSymmetry
