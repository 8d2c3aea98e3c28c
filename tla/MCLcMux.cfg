SPECIFICATION Spec
CONSTANTS
    c1 = c1
    c2 = c2
    t1 = t1
    t2 = t2
    w1 = w1
    w2 = w2
    k1 = k1
    k2 = k2
    k3 = k3
    k4 = k4
    NoComputation = NoComputation
    NoResult = NoResult
    Clients <- MCClients
    Threads <- MCThreads
    MuxThreads <- MCMuxThreads
    Computations <- MCComputations
    MinimumSplitSize = 0
    MaxBatch = 2
    BatchSizes <- MCBatchSizes
    Layouts <- MCLayouts
INVARIANTS
    ResultsMatch
PROPERTIES
    ComputeReturns
    ShutsDown
