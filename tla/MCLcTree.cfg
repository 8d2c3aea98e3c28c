CONSTANTS
    w1 = w1
    w2 = w2
    Workers <- MCWorkers
    Positions <- MCPositions
    Outcome <- MCOutcome
    Tablebase <- MCTablebase
    Cycle <- MCCycle
    Eval <- MCEval
    Win = 2
    SolidTreeThreshold = 3
    StickyEndgames = TRUE
    OutOfOrderEval = TRUE
    Cached <- MCCached
    Lines <- MCLines
    Openings <- MCOpenings
    MaxUnits = 3
    MaxVisits = 3
    MaxMoves = 2
SPECIFICATION Spec
INVARIANTS AverageExact BoundsSound HeldNodesStay InFlightExact
SYMMETRY MCSymmetry
CHECK_DEADLOCK FALSE
