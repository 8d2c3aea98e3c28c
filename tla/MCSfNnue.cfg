SPECIFICATION Spec
CONSTANTS
    n1 = n1
    n2 = n2
    FileCount = 4
    RankCount = 5
    CastlingSquares <- MCCastlingSquares
    PromotionTypes = {"QUEEN"}
    Roots <- MCRoots
    Networks <- MCNetworks
    MaxPly = 3
    MaxMoves = 3
    MaxEvaluations = 2
INVARIANTS
    PieceSums
    ThreatSums
SYMMETRY Symmetry
