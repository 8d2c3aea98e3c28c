SPECIFICATION Spec
CONSTANTS
    FileCount = 4
    RankCount = 5
    CastlingSquares <- MCCastlingSquares
    PromotionTypes = {"KNIGHT", "BISHOP", "ROOK", "QUEEN"}
    Chess960 = TRUE
    Roots <- MCRoots
    Thresholds <- MCThresholds
    PieceValue <- MCPieceValue
    MaxPlies = 1
INVARIANTS
    LegalExactly
    TableMoveChecked
    StateExact
    SeeExactly
CHECK_DEADLOCK FALSE
