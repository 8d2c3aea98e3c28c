SPECIFICATION Spec
CONSTANTS
    c1 = c1
    c2 = c2
    c3 = c3
    q1 = q1
    q2 = q2
    q3 = q3
    StrayMove = StrayMove
    NoMove = NoMove
    Captures <- MCCaptures
    Quiets <- MCQuiets
    Refused <- MCRefused
    CaptureValues <- MCCaptureValues
    QuietValues <- MCQuietValues
    Depths = {1, 4}
    Garbage <- MCGarbage
INVARIANTS
    EachMoveOnce
    BestFirst
CHECK_DEADLOCK FALSE
