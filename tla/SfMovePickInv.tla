--------------------------- MODULE SfMovePickInv ---------------------------
(***************************************************************************)
(* The inductive invariants of SfMovePick: where each move is in the array *)
(* of a MovePicker, which part of the array the stage has left behind,     *)
(* that the moves emitted are those of that part and the move of the       *)
(* transposition table, and in which order the others are in the array.    *)
(***************************************************************************)
EXTENDS SfMovePick

Entry == [move : GeneratedMoves, value : Int]

TTStages == {"MAIN_TT", "EVASION_TT", "PROBCUT_TT", "QSEARCH_TT"}
InitStages == {"CAPTURE_INIT", "EVASION_INIT", "PROBCUT_INIT", "QCAPTURE_INIT"}
FirstMainStages == {"GOOD_CAPTURE", "QUIET_INIT"}
LateMainStages == {"GOOD_QUIET", "BAD_CAPTURE", "BAD_QUIET"}
ShortStages == {"EVASION", "QCAPTURE", "PROBCUT"}

TypeOK ==
    /\ stage \in TTStages \cup InitStages \cup FirstMainStages \cup LateMainStages
                  \cup ShortStages
    /\ ttMove \in GeneratedMoves \cup {StrayMove, NoMove}
    /\ depth \in Int
    /\ winning \subseteq ToSet(Captures)
    /\ moves \in Seq(Entry)
    /\ cur \in Int /\ endCur \in Int /\ endBadCaptures \in Int
    /\ endCaptures \in Int /\ endGenerated \in Int
    /\ skipQuiets \in BOOLEAN /\ over \in BOOLEAN
    /\ emitted \in Seq(GeneratedMoves)

(* Only a main search has a depth, and skips quiets. *)
DepthFits ==
    /\ depth > 0 <=> InMain
    /\ skipQuiets => depth > 0

(* The move of the table comes first, if it may be played here. *)
Usable ==
    IF stage \in {"PROBCUT_TT", "PROBCUT_INIT", "PROBCUT"} THEN ToSet(Captures)
    ELSE PseudoLegal(stage \in {"EVASION_TT", "EVASION_INIT", "EVASION"})

TableMoveFirst ==
    /\ stage \in TTStages => emitted = <<>> /\ ttMove \in Usable
    /\ stage \notin TTStages /\ ttMove \in Usable => ttMove \in ToSet(emitted)
    /\ stage \in InitStages => ToSet(emitted) \subseteq {ttMove}
    /\ stage \in FirstMainStages => ToSet(emitted) \subseteq ToSet(Captures) \cup {ttMove}

(* No move is twice in a list of scored moves. *)
DistinctMoves(list) ==
    \A i, j \in DOMAIN list : list[i].move = list[j].move => i = j

MovesFrom(list, a, b) == {list[i].move : i \in a + 1..b}

Few == Len(Captures)
All == Len(Captures) + Len(Quiets)

(* What has been generated, and where in the array it is. *)
ArrayHolds ==
    /\ stage \notin TTStages \cup InitStages => DistinctMoves(moves)
    /\ stage \in FirstMainStages \cup {"QCAPTURE", "PROBCUT"} =>
          Len(moves) = Few /\ MovesFrom(moves, 0, Few) = ToSet(Captures)
    /\ stage = "EVASION" =>
          Len(moves) = All /\ MovesFrom(moves, 0, All) = GeneratedMoves
    /\ stage \in LateMainStages =>
          /\ MovesFrom(moves, 0, Few) = ToSet(Captures)
          /\ \/ Len(moves) = Few /\ endGenerated = Unset /\ skipQuiets
             \/ /\ Len(moves) = All /\ endGenerated = All
                /\ MovesFrom(moves, Few, All) = ToSet(Quiets)

(* The pointers into it. *)
PointersFit ==
    /\ stage \in ShortStages => cur \in 0..Len(moves) /\ endCur = Len(moves)
    /\ stage \in FirstMainStages =>
          cur \in 0..Few /\ endCur = Few /\ endBadCaptures \in 0..cur
    /\ stage \in FirstMainStages \cup LateMainStages =>
          endCaptures = Few /\ endBadCaptures \in 0..Few
    /\ stage \in {"MAIN_TT", "CAPTURE_INIT"} \cup FirstMainStages => endGenerated = Unset
    /\ stage = "QUIET_INIT" => cur = Few
    /\ stage = "GOOD_QUIET" => cur \in Few..Len(moves) /\ endCur = Len(moves)
    /\ stage = "BAD_CAPTURE" => cur \in 0..endBadCaptures /\ endCur = endBadCaptures
    /\ stage = "BAD_QUIET" => cur \in Few..Len(moves) /\ (~skipQuiets => endCur = Len(moves))

(* The places the stages have left behind for good. *)
Passed(i) ==
    \/ stage \in FirstMainStages /\ i \in endBadCaptures + 1..cur
    \/ /\ stage = "GOOD_QUIET"
       /\ i \in endBadCaptures + 1..Few \/ (i \in Few + 1..cur /\ i \in Promising)
    \/ /\ stage = "BAD_CAPTURE"
       /\ i <= cur \/ i \in endBadCaptures + 1..Few \/ (i > Few /\ i \in Promising)
    \/ stage = "BAD_QUIET" /\ (i <= cur \/ i \in Promising)
    \/ stage \in {"EVASION", "QCAPTURE"} /\ i <= cur
    \/ stage = "PROBCUT" /\ i <= cur /\ i \in Wins

(* They are those whose move was emitted. What is skipped does not count.  *)
Tracked ==
    stage \notin TTStages \cup InitStages =>
        \A i \in DOMAIN moves :
            moves[i].move # ttMove /\ (i <= Few \/ ~skipQuiets) =>
                (moves[i].move \in ToSet(emitted) <=> Passed(i))

(* There is an end only where there is nothing left to emit. *)
Drained ==
    over =>
        \/ stage = "BAD_QUIET" /\ (~skipQuiets => Candidates(Hopeless) = {})
        \/ stage \in {"EVASION", "QCAPTURE"} /\ Candidates(Every) = {}
        \/ stage = "PROBCUT" /\ Candidates(Wins) = {}

Inv ==
    /\ TypeOK /\ DepthFits /\ TableMoveFirst /\ ArrayHolds /\ PointersFit
    /\ Tracked /\ Drained /\ IsInjective(emitted)

-----------------------------------------------------------------------------
Moves == MovesFrom(moves, 0, Len(moves))

EmittedFromArray ==
    stage \notin TTStages \cup InitStages => ToSet(emitted) \subseteq Moves \cup {ttMove}

(* The moves that may still be emitted come after all that were. *)
Waiting ==
    {m \in Moves \ (ToSet(emitted) \cup {ttMove}) :
        (stage = "PROBCUT" => m \in winning) /\ (m \in ToSet(Quiets) => ~skipQuiets)}

WaitingLast ==
    stage \notin TTStages \cup InitStages =>
        \A n \in DOMAIN emitted : \A m \in Waiting : Before(emitted[n], m)

(* The places a + 1 to b are in order, down to a limit. *)
Sorted(list, a, b, limit) ==
    \A i, j \in a + 1..b :
        i < j => list[j].value < limit \/ list[i].value >= list[j].value

Descending(list, a, b) ==
    \A i, j \in a + 1..b : i < j => list[i].value >= list[j].value

(* The captures set aside are no better than those passed over before, and *)
(* no worse than those ahead.                                              *)
ArrayOrdered ==
    /\ stage \in ShortStages => Descending(moves, 0, Len(moves))
    /\ stage = "EVASION" =>
          \A i, j \in DOMAIN moves :
              moves[i].move \in ToSet(Captures) /\ moves[j].move \in ToSet(Quiets) =>
                  moves[i].value > moves[j].value
    /\ stage \in FirstMainStages =>
          /\ ToSet(emitted) \subseteq winning \cup {ttMove}
          /\ Descending(moves, cur, Few)
          /\ \A i \in 1..endBadCaptures, j \in cur + 1..Few :
                moves[i].value >= moves[j].value
    /\ stage \in FirstMainStages \cup LateMainStages =>
          /\ Descending(moves, 0, endBadCaptures)
          /\ \A i \in 1..endBadCaptures : moves[i].move \notin winning
    /\ stage \in LateMainStages => Sorted(moves, Few, Len(moves), -3560 * depth)

OrderInv == EmittedFromArray /\ WaitingLast /\ ArrayOrdered /\ BestFirst
=============================================================================
