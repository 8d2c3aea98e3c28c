------------------------------ MODULE MCLcTree ------------------------------
(***************************************************************************)
(* LcTree for TLC. Move 1 loses: after it 2 mates, and 1 runs into a       *)
(* position the tablebases know as won for the side that has just moved.   *)
(* Move 2 draws, by a rule although there is a mate, or by a repetition    *)
(* that is two plies long and leads to a stalemate.                        *)
(***************************************************************************)
EXTENDS LcTree, TLC

CONSTANTS w1, w2

MCWorkers == {w1, w2}
MCOutcome == <<1, 1, 1>> :> 1 @@ <<1, 1, 1, 1, 1>> :> 1 @@ <<1, 2>> :> 1 @@ <<2, 2>> :> 0 @@ <<2, 2, 1>> :> 1 @@ <<2, 1, 1>> :> 0
MCTablebase == {<<1, 1, 1>>}
MCPositions == {<< >>, <<1>>, <<1, 1>>, <<1, 1, 1>>, <<1, 1, 1, 1>>,
                <<1, 1, 1, 1, 1>>, <<1, 2>>,
                <<2>>, <<2, 1>>, <<2, 1, 1>>, <<2, 2>>, <<2, 2, 1>>}
MCCycle == <<2, 1>> :> 2
MCEval == [n \in MCPositions |-> IF Len(n) = 2 THEN -1 ELSE 1]
MCCached == {<<2, 1>>}
MCLines == {<< >>, <<1>>, <<2>>, <<2, 2>>}
MCOpenings == {<< >>, <<<< >>, <<1>>, <<1, 1>>>>, <<<< >>, <<2>>, <<2, 1>>>>}
MCSymmetry == Permutations(Workers)
=============================================================================
