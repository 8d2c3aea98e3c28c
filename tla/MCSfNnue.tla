------------------------------ MODULE MCSfNnue ------------------------------
(***************************************************************************)
(* SfNnue for TLC, on a board of four files and five ranks.                *)
(***************************************************************************)
EXTENDS SfNnue

CONSTANTS n1, n2

White(type) == <<"WHITE", type>>
Black(type) == <<"BLACK", type>>

Start(board, us, ep, castling) ==
    [board |-> board, us |-> us,
     st |-> <<[captured |-> None, epSquare |-> ep, castling |-> castling]>>]

(* White may castle across the middle of the board and open its rook's     *)
(* file or close it, after Black has moved.                                *)
Castling ==
    Start(<<1, 0>> :> White("KING") @@ <<3, 0>> :> White("ROOK")
             @@ <<0, 4>> :> Black("KING") @@ <<3, 3>> :> Black("PAWN"),
          "BLACK", None, {<<"WHITE", <<3, 0>>>>})

(* A white pawn may step past a black one.                                 *)
Pawns ==
    Start(<<0, 0>> :> White("KING") @@ <<1, 1>> :> White("PAWN")
             @@ <<3, 4>> :> Black("KING") @@ <<2, 3>> :> Black("PAWN"),
          "WHITE", None, {})

(* A white pawn takes the last step, perhaps with a capture.               *)
Promotion ==
    Start(<<0, 0>> :> White("KING") @@ <<2, 3>> :> White("PAWN")
             @@ <<3, 0>> :> Black("KING") @@ <<3, 4>> :> Black("KNIGHT"),
          "WHITE", None, {})

(* A white rook looks through its king at the pawn behind, and the king    *)
(* may stay on the line as it moves, across the middle of the board.       *)
Lines ==
    Start(<<0, 1>> :> White("ROOK") @@ <<1, 1>> :> White("KING")
             @@ <<3, 1>> :> Black("PAWN") @@ <<1, 4>> :> Black("KING"),
          "BLACK", None, {})

MCRoots == {Castling, Pawns, Promotion, Lines}
MCNetworks == {n1, n2}
Symmetry == Permutations(MCNetworks)
MCCastlingSquares ==
    [c \in Color |-> [side \in {"KING", "QUEEN"} |->
        LET rank == IF c = "WHITE" THEN 0 ELSE RankCount - 1
        IN  IF side = "KING" THEN [king |-> <<2, rank>>, rook |-> <<1, rank>>]
            ELSE [king |-> <<1, rank>>, rook |-> <<2, rank>>]]]
=============================================================================
