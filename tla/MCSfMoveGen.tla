---------------------------- MODULE MCSfMoveGen ----------------------------
(***************************************************************************)
(* SfMoveGen for TLC, on a board of four files and five ranks: families of *)
(* positions in which the pieces stand wherever they may.                  *)
(***************************************************************************)
EXTENDS SfMoveGen

White(type) == <<"WHITE", type>>
Black(type) == <<"BLACK", type>>

(* The boards with one more piece, on some free square of S. *)
With(boards, pc, S) ==
    UNION {{(s :> pc) @@ b : s \in S \ DOMAIN b} : b \in boards}

Start(boards, castling) ==
    {[board |-> b, us |-> "WHITE",
      st |-> <<[captured |-> None, epSquare |-> None, castling |-> castling]>>] :
        b \in {x \in boards : ~ InCheck(x, "BLACK")}}

(* A white pawn may step past a black one; a slider of either side and the *)
(* king it may be aimed at stand anywhere.                                 *)
Passing ==
    LET pawns == <<1, 1>> :> White("PAWN") @@ <<2, 3>> :> Black("PAWN")
        white == {<<0, 0>> :> White("KING") @@ pawns}
        black == {<<3, 4>> :> Black("KING") @@ pawns}
    IN  UNION {With(With(white, Black("KING"), Square), White(pt), Square)
                  \cup With(With(black, White("KING"), Square), Black(pt), Square) :
                    pt \in {"ROOK", "BISHOP"}}

(* It has. *)
Passed ==
    LET step == Move("NORMAL", <<1, 1>>, <<1, 3>>)
        before == {p \in Start(Passing, {}) : step \in LegalMoves(p)}
    IN  {[after EXCEPT !.st = <<Last(@)>>] :
            after \in {DoMove(p, step) : p \in before}}

(* Two black sliders or a slider and a knight against a defended king.     *)
Pinned ==
    LET kings == {<<1, 0>> :> White("KING") @@ <<3, 4>> :> Black("KING")
                     @@ <<2, 1>> :> White(pt) : pt \in {"PAWN", "ROOK", "BISHOP"}}
        sliders == With(kings, Black("QUEEN"), Square)
    IN  With(sliders, Black("KNIGHT"), {<<2, 2>>, <<0, 2>>, <<3, 1>>})
            \cup With(sliders, Black("ROOK"), {<<1, 3>>, <<1, 4>>, <<3, 0>>})

(* White may castle with a rook that may shield its king.                  *)
Castling(r) ==
    LET kings == {<<1, 0>> :> White("KING") @@ r :> White("ROOK")
                     @@ <<0, 4>> :> Black("KING")}
    IN  UNION {With(kings, Black(pt), Square) : pt \in {"ROOK", "BISHOP", "KNIGHT"}}

(* Pawns about to promote in front of the black king.                      *)
Promoting ==
    LET pawns == {<<1, 3>> :> White("PAWN") @@ <<2, 4>> :> Black("ROOK")
                     @@ <<0, 0>> :> White("KING")}
    IN  With(pawns, Black("KING"), Square)

(* Pieces of all kinds bear on the square <<1, 2>>.                        *)
Exchanges ==
    LET target == {<<1, 2>> :> Black("KNIGHT") @@ <<0, 0>> :> White("KING")
                      @@ <<3, 4>> :> Black("KING") @@ <<1, 0>> :> White("ROOK")
                      @@ <<0, 3>> :> Black("PAWN")}
        white == UNION {With(target, White(pt), Square) :
                          pt \in {"PAWN", "BISHOP", "ROOK", "QUEEN"}}
    IN  {b \in UNION {With(white, Black(pt), {<<1, 4>>, <<2, 3>>, <<3, 2>>}) :
                         pt \in {"ROOK", "QUEEN", "BISHOP"}} :
            \A s \in DOMAIN b : TypeOf(b[s]) = "PAWN" => Rank(s) \notin {0, 4}}

MCRoots ==
    Start(Passing, {}) \cup Passed \cup Start(Pinned, {}) \cup Start(Promoting, {})
        \cup Start(Exchanges, {})
        \cup UNION {Start(Castling(r), {<<"WHITE", r>>}) : r \in {<<2, 0>>, <<3, 0>>}}

MCThresholds == {-10, -1, 0, 1, 5}
MCPieceValue == [pt \in {"PAWN", "KNIGHT", "BISHOP", "ROOK", "QUEEN", "KING"} |->
    CASE pt = "PAWN" -> 2 [] pt = "KNIGHT" -> 7 [] pt = "BISHOP" -> 8
      [] pt = "ROOK" -> 12 [] pt = "QUEEN" -> 25 [] pt = "KING" -> 0]

MCCastlingSquares ==
    [c \in Color |-> [side \in {"KING", "QUEEN"} |->
        LET rank == IF c = "WHITE" THEN 0 ELSE RankCount - 1
        IN  IF side = "KING" THEN [king |-> <<2, rank>>, rook |-> <<1, rank>>]
            ELSE [king |-> <<1, rank>>, rook |-> <<2, rank>>]]]
=============================================================================
