------------------------------ MODULE SfBoard ------------------------------
(***************************************************************************)
(* The position of a Stockfish search and what do_move says of its change. *)
(*                                                                         *)
(* src/engines/stockfish/src/position.cpp: beside the new position,        *)
(* do_move leaves a DirtyPiece (the pieces that were moved, removed and    *)
(* added) and DirtyThreats (the attacks between pieces that appeared or    *)
(* vanished, found from the pieces around each changed square). The        *)
(* accumulators of the network are updated from these two alone.           *)
(*                                                                         *)
(* A board is a function from its occupied squares to pieces, a bitboard   *)
(* a set of squares. The list of dirty threats is kept as the signed       *)
(* number of its entries for each threat: the sums made of it depend       *)
(* neither on its order nor on entries that cancel. Keys and the counters  *)
(* of plies are left out. Which moves are legal is taken from the rules of *)
(* chess, for boards of any size; SfMoveGen has the generators of the code *)
(* and its test of legality.                                               *)
(***************************************************************************)
EXTENDS Integers, FiniteSets, Functions, SequencesExt, TLC

CONSTANTS
    FileCount, RankCount,   \* eight each; FileCount is even, and pawns
                            \* need five ranks for a double step
    CastlingSquares,        \* colour -> side -> where king and rook castle to
    PromotionTypes          \* what a pawn may become

Square == {<<f, r>> : f \in 0 .. FileCount - 1, r \in 0 .. RankCount - 1}
File(s) == s[1]
Rank(s) == s[2]

Color == {"WHITE", "BLACK"}
Them(us) == IF us = "WHITE" THEN "BLACK" ELSE "WHITE"
ColorOf(pc) == pc[1]
TypeOf(pc) == pc[2]

(* No square, for SQ_NONE. *)
None == <<>>

(***************************************************************************)
(* Signed numbers of things, zero for what is not in the domain.           *)
(***************************************************************************)
Count(b, x) == IF x \in DOMAIN b THEN b[x] ELSE 0

Plus(b, c) ==
    LET sum == [x \in DOMAIN b \cup DOMAIN c |-> Count(b, x) + Count(c, x)]
    IN  Restrict(sum, {x \in DOMAIN sum : sum[x] # 0})

Minus(b, c) == Plus(b, [x \in DOMAIN c |-> -c[x]])

Each(S) == [x \in S |-> 1]

-----------------------------------------------------------------------------
(***************************************************************************)
(* Attacks                                                                 *)
(***************************************************************************)
Distance(a, b) == IF a < b THEN b - a ELSE a - b

RookDirections == {<<0, 1>>, <<0, -1>>, <<1, 0>>, <<-1, 0>>}
BishopDirections == {<<1, 1>>, <<1, -1>>, <<-1, -1>>, <<-1, 1>>}
KingSteps == RookDirections \cup BishopDirections
KnightSteps == {<<1, 2>>, <<2, 1>>, <<2, -1>>, <<1, -2>>,
                <<-1, -2>>, <<-2, -1>>, <<-2, 1>>, <<-1, 2>>}

Furthest == FileCount + RankCount

(* The squares reached with up to n of the same steps on an empty board. *)
Reached(s, steps, n) ==
    {<<File(s) + i * d[1], Rank(s) + i * d[2]>> : d \in steps, i \in 1 .. n}
        \cap Square

PseudoAttacks == [pt \in {"KNIGHT", "BISHOP", "ROOK", "QUEEN", "KING"} |->
    [s \in Square |->
        CASE pt = "KNIGHT" -> Reached(s, KnightSteps, 1)
          [] pt = "BISHOP" -> Reached(s, BishopDirections, Furthest)
          [] pt = "ROOK" -> Reached(s, RookDirections, Furthest)
          [] pt = "QUEEN" -> Reached(s, KingSteps, Furthest)
          [] pt = "KING" -> Reached(s, KingSteps, 1)]]

Towards(s, t) == {d \in KingSteps : t \in Reached(s, {d}, Furthest)}

(* The squares of the line through s and t that a slider on s passes. *)
RayPass == [s \in Square |-> [t \in Square |-> Reached(s, Towards(s, t), Furthest)]]

Between == [s \in Square |-> [t \in Square |->
    RayPass[s][t] \ ({t} \cup Reached(t, Towards(s, t), Furthest))]]

Forward(c) == IF c = "WHITE" THEN 1 ELSE -1

PawnAttacks == [c \in Color |-> [s \in Square |->
    Reached(s, {<<-1, Forward(c)>>, <<1, Forward(c)>>}, 1)]]

PawnPush == [c \in Color |-> [s \in Square |-> Reached(s, {<<0, Forward(c)>>}, 1)]]

PawnPushOrAttacks == [c \in Color |-> [s \in Square |->
    PawnPush[c][s] \cup PawnAttacks[c][s]]]

RelativeRank(c, s) == IF c = "WHITE" THEN Rank(s) ELSE RankCount - 1 - Rank(s)

SlidingAttacks(pt, s, occupied) ==
    {t \in PseudoAttacks[pt][s] : Between[s][t] \cap occupied = {}}

Attacks(pc, s, occupied) ==
    CASE TypeOf(pc) = "PAWN" -> PawnAttacks[ColorOf(pc)][s]
      [] TypeOf(pc) \in {"KNIGHT", "KING"} -> PseudoAttacks[TypeOf(pc)][s]
      [] OTHER -> SlidingAttacks(TypeOf(pc), s, occupied)

Pieces(board, types) == {s \in DOMAIN board : TypeOf(board[s]) \in types}
KingSquare(board, c) == CHOOSE s \in DOMAIN board : board[s] = <<c, "KING">>

Attacked(board, c, s) ==
    \E t \in DOMAIN board : /\ ColorOf(board[t]) = Them(c)
                            /\ s \in Attacks(board[t], t, DOMAIN board)

(* The whole line through two squares. *)
Line(s, t) == RayPass[s][t] \cup RayPass[t][s]

(* The pieces that alone keep a slider from the king of c, and the sliders *)
(* that pin a piece of c. Snipers do not hide behind each other.           *)
SliderBlockers(board, c) ==
    LET ksq == KingSquare(board, c)
        sees(s) == \/ /\ TypeOf(board[s]) \in {"ROOK", "QUEEN"}
                      /\ s \in PseudoAttacks["ROOK"][ksq]
                   \/ /\ TypeOf(board[s]) \in {"BISHOP", "QUEEN"}
                      /\ s \in PseudoAttacks["BISHOP"][ksq]
        snipers == {s \in DOMAIN board : ColorOf(board[s]) = Them(c) /\ sees(s)}
        between(s) == Between[ksq][s] \cap (DOMAIN board \ snipers)
        kept == {s \in snipers : Cardinality(between(s)) = 1}
    IN  [blockers |-> UNION {between(s) : s \in kept},
         pinners |-> {s \in kept :
                        \E b \in between(s) : ColorOf(board[b]) = c}]

InCheck(board, c) == Attacked(board, c, KingSquare(board, c))

-----------------------------------------------------------------------------
(***************************************************************************)
(* The board and its dirty threats. A threat is an attacker, its square,   *)
(* the attacked piece and its square; p is a board with the threats that   *)
(* changed so far.                                                         *)
(***************************************************************************)
Threat(board, s, t) == <<board[s], s, board[t], t>>

ThreatsAround(board, pc, s, rAttacks, bAttacks, computeRay, noRaysContaining) ==
    LET occupied == DOMAIN board \ {s}
        noKings == occupied \ Pieces(board, {"KING"})
        sliders == (Pieces(board, {"ROOK", "QUEEN"}) \cap rAttacks)
                      \cup (Pieces(board, {"BISHOP", "QUEEN"}) \cap bAttacks)
        discovered == {<<u, t>> \in sliders \X noKings :
                          /\ t \in RayPass[u][s] \cap (rAttacks \cup bAttacks)
                          /\ ~ noRaysContaining \subseteq RayPass[u][s]}
        reached == (Attacks(pc, s, occupied) \cap noKings)
                      \cup IF TypeOf(pc) = "PAWN"
                           THEN PawnPushOrAttacks[ColorOf(pc)][s]
                                   \cap Pieces(board, {"PAWN"})
                           ELSE {}
        behind(c) == IF TypeOf(pc) = "PAWN" THEN PawnPushOrAttacks[Them(c)][s]
                     ELSE PawnAttacks[Them(c)][s]
        incoming == (PseudoAttacks["KNIGHT"][s] \cap Pieces(board, {"KNIGHT"}))
                       \cup (PseudoAttacks["KING"][s]
                                \cap Pieces(board, {"KING"}))
                       \cup {u \in Pieces(board, {"PAWN"}) \ {s} :
                                u \in behind(ColorOf(board[u]))}
                       \cup sliders
        seen == (s :> pc) @@ board
        direct == IF TypeOf(pc) = "KING" THEN {}
                  ELSE {Threat(seen, s, t) : t \in reached}
                          \cup {Threat(seen, u, s) : u \in incoming}
        opened == IF computeRay
                  THEN {Threat(board, d[1], d[2]) : d \in discovered}
                  ELSE {}
    IN  Minus(Each(direct), Each(opened))

UpdatePieceThreats(board, pc, s, computeRay, noRaysContaining) ==
    LET occupied == DOMAIN board \ {s}
    IN  ThreatsAround(board, pc, s, SlidingAttacks("ROOK", s, occupied),
                      SlidingAttacks("BISHOP", s, occupied),
                      computeRay, noRaysContaining)

PutPiece(p, pc, s) ==
    [board |-> (s :> pc) @@ p.board,
     threats |-> Plus(p.threats,
                      UpdatePieceThreats(p.board, pc, s, TRUE, Square))]

RemovePiece(p, s) ==
    [board |-> Restrict(p.board, DOMAIN p.board \ {s}),
     threats |-> Minus(p.threats,
                       UpdatePieceThreats(p.board, p.board[s], s, TRUE,
                                          Square))]

(* Variant: skips what the piece uncovers on any line it stays on.       *)
MovePiece_SkipsOnce(p, from, to) ==
    LET pc == p.board[from]
        lifted == Restrict(p.board, DOMAIN p.board \ {from})
        left == UpdatePieceThreats(p.board, pc, from, TRUE, {from, to})
        met == UpdatePieceThreats(lifted, pc, to, TRUE, Square)
    IN  [board |-> (to :> pc) @@ lifted,
         threats |-> Plus(Minus(p.threats, left), met)]

(* Threats past a piece that moves along their line never change. *)
MovePiece(p, from, to) ==
    LET pc == p.board[from]
        lifted == Restrict(p.board, DOMAIN p.board \ {from})
        left == UpdatePieceThreats(p.board, pc, from, TRUE, {from, to})
        met == UpdatePieceThreats(lifted, pc, to, TRUE, {from, to})
    IN  [board |-> (to :> pc) @@ lifted,
         threats |-> Plus(Minus(p.threats, left), met)]

(* The square stays occupied: nothing is discovered past it. *)
SwapPiece(p, s, pc) ==
    LET old == UpdatePieceThreats(p.board, p.board[s], s, FALSE, Square)
        new == UpdatePieceThreats(p.board, pc, s, FALSE, Square)
    IN  [board |-> (s :> pc) @@ p.board,
         threats |-> Plus(Minus(p.threats, old), new)]

-----------------------------------------------------------------------------
(***************************************************************************)
(* Moves. A castling move is encoded as king takes own rook.               *)
(***************************************************************************)
Side(from, to) == IF File(to) > File(from) THEN "KING" ELSE "QUEEN"

KingTo(us, m) == CastlingSquares[us][Side(m.from, m.to)].king
RookTo(us, m) == CastlingSquares[us][Side(m.from, m.to)].rook

(* The squares of a castling move, of the king and of the rook. *)
DoCastling(p, us, m) ==
    LET king == RemovePiece(p, m.from)
        both == RemovePiece(king, m.to)
        put == PutPiece(both, <<us, "KING">>, KingTo(us, m))
    IN  PutPiece(put, <<us, "ROOK">>, RookTo(us, m))

CaptureSquare(us, m) ==
    IF m.type = "EN_PASSANT" THEN <<File(m.to), Rank(m.from)>> ELSE m.to

Captured(pos, m) ==
    CASE m.type = "CASTLING" -> None
      [] m.type = "EN_PASSANT" -> <<Them(pos.us), "PAWN">>
      [] OTHER -> IF m.to \in DOMAIN pos.board THEN pos.board[m.to] ELSE None

(* The piece that stands on the square of arrival. *)
Arriving(pos, m) ==
    IF m.type = "PROMOTION" THEN <<pos.us, m.promotion>> ELSE pos.board[m.from]

ChangedBoard(pos, m) ==
    LET p == [board |-> pos.board, threats |-> <<>>]
        pc == pos.board[m.from]
    IN  CASE m.type = "CASTLING" -> DoCastling(p, pos.us, m)
          [] m.type = "EN_PASSANT" ->
                MovePiece(RemovePiece(p, CaptureSquare(pos.us, m)),
                          m.from, m.to)
          [] m.type \in {"NORMAL", "PROMOTION"} /\ Captured(pos, m) # None ->
                SwapPiece(RemovePiece(p, m.from), m.to, Arriving(pos, m))
          [] m.type = "NORMAL" /\ Captured(pos, m) = None ->
                MovePiece(p, m.from, m.to)
          [] OTHER -> PutPiece(RemovePiece(p, m.from), Arriving(pos, m), m.to)

(* dp: for a promotion the pawn goes nowhere and another piece is added;   *)
(* castling removes and adds the rook.                                     *)
DirtyPiece(pos, m) ==
    LET us == pos.us
        captured == Captured(pos, m)
        castles == m.type = "CASTLING"
        promotes == m.type = "PROMOTION"
    IN  [pc |-> pos.board[m.from],
         from |-> m.from,
         to |-> IF castles THEN KingTo(us, m)
                ELSE IF promotes THEN None ELSE m.to,
         remove_pc |-> IF castles THEN <<us, "ROOK">> ELSE captured,
         remove_sq |-> IF castles THEN m.to
                       ELSE IF captured # None THEN CaptureSquare(us, m)
                       ELSE None,
         add_pc |-> IF castles THEN <<us, "ROOK">> ELSE Arriving(pos, m),
         add_sq |-> IF castles THEN RookTo(us, m)
                    ELSE IF promotes THEN m.to ELSE None]

(* The pair of squares a castling right is lost with: king and rook. *)
Rights(pos, from, to) ==
    {r \in Last(pos.st).castling :
        {from, to} \cap {r[2], KingSquare(pos.board, r[1])} = {}}

(* The square a double step passes, if it can be captured on: some pawn    *)
(* attacks it that was not pinned before the step, or not across it.       *)
EpSquare(pos, m) ==
    LET them == Them(pos.us)
        passed == <<File(m.from), (Rank(m.from) + Rank(m.to)) \div 2>>
        pawns == {s \in PawnAttacks[pos.us][passed] \cap DOMAIN pos.board :
                    pos.board[s] = <<them, "PAWN">>}
        ksq == KingSquare(pos.board, them)
        blockers == SliderBlockers(pos.board, them).blockers
        noDiscovery == m.from \notin blockers \/ File(m.from) = File(ksq)
    IN  IF /\ TypeOf(pos.board[m.from]) = "PAWN"
           /\ Distance(Rank(m.from), Rank(m.to)) = 2
           /\ noDiscovery
           /\ \E s \in pawns : s \notin blockers \/ s \in Line(passed, ksq)
        THEN passed ELSE None

Moved(pos, m, board) ==
    [board |-> board,
     us |-> Them(pos.us),
     st |-> Append(pos.st, [captured |-> Captured(pos, m),
                            epSquare |-> EpSquare(pos, m),
                            castling |-> Rights(pos, m.from, m.to)])]

DoMove(pos, m) == Moved(pos, m, ChangedBoard(pos, m).board)

(* dts, of the move that left the changed board. *)
DirtyThreats(pos, changed) ==
    [list |-> changed.threats,
     us |-> pos.us,
     prevKsq |-> KingSquare(pos.board, pos.us),
     ksq |-> KingSquare(changed.board, pos.us)]

(* The captured piece is restored on its own square. *)
PutBack(board, us, m, captured) ==
    IF captured = None THEN board
    ELSE (CaptureSquare(us, m) :> captured) @@ board

UndoMove(pos, m) ==
    LET us == Them(pos.us)
        Place(board, s, pc) == (s :> pc) @@ board
        Lift(board, S) == Restrict(board, DOMAIN board \ S)
        back == IF m.type = "PROMOTION" THEN <<us, "PAWN">>
                ELSE pos.board[m.to]
        uncastled == Place(Place(Lift(pos.board, {KingTo(us, m), RookTo(us, m)}),
                                 m.from, <<us, "KING">>),
                           m.to, <<us, "ROOK">>)
        moved == Place(Lift(pos.board, {m.to}), m.from, back)
    IN  [board |-> IF m.type = "CASTLING" THEN uncastled
                   ELSE PutBack(moved, us, m, Last(pos.st).captured),
         us |-> us,
         st |-> Front(pos.st)]

DoNullMove(pos) ==
    [pos EXCEPT !.us = Them(pos.us),
                !.st = Append(@, [Last(@) EXCEPT !.epSquare = None])]

UndoNullMove(pos) == [pos EXCEPT !.us = Them(pos.us), !.st = Front(@)]

-----------------------------------------------------------------------------
(***************************************************************************)
(* The legal moves of a position.                                          *)
(***************************************************************************)
Move(type, from, to) == [type |-> type, from |-> from, to |-> to]

LastRank(c) == IF c = "WHITE" THEN RankCount - 1 ELSE 0

PawnMoves(pos, from) ==
    LET taken == {t \in DOMAIN pos.board : ColorOf(pos.board[t]) # pos.us}
        ep == {Last(pos.st).epSquare} \ {None}
        pushes(S) == UNION {PawnPush[pos.us][t] : t \in S} \ DOMAIN pos.board
        steps == pushes({from}) \cup (PawnAttacks[pos.us][from] \cap taken)
        doubles == IF RelativeRank(pos.us, from) = 1
                   THEN pushes(pushes({from})) ELSE {}
    IN  {Move("EN_PASSANT", from, t) : t \in PawnAttacks[pos.us][from] \cap ep}
        \cup {Move("NORMAL", from, t) :
                 t \in {u \in steps : Rank(u) # LastRank(pos.us)} \cup doubles}
        \cup {Move("PROMOTION", from, t) @@ [promotion |-> pt] :
                 t \in {u \in steps : Rank(u) = LastRank(pos.us)},
                 pt \in PromotionTypes}

PieceMoves(pos, from) ==
    {Move("NORMAL", from, t) :
        t \in {u \in Attacks(pos.board[from], from, DOMAIN pos.board) :
                 u \in DOMAIN pos.board => ColorOf(pos.board[u]) # pos.us}}

Castles(pos) ==
    LET k == KingSquare(pos.board, pos.us)
        free(m) ==
            LET kto == KingTo(pos.us, m)
                rto == RookTo(pos.us, m)
                path == Between[k][kto] \cup Between[m.to][rto] \cup {kto, rto}
            IN  /\ DOMAIN pos.board \cap (path \ {k, m.to}) = {}
                /\ \A s \in Between[k][kto] \cup {k} :
                      ~ Attacked(pos.board, pos.us, s)
    IN  {m \in {Move("CASTLING", k, r[2]) :
                   r \in {x \in Last(pos.st).castling : x[1] = pos.us}} :
            free(m)}

(* The board by the rules of chess, whatever do_move does. *)
BoardAfter(pos, m) ==
    LET left == {m.from, m.to, CaptureSquare(pos.us, m)}
        stays == Restrict(pos.board, DOMAIN pos.board \ left)
    IN  IF m.type = "CASTLING"
        THEN KingTo(pos.us, m) :> <<pos.us, "KING">>
                @@ RookTo(pos.us, m) :> <<pos.us, "ROOK">> @@ stays
        ELSE m.to :> Arriving(pos, m) @@ stays

LegalMoves(pos) ==
    LET own == {s \in DOMAIN pos.board : ColorOf(pos.board[s]) = pos.us}
        of(s) == IF TypeOf(pos.board[s]) = "PAWN" THEN PawnMoves(pos, s)
                 ELSE PieceMoves(pos, s)
    IN  {m \in Castles(pos) \cup UNION {of(s) : s \in own} :
            ~ InCheck(BoardAfter(pos, m), pos.us)}
=============================================================================
