----------------------------- MODULE SfMoveGen -----------------------------
(***************************************************************************)
(* Stockfish's move generation, its tests of moves and its exchanges.      *)
(*                                                                         *)
(* src/engines/stockfish/src/movegen.cpp and position.cpp: no generator    *)
(* tries a move on the board. Evasions are aimed at the checker, the rest  *)
(* is left to legal, which looks at the pieces that shield the king;       *)
(* whether a move gives check is answered before it is made, and decides   *)
(* whether the next position looks for checkers at all; pseudo_legal       *)
(* answers for moves read from the transposition table that may be torn    *)
(* or of another position; en passant is legal because do_move did not     *)
(* set the square otherwise. Each is compared with the rules of chess, on  *)
(* positions reached from the roots.                                       *)
(***************************************************************************)
EXTENDS SfBoard

CONSTANTS
    Roots,          \* positions that are set up, without en passant square
    Chess960,       \* whether a castling rook may shield its king
    Thresholds,     \* of see_ge
    PieceValue,     \* of each type, the king's is zero
    MaxPlies

VARIABLES
    pos,
    checkers        \* st->checkersBB

vars == <<pos, checkers>>

Own(p) == {s \in DOMAIN p.board : ColorOf(p.board[s]) = p.us}
Enemies(p) == DOMAIN p.board \ Own(p)
Empty(p) == Square \ DOMAIN p.board

-----------------------------------------------------------------------------
(***************************************************************************)
(* Attackers, pins and checks                                              *)
(***************************************************************************)

(* between_bb, which includes its end. *)
BetweenBB(s, t) == Between[s][t] \cup {t}

(* The pieces of both colours that attack a square. *)
AttackersTo(board, s, occupied) ==
    (SlidingAttacks("ROOK", s, occupied) \cap Pieces(board, {"ROOK", "QUEEN"}))
    \cup (SlidingAttacks("BISHOP", s, occupied)
            \cap Pieces(board, {"BISHOP", "QUEEN"}))
    \cup {t \in Pieces(board, {"PAWN"}) :
            t \in PawnAttacks[Them(ColorOf(board[t]))][s]}
    \cup (PseudoAttacks["KNIGHT"][s] \cap Pieces(board, {"KNIGHT"}))
    \cup (PseudoAttacks["KING"][s] \cap Pieces(board, {"KING"}))

(* Where a piece of the side to move would attack the other king. *)
CheckSquares(p, pt) ==
    LET ksq == KingSquare(p.board, Them(p.us))
    IN  CASE pt = "PAWN" -> PawnAttacks[Them(p.us)][ksq]
          [] pt = "KNIGHT" -> PseudoAttacks["KNIGHT"][ksq]
          [] pt = "KING" -> {}
          [] OTHER -> SlidingAttacks(pt, ksq, DOMAIN p.board)

Uncovers_PastCaptured(p, m) ==
    LET ksq == KingSquare(p.board, Them(p.us))
        left == (DOMAIN p.board \ {m.from}) \cup {m.to}
        sliders(pt) == SlidingAttacks(pt, ksq, left)
                          \cap Pieces(p.board, {"QUEEN", pt}) \cap Own(p)
    IN  sliders("ROOK") \cup sliders("BISHOP") # {}

(* En passant opens two squares at once. *)
Uncovers(p, m) ==
    LET ksq == KingSquare(p.board, Them(p.us))
        left == (DOMAIN p.board \ {m.from, CaptureSquare(p.us, m)}) \cup {m.to}
        sliders(pt) == SlidingAttacks(pt, ksq, left)
                          \cap Pieces(p.board, {"QUEEN", pt}) \cap Own(p)
    IN  sliders("ROOK") \cup sliders("BISHOP") # {}

(* Position::gives_check, of a pseudo-legal move. *)
GivesCheck(p, m) ==
    LET ksq == KingSquare(p.board, Them(p.us))
        blockers == SliderBlockers(p.board, Them(p.us)).blockers
        promoted(pt) == Attacks(<<p.us, pt>>, m.to, DOMAIN p.board \ {m.from})
    IN  CASE m.to \in CheckSquares(p, TypeOf(p.board[m.from])) -> TRUE
          [] OTHER ->
            IF m.from \in blockers
            THEN ksq \notin Line(m.from, m.to) \/ m.type = "CASTLING"
            ELSE CASE m.type = "NORMAL" -> FALSE
                   [] m.type = "PROMOTION" -> ksq \in promoted(m.promotion)
                   [] m.type = "EN_PASSANT" -> Uncovers(p, m)
                   [] m.type = "CASTLING" ->
                        RookTo(p.us, m) \in CheckSquares(p, "ROOK")

-----------------------------------------------------------------------------
(***************************************************************************)
(* Generators of pseudo-legal moves. A list of moves is a set of them.     *)
(***************************************************************************)
MakePromotions(type, from, to, enemy) ==
    LET every == type \in {"EVASIONS", "NON_EVASIONS"}
        queen == IF type = "CAPTURES" \/ every THEN {"QUEEN"} ELSE {}
        others == IF \/ type = "CAPTURES" /\ enemy
                     \/ type = "QUIETS" /\ ~ enemy
                     \/ every
                  THEN {"ROOK", "BISHOP", "KNIGHT"} ELSE {}
    IN  {Move("PROMOTION", from, to) @@ [promotion |-> pt] :
            pt \in (queen \cup others) \cap PromotionTypes}

(* The moves of one pawn of the side to move. *)
GeneratePawnMoves(p, type, target, from) ==
    LET us == p.us
        on7 == Rank(from) + Forward(us) = LastRank(us)
        mask == IF type = "EVASIONS" THEN target ELSE Square
        enemies == IF type = "EVASIONS" THEN checkers ELSE Enemies(p)
        captures == PawnAttacks[us][from] \cap enemies
        b1 == PawnPush[us][from] \cap Empty(p)
        b2 == UNION {PawnPush[us][t] : t \in {u \in b1 : RelativeRank(us, u) = 2}}
                 \cap Empty(p)
        ep == Last(p.st).epSquare
        pushes == {Move("NORMAL", from, t) : t \in (b1 \cup b2) \cap mask}
        takes == {Move("NORMAL", from, t) : t \in captures}
        \* En passant cannot resolve a discovered check.
        passing == IF /\ ep # None
                      /\ from \in PawnAttacks[Them(us)][ep]
                      /\ type = "EVASIONS" => target \cap PawnPush[us][ep] = {}
                   THEN {Move("EN_PASSANT", from, ep)} ELSE {}
    IN  CASE on7 -> UNION {MakePromotions(type, from, t, TRUE) : t \in captures}
                       \cup UNION {MakePromotions(type, from, t, FALSE) :
                                      t \in b1 \cap mask}
          [] ~ on7 /\ type = "CAPTURES" -> takes \cup passing
          [] ~ on7 /\ type = "QUIETS" -> pushes
          [] OTHER -> pushes \cup takes \cup passing

CastlingMoves(p) ==
    LET k == KingSquare(p.board, p.us)
        path(m) == (BetweenBB(m.to, RookTo(p.us, m)) \cup BetweenBB(k, KingTo(p.us, m)))
                      \ {k, m.to}
    IN  {m \in {Move("CASTLING", k, r[2]) :
                   r \in {x \in Last(p.st).castling : x[1] = p.us}} :
            DOMAIN p.board \cap path(m) = {}}

(* generate_all. *)
Generate(p, type) ==
    LET ksq == KingSquare(p.board, p.us)
        target ==
            CASE type = "EVASIONS" ->
                    BetweenBB(ksq, CHOOSE s \in checkers : TRUE)
              [] type = "NON_EVASIONS" -> Square \ Own(p)
              [] type = "CAPTURES" -> Enemies(p)
              [] type = "QUIETS" -> Empty(p)
        movers == IF type = "EVASIONS" /\ Cardinality(checkers) > 1
                  THEN {} ELSE Own(p) \ {ksq}
        of(s) == IF TypeOf(p.board[s]) = "PAWN"
                 THEN GeneratePawnMoves(p, type, target, s)
                 ELSE {Move("NORMAL", s, t) :
                         t \in Attacks(p.board[s], s, DOMAIN p.board) \cap target}
        steps == IF type = "EVASIONS" THEN Square \ Own(p) ELSE target
    IN  UNION {of(s) : s \in movers}
        \cup {Move("NORMAL", ksq, t) : t \in PseudoAttacks["KING"][ksq] \cap steps}
        \cup IF type \in {"QUIETS", "NON_EVASIONS"} THEN CastlingMoves(p) ELSE {}

PseudoLegalMoves(p) ==
    Generate(p, IF checkers # {} THEN "EVASIONS" ELSE "NON_EVASIONS")

-----------------------------------------------------------------------------
(***************************************************************************)
(* Position::pseudo_legal and legal                                        *)
(***************************************************************************)
KingMayGo_InItsWay(p, to) ==
    AttackersTo(p.board, to, DOMAIN p.board) \cap Enemies(p) = {}

(* The king does not hide behind the square it leaves. *)
KingMayGo(p, to) ==
    LET ksq == KingSquare(p.board, p.us)
    IN  AttackersTo(p.board, to, DOMAIN p.board \ {ksq}) \cap Enemies(p) = {}

Evades_OneChecker(p, m) ==
    IF TypeOf(p.board[m.from]) = "KING" THEN KingMayGo(p, m.to)
    ELSE \E c \in checkers : m.to \in BetweenBB(KingSquare(p.board, p.us), c)

Evades(p, m) ==
    IF TypeOf(p.board[m.from]) = "KING" THEN KingMayGo(p, m.to)
    ELSE \E c \in checkers : /\ checkers = {c}
                             /\ m.to \in BetweenBB(KingSquare(p.board, p.us), c)

PseudoLegal(p, m) ==
    LET us == p.us
        moved == p.board[m.from]
        isCapture == m.to \in PawnAttacks[us][m.from] \cap Enemies(p)
        isSinglePush == m.to \in PawnPush[us][m.from] \cap Empty(p)
        isDoublePush ==
            /\ RelativeRank(us, m.from) = 1
            /\ \E t \in PawnPush[us][m.from] \cap Empty(p) :
                  m.to \in PawnPush[us][t] \cap Empty(p)
    IN  IF m.type # "NORMAL" THEN m \in PseudoLegalMoves(p)
        ELSE /\ m.from \in Own(p)
             /\ m.to \notin Own(p)
             /\ IF TypeOf(moved) = "PAWN"
                THEN /\ RelativeRank(us, m.to) \notin {0, RankCount - 1}
                     /\ isCapture \/ isSinglePush \/ isDoublePush
                ELSE m.to \in Attacks(moved, m.from, DOMAIN p.board)
             /\ checkers # {} => Evades(p, m)

(* Of a castling move the squares the king passes; a king's own move is    *)
(* made with the king away; any other must stay on the line it shields.    *)
Legal(p, m) ==
    LET blockers == SliderBlockers(p.board, p.us).blockers
    IN  CASE m.type = "CASTLING" ->
                /\ \A s \in BetweenBB(m.from, KingTo(p.us, m)) \ {m.from} :
                      AttackersTo(p.board, s, DOMAIN p.board) \cap Enemies(p) = {}
                /\ Chess960 => m.to \notin blockers
          [] m.type # "CASTLING" /\ TypeOf(p.board[m.from]) = "KING" ->
                KingMayGo(p, m.to)
          [] OTHER -> \/ m.from \notin blockers
                      \/ KingSquare(p.board, p.us) \in Line(m.from, m.to)

(* generate<LEGAL> asks legal only where it might say no. *)
GenerateLegal(p) ==
    LET blockers == SliderBlockers(p.board, p.us).blockers
        asked(m) ==
            \/ m.from \in blockers
            \/ m.from = KingSquare(p.board, p.us)
            \/ m.type = "EN_PASSANT"
    IN  {m \in PseudoLegalMoves(p) : asked(m) => Legal(p, m)}

-----------------------------------------------------------------------------
(***************************************************************************)
(* Position::see_ge                                                        *)
(***************************************************************************)
ValueOn(p, s) == IF s \in DOMAIN p.board THEN PieceValue[TypeOf(p.board[s])] ELSE 0

(* Those that may capture for stm: pinned pieces stay while a pinner does. *)
Capturers(p, stm, attackers, occupied) ==
    LET own == {s \in attackers : ColorOf(p.board[s]) = stm}
        pins == SliderBlockers(p.board, stm)
    IN  IF own # {} /\ pins.pinners \cap occupied # {}
        THEN own \ pins.blockers ELSE own

Order == <<"PAWN", "KNIGHT", "BISHOP", "ROOK", "QUEEN", "KING">>
LeastSignificant(S) == CHOOSE s \in S : \A t \in S \ {s} :
    \/ Rank(s) < Rank(t)
    \/ Rank(s) = Rank(t) /\ File(s) < File(t)

(* The least valuable capturer. *)
Least(p, S) ==
    LET types == {TypeOf(p.board[s]) : s \in S}
        least == Order[CHOOSE i \in DOMAIN Order :
                         /\ Order[i] \in types
                         /\ \A j \in 1..i - 1 : Order[j] \notin types]
    IN  LeastSignificant(S \cap Pieces(p.board, {least}))

(* The sliders that see the square once a piece of a type has left. *)
XRays(p, to, pt, occupied) ==
    LET rays(type) == SlidingAttacks(type, to, occupied)
                         \cap Pieces(p.board, {type, "QUEEN"})
    IN  (IF pt \in {"PAWN", "BISHOP", "QUEEN"} THEN rays("BISHOP") ELSE {})
        \cup (IF pt \in {"ROOK", "QUEEN"} THEN rays("ROOK") ELSE {})

(* The loop, on the turn of stm: swap is what the side to move is ahead by *)
(* if the exchange ends, and res the answer if it does.                    *)
RECURSIVE Exchange_NoXRays(_, _, _, _, _, _, _)
Exchange_NoXRays(p, to, stm, seen, occupied, swap, res) ==
    LET attackers == seen \cap occupied
        capturers == Capturers(p, stm, attackers, occupied)
        s == Least(p, capturers)
        pt == TypeOf(p.board[s])
        left == PieceValue[pt] - swap
        without == occupied \ {s}
    IN  IF capturers = {} THEN res = 1
        ELSE IF pt = "KING"
        THEN (res = 0) # (\E t \in attackers : ColorOf(p.board[t]) # stm)
        ELSE IF pt # "QUEEN" /\ left < 1 - res THEN res = 0
        ELSE Exchange_NoXRays(p, to, Them(stm), attackers, without, left, 1 - res)

RECURSIVE Exchange(_, _, _, _, _, _, _)
Exchange(p, to, stm, seen, occupied, swap, res) ==
    LET attackers == seen \cap occupied
        capturers == Capturers(p, stm, attackers, occupied)
        s == Least(p, capturers)
        pt == TypeOf(p.board[s])
        left == PieceValue[pt] - swap
        without == occupied \ {s}
    IN  IF capturers = {} THEN res = 1
        ELSE IF pt = "KING"
        THEN (res = 0) # (\E t \in attackers : ColorOf(p.board[t]) # stm)
        ELSE IF pt # "QUEEN" /\ left < 1 - res THEN res = 0
        ELSE Exchange(p, to, Them(stm),
                      attackers \cup XRays(p, to, pt, without), without,
                      left, 1 - res)

(* pieces() ^ from ^ to: an empty target square counts as occupied. *)
Vacated(p, m) == (DOMAIN p.board \ {m.from, m.to}) \cup ({m.to} \ DOMAIN p.board)

SeeGe(p, m, threshold) ==
    LET won == ValueOn(p, m.to) - threshold
        risked == ValueOn(p, m.from) - won
        occupied == Vacated(p, m)
    IN  IF m.type # "NORMAL" THEN threshold <= 0
        ELSE /\ won >= 0
             /\ \/ risked <= 0
                \/ Exchange(p, m.to, Them(p.us),
                            AttackersTo(p.board, m.to, occupied), occupied,
                            risked, 1)

-----------------------------------------------------------------------------
(***************************************************************************)
(* A game: set up by set, then moves that generate<LEGAL> offers.          *)
(***************************************************************************)
Init ==
    /\ pos \in Roots
    /\ checkers = AttackersTo(pos.board, KingSquare(pos.board, pos.us),
                              DOMAIN pos.board) \cap Enemies(pos)

(* do_move looks for checkers only if the move is said to give check. *)
MakeMove(m) ==
    /\ Len(pos.st) <= MaxPlies
    /\ pos' = DoMove(pos, m)
    /\ checkers' =
          IF GivesCheck(pos, m)
          THEN AttackersTo(pos'.board, KingSquare(pos'.board, pos'.us),
                           DOMAIN pos'.board) \cap Enemies(pos')
          ELSE {}

Next == \E m \in GenerateLegal(pos) : MakeMove(m)

Spec == Init /\ [][Next]_vars

-----------------------------------------------------------------------------
(***************************************************************************)
(* Properties                                                              *)
(***************************************************************************)

(* What the generators offer, filtered by legal as generate<LEGAL> does it *)
(* at the root or as the search does it for each move, are the legal moves *)
(* of chess: those that leave the mover's king unattacked, found by making *)
(* each one. Pins, double checks, discovered checks, en passant and        *)
(* castling past an attack all take part.                                  *)
LegalExactly ==
    \E legal \in {LegalMoves(pos)} :
        /\ GenerateLegal(pos) = legal
        /\ {m \in PseudoLegalMoves(pos) : Legal(pos, m)} = legal

(* A move of any squares, from a torn or foreign entry of the table, that  *)
(* pseudo_legal lets pass is one a generator could have produced; and it   *)
(* refuses no legal move. Out of check captures and quiets are apart and   *)
(* together all there is, so that a move that passes is in one stage of    *)
(* the move picker only.                                                   *)
TableMoveChecked ==
    \E passed \in {{m \in {Move("NORMAL", s, t) : s, t \in Square} :
                      PseudoLegal(pos, m)}},
       generated \in {PseudoLegalMoves(pos)},
       captures \in {Generate(pos, "CAPTURES")},
       quiets \in {Generate(pos, "QUIETS")} :
        /\ passed \subseteq generated
        /\ {m \in LegalMoves(pos) : m.type = "NORMAL"} \subseteq passed
        /\ checkers = {} => /\ captures \cup quiets = generated
                            /\ captures \cap quiets = {}

(* The checkers are known after every move, found only if gives_check had  *)
(* said so from the squares, shields and rays of the position before it: a *)
(* check that is missed would leave a king in check with no evasions.      *)
CheckersKnown ==
    checkers = {s \in Enemies(pos) :
                   KingSquare(pos.board, pos.us)
                       \in Attacks(pos.board[s], s, DOMAIN pos.board)}

(* next offers a capture en passant exactly if there is a legal one, were  *)
(* the square set that a double step passed.                               *)
OffersEnPassant(m, next) ==
    LET passed == <<File(m.from), (Rank(m.from) + Rank(m.to)) \div 2>>
        offered == [next EXCEPT !.st[Len(next.st)].epSquare = passed]
        due == /\ TypeOf(pos.board[m.from]) = "PAWN"
               /\ Distance(Rank(m.from), Rank(m.to)) = 2
               /\ \E e \in LegalMoves(offered) : e.type = "EN_PASSANT"
    IN  Last(next.st).epSquare = IF due THEN passed ELSE None

(* The en passant square is set exactly if the pawn that just passed can   *)
(* be captured legally, though the legality of the capture is never tested *)
(* on the board: the key of the position depends on it, and with it the    *)
(* detection of repetitions.                                               *)
EnPassantExactly ==
    \A m \in LegalMoves(pos) :
        OffersEnPassant(m, Moved(pos, m, BoardAfter(pos, m)))

(* What do_move stores of a position instead of looking it up is exact.    *)
StateExact == CheckersKnown /\ EnPassantExactly

(* What stm can still win on a square where a piece of some value stands,  *)
(* if each side captures with its least valuable piece or stops.           *)
RECURSIVE Winnings(_, _, _, _, _)
Winnings(p, to, stm, occupied, value) ==
    LET attackers == AttackersTo(p.board, to, occupied) \cap occupied
        capturers == Capturers(p, stm, attackers, occupied)
        s == Least(p, capturers)
        pt == TypeOf(p.board[s])
        net == IF pt = "KING"
               THEN IF \E t \in attackers : ColorOf(p.board[t]) # stm
                    THEN 0 ELSE value
               ELSE value - Winnings(p, to, Them(stm), occupied \ {s},
                                     PieceValue[pt])
    IN  IF capturers = {} \/ net < 0 THEN 0 ELSE net

(* see_ge, which keeps one number and adds the sliders behind a capturer   *)
(* by its type, agrees with the exchange played out, for every move and    *)
(* threshold: the stages of the move picker and the pruning rest on it.    *)
SeeExactly ==
    \A m \in {x \in PseudoLegalMoves(pos) : x.type = "NORMAL"} :
        LET see == ValueOn(pos, m.to)
                      - Winnings(pos, m.to, Them(pos.us), Vacated(pos, m),
                                 ValueOn(pos, m.from))
        IN  \A threshold \in Thresholds :
                SeeGe(pos, m, threshold) <=> see >= threshold
=============================================================================
