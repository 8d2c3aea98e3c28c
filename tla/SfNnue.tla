------------------------------- MODULE SfNnue -------------------------------
(***************************************************************************)
(* The accumulators of Stockfish's network.                                *)
(*                                                                         *)
(* src/engines/stockfish/src/nnue/nnue_accumulator.cpp: the first layer of *)
(* the network is a sum of weights over the features of the position, one  *)
(* sum for each perspective. A worker keeps the sums of the positions on   *)
(* its line of play on a stack. A move pushes what it changed; a sum is    *)
(* computed when a position is evaluated: forwards from the last sum on    *)
(* the stack, or, past a move that changes every feature, from scratch and *)
(* then backwards. From scratch means, for the pieces, from the last sum   *)
(* computed with the king on the same square, in a cache that outlives the *)
(* search.                                                                 *)
(*                                                                         *)
(* A sum is kept as the number of times each weight entered it, a weight   *)
(* being a feature and the network it was read from; widths and vector     *)
(* instructions are abstracted. One worker is modelled: each has a stack   *)
(* and a cache of its own. MovesLeft and EvaluationsLeft bound a run.      *)
(***************************************************************************)
EXTENDS SfBoard, FiniteSetsExt

CONSTANTS
    Roots,          \* positions a search is started on
    Networks,       \* evaluation files
    MaxPly,         \* MAX_PLY
    MaxMoves, MaxEvaluations

VARIABLES
    network,    \* the network of this worker's node
    searching,  \* between start_searching and its return
    root,       \* the position the search was started on
    pos,        \* the position of the search
    line,       \* the moves that led to it, the locals of the recursion
    psq,        \* psq_accumulators[0 .. size - 1]
    threats,    \* threat_accumulators[0 .. size - 1]
    refreshTable,
    movesLeft, evaluationsLeft

vars == <<network, searching, root, pos, line, psq, threats, refreshTable,
          movesLeft, evaluationsLeft>>
bounds == <<movesLeft, evaluationsLeft>>

-----------------------------------------------------------------------------
(***************************************************************************)
(* Features                                                                *)
(***************************************************************************)
LeftHalf(s) == 2 * File(s) < FileCount

(* Black looks from the other end; the king looks from the right half.     *)
Orient(c, ksq, s) ==
    <<IF LeftHalf(ksq) THEN FileCount - 1 - File(s) ELSE File(s),
      IF c = "BLACK" THEN RankCount - 1 - Rank(s) ELSE Rank(s)>>

Relative(c, pc) ==
    <<IF c = ColorOf(pc) THEN "WHITE" ELSE "BLACK", TypeOf(pc)>>

Weight(feature) == <<network, feature>>

(* HalfKAv2_hm::make_index: both kings have the same plane. *)
HalfKaIndex(c, s, pc, ksq) ==
    <<Orient(c, ksq, ksq),
      IF TypeOf(pc) = "KING" THEN <<"EITHER", "KING">> ELSE Relative(c, pc),
      Orient(c, ksq, s)>>

HalfKa(c, board, ksq) ==
    Each({Weight(HalfKaIndex(c, s, board[s], ksq)) : s \in DOMAIN board})

HalfKaChanged(c, ksq, dp) ==
    LET of(s, pc) == IF s = None THEN <<>>
                     ELSE Each({Weight(HalfKaIndex(c, s, pc, ksq))})
        removed == Plus(of(dp.from, dp.pc), of(dp.remove_sq, dp.remove_pc))
        added == Plus(of(dp.to, dp.pc), of(dp.add_sq, dp.add_pc))
    IN  Minus(added, removed)

HalfKaRequiresRefresh(dp, c) == dp.pc = <<c, "KING">>

(* FullThreats::make_index, with the sides of the board exchanged.         *)
ThreatOrient(c, ksq, s) ==
    <<IF LeftHalf(ksq) THEN File(s) ELSE FileCount - 1 - File(s),
      IF c = "BLACK" THEN RankCount - 1 - Rank(s) ELSE Rank(s)>>

ThreatIndex(c, ksq, t) ==
    <<Relative(c, t[1]), ThreatOrient(c, ksq, t[2]),
      Relative(c, t[3]), ThreatOrient(c, ksq, t[4])>>

Below(s, t) == \/ Rank(s) < Rank(t)
               \/ Rank(s) = Rank(t) /\ File(s) < File(t)

Targets(pt) ==
    CASE pt = "PAWN" -> {"PAWN", "KNIGHT", "ROOK"}
      [] pt \in {"KNIGHT", "QUEEN"} ->
            {"PAWN", "KNIGHT", "BISHOP", "ROOK", "QUEEN"}
      [] pt \in {"BISHOP", "ROOK"} -> {"PAWN", "KNIGHT", "BISHOP", "ROOK"}
      [] pt = "KING" -> {}

(* Of two pieces of a type that attack each other one threat counts.       *)
HasIndex(f) ==
    /\ TypeOf(f[3]) \in Targets(TypeOf(f[1]))
    /\ ~ /\ TypeOf(f[1]) = TypeOf(f[3])
         /\ ColorOf(f[1]) # ColorOf(f[3]) \/ TypeOf(f[1]) # "PAWN"
         /\ Below(f[2], f[4])

(* The index of an index is the threat itself. *)
ThreatWeights(c, ksq, list) ==
    LET indices == {ThreatIndex(c, ksq, t) : t \in DOMAIN list}
        counted == {f \in indices : HasIndex(f)}
    IN  [w \in {Weight(f) : f \in counted} |-> list[ThreatIndex(c, ksq, w[2])]]

ActiveThreats(board) ==
    LET pawns == Pieces(board, {"PAWN"})
        targets(s) ==
            IF s \in pawns
            THEN (PawnAttacks[ColorOf(board[s])][s] \cap DOMAIN board)
                    \cup (PawnPush[ColorOf(board[s])][s] \cap pawns)
            ELSE Attacks(board[s], s, DOMAIN board) \cap DOMAIN board
    IN  UNION {{Threat(board, s, t) : t \in targets(s)} :
                  s \in DOMAIN board \ Pieces(board, {"KING"})}

FullThreats(c, board, ksq) == ThreatWeights(c, ksq, Each(ActiveThreats(board)))

ThreatsChanged(c, ksq, dts) == ThreatWeights(c, ksq, dts.list)

ThreatsRequireRefresh(dts, c) ==
    c = dts.us /\ LeftHalf(dts.ksq) # LeftHalf(dts.prevKsq)

-----------------------------------------------------------------------------
(***************************************************************************)
(* The stack. An entry has the change of its move and the sums computed of *)
(* it, a function of the perspectives that are.                            *)
(***************************************************************************)
Computed(entry, c) == c \in DOMAIN entry.sum

Reset == <<[diff |-> None, sum |-> <<>>]>>

Pushed(stack, diff) == Append(stack, [diff |-> diff, sum |-> <<>>])

(* The last entry that is computed, or that no update leads to. *)
LastUsable(stack, c, refreshes) ==
    Max({1} \cup refreshes \cup {i \in DOMAIN stack : Computed(stack[i], c)})

(* The entries past the last usable one are computed, given the change     *)
(* each makes, those that require a refresh, and the sum from scratch.     *)
EvaluateSide(stack, c, change, refreshes, refreshed) ==
    LET last == LastUsable(stack, c, refreshes)
        size == Len(stack)
        forward[i \in last .. size] ==
            IF i = last THEN stack[i].sum[c] ELSE Plus(forward[i - 1], change[i])
        backward[i \in last .. size] ==
            IF i = size THEN refreshed ELSE Minus(backward[i + 1], change[i + 1])
        sum == IF Computed(stack[last], c) THEN forward ELSE backward
    IN  [i \in 1 .. size |->
            IF i < last THEN stack[i]
            ELSE [stack[i] EXCEPT !.sum = (c :> sum[i]) @@ @]]

PieceRefreshes(c) ==
    {i \in 2 .. Len(psq) : HalfKaRequiresRefresh(psq[i].diff, c)}

ThreatRefreshes(c) ==
    {i \in 2 .. Len(threats) : ThreatsRequireRefresh(threats[i].diff, c)}

Biases(n) == <<n, <<>>>> :> 1

ClearedTable(n) ==
    [k \in Square \X Color |-> [sum |-> Biases(n), pieces |-> <<>>]]

(* update_accumulator_refresh_cache: the pieces that differ are exchanged. *)
Refreshed(c) ==
    LET ksq == KingSquare(pos.board, c)
        entry == refreshTable[<<ksq, c>>]
        differ(board, other) ==
            {s \in DOMAIN board :
                s \notin DOMAIN other \/ board[s] # other[s]}
        weights(board, S) == HalfKa(c, Restrict(board, S), ksq)
        removed == weights(entry.pieces, differ(entry.pieces, pos.board))
        added == weights(pos.board, differ(pos.board, entry.pieces))
    IN  [sum |-> Plus(Minus(entry.sum, removed), added), pieces |-> pos.board]

NeedsRefresh(c) == ~ Computed(psq[LastUsable(psq, c, PieceRefreshes(c))], c)

-----------------------------------------------------------------------------
Init ==
    /\ network \in Networks
    /\ searching = FALSE
    /\ root \in Roots
    /\ pos = root
    /\ line = <<>>
    /\ psq = Reset
    /\ threats = Reset
    /\ refreshTable = ClearedTable(network)
    /\ movesLeft = MaxMoves
    /\ evaluationsLeft = MaxEvaluations

(* Worker::start_searching, on the position the pool was given. *)
StartSearching(r) ==
    /\ ~ searching
    /\ searching' = TRUE
    /\ root' = r
    /\ pos' = r
    /\ psq' = Reset
    /\ threats' = Reset
    /\ UNCHANGED <<network, line, refreshTable, bounds>>

(* The recursion is left only after every move of it was undone. *)
FinishSearching ==
    /\ searching
    /\ line = <<>>
    /\ searching' = FALSE
    /\ UNCHANGED <<network, root, pos, line, psq, threats, refreshTable, bounds>>

WorkerDoMove ==
    /\ searching
    /\ Len(line) < MaxPly
    /\ movesLeft > 0
    /\ \E m \in LegalMoves(pos) : \E changed \in {ChangedBoard(pos, m)} :
          /\ pos' = Moved(pos, m, changed.board)
          /\ psq' = Pushed(psq, DirtyPiece(pos, m))
          /\ threats' = Pushed(threats, DirtyThreats(pos, changed))
          /\ line' = Append(line, m)
    /\ movesLeft' = movesLeft - 1
    /\ UNCHANGED <<network, searching, root, refreshTable, evaluationsLeft>>

NullMove == [type |-> "NULL"]

WorkerUndoMove ==
    /\ line # <<>>
    /\ Last(line) # NullMove
    /\ pos' = UndoMove(pos, Last(line))
    /\ psq' = Front(psq)
    /\ threats' = Front(threats)
    /\ line' = Front(line)
    /\ UNCHANGED <<network, searching, root, refreshTable, bounds>>

(* The accumulators keep their place: no piece has moved. *)
WorkerDoNullMove ==
    /\ searching
    /\ Len(line) < MaxPly
    /\ movesLeft > 0
    /\ line # <<>> => Last(line) # NullMove
    /\ ~ InCheck(pos.board, pos.us)
    /\ \E s \in DOMAIN pos.board : /\ ColorOf(pos.board[s]) = pos.us
                                  /\ TypeOf(pos.board[s]) \notin {"KING", "PAWN"}
    /\ pos' = DoNullMove(pos)
    /\ line' = Append(line, NullMove)
    /\ movesLeft' = movesLeft - 1
    /\ UNCHANGED <<network, searching, root, psq, threats, refreshTable,
                   evaluationsLeft>>

WorkerUndoNullMove ==
    /\ line # <<>>
    /\ Last(line) = NullMove
    /\ pos' = UndoNullMove(pos)
    /\ line' = Front(line)
    /\ UNCHANGED <<network, searching, root, psq, threats, refreshTable, bounds>>

(* AccumulatorStack::evaluate. A position in check is never evaluated. *)
Evaluate ==
    LET ksq(c) == KingSquare(pos.board, c)
        piecesOf(stack, c) ==
            EvaluateSide(stack, c,
                         [i \in 2 .. Len(psq) |->
                            HalfKaChanged(c, ksq(c), psq[i].diff)],
                         PieceRefreshes(c), Refreshed(c).sum)
        threatsOf(stack, c) ==
            EvaluateSide(stack, c,
                         [i \in 2 .. Len(threats) |->
                            ThreatsChanged(c, ksq(c), threats[i].diff)],
                         ThreatRefreshes(c), FullThreats(c, pos.board, ksq(c)))
    IN  /\ searching
        /\ evaluationsLeft > 0
        /\ ~ InCheck(pos.board, pos.us)
        /\ psq' = piecesOf(piecesOf(psq, "WHITE"), "BLACK")
        /\ threats' = threatsOf(threatsOf(threats, "WHITE"), "BLACK")
        /\ refreshTable' =
              [k \in Square \X Color |->
                 IF k[1] = KingSquare(pos.board, k[2]) /\ NeedsRefresh(k[2])
                 THEN Refreshed(k[2])
                 ELSE refreshTable[k]]
        /\ evaluationsLeft' = evaluationsLeft - 1
        /\ UNCHANGED <<network, searching, root, pos, line, movesLeft>>

(* Variant: replaces the network and leaves the sums of the old one.     *)
LoadNetwork_KeepsTable(n) ==
    /\ ~ searching
    /\ network' = n
    /\ UNCHANGED <<searching, root, pos, line, psq, threats, refreshTable,
                   bounds>>

(* Engine::load_network clears the workers, search_clear does no more. *)
LoadNetwork(n) ==
    /\ ~ searching
    /\ network' = n
    /\ refreshTable' = ClearedTable(n)
    /\ UNCHANGED <<searching, root, pos, line, psq, threats, bounds>>

Next ==
    \/ \E r \in Roots : StartSearching(r)
    \/ FinishSearching
    \/ WorkerDoMove
    \/ WorkerUndoMove
    \/ WorkerDoNullMove
    \/ WorkerUndoNullMove
    \/ Evaluate
    \/ \E n \in Networks : LoadNetwork(n)

Spec == Init /\ [][Next]_vars

-----------------------------------------------------------------------------
(***************************************************************************)
(* Properties                                                              *)
(***************************************************************************)
(* The boards of the line, that of the root first, by the rules of chess.  *)
Boards[n \in 0 .. MaxPly] ==
    IF n = 0 THEN root.board
    ELSE IF line[n] = NullMove THEN Boards[n - 1]
    ELSE BoardAfter([board |-> Boards[n - 1],
                     us |-> ColorOf(Boards[n - 1][line[n].from])], line[n])

(* The moves of the line that moved a piece, in order, with their place. *)
Plies == SelectSeq([i \in 1 .. Len(line) |-> i], LAMBDA i : line[i] # NullMove)

(* The board of the i-th entry of a stack. *)
BoardOf(i) == IF i = 1 THEN root.board ELSE Boards[Plies[i - 1]]

(* A piece sum on the stack, however it came about (forwards from an older *)
(* sum, backwards from a newer one, or through an entry of the cache that  *)
(* an earlier search left), is the sum of the weights of all pieces on the *)
(* board of its ply, read from the network in use, for each perspective.   *)
PieceSums ==
    searching => \A i \in DOMAIN psq : \A c \in DOMAIN psq[i].sum :
        psq[i].sum[c] =
            Plus(Biases(network),
                 HalfKa(c, BoardOf(i), KingSquare(BoardOf(i), c)))

(* A threat sum on the stack is the sum over all attacks between pieces on *)
(* the board of its ply: the threats do_move lists around the squares it   *)
(* changed are exactly those that appeared or vanished.                    *)
ThreatSums ==
    searching => \A i \in DOMAIN threats : \A c \in DOMAIN threats[i].sum :
        threats[i].sum[c] =
            FullThreats(c, BoardOf(i), KingSquare(BoardOf(i), c))
=============================================================================
