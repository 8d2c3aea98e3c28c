----------------------------- MODULE SfMovePick -----------------------------
(***************************************************************************)
(* The order in which Stockfish's searches try the moves of a position.    *)
(*                                                                         *)
(* src/engines/stockfish/src/movepick.cpp: a MovePicker emits the move of  *)
(* the transposition table, then generates and emits the others in stages. *)
(* Captures and quiets share one array; captures that lose material are    *)
(* set aside at its front and emitted after the good quiets, and the       *)
(* quiets are gone through twice. The move of the table comes from an      *)
(* entry that threads write without a lock: it may be any move, or none.   *)
(*                                                                         *)
(* A pointer into the array is the number of elements before it. Histories *)
(* change while the moves emitted so far are searched, so the values are   *)
(* chosen when a stage scores its moves. The threshold of SEE splits the   *)
(* captures of a position in two. One call of next_move is one or more     *)
(* steps, up to one that emits.                                            *)
(***************************************************************************)
EXTENDS Integers, SequencesExt

CONSTANTS
    Captures,       \* MoveList<CAPTURES>, a sequence of moves
    Quiets,         \* MoveList<QUIETS>
    Refused,        \* king steps to attacked squares: evasions pseudo_legal does not accept
    StrayMove,      \* a move that is not generated here
    NoMove,         \* Move::none()
    CaptureValues, QuietValues,
    Depths,         \* depths of a main search
    Garbage         \* values an uninitialized pointer may have

GeneratedMoves == ToSet(Captures) \cup ToSet(Quiets)

(* Position::pseudo_legal, in check and otherwise. *)
PseudoLegal(check) == IF check THEN GeneratedMoves \ Refused ELSE GeneratedMoves

GoodQuietThreshold == -14000
Lowest == (-2147483647) - 1     \* std::numeric_limits<int>::min()
Unset == -1
PastHistories == 268435456      \* 1 << 28

(* The generators make each move once, and no capture is a quiet move. A   *)
(* value is an int, and a history is far smaller than PastHistories.       *)
ASSUME MovesAssumption ==
    /\ Captures \in Seq(ToSet(Captures)) /\ IsInjective(Captures)
    /\ Quiets \in Seq(ToSet(Quiets)) /\ IsInjective(Quiets)
    /\ ToSet(Captures) \cap ToSet(Quiets) = {}
    /\ Refused \subseteq GeneratedMoves
    /\ StrayMove \notin GeneratedMoves /\ NoMove \notin GeneratedMoves
    /\ CaptureValues \subseteq Int /\ QuietValues \subseteq Int /\ Garbage \subseteq Int
    /\ \A v \in CaptureValues \cup QuietValues : Lowest <= v
    /\ \A c \in CaptureValues, q \in QuietValues : q < c + PastHistories
    /\ Depths \subseteq Nat \ {0}

VARIABLES
    stage, ttMove, depth,
    winning,        \* the captures see_ge holds of
    moves, cur, endCur, endBadCaptures, endCaptures, endGenerated,
    skipQuiets,
    emitted,        \* the moves next_move returned
    over            \* it has returned Move::none()

vars == <<stage, ttMove, depth, winning, moves, cur, endCur, endBadCaptures,
          endCaptures, endGenerated, skipQuiets, emitted, over>>
given == <<ttMove, depth, winning>>

After(st) ==
    CASE st = "MAIN_TT" -> "CAPTURE_INIT"
      [] st = "CAPTURE_INIT" -> "GOOD_CAPTURE"
      [] st = "EVASION_TT" -> "EVASION_INIT"
      [] st = "EVASION_INIT" -> "EVASION"
      [] st = "PROBCUT_TT" -> "PROBCUT_INIT"
      [] st = "PROBCUT_INIT" -> "PROBCUT"
      [] st = "QSEARCH_TT" -> "QCAPTURE_INIT"
      [] st = "QCAPTURE_INIT" -> "QCAPTURE"

-----------------------------------------------------------------------------
(***************************************************************************)
(* Sorting                                                                 *)
(***************************************************************************)

Place_NeverFirst(list, p, e) ==
    LET hole == [list EXCEPT ![p] = list[e]]
        rank == 2 + Cardinality({i \in 2..e - 1 : list[i].value >= list[p].value})
    IN  [i \in DOMAIN list |->
            IF i = rank THEN list[p]
            ELSE IF i \in rank + 1..e THEN list[i - 1] ELSE hole[i]]

(* The element at p goes among the first e - 1, which are in order, and    *)
(* the one at e takes its place.                                           *)
Place(list, p, e) ==
    LET hole == [list EXCEPT ![p] = list[e]]
        rank == 1 + Cardinality({i \in 1..e - 1 : list[i].value >= list[p].value})
    IN  [i \in DOMAIN list |->
            IF i = rank THEN list[p]
            ELSE IF i \in rank + 1..e THEN list[i - 1] ELSE hole[i]]

PartialInsertionSort(list, limit) ==
    LET step(acc, p) ==
            IF acc.list[p].value < limit THEN acc
            ELSE [sorted |-> acc.sorted + 1,
                  list |-> Place(acc.list, p, acc.sorted + 1)]
    IN  FoldLeft(step, [sorted |-> 1, list |-> list],
                 [i \in 1..Len(list) - 1 |-> i + 1]).list

Score(list, values) ==
    {[i \in DOMAIN list |-> [move |-> list[i], value |-> v[i]]] :
        v \in [DOMAIN list -> values]}

CapturesFirst(c, q) ==
    [i \in DOMAIN c |-> [c[i] EXCEPT !.value = @ + PastHistories]] \o q

EvasionScores ==
    {CapturesFirst(c, q) :
        c \in Score(Captures, CaptureValues), q \in Score(Quiets, QuietValues)}

-----------------------------------------------------------------------------
(***************************************************************************)
(* MovePicker::MovePicker, of a search, a quiescence search or ProbCut     *)
(***************************************************************************)
FirstStage_Unchecked(st, m, usable) == IF m # NoMove THEN st ELSE After(st)

FirstStage(st, m, usable) == IF m \in usable THEN st ELSE After(st)

Init ==
    /\ ttMove \in GeneratedMoves \cup {StrayMove, NoMove}
    /\ winning \in SUBSET ToSet(Captures)
    /\ \/ depth \in Depths /\ stage = FirstStage("MAIN_TT", ttMove, PseudoLegal(FALSE))
       \/ /\ depth = 0
          /\ \/ stage = FirstStage("QSEARCH_TT", ttMove, PseudoLegal(FALSE))
             \/ stage = FirstStage("EVASION_TT", ttMove, PseudoLegal(TRUE))
             \/ stage = FirstStage("PROBCUT_TT", ttMove,
                                   ToSet(Captures) \cap PseudoLegal(FALSE))
    /\ moves = <<>>
    /\ cur = Unset /\ endCur = Unset /\ endBadCaptures = Unset
    /\ endCaptures = Unset /\ endGenerated = Unset
    /\ skipQuiets = FALSE
    /\ emitted = <<>>
    /\ over = FALSE

(***************************************************************************)
(* MovePicker::next_move                                                   *)
(***************************************************************************)

(* Before it asks for another, a main search may have had enough of quiets *)
(* (one in check may too, but no stage of evasions reads skipQuiets).      *)
Emit(m) ==
    /\ emitted' = Append(emitted, m)
    /\ skipQuiets' \in {skipQuiets, skipQuiets \/ depth > 0}
    /\ UNCHANGED over

Keep == UNCHANGED <<emitted, skipQuiets, over>>

EmitTT ==
    /\ stage \in {"MAIN_TT", "EVASION_TT", "PROBCUT_TT", "QSEARCH_TT"}
    /\ stage' = After(stage)
    /\ Emit(ttMove)
    /\ UNCHANGED <<given, moves, cur, endCur, endBadCaptures, endCaptures,
                   endGenerated>>

InitCaptures ==
    /\ stage \in {"CAPTURE_INIT", "PROBCUT_INIT", "QCAPTURE_INIT"}
    /\ cur' = 0
    /\ endBadCaptures' = 0
    /\ endCur' = Len(Captures)
    /\ endCaptures' = Len(Captures)
    /\ \E scored \in Score(Captures, CaptureValues) :
            moves' = PartialInsertionSort(scored, Lowest)
    /\ stage' = After(stage)
    /\ Keep
    /\ UNCHANGED <<given, endGenerated>>

InitEvasions ==
    /\ stage = "EVASION_INIT"
    /\ cur' = 0
    /\ \E scored \in EvasionScores :
            /\ moves' = PartialInsertionSort(scored, Lowest)
            /\ endCur' = Len(scored)
            /\ endGenerated' = Len(scored)
    /\ stage' = After(stage)
    /\ Keep
    /\ UNCHANGED <<given, endBadCaptures, endCaptures>>

(* The elements ahead that a filter accepts: a filter is the set of places *)
(* it accepts.                                                             *)
Candidates(filter) ==
    {i \in cur + 1..endCur : moves[i].move # ttMove /\ i \in filter}

First(candidates) == CHOOSE i \in candidates : \A j \in candidates : i <= j

(* MovePicker::select: the first of them, if there is one. *)
Select(filter) ==
    /\ Candidates(filter) # {}
    /\ LET i == First(Candidates(filter))
       IN  cur' = i /\ Emit(moves[i].move)
    /\ UNCHANGED <<stage, given, moves, endCur, endBadCaptures, endCaptures,
                   endGenerated>>

Every == DOMAIN moves
Wins == {i \in DOMAIN moves : moves[i].move \in winning}
Loses == DOMAIN moves \ Wins
Promising == {i \in DOMAIN moves : moves[i].value > GoodQuietThreshold}
Hopeless == DOMAIN moves \ Promising

(* The captures the loop of select passes over, each swapped to the front. *)
SetAside(upto) ==
    LET visit(acc, i) ==
            IF i \notin Candidates(Loses) THEN acc
            ELSE [list |-> [acc.list EXCEPT ![acc.bad + 1] = acc.list[i],
                                            ![i] = acc.list[acc.bad + 1]],
                  bad |-> acc.bad + 1]
    IN  FoldLeft(visit, [list |-> moves, bad |-> endBadCaptures],
                 [k \in 1..upto - cur |-> cur + k])

Pass(upto) ==
    /\ cur' = upto
    /\ moves' = SetAside(upto).list
    /\ endBadCaptures' = SetAside(upto).bad
    /\ UNCHANGED <<given, endCur, endCaptures, endGenerated>>

GoodCapture ==
    /\ stage = "GOOD_CAPTURE"
    /\ Candidates(Wins) # {}
    /\ LET i == First(Candidates(Wins))
       IN  Pass(i) /\ Emit(moves[i].move)
    /\ UNCHANGED stage

NoGoodCapture ==
    /\ stage = "GOOD_CAPTURE"
    /\ Candidates(Wins) = {}
    /\ Pass(endCur)
    /\ stage' = "QUIET_INIT"
    /\ Keep

InitQuiets ==
    /\ stage = "QUIET_INIT"
    /\ ~skipQuiets
    /\ \E scored \in Score(Quiets, QuietValues) :
        /\ moves' = SubSeq(moves, 1, cur)
                      \o PartialInsertionSort(scored, -3560 * depth)
        /\ endCur' = cur + Len(scored)
        /\ endGenerated' = cur + Len(scored)
    /\ stage' = "GOOD_QUIET"
    /\ Keep
    /\ UNCHANGED <<given, cur, endBadCaptures, endCaptures>>

InitNoQuiets ==
    /\ stage = "QUIET_INIT"
    /\ skipQuiets
    /\ stage' = "GOOD_QUIET"
    /\ Keep
    /\ UNCHANGED <<given, moves, cur, endCur, endBadCaptures, endCaptures,
                   endGenerated>>

GoodQuiet ==
    /\ stage = "GOOD_QUIET"
    /\ ~skipQuiets
    /\ Select(Promising)

NoGoodQuiet ==
    /\ stage = "GOOD_QUIET"
    /\ skipQuiets \/ Candidates(Promising) = {}
    /\ cur' = 0
    /\ endCur' = endBadCaptures
    /\ stage' = "BAD_CAPTURE"
    /\ Keep
    /\ UNCHANGED <<given, moves, endBadCaptures, endCaptures, endGenerated>>

BadCapture == stage = "BAD_CAPTURE" /\ Select(Every)

(* endGenerated is copied even if no quiets were generated. *)
NoBadCapture ==
    /\ stage = "BAD_CAPTURE"
    /\ Candidates(Every) = {}
    /\ cur' = endCaptures
    /\ endCur' \in IF endGenerated = Unset THEN Garbage ELSE {endGenerated}
    /\ stage' = "BAD_QUIET"
    /\ Keep
    /\ UNCHANGED <<given, moves, endBadCaptures, endCaptures, endGenerated>>

BadQuiet == stage = "BAD_QUIET" /\ ~skipQuiets /\ Select(Hopeless)

(* EVASION, QCAPTURE and PROBCUT. *)
Remaining ==
    \/ stage \in {"EVASION", "QCAPTURE"} /\ Select(Every)
    \/ stage = "PROBCUT" /\ Select(Wins)

Exhausted ==
    /\ ~over
    /\ \/ stage = "BAD_QUIET" /\ (~skipQuiets => Candidates(Hopeless) = {})
       \/ stage \in {"EVASION", "QCAPTURE"} /\ Candidates(Every) = {}
       \/ stage = "PROBCUT" /\ Candidates(Wins) = {}
    /\ over' = TRUE
    /\ UNCHANGED <<stage, given, moves, cur, endCur, endBadCaptures,
                   endCaptures, endGenerated, skipQuiets, emitted>>

NextMove ==
    \/ EmitTT \/ InitCaptures \/ InitEvasions
    \/ GoodCapture \/ NoGoodCapture
    \/ InitQuiets \/ InitNoQuiets \/ GoodQuiet \/ NoGoodQuiet
    \/ BadCapture \/ NoBadCapture \/ BadQuiet
    \/ Remaining \/ Exhausted

Spec == Init /\ [][NextMove]_vars

-----------------------------------------------------------------------------
(***************************************************************************)
(* Properties                                                              *)
(***************************************************************************)
InMain ==
    stage \in {"MAIN_TT", "CAPTURE_INIT", "GOOD_CAPTURE", "QUIET_INIT",
              "GOOD_QUIET", "BAD_CAPTURE", "BAD_QUIET"}

(* Whatever move the table holds, and whenever the search decides to skip  *)
(* the quiets, a search tries no move twice and none that it could not     *)
(* have generated: a move tried twice is counted twice for reductions and  *)
(* histories, and one of another position would be played on this board.   *)
EmittedOnce == IsInjective(emitted) /\ ToSet(emitted) \subseteq GeneratedMoves

(* No move is lost as the captures are swapped about, the quiets gone      *)
(* through twice and the move of the table passed over: when there are no  *)
(* more, all that are due were emitted, except for a move of the table     *)
(* that was generated and refused: it is no evasion. The search takes "no  *)
(* moves" for mate or stalemate.                                           *)
NothingForgotten ==
    over =>
        CASE stage = "PROBCUT" -> winning \subseteq ToSet(emitted)
          [] stage = "QCAPTURE" -> ToSet(Captures) \subseteq ToSet(emitted)
          [] stage = "EVASION" ->
                GeneratedMoves \ ToSet(emitted) \subseteq Refused \cap {ttMove}
          [] InMain -> GeneratedMoves \ ToSet(emitted)
                          \subseteq (IF skipQuiets THEN ToSet(Quiets) ELSE {})

(* Between them the stages of next_move hand out each move once.           *)
EachMoveOnce == EmittedOnce /\ NothingForgotten

ValueOf(m) == (CHOOSE e \in ToSet(moves) : e.move = m).value

Class(m) ==
    IF m = ttMove THEN 0
    ELSE IF m \in ToSet(Captures) THEN IF InMain /\ m \notin winning THEN 3 ELSE 1
    ELSE IF InMain /\ ValueOf(m) <= GoodQuietThreshold THEN 4 ELSE 2

SortedFrom(m) == IF InMain /\ m \in ToSet(Quiets) THEN -3560 * depth ELSE Lowest

Before(m, k) ==
    \/ Class(m) < Class(k)
    \/ /\ Class(m) = Class(k)
       /\ ValueOf(k) < SortedFrom(k) \/ ValueOf(m) >= ValueOf(k)

(* The promise of next_move: the move of the table, then captures that win *)
(* material, good quiets, the captures set aside, the other quiets; in     *)
(* each class, and among evasions, the best values first, those of quiets  *)
(* down to a limit that depends on the depth.                              *)
BestFirst == \A i, j \in DOMAIN emitted : i < j => Before(emitted[i], emitted[j])
=============================================================================
