--------------------------- MODULE LcSearchProof ---------------------------
(***************************************************************************)
(* The safety of LcSearch for every number of search threads, every        *)
(* MaxConcurrentSearchers and any GUI: IInv of LcSearchInv is inductive    *)
(* and implies the properties that TLC checks.                             *)
(***************************************************************************)
EXTENDS LcSearchInv, FiniteSetTheorems, SequenceTheorems, TLAPS

-----------------------------------------------------------------------------
(* The calls of a handler.                                                 *)

LEMMA Concatenated ==
  /\ <<"reset">> \o StartSearch = <<"reset", "abort", "join", "cancel", "start">>
  /\ << >> \o StartSearch = <<"abort", "join", "cancel", "start">>
  /\ <<"abort", "join", "reset">> \o StartSearch =
       <<"abort", "join", "reset", "abort", "join", "cancel", "start">>
<1> USE DEF StartSearch
<1> DEFINE one == <<"reset">>
           three == <<"abort", "join", "reset">>
           long == <<"reset", "abort", "join", "cancel", "start">>
           longest == <<"abort", "join", "reset", "abort", "join", "cancel", "start">>
<1>0. StartSearch \in Seq(Calls) /\ one \in Seq(Calls) /\ three \in Seq(Calls)
      /\ long \in Seq(Calls) /\ longest \in Seq(Calls)
  BY DEF Calls
<1>1. one \o StartSearch = long
  <2>1. Len(one \o StartSearch) = 5 /\ one \o StartSearch \in Seq(Calls)
    BY <1>0, ConcatProperties
  <2>2. \A i \in 1 .. 5 : (one \o StartSearch)[i] = long[i]
    BY <1>0, ConcatProperties
  <2> QED BY <1>0, <2>1, <2>2, SeqEqual
<1>2. << >> \o StartSearch = <<"abort", "join", "cancel", "start">>
  OBVIOUS
<1>3. three \o StartSearch = longest
  <2>1. Len(three \o StartSearch) = 7 /\ three \o StartSearch \in Seq(Calls)
    BY <1>0, ConcatProperties
  <2>2. \A i \in 1 .. 7 : (three \o StartSearch)[i] = longest[i]
    BY <1>0, ConcatProperties
  <2> QED BY <1>0, <2>1, <2>2, SeqEqual
<1> QED BY <1>1, <1>2, <1>3

\* A call made: the others move up by one.
LEMMA Called ==
  ASSUME todo \in Seq(Calls), NEW c, Call(c)
  PROVE  /\ Len(todo) >= 1 /\ todo[1] = c
         /\ todo' \in Seq(Calls) /\ Len(todo') = Len(todo) - 1 /\ todo' # todo
         /\ \A i \in 1 .. Len(todo') : todo'[i] = todo[i + 1]
         /\ UNCHANGED <<cmd, asked, fresh, ponderEnabled>>
<1>1. todo # << >> /\ Head(todo) = c /\ todo' = Tail(todo) BY DEF Call
<1>2. /\ todo' \in Seq(Calls) /\ Len(todo') = Len(todo) - 1
      /\ \A i \in 1 .. Len(todo') : todo'[i] = todo[i + 1]
  BY <1>1, HeadTailProperties
<1>3. Len(todo) \in Nat \ {0} BY <1>1, EmptySeq
<1>4. Head(todo) = todo[1]
  <2>1. 1 \in 1 .. Len(todo) /\ Len(todo) \in 1 .. Len(todo) BY <1>3
  <2>2. Head(SubSeq(todo, 1, Len(todo))) = todo[1] BY <2>1, HeadTailOfSubSeq
  <2> QED BY <2>2, SubSeqFull
<1>5. todo' # todo BY <1>2, <1>3
<1>6. UNCHANGED <<cmd, asked, fresh, ponderEnabled>> BY DEF Call
<1>7. Len(todo) >= 1 /\ todo[1] = c BY <1>1, <1>3, <1>4
<1> QED BY <1>2, <1>5, <1>6, <1>7


LEMMA GuiCalls ==
  ASSUME Gui
  PROVE  /\ todo = << >>
         /\ \/ UNCHANGED <<todo, fresh>>
            \/ /\ todo' \in {<<"abort", "join">>, <<"abort", "join", "reset">>,
                             <<"abort", "join", "cancel", "reset">>}
               /\ fresh'
            \/ /\ todo' \in {<<"abort", "join", "cancel", "start">>,
                             <<"abort", "join", "reset", "abort", "join", "cancel", "start">>}
               /\ ~fresh'
            \/ todo' = <<"reset", "abort", "join", "cancel", "start">> /\ fresh /\ ~fresh'
            \/ /\ todo' \in {<<"join">>, <<"abort", "join", "cancel", "exit">>}
               /\ fresh' = fresh
BY Concatenated
DEF Gui, ReadPosition, ReadNewGame, ReadPonderHit, ReadStop, ReadOther, ReadGo, Go, Handle, Idle, gui,
    StartSearch

-----------------------------------------------------------------------------
(* The search threads that have a place among the searchers.               *)

LEMMA SearchersFinite == IsFiniteSet(Searchers) /\ Cardinality(Searchers) \in Nat
<1>1. Searchers \in SUBSET Workers BY DEF Searchers
<1>2. IsFiniteSet(Searchers) BY <1>1, WorkersAssumption, FS_Subset
<1> QED BY <1>2, FS_CardinalityType

\* A thread that goes from one place to another takes a place, frees one, or neither.
LEMMA SearcherMoves ==
  ASSUME worker \in [Workers -> WorkerPlaces], NEW w \in Workers, NEW p, Goto(w, p)
  PROVE  /\ worker[w] = "grab" /\ p = "gather" =>
              Cardinality(Searchers') = Cardinality(Searchers) + 1
         /\ worker[w] = "release" /\ p = "backup" =>
              /\ Cardinality(Searchers') = Cardinality(Searchers) - 1
              /\ Cardinality(Searchers) > 0
         /\ (worker[w] \in {"gather", "collect", "release"} <=>
                 p \in {"gather", "collect", "release"}) => Searchers' = Searchers
<1>1. \A v \in Workers : worker'[v] = IF v = w THEN p ELSE worker[v] BY DEF Goto
<1>2. CASE worker[w] = "grab" /\ p = "gather"
  <2>1. Searchers' = Searchers \cup {w} BY <1>1, <1>2 DEF Searchers
  <2>2. w \notin Searchers BY <1>2 DEF Searchers
  <2> QED BY <1>2, <2>1, <2>2, SearchersFinite, FS_AddElement
<1>3. CASE worker[w] = "release" /\ p = "backup"
  <2>1. Searchers' = Searchers \ {w} BY <1>1, <1>3 DEF Searchers
  <2>2. w \in Searchers BY <1>3 DEF Searchers
  <2>3. Cardinality(Searchers) # 0 BY <2>2, SearchersFinite, FS_EmptySet
  <2> QED BY <1>3, <2>1, <2>2, <2>3, SearchersFinite, FS_RemoveElement
<1>4. CASE worker[w] \in {"gather", "collect", "release"} <=>
             p \in {"gather", "collect", "release"}
  BY <1>1, <1>4 DEF Searchers
<1> QED BY <1>2, <1>3, <1>4

-----------------------------------------------------------------------------
(* Consequences of IInv in a single state.                                 *)

\* When the first call is one that touches the tree, no thread is left.
LEMMA AloneWithTheTree ==
  ASSUME IInv, Len(todo) >= 1, todo[1] \in {"reset", "cancel", "start"}
  PROVE  AllGone /\ (todo[1] = "start" => shared = {} /\ Len(todo) = 1 /\ ~fresh)
<1>1. 1 \in 1 .. Len(todo) BY DEF IInv, TypeOK
<1>2. ~After("join", 1) /\ ~After("cancel", 1) BY DEF After
<1> QED BY <1>1, <1>2 DEF IInv, CallsInv

\* Without threads there are no visits in flight.
LEMMA NothingOut ==
  ASSUME IInv, AllGone
  PROVE  InFlight = {} /\ \A w \in Workers : leaf[w] = NoLeaf /\ collisions[w] = {}
BY DEF IInv, WorkerInv, AllGone, InFlight

\* A thread that is somewhere is not gone.
LEMMA ThreadsStep ==
  ASSUME Watchdog \/ \E w \in Workers : Iterate(w) PROVE ~AllGone /\ UNCHANGED gui
BY DEF Watchdog, WatchdogCheck, WatchdogDecide, Iterate, Enter, Grab, Gather, Collect, Release,
       Backup, Update, Loop, At, AllGone

-----------------------------------------------------------------------------
(* Every step preserves IInv, part by part.                                *)

LEMMA GuiType == ASSUME IInv, Gui PROVE TypeOK'
<1>0. TypeOK BY DEF IInv
<1>1. todo' \in Seq(Calls)
  <2>1. /\ <<"abort", "join">> \in Seq(Calls) /\ <<"abort", "join", "reset">> \in Seq(Calls)
        /\ <<"abort", "join", "cancel", "reset">> \in Seq(Calls)
        /\ <<"abort", "join", "cancel", "exit">> \in Seq(Calls)
        /\ <<"abort", "join", "cancel", "start">> \in Seq(Calls)
        /\ <<"join">> \in Seq(Calls)
    BY DEF Calls
  <2>2. <<"reset", "abort", "join", "cancel", "start">> \in Seq(Calls) BY DEF Calls
  <2>3. <<"abort", "join", "reset", "abort", "join", "cancel", "start">> \in Seq(Calls)
    BY DEF Calls
  <2> QED BY <1>0, <2>1, <2>2, <2>3, GuiCalls DEF TypeOK
<1>2. cmd' \in Cmds /\ asked' \in Modes
  BY <1>0 DEF TypeOK, Gui, ReadPosition, ReadNewGame, ReadPonderHit, ReadStop, ReadOther, ReadGo, Go,
              Handle, gui, Cmds, Modes
<1>3. fresh' \in BOOLEAN /\ ponderEnabled' \in BOOLEAN
  BY <1>0 DEF TypeOK, Gui, ReadPosition, ReadNewGame, ReadPonderHit, ReadStop, ReadOther, ReadGo, Go,
              Handle, gui
<1>4. {ok', stop', released'} \subseteq BOOLEAN /\ UNCHANGED <<sent, played, expired>>
  BY <1>0 DEF TypeOK, Gui, ReadPosition, ReadNewGame, ReadPonderHit, ReadStop, ReadOther, ReadGo, Go,
              Handle, flags
<1>5. UNCHANGED <<mode, pending, worker, watchdog, leaf, collisions, shared, freed, owed>>
  BY DEF Gui, ReadPosition, ReadNewGame, ReadPonderHit, ReadStop, ReadOther, ReadGo, Go, tree
<1> QED BY <1>0, <1>1, <1>2, <1>3, <1>4, <1>5 DEF TypeOK

LEMMA EngineType == ASSUME IInv, Engine PROVE TypeOK'
<1>0. TypeOK BY DEF IInv
<1>1. todo' \in Seq(Calls) /\ UNCHANGED <<cmd, asked, fresh, ponderEnabled>>
  BY <1>0, Called DEF TypeOK, Engine, Abort, Join, Cancel, Reset, Start
<1>2. CASE Abort BY <1>0, <1>1, <1>2 DEF Abort, TypeOK, tree
<1>3. CASE Join BY <1>0, <1>1, <1>3 DEF Join, TypeOK, tree, flags
<1>4. CASE Cancel BY <1>0, <1>1, <1>4 DEF Cancel, TypeOK, flags
<1>5. CASE Reset
  <2>1. freed' \subseteq shared BY <1>0, <1>5 DEF Reset, TypeOK
  <2> QED BY <1>0, <1>1, <1>5, <2>1 DEF Reset, TypeOK, flags
<1>6. CASE Start
  <2>1. mode' \in Modes /\ {ok', stop', sent', played', expired', released'} \subseteq BOOLEAN
    BY <1>0, <1>6 DEF Start, TypeOK
  <2>2. pending' \in 0 .. MaxSearchers BY <1>6, SearchersAssumption DEF Start
  <2>3. worker' \in [Workers -> WorkerPlaces] BY <1>6 DEF Start, WorkerPlaces
  <2> QED BY <1>0, <1>1, <1>6, <2>1, <2>2, <2>3 DEF Start, TypeOK, tree
<1> QED BY <1>2, <1>3, <1>4, <1>5, <1>6 DEF Engine

LEMMA InFlightType == ASSUME TypeOK PROVE InFlight \subseteq Leaves
BY DEF TypeOK, InFlight

LEMMA AnswerType ==
  ASSUME IInv, MaybeTriggerStop
  PROVE  stop' \in BOOLEAN /\ sent' \in BOOLEAN /\ owed' \in 0 .. 1
<1>1. TypeOK /\ AnswerInv BY DEF IInv
<1>2. owed \in 0 .. 1 /\ (~sent => owed = 1) BY <1>1 DEF TypeOK, AnswerInv
<1>3. {stop, sent, expired} \subseteq BOOLEAN BY <1>1 DEF TypeOK
<1>4. CASE sent \/ ~played BY <1>2, <1>3, <1>4 DEF MaybeTriggerStop
<1>5. CASE ~(sent \/ ~played)
  <2>1. (stop' = Over) /\ Answer BY <1>5 DEF MaybeTriggerStop
  <2>2. stop' \in BOOLEAN BY <2>1 DEF Over
  <2>3. sent' \in BOOLEAN BY <1>3, <2>1 DEF Answer
  <2>4. owed' \in {owed, owed - 1} /\ owed = 1 BY <1>2, <1>5, <2>1 DEF Answer
  <2> QED BY <2>2, <2>3, <2>4
<1> QED BY <1>4, <1>5

LEMMA ThreadsType ==
  ASSUME IInv, Expire \/ Watchdog \/ \E w \in Workers : Iterate(w) PROVE TypeOK'
<1> USE DEF TypeOK
<1>0. TypeOK BY DEF IInv
<1>1. UNCHANGED <<cmd, todo, asked, fresh, ponderEnabled>>
  BY ThreadsStep DEF Expire, gui
<1>2. CASE Expire BY <1>0, <1>1, <1>2 DEF Expire, tree
<1>3. CASE WatchdogCheck BY <1>0, <1>1, <1>3, AnswerType DEF WatchdogCheck, tree
<1>4. CASE WatchdogDecide BY <1>0, <1>1, <1>4 DEF WatchdogDecide, tree, flags
<1>5. ASSUME NEW w \in Workers, Enter(w) \/ Loop(w) PROVE TypeOK'
  BY <1>0, <1>1, <1>5 DEF Enter, Loop, Goto, WorkerPlaces, tree, flags
<1>6. ASSUME NEW w \in Workers, Grab(w) PROVE TypeOK'
  BY <1>0, <1>1, <1>6, SearchersAssumption DEF Grab, Goto, WorkerPlaces, tree, flags
<1>7. ASSUME NEW w \in Workers, Gather(w) PROVE TypeOK'
  <2>1. /\ leaf' \in [Workers -> Leaves \cup {NoLeaf}]
        /\ collisions' \in [Workers -> SUBSET Leaves]
    BY <1>0, <1>7, InFlightType DEF Gather
  <2> QED BY <1>0, <1>1, <1>7, <2>1 DEF Gather, Goto, WorkerPlaces, flags
<1>8. ASSUME NEW w \in Workers, Collect(w) PROVE TypeOK'
  BY <1>0, <1>1, <1>8 DEF Collect, Goto, WorkerPlaces, flags
<1>9. ASSUME NEW w \in Workers, Release(w) PROVE TypeOK'
  <2>1. Cardinality(Searchers) > 0
    BY <1>0, <1>9, SearcherMoves DEF Release, At
  <2>2. pending + 1 \in 0 .. MaxSearchers
    BY <1>0, <2>1, SearchersFinite, SearchersAssumption DEF IInv, WorkerInv
  <2> QED BY <1>0, <1>1, <1>9, <2>2 DEF Release, Goto, WorkerPlaces, tree, flags
<1>10. ASSUME NEW w \in Workers, Backup(w) PROVE TypeOK'
  BY <1>0, <1>1, <1>10 DEF Backup, Goto, WorkerPlaces
<1>11. ASSUME NEW w \in Workers, Update(w) PROVE TypeOK'
  BY <1>0, <1>1, <1>11, AnswerType DEF Update, Goto, WorkerPlaces, tree
<1> QED BY <1>2, <1>3, <1>4, <1>5, <1>6, <1>7, <1>8, <1>9, <1>10, <1>11
        DEF Watchdog, Iterate

LEMMA TypeStep == ASSUME IInv, [Next]_vars PROVE TypeOK'
<1>1. CASE UNCHANGED vars BY <1>1 DEF IInv, TypeOK, vars, gui, flags, tree
<1> QED BY <1>1, GuiType, EngineType, ThreadsType DEF Next, Exited

LEMMA CallsStep == ASSUME IInv, [Next]_vars PROVE CallsInv'
<1>0. TypeOK /\ CallsInv BY DEF IInv
<1>1. CASE Gui
  <2>1. AllGone' = AllGone /\ shared' = shared
    BY <1>1 DEF Gui, ReadPosition, ReadNewGame, ReadPonderHit, ReadStop, ReadOther, ReadGo, Go, AllGone,
                tree
  <2>2. fresh => AllGone BY <1>0, <1>1, GuiCalls DEF CallsInv
  <2>3. CASE UNCHANGED <<todo, fresh>>
    BY <1>0, <2>1, <2>3 DEF CallsInv, After
  <2>4. CASE todo' \in {<<"abort", "join">>, <<"abort", "join", "reset">>,
                        <<"abort", "join", "cancel", "reset">>} /\ fresh'
    BY <2>4 DEF CallsInv, After
  <2>5. CASE todo' = <<"abort", "join", "cancel", "start">> /\ ~fresh'
    BY <2>5 DEF CallsInv, After
  <2>6. CASE /\ todo' = <<"abort", "join", "reset", "abort", "join", "cancel", "start">>
             /\ ~fresh'
    BY <2>6 DEF CallsInv, After
  <2>7. CASE todo' = <<"reset", "abort", "join", "cancel", "start">> /\ fresh /\ ~fresh'
    BY <2>1, <2>2, <2>7 DEF CallsInv, After
  <2>8. CASE todo' \in {<<"join">>, <<"abort", "join", "cancel", "exit">>} /\ fresh' = fresh
    BY <2>1, <2>2, <2>8 DEF CallsInv, After
  <2> QED BY <1>1, GuiCalls, <2>3, <2>4, <2>5, <2>6, <2>7, <2>8
<1>2. CASE Engine
  <2>1. PICK c \in Calls : Call(c) BY <1>2 DEF Engine, Abort, Join, Cancel, Reset, Start, Calls
  <2>2. /\ Len(todo) \in Nat /\ Len(todo) >= 1 /\ todo[1] = c
        /\ Len(todo') = Len(todo) - 1 /\ fresh' = fresh
        /\ \A i \in 1 .. Len(todo') : todo'[i] = todo[i + 1]
    BY <1>0, <2>1, Called DEF TypeOK
  <2>3. CASE Start
    <3>1. todo[1] = "start" BY <1>0, <2>3, Called DEF Start, TypeOK
    <3>2. Len(todo) = 1 /\ ~fresh BY <2>2, <3>1, AloneWithTheTree
    <3> QED BY <2>2, <3>2 DEF CallsInv
  <2>4. CASE ~Start
    <3>1. AllGone' = AllGone
      BY <1>2, <2>4 DEF Engine, Abort, Join, Cancel, Reset, AllGone
    <3>2. todo[1] = "join" => AllGone
      BY <1>0, <1>2, <2>4, Called, AloneWithTheTree
      DEF Engine, Abort, Join, Cancel, Reset, Start, TypeOK
    <3>3. AllGone /\ shared = {} => shared' = {}
      BY <1>2, <2>4 DEF Engine, Abort, Join, Cancel, Reset, tree
    <3>4. todo[1] = "cancel" => AllGone /\ shared' = {}
      BY <1>0, <1>2, <2>2, <2>4, Called, AloneWithTheTree
      DEF Engine, Abort, Join, Cancel, Reset, TypeOK
    <3>5. fresh' => AllGone' \/ \E j \in 1 .. Len(todo') : todo'[j] = "join"
      <4> SUFFICES ASSUME fresh, ~AllGone PROVE \E j \in 1 .. Len(todo') : todo'[j] = "join"
        BY <2>2, <3>1
      <4>1. PICK j \in 1 .. Len(todo) : todo[j] = "join" BY <1>0 DEF CallsInv
      <4>2. j # 1 BY <3>2, <4>1
      <4>3. j - 1 \in 1 .. Len(todo') /\ todo'[j - 1] = "join" BY <2>2, <4>1, <4>2
      <4> QED BY <4>3
    <3>6. ASSUME NEW i \in 1 .. Len(todo'), NEW d
          PROVE  (After(d, i + 1) /\ todo[1] # d) => After(d, i)'
      <4> SUFFICES ASSUME NEW j \in 1 .. Len(todo), j < i + 1, todo[j] = d, todo[1] # d
                   PROVE  After(d, i)'
        BY DEF After
      <4>1. j - 1 \in 1 .. Len(todo') /\ j - 1 < i /\ todo'[j - 1] = d BY <2>2
      <4> QED BY <4>1 DEF After
    <3>7. ASSUME NEW i \in 1 .. Len(todo')
          PROVE  /\ todo'[i] \in {"reset", "cancel"} => AllGone' \/ After("join", i)'
                 /\ todo'[i] = "start" =>
                       /\ i = Len(todo') /\ ~fresh'
                       /\ (AllGone' /\ shared' = {}) \/ After("cancel", i)'
      <4>1. i + 1 \in 1 .. Len(todo) /\ todo'[i] = todo[i + 1] BY <2>2
      <4>2. todo'[i] \in {"reset", "cancel"} => AllGone' \/ After("join", i)'
        BY <1>0, <3>1, <3>2, <3>6, <4>1 DEF CallsInv
      <4>3. ASSUME todo'[i] = "start"
            PROVE  /\ i = Len(todo') /\ ~fresh'
                   /\ (AllGone' /\ shared' = {}) \/ After("cancel", i)'
        <5>1. i + 1 = Len(todo) /\ ~fresh
              /\ ((AllGone /\ shared = {}) \/ After("cancel", i + 1))
          BY <1>0, <4>1, <4>3 DEF CallsInv
        <5> QED BY <2>2, <3>1, <3>3, <3>4, <3>6, <5>1
      <4> QED BY <4>2, <4>3
    <3> QED BY <3>5, <3>7 DEF CallsInv
  <2> QED BY <2>3, <2>4
<1>3. CASE Watchdog \/ \E w \in Workers : Iterate(w)
  <2>1. ~AllGone /\ UNCHANGED <<todo, fresh>> BY <1>3, ThreadsStep DEF gui
  <2> QED BY <1>0, <2>1 DEF CallsInv, After
<1>4. CASE Expire \/ Exited \/ UNCHANGED vars
  BY <1>0, <1>4 DEF Expire, Exited, vars, gui, tree, CallsInv, After, AllGone
<1> QED BY <1>1, <1>2, <1>3, <1>4 DEF Next

LEMMA AnswerStep == ASSUME IInv, [Next]_vars PROVE AnswerInv'
<1> USE DEF AnswerInv
<1>0. AnswerInv BY DEF IInv
<1>1. CASE Gui
  <2>1. UNCHANGED <<sent, watchdog, owed>>
    BY <1>1 DEF Gui, ReadPosition, ReadNewGame, ReadPonderHit, ReadStop, ReadOther, ReadGo, Go, flags
  <2>2. ok' = released'
    BY <1>0, <1>1
    DEF Gui, ReadPosition, ReadNewGame, ReadPonderHit, ReadStop, ReadOther, ReadGo, Go, flags
  <2> QED BY <1>0, <2>1, <2>2
<1>2. CASE Engine
  <2>1. CASE Join BY <1>0, <2>1 DEF Join, AllGone, flags
  <2>2. CASE Start BY <2>2 DEF Start
  <2>3. CASE Abort \/ Cancel \/ Reset
    BY <1>0, <2>3 DEF Abort, Cancel, Reset, flags
  <2> QED BY <1>2, <2>1, <2>2, <2>3 DEF Engine
<1>3. ASSUME MaybeTriggerStop, UNCHANGED <<ok, released>>, watchdog' # "gone" \/ watchdog' = watchdog
      PROVE  AnswerInv'
  <2>1. CASE UNCHANGED <<sent, owed>> BY <1>0, <1>3, <2>1
  <2>2. CASE ~UNCHANGED <<sent, owed>>
    <3>1. ~sent /\ sent' /\ owed' = owed - 1
      BY <1>3, <2>2 DEF MaybeTriggerStop, Answer
    <3> QED BY <1>0, <1>3, <3>1
  <2> QED BY <2>1, <2>2
<1>4. CASE WatchdogCheck
  <2>1. UNCHANGED <<ok, released>> /\ watchdog' # "gone" BY <1>4 DEF WatchdogCheck
  <2> QED BY <1>3, <1>4, <2>1 DEF WatchdogCheck
<1>5. CASE WatchdogDecide BY <1>0, <1>5 DEF WatchdogDecide, flags
<1>6. ASSUME NEW w \in Workers, Update(w) PROVE AnswerInv'
  <2>1. MaybeTriggerStop /\ UNCHANGED <<ok, released, watchdog>> BY <1>6 DEF Update
  <2> QED BY <1>3, <2>1
<1>7. ASSUME NEW w \in Workers,
             Enter(w) \/ Grab(w) \/ Gather(w) \/ Collect(w) \/ Release(w) \/ Backup(w) \/ Loop(w)
      PROVE  AnswerInv'
  BY <1>0, <1>7 DEF Enter, Grab, Gather, Collect, Release, Backup, Loop, flags
<1>8. CASE Expire \/ Exited \/ UNCHANGED vars
  BY <1>0, <1>8 DEF Expire, Exited, vars, flags
<1> QED BY <1>1, <1>2, <1>4, <1>5, <1>6, <1>7, <1>8 DEF Next, Watchdog, Iterate

LEMMA WorkerStep == ASSUME IInv, [Next]_vars PROVE WorkerInv'
<1>0. TypeOK /\ WorkerInv BY DEF IInv
<1>a. pending \in Nat /\ Cardinality(Searchers) \in Nat /\ MaxSearchers \in Nat
  BY <1>0, SearchersFinite, SearchersAssumption DEF TypeOK
<1>1. ASSUME UNCHANGED <<pending, worker, leaf, collisions>> PROVE WorkerInv'
  <2>1. Searchers' = Searchers BY <1>1 DEF Searchers
  <2> QED BY <1>0, <1>1, <2>1 DEF WorkerInv
<1>2. CASE Gui \/ Expire \/ Watchdog \/ Exited \/ UNCHANGED vars
  BY <1>1, <1>2 DEF Gui, ReadPosition, ReadNewGame, ReadPonderHit, ReadStop, ReadOther, ReadGo, Go,
                    Expire, Watchdog, WatchdogCheck, WatchdogDecide, Exited, vars, tree
<1>3. CASE Abort \/ Join \/ Cancel \/ Reset
  BY <1>1, <1>3 DEF Abort, Join, Cancel, Reset, tree
<1>4. CASE Start
  <2>1. AllGone
    BY <1>0, <1>4, Called, AloneWithTheTree DEF Start, TypeOK
  <2>2. \A w \in Workers : leaf'[w] = NoLeaf /\ collisions'[w] = {}
    BY <1>4, <2>1, NothingOut DEF Start, tree
  <2>3. Searchers' = {} BY <1>4 DEF Start, Searchers
  <2>4. pending' + Cardinality(Searchers') = MaxSearchers
    BY <1>a, <1>4, <2>3, FS_EmptySet DEF Start
  <2> QED BY <2>2, <2>4 DEF WorkerInv
<1>5. ASSUME NEW w \in Workers, Enter(w) \/ Loop(w) \/ Update(w) PROVE WorkerInv'
  <2>1. PICK p \in WorkerPlaces \ {"gather", "collect", "release"} : Goto(w, p)
    BY <1>5 DEF Enter, Loop, Update, WorkerPlaces
  <2>2. /\ worker[w] \notin {"gather", "collect", "release", "backup"}
        /\ UNCHANGED <<pending, leaf, collisions>>
    BY <1>5 DEF Enter, Loop, Update, At, tree
  <2>3. Searchers' = Searchers BY <1>0, <2>1, <2>2, SearcherMoves DEF TypeOK
  <2> QED BY <1>0, <2>1, <2>2, <2>3 DEF WorkerInv, Goto, TypeOK
<1>6. ASSUME NEW w \in Workers, Grab(w) PROVE WorkerInv'
  <2>1. worker[w] = "grab" /\ UNCHANGED <<leaf, collisions>> BY <1>6 DEF Grab, At, tree
  <2>2. CASE pending = 0
    <3>1. Goto(w, "enter") /\ pending' = pending BY <1>6, <2>2 DEF Grab
    <3>2. Searchers' = Searchers BY <1>0, <2>1, <3>1, SearcherMoves DEF TypeOK
    <3> QED BY <1>0, <2>1, <3>1, <3>2 DEF WorkerInv, Goto, TypeOK
  <2>3. CASE pending # 0
    <3>1. Goto(w, "gather") /\ pending' = pending - 1 BY <1>6, <2>3 DEF Grab
    <3>2. Cardinality(Searchers') = Cardinality(Searchers) + 1
      BY <1>0, <2>1, <3>1, SearcherMoves DEF TypeOK
    <3>3. pending' + Cardinality(Searchers') = MaxSearchers
      BY <1>0, <1>a, <3>1, <3>2 DEF WorkerInv
    <3> QED BY <1>0, <2>1, <3>1, <3>3 DEF WorkerInv, Goto, TypeOK
  <2> QED BY <2>2, <2>3
<1>7. ASSUME NEW w \in Workers, Gather(w) PROVE WorkerInv'
  <2>1. worker[w] = "gather" /\ Goto(w, "collect") /\ pending' = pending BY <1>7 DEF Gather, At
  <2>2. /\ \A v \in Workers : v # w => leaf'[v] = leaf[v] /\ collisions'[v] = collisions[v]
    BY <1>0, <1>7 DEF Gather, TypeOK
  <2>3. Searchers' = Searchers BY <1>0, <2>1, SearcherMoves DEF TypeOK
  <2> QED BY <1>0, <2>1, <2>2, <2>3 DEF WorkerInv, Goto, TypeOK
<1>8. ASSUME NEW w \in Workers, Collect(w) PROVE WorkerInv'
  <2>1. worker[w] = "collect" /\ Goto(w, "release") /\ UNCHANGED <<pending, leaf>>
    BY <1>8 DEF Collect, At
  <2>2. Searchers' = Searchers BY <1>0, <2>1, SearcherMoves DEF TypeOK
  <2>3. \A v \in Workers : collisions'[v] = IF v = w THEN {} ELSE collisions[v]
    BY <1>0, <1>8 DEF Collect, TypeOK
  <2> QED BY <1>0, <2>1, <2>2, <2>3 DEF WorkerInv, Goto, TypeOK
<1>9. ASSUME NEW w \in Workers, Release(w) PROVE WorkerInv'
  <2>1. worker[w] = "release" /\ Goto(w, "backup") /\ pending' = pending + 1
        /\ UNCHANGED <<leaf, collisions>>
    BY <1>9 DEF Release, At, tree
  <2>2. Cardinality(Searchers') = Cardinality(Searchers) - 1
    BY <1>0, <2>1, SearcherMoves DEF TypeOK
  <2>3. pending' + Cardinality(Searchers') = MaxSearchers
    BY <1>0, <1>a, <2>1, <2>2 DEF WorkerInv
  <2> QED BY <1>0, <2>1, <2>3 DEF WorkerInv, Goto, TypeOK
<1>10. ASSUME NEW w \in Workers, Backup(w) PROVE WorkerInv'
  <2>1. worker[w] = "backup" /\ Goto(w, "update") /\ UNCHANGED <<pending, collisions>>
    BY <1>10 DEF Backup, At
  <2>2. \A v \in Workers : leaf'[v] = IF v = w THEN NoLeaf ELSE leaf[v]
    BY <1>0, <1>10 DEF Backup, TypeOK
  <2>3. Searchers' = Searchers BY <1>0, <2>1, SearcherMoves DEF TypeOK
  <2> QED BY <1>0, <2>1, <2>2, <2>3 DEF WorkerInv, Goto, TypeOK
<1> QED BY <1>2, <1>3, <1>4, <1>5, <1>6, <1>7, <1>8, <1>9, <1>10 DEF Next, Engine, Iterate

-----------------------------------------------------------------------------
(* The invariant and what follows from it.                                 *)

LEMMA InitInv == ASSUME Init PROVE IInv
<1>1. TypeOK
  <2>1. << >> \in Seq(Calls) BY EmptySeq
  <2>2. pending \in 0 .. MaxSearchers BY SearchersAssumption DEF Init
  <2>3. worker \in [Workers -> WorkerPlaces] BY DEF Init, WorkerPlaces
  <2>4. todo \in Seq(Calls) /\ cmd \in Cmds /\ asked \in Modes /\ mode \in Modes
    BY <2>1 DEF Init, Cmds, Modes
  <2>5. /\ {fresh, ponderEnabled, ok, stop, sent, played, expired, released} \subseteq BOOLEAN
        /\ watchdog \in {"check", "decide", "gone"}
    BY DEF Init
  <2>6. /\ leaf \in [Workers -> Leaves \cup {NoLeaf}]
        /\ collisions \in [Workers -> SUBSET Leaves]
        /\ freed \subseteq shared /\ shared \subseteq Leaves
    BY DEF Init
  <2>7. owed \in -1 .. 1
    <3>1. owed = 0 BY DEF Init
    <3> QED BY <3>1, SMT
  <2> QED BY <2>2, <2>3, <2>4, <2>5, <2>6, <2>7 DEF TypeOK
<1>2. CallsInv BY EmptySeq DEF Init, CallsInv, AllGone
<1>3. AnswerInv BY DEF Init, AnswerInv
<1>4. WorkerInv
  <2>1. Searchers = {} BY DEF Init, Searchers
  <2> QED BY <2>1, FS_EmptySet, SearchersAssumption DEF Init, WorkerInv
<1> QED BY <1>1, <1>2, <1>3, <1>4 DEF IInv

LEMMA Inductive == ASSUME IInv, [Next]_vars PROVE IInv'
BY TypeStep, CallsStep, AnswerStep, WorkerStep DEF IInv

\* In every reachable state, the invariant of the search's life holds.
THEOREM SearchInvariant == Spec => []IInv
<1>1. Init => IInv BY InitInv
<1>2. IInv /\ [Next]_vars => IInv' BY Inductive
<1> QED BY <1>1, <1>2, PTL DEF Spec

\* For every number of search threads the variables keep to their domains: there are
\* never more places among the searchers than MaxConcurrentSearchers, nor less than none.
THEOREM TypeCorrect == Spec => []TypeOK
<1>1. IInv => TypeOK BY DEF IInv
<1> QED BY <1>1, SearchInvariant, PTL

LEMMA FirstCall ==
  ASSUME IInv, NEW c, Upcoming(c) PROVE Len(todo) >= 1 /\ todo[1] = c
<1>1. todo # << >> /\ Head(todo) = c /\ todo \in Seq(Calls) BY DEF Upcoming, IInv, TypeOK
<1>2. Len(todo) \in Nat \ {0} BY <1>1, EmptySeq
<1>3. Head(SubSeq(todo, 1, Len(todo))) = todo[1] BY <1>1, <1>2, HeadTailOfSubSeq
<1> QED BY <1>1, <1>2, <1>3, SubSeqFull

\* With any number of threads, and whatever commands come at whatever time, the tree is
\* only moved when no thread of a search is left.
THEOREM TreeMovedAlone == Spec => []TreeOwnership
<1>1. IInv => TreeOwnership BY FirstCall, AloneWithTheTree DEF TreeOwnership
<1> QED BY <1>1, SearchInvariant, PTL

\* With any number of threads and leaves, a search starts on a tree in which no visit is
\* in flight and no collision listed.
THEOREM StartsClean == Spec => []NothingInFlight
<1>1. ASSUME IInv PROVE NothingInFlight
  <2> SUFFICES ASSUME Upcoming("start") PROVE InFlight = {} /\ shared = {}
    BY DEF NothingInFlight
  <2>1. AllGone /\ shared = {} BY <1>1, FirstCall, AloneWithTheTree
  <2> QED BY <1>1, <2>1, NothingOut
<1> QED BY <1>1, SearchInvariant, PTL

\* Whichever of the threads and the watchdog comes first, a bestmove is printed at most
\* once for a go, while the GUI waits for it, and not while pondering or infinite.
THEOREM BestmoveOnlyWhenDue == Spec => BestmoveWhenDue
<1>1. ASSUME IInv, [Next]_vars, Bestmove PROVE owed = 1 /\ released
  <2>0. TypeOK /\ AnswerInv BY <1>1 DEF IInv
  <2>1. MaybeTriggerStop /\ owed' < owed
    <3>1. owed' # owed /\ todo' = todo BY <1>1, <2>0 DEF Bestmove, TypeOK
    <3>2. ~Gui /\ ~Expire /\ ~Exited /\ ~UNCHANGED vars
      BY <3>1 DEF Gui, ReadPosition, ReadNewGame, ReadPonderHit, ReadStop, ReadOther, ReadGo, Go,
                  Expire, Exited, vars
    <3>3. ~Engine
      BY <2>0, <3>1, Called DEF Engine, Abort, Join, Cancel, Reset, Start, TypeOK
    <3>4. CASE Watchdog
      BY <1>1, <3>1, <3>4 DEF Watchdog, WatchdogCheck, WatchdogDecide, Bestmove
    <3>5. ASSUME NEW w \in Workers, Iterate(w) PROVE MaybeTriggerStop
      BY <3>1, <3>5 DEF Iterate, Enter, Grab, Gather, Collect, Release, Backup, Update, Loop
    <3> QED BY <1>1, <3>2, <3>3, <3>4, <3>5 DEF Next, Bestmove
  <2>2. ~sent /\ ok BY <2>0, <2>1 DEF MaybeTriggerStop, Answer, TypeOK
  <2> QED BY <2>0, <2>2 DEF AnswerInv
<1> QED BY <1>1, SearchInvariant, PTL DEF Spec, BestmoveWhenDue
=============================================================================
