------------------------------ MODULE LcSearch ------------------------------
(***************************************************************************)
(* The life of an lc0 search: the engine's command handlers (engine.cc,    *)
(* search/classic/wrapper.cc), the search threads and the watchdog of the  *)
(* current Search object (search/classic/search.cc).  Whichever thread is  *)
(* the first to find that the search is over prints the bestmove.          *)
(*                                                                         *)
(* A Search object whose threads are gone and whose answer is sent is as   *)
(* good as none, so there is always one.  A new one is constructed before  *)
(* the old one is destroyed, but has no threads until then: at any time    *)
(* the variables describe the one that has.                                *)
(***************************************************************************)
EXTENDS Integers, Sequences, FiniteSets

CONSTANTS
    Workers,       \* the search threads
    MaxSearchers,  \* the MaxConcurrentSearchers option, not 0
    Leaves,        \* nodes of the tree a search thread can be at work on
    NoLeaf

ASSUME WorkersAssumption == IsFiniteSet(Workers) /\ Workers # {}
ASSUME SearchersAssumption == MaxSearchers \in Nat \ {0}
ASSUME LeavesAssumption == Leaves # {} /\ NoLeaf \notin Leaves

Modes == {"normal", "infinite", "ponder"}
Cmds == {"position", "newgame", "go", "ponderhit", "wait", "quit"}
Calls == {"abort", "join", "cancel", "reset", "start", "exit"}
WorkerPlaces == {"enter", "grab", "gather", "collect", "release", "backup", "update", "loop", "gone"}

VARIABLES
    cmd,           \* the command being handled
    todo,          \* the calls its handler has yet to make
    asked,         \* last_go_params_
    fresh,         \* the GUI has set a position since the last search was started
    ponderEnabled, \* ponder_enabled_
    mode,          \* the go this Search was made for
    ok,            \* ok_to_respond_bestmove_
    stop,          \* stop_
    sent,          \* bestmove_is_sent_
    played,        \* total_playouts_ + initial_visits_ # 0
    expired,       \* stopper_->ShouldStop() says yes from now on
    pending,       \* pending_searchers_, the free places among MaxSearchers
    worker,        \* per search thread, its place
    watchdog,      \* the place of the watchdog
    leaf,          \* per search thread, the leaf it evaluates
    collisions,    \* per search thread, the leaves of others it ran into
    shared,        \* shared_collisions_
    freed,         \* those among them that the tree has released since
    owed,          \* bestmoves the GUI expects of this search
    released       \* it may be printed: not infinite and not pondering, or stopped

gui == <<cmd, todo, asked, fresh, ponderEnabled>>
flags == <<ok, stop, sent, played, expired>>
tree == <<leaf, collisions, shared, freed>>
vars == <<gui, mode, flags, pending, worker, watchdog, tree, owed, released>>

TypeOK ==
    /\ cmd \in Cmds /\ todo \in Seq(Calls) /\ asked \in Modes /\ mode \in Modes
    /\ {fresh, ponderEnabled, ok, stop, sent, played, expired, released} \subseteq BOOLEAN
    /\ pending \in 0 .. MaxSearchers
    /\ worker \in [Workers -> WorkerPlaces]
    /\ watchdog \in {"check", "decide", "gone"}
    /\ leaf \in [Workers -> Leaves \cup {NoLeaf}]
    /\ collisions \in [Workers -> SUBSET Leaves]
    /\ freed \subseteq shared /\ shared \subseteq Leaves
    /\ owed \in -1 .. 1

\* No search yet.  The first go sets the start position itself if the GUI has not.
Init ==
    /\ cmd = "position" /\ todo = << >> /\ asked = "normal" /\ mode = "normal"
    /\ fresh = TRUE /\ ponderEnabled = FALSE
    /\ ok = TRUE /\ stop = TRUE /\ sent = TRUE /\ played = FALSE /\ expired = FALSE
    /\ pending = MaxSearchers
    /\ worker = [w \in Workers |-> "gone"] /\ watchdog = "gone"
    /\ leaf = [w \in Workers |-> NoLeaf] /\ collisions = [w \in Workers |-> {}]
    /\ shared = {} /\ freed = {}
    /\ owed = 0 /\ released = TRUE

AllGone == watchdog = "gone" /\ \A w \in Workers : worker[w] = "gone"

-----------------------------------------------------------------------------
(* The engine: commands, and the calls each of them makes.                 *)

Idle == todo = << >>
Handle(c, calls) == Idle /\ cmd' = c /\ todo' = calls

\* ClassicSearch::StartSearch: the old Search is destroyed, then threads are started.
StartSearch == <<"abort", "join", "cancel", "start">>

\* Variant: SetPosition does not wait for the threads it has told to stop.
ReadPosition_NoWait ==
    \E p \in BOOLEAN :
        /\ Handle("position", IF p THEN <<"abort">> ELSE <<"abort", "reset">>)
        /\ ponderEnabled' = p /\ fresh' = TRUE
        /\ UNCHANGED <<asked, mode, flags, pending, worker, watchdog, tree, owed, released>>

\* Engine::SetPosition.  With pondering enabled the tree follows at the go.
ReadPosition ==
    \E p \in BOOLEAN :
        /\ Handle("position", IF p THEN <<"abort", "join">> ELSE <<"abort", "join", "reset">>)
        /\ ponderEnabled' = p /\ fresh' = TRUE
        /\ UNCHANGED <<asked, mode, flags, pending, worker, watchdog, tree, owed, released>>

\* Engine::NewGame destroys Search and tree, then sets the start position.
ReadNewGame ==
    \E p \in BOOLEAN :
        /\ Handle("newgame", <<"abort", "join", "cancel", "reset">>)
        /\ ponderEnabled' = p /\ fresh' = TRUE
        /\ UNCHANGED <<asked, mode, flags, pending, worker, watchdog, tree, owed, released>>

\* Engine::Go.
Go(m, clearTree) ==
    /\ m = "ponder" => ponderEnabled
    /\ Handle("go", (IF ponderEnabled \/ clearTree THEN <<"reset">> ELSE << >>) \o StartSearch)
    /\ asked' = m /\ fresh' = FALSE
    /\ UNCHANGED <<ponderEnabled, mode, flags, pending, worker, watchdog, tree, owed, released>>

\* Only for a GUI that, when it has enabled pondering or has the tree cleared by option, sets
\* the position before every go: the code does not see to that, and the tree would be reset
\* under the threads of the search before.
ReadGo(m, clearTree) == (ponderEnabled \/ clearTree => fresh) /\ Go(m, clearTree)

\* Engine::PonderHit: the ponder search is replaced by an ordinary one.
ReadPonderHit ==
    /\ asked = "ponder"
    /\ Handle("ponderhit", <<"abort", "join", "reset">> \o StartSearch)
    /\ asked' = "normal" /\ fresh' = FALSE
    /\ UNCHANGED <<ponderEnabled, mode, flags, pending, worker, watchdog, tree, owed, released>>

\* Search::Stop
ReadStop ==
    /\ Idle
    /\ ok' = TRUE /\ stop' = TRUE /\ released' = TRUE
    /\ UNCHANGED <<gui, mode, sent, played, expired, pending, worker, watchdog, tree, owed>>

\* "wait" waits for the search; quit is ~Engine.
ReadOther ==
    /\ \/ Handle("wait", <<"join">>)
       \/ Handle("quit", <<"abort", "join", "cancel", "exit">>)
    /\ UNCHANGED <<asked, fresh, ponderEnabled, mode, flags, pending, worker, watchdog, tree, owed,
                   released>>

Call(c) ==
    /\ todo # << >> /\ Head(todo) = c
    /\ todo' = Tail(todo)
    /\ UNCHANGED <<cmd, asked, fresh, ponderEnabled>>

\* Variant: a search that was stopped by a limit is taken to be over.
Abort_IfActive ==
    /\ Call("abort")
    /\ IF ~stop THEN sent' = TRUE /\ stop' = TRUE ELSE UNCHANGED <<sent, stop>>
    /\ UNCHANGED <<mode, ok, played, expired, pending, worker, watchdog, tree, owed, released>>

\* Search::Abort leaves a search alone whose bestmove is about to be sent.
Abort ==
    /\ Call("abort")
    /\ IF ~stop \/ (~sent /\ ~ok) THEN sent' = TRUE /\ stop' = TRUE ELSE UNCHANGED <<sent, stop>>
    /\ UNCHANGED <<mode, ok, played, expired, pending, worker, watchdog, tree, owed, released>>

\* Search::Wait.  From here on the GUI does not expect anything of this search.
Join ==
    /\ Call("join")
    /\ AllGone
    /\ owed' = 0
    /\ UNCHANGED <<mode, flags, pending, worker, watchdog, tree, released>>

\* Variant: ~Search does not look after the shared collisions.
Cancel_Skipped ==
    /\ Call("cancel")
    /\ UNCHANGED <<mode, flags, pending, worker, watchdog, tree, owed, released>>

\* ~Search: CancelSharedCollisions walks up from every leaf that is still listed.
Cancel ==
    /\ Call("cancel")
    /\ shared' = {} /\ freed' = {}
    /\ UNCHANGED <<mode, flags, pending, worker, watchdog, leaf, collisions, owed, released>>

\* NodeTree::ResetToPosition, DeallocateTree, TrimTreeAtHead: what is not below the new
\* head goes to the garbage collector.
Reset ==
    /\ Call("reset")
    /\ \E gone \in SUBSET Leaves : freed' = freed \cup (shared \cap gone)
    /\ UNCHANGED <<mode, flags, pending, worker, watchdog, leaf, collisions, shared, owed, released>>

\* Variant: only "infinite" keeps a search from answering.
Start_PonderAnswers ==
    /\ Call("start")
    /\ mode' = asked /\ ok' = (asked # "infinite") /\ released' = (asked = "normal")
    /\ stop' = FALSE /\ sent' = FALSE /\ expired' = FALSE /\ owed' = 1
    /\ played' \in BOOLEAN
    /\ pending' = MaxSearchers
    /\ worker' = [w \in Workers |-> "enter"] /\ watchdog' = "check"
    /\ UNCHANGED tree

\* Variant: a search thread looks whether the search is active before it does anything.
Start_TestFirst ==
    /\ Call("start")
    /\ mode' = asked /\ ok' = (asked = "normal") /\ released' = ok'
    /\ stop' = FALSE /\ sent' = FALSE /\ expired' = FALSE /\ owed' = 1
    /\ played' \in BOOLEAN
    /\ pending' = MaxSearchers
    /\ worker' = [w \in Workers |-> "loop"] /\ watchdog' = "check"
    /\ UNCHANGED tree

\* Search::Search and StartThreads.  The tree may have visits from earlier searches.
Start ==
    /\ Call("start")
    /\ mode' = asked /\ ok' = (asked = "normal") /\ released' = ok'
    /\ stop' = FALSE /\ sent' = FALSE /\ expired' = FALSE /\ owed' = 1
    /\ played' \in BOOLEAN
    /\ pending' = MaxSearchers
    /\ worker' = [w \in Workers |-> "enter"] /\ watchdog' = "check"
    /\ UNCHANGED tree

-----------------------------------------------------------------------------
(* Search::MaybeTriggerStop, under both locks.                             *)

Over == stop \/ expired

Answer ==
    IF Over /\ ok THEN sent' = TRUE /\ owed' = owed - 1
                  ELSE UNCHANGED <<sent, owed>>

MaybeTriggerStop ==
    IF sent \/ ~played THEN UNCHANGED <<stop, sent, owed>>
                       ELSE stop' = Over /\ Answer

\* The time, nodes, memory or whatever else the stoppers watch has been used up.
Expire ==
    /\ ~expired /\ ~AllGone
    /\ expired' = TRUE
    /\ UNCHANGED <<gui, mode, ok, stop, sent, played, pending, worker, watchdog, tree, owed, released>>

-----------------------------------------------------------------------------
(* Search::WatchdogThread                                                  *)

WatchdogCheck ==
    /\ watchdog = "check"
    /\ MaybeTriggerStop
    /\ watchdog' = "decide"
    /\ UNCHANGED <<gui, mode, ok, played, expired, pending, worker, tree, released>>

\* It leaves once the bestmove is sent, else looks again after a wake-up or 100 ms.
WatchdogDecide ==
    /\ watchdog = "decide"
    /\ watchdog' = IF sent THEN "gone" ELSE "check"
    /\ UNCHANGED <<gui, mode, flags, pending, worker, tree, owed, released>>

-----------------------------------------------------------------------------
(* A search thread: SearchWorker::RunBlocking and ExecuteOneIteration.     *)

Goto(w, p) == worker' = [worker EXCEPT ![w] = p]
At(w, p) == worker[w] = p

\* Nothing to be done in a stopped search, unless it has no playout yet.
Enter(w) ==
    /\ At(w, "enter")
    /\ Goto(w, IF stop /\ played THEN "loop" ELSE "grab")
    /\ UNCHANGED <<gui, mode, flags, pending, watchdog, tree, owed, released>>

\* The compare-exchange on pending_searchers_.
Grab(w) ==
    /\ At(w, "grab")
    /\ IF pending = 0 THEN Goto(w, "enter") /\ UNCHANGED pending
                      ELSE Goto(w, "gather") /\ pending' = pending - 1
    /\ UNCHANGED <<gui, mode, flags, watchdog, tree, owed, released>>

InFlight == {leaf[w] : w \in Workers} \ {NoLeaf}

\* GatherMinibatch: a leaf of its own, or nothing but collisions with those of others.
\* Before the first playout the root is the only leaf.
Gather(w) ==
    /\ At(w, "gather")
    /\ \E l \in (Leaves \ InFlight) \cup {NoLeaf}, c \in SUBSET InFlight :
         /\ l = NoLeaf => c # {}
         /\ ~played /\ InFlight # {} => l = NoLeaf
         /\ leaf' = [leaf EXCEPT ![w] = l]
         /\ collisions' = [collisions EXCEPT ![w] = c]
    /\ Goto(w, "collect")
    /\ UNCHANGED <<gui, mode, flags, pending, watchdog, shared, freed, owed, released>>

\* CollectCollisions
Collect(w) ==
    /\ At(w, "collect")
    /\ shared' = shared \cup collisions[w]
    /\ collisions' = [collisions EXCEPT ![w] = {}]
    /\ Goto(w, "release")
    /\ UNCHANGED <<gui, mode, flags, pending, watchdog, leaf, freed, owed, released>>

\* Its place is free before the network evaluates the minibatch.
Release(w) ==
    /\ At(w, "release")
    /\ pending' = pending + 1
    /\ Goto(w, "backup")
    /\ UNCHANGED <<gui, mode, flags, watchdog, tree, owed, released>>

\* DoBackupUpdate: a thread with work of its own also cancels everybody's collisions.
Backup(w) ==
    /\ At(w, "backup")
    /\ IF leaf[w] = NoLeaf
         THEN UNCHANGED <<leaf, shared, freed, played>>
         ELSE /\ leaf' = [leaf EXCEPT ![w] = NoLeaf]
              /\ shared' = {} /\ freed' = {}
              /\ played' = TRUE
    /\ Goto(w, "update")
    /\ UNCHANGED <<gui, mode, ok, stop, sent, expired, pending, watchdog, collisions, owed, released>>

\* UpdateCounters
Update(w) ==
    /\ At(w, "update")
    /\ MaybeTriggerStop
    /\ Goto(w, "loop")
    /\ UNCHANGED <<gui, mode, ok, played, expired, pending, watchdog, tree, released>>

\* IsSearchActive
Loop(w) ==
    /\ At(w, "loop")
    /\ Goto(w, IF stop THEN "gone" ELSE "enter")
    /\ UNCHANGED <<gui, mode, flags, pending, watchdog, tree, owed, released>>

-----------------------------------------------------------------------------
Gui ==
    \/ ReadPosition \/ ReadNewGame \/ ReadPonderHit \/ ReadStop \/ ReadOther
    \/ \E m \in Modes, clearTree \in BOOLEAN : ReadGo(m, clearTree)

Engine == Abort \/ Join \/ Cancel \/ Reset \/ Start

Watchdog == WatchdogCheck \/ WatchdogDecide

Iterate(w) ==
    \/ Enter(w) \/ Grab(w) \/ Gather(w) \/ Collect(w) \/ Release(w) \/ Backup(w) \/ Update(w)
    \/ Loop(w)

\* After quit nothing is left but to exit.
Exited == todo = <<"exit">> /\ UNCHANGED vars

Next == Gui \/ Engine \/ Expire \/ Watchdog \/ (\E w \in Workers : Iterate(w)) \/ Exited

Spec == Init /\ [][Next]_vars

\* Every thread is scheduled, and a search that is neither infinite nor pondering has
\* a limit that is reached.  The GUI need not send anything.
Fairness ==
    /\ WF_vars(Engine)
    /\ WF_vars(Watchdog)
    /\ \A w \in Workers : WF_vars(Iterate(w))
    /\ WF_vars(Expire /\ mode = "normal")

FairSpec == Spec /\ Fairness

-----------------------------------------------------------------------------
(* Properties.                                                             *)

Upcoming(c) == todo # << >> /\ Head(todo) = c

\* The tree is moved to another position, and nodes are released, only when no thread of
\* a search is left that could be in it.
TreeOwnership == Upcoming("reset") => AllGone

\* Search threads are started on a tree without visits in flight: those of earlier
\* searches, the collisions nobody had a reason to cancel included, were taken back.
NothingInFlight == Upcoming("start") => InFlight = {} /\ shared = {}

Bestmove == owed' < owed /\ UNCHANGED todo

\* A bestmove is printed only while the GUI expects one: once for a go, by the search
\* made for it, not after a later position, ponderhit or go has been handled, and not
\* before "stop" while infinite or pondering, even if a limit has ended it long before.
BestmoveWhenDue == [][Bestmove => owed = 1 /\ released]_vars

\* "hold references to leaf nodes across locks": the nodes the search code refers to are
\* not released while it does.
HeldNodesStay == freed = {}

-----------------------------------------------------------------------------
(* Liveness, under FairSpec.                                               *)

\* A stop is answered, also one that comes before the first playout or after the search
\* threads have left, and so is, in the end, a search with a limit.
GoAnswered ==
    /\ owed = 1 /\ stop /\ ok ~> owed = 0
    /\ owed = 1 /\ mode = "normal" ~> owed = 0

\* Every command returns, except a "wait" for a search that nobody stops.
CommandsReturn == todo # << >> /\ cmd # "wait" ~> todo \in {<< >>, <<"exit">>}
=============================================================================
