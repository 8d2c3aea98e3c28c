------------------------------ MODULE SfSearch ------------------------------
(***************************************************************************)
(* The search job of Stockfish's threads (search.cpp): what the main       *)
(* thread and the helpers do between the moment they take the job and the  *)
(* moment they are back in idle_loop, as far as the flags that stop a      *)
(* search, the other threads and the answer to the GUI are concerned.  The *)
(* tree search itself is abstract: an iteration ends, finds a mate, fails  *)
(* low or uses up a budget whenever it likes.                              *)
(***************************************************************************)
EXTENDS SfThread

\* What a "go" asks for: the fields of LimitsType the control depends on.
\* "timed" is use_time_management(), "budget" movetime or nodes; "noMoves" is
\* not a limit but a root position without legal moves.
Flags == {"infinite", "ponder", "timed", "budget", "mate", "depth", "noMoves"}

CONSTANT Searches    \* the combinations of flags a "go" may carry

ASSUME SearchesAssumption == Searches \subseteq SUBSET Flags

\* The ids of the two StateInfo lists that may be alive at a time.
StateLists == {0, 1}
NoStates == 2

\* What a worker knows of the position to search, written by the setup job.
RootData == [limits : SUBSET Flags, states : StateLists \cup {NoStates}]

VARIABLES
    size,             \* threads.size()
    stop,             \* ThreadPool::stop
    ponder,           \* SearchManager::ponder
    stopOnPonderhit,  \* SearchManager::stopOnPonderhit
    root,             \* per worker: limits and rootState
    helper,           \* loop index of ThreadPool::start_searching / wait_for_search_finished
    owed              \* "go" commands read and not answered by a bestmove yet

searchVars == <<size, stop, ponder, stopOnPonderhit, root, helper, owed>>

SearchTypeOK ==
    /\ size \in 0 .. MaxThreads
    /\ stop \in BOOLEAN /\ ponder \in BOOLEAN /\ stopOnPonderhit \in BOOLEAN
    /\ root \in [Tid -> RootData]
    /\ helper \in 0 .. MaxThreads
    /\ owed \in Int

SearchInit ==
    /\ size = 0
    /\ stop = FALSE /\ ponder = FALSE /\ stopOnPonderhit = FALSE
    /\ root = [t \in Tid |-> [limits |-> {}, states |-> NoStates]]
    /\ helper = 0
    /\ owed = 0

limits == root[Main].limits

Goto(t, p) == place' = [place EXCEPT ![t] = p] /\ UNCHANGED job

-----------------------------------------------------------------------------
(* Worker::start_searching                                                 *)

\* A helper goes straight to iterative_deepening.
HelperBegins(t) ==
    /\ t # Main /\ place[t] = "run" /\ job[t] = "search"
    /\ Goto(t, "iterate")
    /\ UNCHANGED <<searching, jobFunc, exit, cv, searchVars>>

\* Variant: without the early return the search goes on and answers again.
NoMovesAnswer_NoReturn ==
    /\ place[Main] = "run" /\ job[Main] = "search"
    /\ "noMoves" \in limits
    /\ owed' = owed - 1
    /\ Goto(Main, "iterate")
    /\ UNCHANGED <<searching, jobFunc, exit, cv, size, stop, ponder, stopOnPonderhit, root, helper>>

\* The main thread finds no legal move and answers "bestmove (none)" at once.
NoMovesAnswer ==
    /\ place[Main] = "run" /\ job[Main] = "search"
    /\ "noMoves" \in limits
    /\ owed' = owed - 1
    /\ JobDone(Main)
    /\ UNCHANGED <<searching, jobFunc, exit, cv, size, stop, ponder, stopOnPonderhit, root, helper>>

\* The main thread sets out to start the helpers.
MainBegins ==
    /\ place[Main] = "run" /\ job[Main] = "search"
    /\ "noMoves" \notin limits
    /\ helper' = 1
    /\ Goto(Main, "helper")
    /\ UNCHANGED <<searching, jobFunc, exit, cv, size, stop, ponder, stopOnPonderhit, root, owed>>

\* ThreadPool::start_searching: run_custom_job on the next helper ...
StartHelper ==
    /\ place[Main] = "helper" /\ helper < size
    /\ \/ /\ Block("main", helper)
          /\ UNCHANGED searchVars
       \/ /\ PostJob("main", helper, "search")
          /\ place' = [place EXCEPT ![Main] = "helperNotify"]
          /\ UNCHANGED <<exit, searchVars>>

\* Variant: the loop over the helpers advances twice.
NotifyHelper_Twice ==
    /\ place[Main] = "helperNotify"
    /\ \E W \in Notified(cv[helper]) : cv' = [cv EXCEPT ![helper] = W]
    /\ helper' = helper + 2
    /\ Goto(Main, "helper")
    /\ UNCHANGED <<searching, jobFunc, exit, size, stop, ponder, stopOnPonderhit, root, owed>>

\* ... and its notification.
NotifyHelper ==
    /\ place[Main] = "helperNotify"
    /\ \E W \in Notified(cv[helper]) : cv' = [cv EXCEPT ![helper] = W]
    /\ helper' = helper + 1
    /\ Goto(Main, "helper")
    /\ UNCHANGED <<searching, jobFunc, exit, size, stop, ponder, stopOnPonderhit, root, owed>>

HelpersStarted ==
    /\ place[Main] = "helper" /\ helper >= size
    /\ Goto(Main, "iterate")
    /\ UNCHANGED <<searching, jobFunc, exit, cv, searchVars>>

-----------------------------------------------------------------------------
(* Worker::iterative_deepening and the time checks inside search().        *)

Raise ==
    /\ stop' = TRUE
    /\ UNCHANGED <<threadVars, size, ponder, stopOnPonderhit, root, helper, owed>>

\* SearchManager::check_time: the clock, movetime or the nodes have run out.
\* `elapsed > maximum`, like an exhausted budget, is true sooner or later.
CheckTime ==
    /\ place[Main] = "iterate"
    /\ ~ponder
    /\ limits \cap {"timed", "budget"} # {}
    /\ Raise

\* `go mate N` is solved; any thread may be the one to see it.
MateFound(t) ==
    /\ place[t] = "iterate"
    /\ "mate" \in root[t].limits /\ ~stop
    /\ Raise

\* Variant: the time management forgets that it is pondering.
TimeUsed_IgnoresPonder ==
    /\ place[Main] = "iterate"
    /\ "timed" \in limits /\ ~stop /\ ~stopOnPonderhit
    /\ Raise

\* The main thread has used its share of the time after an iteration: it stops,
\* or, when pondering, remembers to stop at the ponderhit.
TimeUsed ==
    /\ place[Main] = "iterate"
    /\ "timed" \in limits /\ ~stop /\ ~stopOnPonderhit
    /\ stopOnPonderhit' = ponder
    /\ stop' = ~ponder
    /\ UNCHANGED <<threadVars, size, ponder, root, helper, owed>>

\* An aspiration window fails low: think on after all.
FailLow ==
    /\ place[Main] = "iterate" /\ stopOnPonderhit
    /\ stopOnPonderhit' = FALSE
    /\ UNCHANGED <<threadVars, size, stop, ponder, root, helper, owed>>

LeaveIterations(t) ==
    /\ IF t = Main THEN Goto(t, "busyWait") ELSE JobDone(t)
    /\ UNCHANGED <<searching, jobFunc, exit, cv, searchVars>>

\* The loop of iterative_deepening sees the stop ...
SeeStop(t) == place[t] = "iterate" /\ stop /\ LeaveIterations(t)

\* ... or has nothing deeper to search: MAX_PLY, and limits.depth on the main thread.
ReachDepth(t) == place[t] = "iterate" /\ ~stop /\ LeaveIterations(t)

\* Variant: the busy wait ends without raising the stop for the helpers.
EndBusyWait_NoStop ==
    /\ place[Main] = "busyWait"
    /\ stop \/ ~(ponder \/ "infinite" \in limits)
    /\ helper' = 1
    /\ Goto(Main, "helperJoin")
    /\ UNCHANGED <<searching, jobFunc, exit, cv, size, stop, ponder, stopOnPonderhit, root, owed>>

\* Variant: the busy wait does not notice the ponderhit.
EndBusyWait_StopOnly ==
    /\ place[Main] = "busyWait"
    /\ stop \/ limits \cap {"ponder", "infinite"} = {}
    /\ stop' = TRUE
    /\ helper' = 1
    /\ Goto(Main, "helperJoin")
    /\ UNCHANGED <<searching, jobFunc, exit, cv, size, ponder, stopOnPonderhit, root, owed>>

\* The busy wait of the main thread ends, and it raises the stop in any case.
EndBusyWait ==
    /\ place[Main] = "busyWait"
    /\ stop \/ ~(ponder \/ "infinite" \in limits)
    /\ stop' = TRUE
    /\ helper' = 1
    /\ Goto(Main, "helperJoin")
    /\ UNCHANGED <<searching, jobFunc, exit, cv, size, ponder, stopOnPonderhit, root, owed>>

\* ThreadPool::wait_for_search_finished: one helper after the other.
AwaitHelper ==
    /\ place[Main] = "helperJoin" /\ helper < size
    /\ \/ /\ Block("main", helper)
          /\ UNCHANGED searchVars
       \/ /\ Finished("main", helper)
          /\ helper' = helper + 1
          /\ UNCHANGED <<threadVars, size, stop, ponder, stopOnPonderhit, root, owed>>

\* Variant: the wait leaves the last helper out.
HelpersFinished_AllButLast ==
    /\ place[Main] = "helperJoin" /\ helper + 1 >= size
    /\ Goto(Main, "report")
    /\ UNCHANGED <<searching, jobFunc, exit, cv, searchVars>>

HelpersFinished ==
    /\ place[Main] = "helperJoin" /\ helper >= size
    /\ Goto(Main, "report")
    /\ UNCHANGED <<searching, jobFunc, exit, cv, searchVars>>

\* get_best_thread reads every worker's rootMoves; then onBestmove.
Bestmove ==
    /\ place[Main] = "report"
    /\ owed' = owed - 1
    /\ JobDone(Main)
    /\ UNCHANGED <<searching, jobFunc, exit, cv, size, stop, ponder, stopOnPonderhit, root, helper>>

MainSearch ==
    \/ NoMovesAnswer \/ MainBegins
    \/ StartHelper \/ NotifyHelper \/ HelpersStarted
    \/ CheckTime \/ TimeUsed \/ FailLow
    \/ EndBusyWait \/ AwaitHelper \/ HelpersFinished \/ Bestmove

SearchStep(t) == HelperBegins(t) \/ MateFound(t) \/ SeeStop(t) \/ ReachDepth(t)
=============================================================================
