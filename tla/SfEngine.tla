------------------------------ MODULE SfEngine ------------------------------
(***************************************************************************)
(* The Stockfish engine as a whole: the UCI thread (uci.cpp, engine.cpp)   *)
(* reads commands and resizes, clears, sets up and starts the thread pool  *)
(* (ThreadPool in thread.cpp) while the search threads run their jobs.     *)
(*                                                                         *)
(* The UCI thread is sequential.  `at` is where it is in the handler of    *)
(* the command `cmd`; loops over the threads use the index `nth`.          *)
(***************************************************************************)
EXTENDS SfSearch

CONSTANT PoliteGui   \* the GUI sends go, setoption, position and ucinewgame only
                     \* when no bestmove is due, as the UCI protocol asks

ASSUME PoliteGuiAssumption == PoliteGui \in BOOLEAN

Cmds == {"go", "threads", "hash", "newgame", "quit"}

Stations ==
    {"read", "waitMain", "waitHelpers", "waitPool", "prepare", "post", "notify", "join",
     "startMain", "notifyMain", "exitPost", "exitNotify", "exitJoin",
     "spawn", "spawnWait", "buildPost", "buildNotify", "buildWait", "exited"}

VARIABLES
    at, cmd,       \* the UCI thread's place and command
    batch,         \* the job that "post" hands to every thread
    nth,           \* loop index over threads
    requested,     \* options["Threads"]
    asked,         \* the LimitsType of the go being handled
    states,        \* Engine::states, NoStates after the ownership transfer
    setupStates,   \* ThreadPool::setupStates
    gui            \* what the GUI has sent since the search was prepared: nothing, ponderhit or stop

uciVars == <<at, cmd, batch, nth, requested, asked, states, setupStates, gui>>
vars == <<threadVars, searchVars, uciVars>>

UciTypeOK ==
    /\ at \in Stations /\ cmd \in Cmds
    /\ batch \in {"setup", "clear", "zero"}
    /\ nth \in 0 .. MaxThreads
    /\ requested \in 1 .. MaxThreads
    /\ asked \subseteq Flags
    /\ states \in StateLists \cup {NoStates}
    /\ setupStates \in StateLists \cup {NoStates}
    /\ gui \in {"none", "ponderhit", "stop"}

TypeOK == ThreadTypeOK /\ SearchTypeOK /\ UciTypeOK

\* Engine::Engine: a start position, and resize_threads() about to create the
\* default of one thread.
Init ==
    /\ ThreadInit
    /\ SearchInit
    /\ at = "spawn" /\ cmd = "threads" /\ batch = "clear" /\ nth = 0
    /\ requested = 1
    /\ asked = {}
    /\ states = 0 /\ setupStates = NoStates
    /\ gui = "none"

-----------------------------------------------------------------------------
(* Reading commands: UCIEngine::loop.                                      *)

Read(c) == at = "read" /\ cmd' = c
MayDisturb == PoliteGui => owed = 0

ReadStop ==
    /\ at = "read"
    /\ stop' = TRUE /\ gui' = "stop"
    /\ UNCHANGED <<threadVars, size, ponder, stopOnPonderhit, root, helper, owed,
                   at, cmd, batch, nth, requested, asked, states, setupStates>>

ReadPonderhit ==
    /\ at = "read"
    /\ ponder' = FALSE
    /\ gui' = IF gui = "none" THEN "ponderhit" ELSE gui
    /\ UNCHANGED <<threadVars, size, stop, stopOnPonderhit, root, helper, owed,
                   at, cmd, batch, nth, requested, asked, states, setupStates>>

\* Engine::set_position: a new StateInfo list replaces the engine's.
ReadPosition ==
    /\ at = "read" /\ MayDisturb
    /\ states' = CHOOSE s \in StateLists : s # setupStates
    /\ UNCHANGED <<threadVars, searchVars, at, cmd, batch, nth, requested, asked, setupStates, gui>>

\* Variant: start_thinking does not wait for the main thread.
ReadGo_NoWait(l) ==
    /\ Read("go") /\ MayDisturb
    /\ at' = "prepare"
    /\ asked' = l
    /\ owed' = owed + 1
    /\ UNCHANGED <<threadVars, size, stop, ponder, stopOnPonderhit, root, helper,
                   batch, nth, requested, states, setupStates, gui>>

ReadGo(l) ==
    /\ Read("go") /\ MayDisturb
    /\ at' = "waitMain"
    /\ asked' = l
    /\ owed' = owed + 1
    /\ UNCHANGED <<threadVars, size, stop, ponder, stopOnPonderhit, root, helper,
                   batch, nth, requested, states, setupStates, gui>>

\* Variant: setoption does not wait, so resize_threads waits for the helpers first.
ReadSetThreads_NoWait(n) ==
    /\ Read("threads") /\ MayDisturb
    /\ at' = "waitHelpers" /\ nth' = 1
    /\ requested' = n
    /\ UNCHANGED <<threadVars, searchVars, batch, asked, states, setupStates, gui>>

\* UCIEngine::setoption waits for the main thread before it applies the option.
ReadSetThreads(n) ==
    /\ Read("threads") /\ MayDisturb
    /\ at' = "waitMain"
    /\ requested' = n
    /\ UNCHANGED <<threadVars, searchVars, batch, nth, asked, states, setupStates, gui>>

\* "setoption name Hash" and "ucinewgame" both wait for the main thread too.
ReadSimple(c) ==
    /\ Read(c) /\ MayDisturb
    /\ at' = "waitMain"
    /\ UNCHANGED <<threadVars, searchVars, batch, nth, requested, asked, states, setupStates, gui>>

\* engine.stop(), the loop ends, and ~Engine waits for the main thread.
ReadQuit ==
    /\ Read("quit")
    /\ at' = "waitMain"
    /\ stop' = TRUE /\ gui' = "stop"
    /\ UNCHANGED <<threadVars, size, ponder, stopOnPonderhit, root, helper, owed,
                   batch, nth, requested, asked, states, setupStates>>

-----------------------------------------------------------------------------
(* Waiting, and what each command does once the main thread is idle.       *)

UciAt(p, n) == at' = p /\ nth' = n
Broadcast(j) == batch' = j /\ UciAt("post", 0)

\* The thread the UCI thread is waiting for.
Awaited == IF at \in {"waitMain", "waitPool", "startMain"} THEN Main ELSE nth

\* Stations that call wait_for_search_finished or run_custom_job on a thread.
Waiting ==
    \/ at \in {"waitMain", "waitPool", "post", "join", "startMain", "exitPost",
               "spawnWait", "buildPost", "buildWait"}
    \/ at = "waitHelpers" /\ nth < size

UciBlocks == Waiting /\ Block("uci", Awaited) /\ UNCHANGED <<searchVars, uciVars>>

\* Further waits for the main thread inside the handlers (set_tt_size,
\* search_clear, start_thinking) find it idle, nobody else giving it work.
MainIsIdle ==
    /\ at = "waitMain" /\ Finished("uci", Main)
    /\ \/ cmd = "go" /\ UciAt("prepare", 0) /\ UNCHANGED batch
       \/ cmd = "threads" /\ UciAt("waitHelpers", 1) /\ UNCHANGED batch
       \/ cmd \in {"hash", "newgame"} /\ Broadcast("zero")
       \/ cmd = "quit" /\ UciAt("exitPost", 0) /\ UNCHANGED batch
    /\ UNCHANGED <<threadVars, searchVars, cmd, requested, asked, states, setupStates, gui>>

\* Engine::resize_threads waits for the helpers, ThreadPool::set for the main thread.
HelperIsIdle ==
    /\ at = "waitHelpers"
    /\ \/ nth < size /\ Finished("uci", nth) /\ UciAt("waitHelpers", nth + 1)
       \/ nth >= size /\ UciAt("waitPool", 0)
    /\ UNCHANGED <<threadVars, searchVars, cmd, batch, requested, asked, states, setupStates, gui>>

PoolIsIdle ==
    /\ at = "waitPool" /\ Finished("uci", Main)
    /\ UciAt("exitPost", 0)
    /\ UNCHANGED <<threadVars, searchVars, cmd, batch, requested, asked, states, setupStates, gui>>

\* ThreadPool::start_thinking up to the first run_custom_job.
Prepare ==
    /\ at = "prepare"
    /\ stop' = FALSE /\ stopOnPonderhit' = FALSE
    /\ ponder' = ("ponder" \in asked)
    /\ gui' = "none"
    /\ IF states # NoStates
         THEN setupStates' = states /\ states' = NoStates
         ELSE UNCHANGED <<states, setupStates>>
    /\ Broadcast("setup")
    /\ UNCHANGED <<threadVars, size, root, helper, owed, cmd, requested, asked>>

-----------------------------------------------------------------------------
(* Loops over the pool: a job for every thread, then a wait for each.      *)

Post ==
    /\ at = "post"
    /\ PostJob("uci", nth, batch)
    /\ UciAt("notify", nth)
    /\ UNCHANGED <<place, exit, searchVars, cmd, batch, requested, asked, states, setupStates, gui>>

\* Variant: start_thinking does not wait for the setup jobs.
Notify_NoJoin ==
    /\ at = "notify"
    /\ NotifyOne(nth)
    /\ IF nth + 1 < size THEN UciAt("post", nth + 1)
       ELSE UciAt(IF batch = "setup" THEN "startMain" ELSE "join", 0)
    /\ UNCHANGED <<searchVars, cmd, batch, requested, asked, states, setupStates, gui>>

Notify ==
    /\ at = "notify"
    /\ NotifyOne(nth)
    /\ IF nth + 1 < size THEN UciAt("post", nth + 1) ELSE UciAt("join", 0)
    /\ UNCHANGED <<searchVars, cmd, batch, requested, asked, states, setupStates, gui>>

\* What follows the last wait: start_thinking starts the main thread; set() clears
\* the workers, then set_tt_size the table; search_clear does it the other way round.
Joined ==
    \/ batch = "setup" /\ UciAt("startMain", 0) /\ UNCHANGED batch
    \/ batch = "clear" /\ cmd = "threads" /\ Broadcast("zero")
    \/ batch = "clear" /\ cmd # "threads" /\ UciAt("read", 0) /\ UNCHANGED batch
    \/ batch = "zero" /\ cmd = "newgame" /\ Broadcast("clear")
    \/ batch = "zero" /\ cmd # "newgame" /\ UciAt("read", 0) /\ UNCHANGED batch

JoinNext ==
    /\ at = "join" /\ Finished("uci", nth)
    /\ IF nth + 1 < size THEN UciAt("join", nth + 1) /\ UNCHANGED batch ELSE Joined
    /\ UNCHANGED <<threadVars, searchVars, cmd, requested, asked, states, setupStates, gui>>

\* main_thread()->start_searching().
StartMain ==
    /\ at = "startMain"
    /\ PostJob("uci", Main, "search")
    /\ UciAt("notifyMain", 0)
    /\ UNCHANGED <<place, exit, searchVars, cmd, batch, requested, asked, states, setupStates, gui>>

NotifyMain ==
    /\ at = "notifyMain"
    /\ NotifyOne(Main)
    /\ UciAt("read", 0)
    /\ UNCHANGED <<searchVars, cmd, batch, requested, asked, states, setupStates, gui>>

-----------------------------------------------------------------------------
(* Destroying and creating Threads: ThreadPool::set, ~ThreadPool.          *)

\* ~Thread: exit = true, then start_searching().
ExitPost ==
    /\ at = "exitPost"
    /\ PostJob("uci", nth, "search")
    /\ exit' = [exit EXCEPT ![nth] = TRUE]
    /\ UciAt("exitNotify", nth)
    /\ UNCHANGED <<place, searchVars, cmd, batch, requested, asked, states, setupStates, gui>>

ExitNotify ==
    /\ at = "exitNotify"
    /\ NotifyOne(nth)
    /\ UciAt("exitJoin", nth)
    /\ UNCHANGED <<searchVars, cmd, batch, requested, asked, states, setupStates, gui>>

ExitJoin ==
    /\ at = "exitJoin"
    /\ Join(nth)
    /\ \/ /\ nth + 1 < size
          /\ UciAt("exitPost", nth + 1)
          /\ UNCHANGED size
       \/ /\ nth + 1 >= size
          /\ size' = 0
          /\ UciAt(IF cmd = "quit" THEN "exited" ELSE "spawn", 0)
    /\ UNCHANGED <<stop, ponder, stopOnPonderhit, root, helper, owed,
                   cmd, batch, requested, asked, states, setupStates, gui>>

\* Thread::Thread: launch, wait for the thread to park, build the worker in it, wait.
Spawn ==
    /\ at = "spawn"
    /\ Launch(nth)
    /\ UciAt("spawnWait", nth)
    /\ UNCHANGED <<searchVars, cmd, batch, requested, asked, states, setupStates, gui>>

Spawned ==
    /\ at = "spawnWait" /\ Finished("uci", nth)
    /\ UciAt("buildPost", nth)
    /\ UNCHANGED <<threadVars, searchVars, cmd, batch, requested, asked, states, setupStates, gui>>

BuildPost ==
    /\ at = "buildPost"
    /\ PostJob("uci", nth, "build")
    /\ UciAt("buildNotify", nth)
    /\ UNCHANGED <<place, exit, searchVars, cmd, batch, requested, asked, states, setupStates, gui>>

BuildNotify ==
    /\ at = "buildNotify"
    /\ NotifyOne(nth)
    /\ UciAt("buildWait", nth)
    /\ UNCHANGED <<searchVars, cmd, batch, requested, asked, states, setupStates, gui>>

\* threads.emplace_back; ThreadPool::clear once there are enough.
Built ==
    /\ at = "buildWait" /\ Finished("uci", nth)
    /\ size' = nth + 1
    /\ \/ nth + 1 < requested /\ UciAt("spawn", nth + 1) /\ UNCHANGED batch
       \/ nth + 1 >= requested /\ Broadcast("clear")
    /\ UNCHANGED <<threadVars, stop, ponder, stopOnPonderhit, root, helper, owed,
                   cmd, requested, asked, states, setupStates, gui>>

-----------------------------------------------------------------------------
(* The jobs other than a search.                                           *)

\* The lambda of start_thinking copies the UCI thread's limits and the last state.
RunSetup(t) ==
    /\ place[t] = "run" /\ job[t] = "setup"
    /\ root' = [root EXCEPT ![t] = [limits |-> asked, states |-> setupStates]]
    /\ JobDone(t)
    /\ UNCHANGED <<searching, jobFunc, exit, cv, size, stop, ponder, stopOnPonderhit,
                   helper, owed, uciVars>>

\* The Worker constructor and the clearing of histories or of a slice of the
\* table: they change nothing the control depends on, but a new worker has no root.
RunOther(t) ==
    /\ place[t] = "run" /\ job[t] \in {"build", "clear", "zero"}
    /\ root' = IF job[t] = "build"
                 THEN [root EXCEPT ![t] = [limits |-> {}, states |-> NoStates]]
                 ELSE root
    /\ JobDone(t)
    /\ UNCHANGED <<searching, jobFunc, exit, cv, size, stop, ponder, stopOnPonderhit,
                   helper, owed, uciVars>>

-----------------------------------------------------------------------------
Gui ==
    \/ ReadStop \/ ReadPonderhit \/ ReadPosition \/ ReadQuit
    \/ \E l \in Searches : ReadGo(l)
    \/ \E n \in 1 .. MaxThreads : ReadSetThreads(n)
    \/ \E c \in {"hash", "newgame"} : ReadSimple(c)

Uci ==
    \/ UciBlocks \/ MainIsIdle \/ HelperIsIdle \/ PoolIsIdle \/ Prepare
    \/ Post \/ Notify \/ JoinNext \/ StartMain \/ NotifyMain
    \/ ExitPost \/ ExitNotify \/ ExitJoin
    \/ Spawn \/ Spawned \/ BuildPost \/ BuildNotify \/ Built

IdleLoop(t) == Park(t) \/ ParkAgain(t) \/ Leave(t) \/ TakeJob(t)

\* Every thread is gone and main() has returned.
Exited == at = "exited" /\ UNCHANGED vars

Next ==
    \/ Gui
    \/ Uci
    \/ \E t \in Tid :
         \/ (IdleLoop(t) \/ Spurious(t)) /\ UNCHANGED <<searchVars, uciVars>>
         \/ RunSetup(t) \/ RunOther(t)
         \/ SearchStep(t) /\ UNCHANGED uciVars
    \/ MainSearch /\ UNCHANGED uciVars
    \/ Exited

Spec == Init /\ [][Next]_vars

\* Every thread is scheduled.  Nothing is assumed of what a search finds (mates,
\* fail lows, the depth it reaches), of spurious wake-ups or of the GUI; the clock runs.
Fairness ==
    /\ WF_vars(Uci)
    /\ \A t \in Tid : /\ WF_vars(IdleLoop(t) /\ UNCHANGED <<searchVars, uciVars>>)
                      /\ WF_vars(RunSetup(t) \/ RunOther(t))
                      /\ WF_vars((HelperBegins(t) \/ SeeStop(t)) /\ UNCHANGED uciVars)
    /\ WF_vars(CheckTime /\ UNCHANGED uciVars)
    /\ WF_vars((NoMovesAnswer \/ MainBegins \/ StartHelper \/ NotifyHelper \/ HelpersStarted
                \/ EndBusyWait \/ AwaitHelper \/ HelpersFinished \/ Bestmove)
               /\ UNCHANGED uciVars)

FairSpec == Spec /\ Fairness

-----------------------------------------------------------------------------
(* Safety.                                                                 *)

Has(t, j) == jobFunc[t] = j \/ job[t] = j
Searching(t) == Has(t, "search") /\ ~exit[t]

\* Somebody is between the unlock of run_custom_job on t and its notify_one.
NotifyPending(t) ==
    \/ at \in {"notify", "exitNotify", "buildNotify"} /\ nth = t
    \/ at = "notifyMain" /\ t = Main
    \/ place[Main] = "helperNotify" /\ helper = t

\* One condition variable serves the parked thread and those who wait for it, and
\* notify_one wakes only one of them: nobody stays blocked on a predicate that
\* holds, unless the notification is still to come.
NoLostWakeup ==
    \A t \in Tid : \A r \in cv[t] :
        (searching[t] <=> r = "owner") => NotifyPending(t)

\* The setup lambda captures start_thinking's locals by reference and the build lambda
\* those of the Thread constructor: while such a job is pending or running, the UCI
\* thread is still inside that function.
FramesAlive ==
    \A t \in Tid :
        /\ Has(t, "setup") => at \in {"post", "notify", "join"} /\ batch = "setup"
        /\ Has(t, "build") => at \in {"buildNotify", "buildWait"} /\ nth = t

\* The UCI thread resizes the pool or the table, clears histories, rewrites the root
\* data and frees the StateInfo list only while no thread, helpers included, searches
\* or has been told to.
PoolOwnership ==
    at \notin {"read", "waitMain", "notifyMain", "exited"} => \A t \in Tid : ~Searching(t)

\* All threads that search work on the main thread's root, and the StateInfo list
\* behind it is the one the pool keeps alive.
SameRoot ==
    \A t \in Tid : Searching(t) =>
        /\ root[t] = root[Main]
        /\ root[t].states = setupStates /\ setupStates # NoStates

\* When the main thread compares the workers' root moves and announces the best one,
\* the helpers have finished, none has yet to start, and the stop is raised.
ReportAlone ==
    place[Main] = "report" =>
        /\ stop
        /\ \A t \in Tid \ {Main} : ~searching[t] /\ jobFunc[t] = NoJob /\ job[t] = NoJob

\* A go being handled that has not started the main thread yet.
GoUnderWay == cmd = "go" /\ at \in {"waitMain", "prepare", "post", "notify", "join", "startMain"}

\* Every go is answered by exactly one bestmove: what is owed is the search in
\* progress and the go still waiting for it, no more and no less.
OneAnswerPerGo ==
    owed = (IF GoUnderWay THEN 1 ELSE 0) + (IF Searching(Main) THEN 1 ELSE 0)

Answer == owed' < owed

\* A bestmove during a ponder search that was not released by ponderhit or stop is
\* only possible if it is a mate search or there is no move; during an infinite
\* search without stop, only with a mate, time, or node limit beside "infinite".
AnswerWhenReleased ==
    [][Answer /\ limits \cap {"mate", "noMoves"} = {} =>
         /\ "ponder" \in limits => gui # "none"
         /\ "infinite" \in limits /\ limits \cap {"timed", "budget"} = {} => gui = "stop"]_vars

-----------------------------------------------------------------------------
(* Liveness, under FairSpec.                                               *)

\* A search ends once the GUI has stopped it, and one with a clock or a budget ends by
\* itself, when pondering after the ponderhit: no stop is lost to the flags that are
\* reset for the next search, and no expired clock to a ponderhit that comes meanwhile.
GoAnswered ==
    /\ Searching(Main) /\ gui = "stop" ~> ~Searching(Main)
    /\ /\ Searching(Main)
       /\ limits \cap {"timed", "budget"} # {}
       /\ "infinite" \notin limits
       /\ ~ponder
       ~> ~Searching(Main)

\* With a GUI that keeps to the protocol the UCI thread always gets back to its
\* input: no command blocks for good on a condition variable.
UciReturns == at # "read" ~> at \in {"read", "exited"}
=============================================================================
