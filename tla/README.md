# Verification of the engines in this repository

The repository is a chess analysis project: a handful of Python scripts
(`src/scripts`, `src/stockfish/scripts`) that drive two complete C++ engines,
Stockfish (`src/engines/stockfish`) and Leela Chess Zero
(`src/engines/lc0`). The scripts start an engine, send it a position, wait and
write a file. All that is hard in the program is in the engines. Of the engines
these TLA+ modules model what is hard to *test*: their concurrency (how threads
are started, stopped and joined, when an answer is given, how processes share
memory, how work is split between threads), and the data structures that are kept
up to date step by step instead of being computed (the search tree, the cache, the
accumulators of the network, the state of a position), where a single omission
shows long after it was made.

## Inventory

### Stockfish (`src/engines/stockfish/src`)

| Component | State | Operations | Talks to | Must guarantee |
|---|---|---|---|---|
| `Thread` (thread.cpp/h) | `searching`, `exit`, `jobFunc`, one mutex, one condition variable | constructor, destructor, `run_custom_job`, `wait_for_search_finished`, `idle_loop` | UCI thread and main search thread call it | no lost wake-up; captured locals outlive jobs |
| `ThreadPool` (thread.cpp) | `threads`, `stop`, `increaseDepth`, `setupStates` | `set`, `clear`, `start_thinking`, `start_searching`, `wait_for_search_finished` | the `Thread`s; the searches read its flags | pool touched only while idle; all threads search one root |
| `Worker` / `SearchManager` (search.cpp) | `limits`, root data, `ponder`, `stopOnPonderhit` | `start_searching`, `iterative_deepening`, `check_time` | pool flags, transposition table, GUI output | one bestmove per go, when it is allowed; stop ends the search |
| `Engine`, `UCIEngine` (engine.cpp, uci.cpp) | options, position, `StateInfo` list | one handler per command | pool, GUI | never blocks for good; order of waits |
| `SharedMemory` (shm_linux.h) | region in /dev/shm, flock, robust mutex, sentinel files | `open`, `close`, cleanup at exit and on signals | other engine processes | finished contents only; removed by the last user; survives crashes |
| `TranspositionTable` (tt.cpp) | clusters of racy entries, `generation8` | `probe`, `save`, `new_search`, `clear`, `resize`, `hashfull` | all search threads | age arithmetic; torn entries do no harm |
| `MovePicker` (movepick.cpp) | `stage`, cursors into a move list | `next_move` | search | every pseudo-legal move once |
| NNUE accumulators (nnue_accumulator.cpp) | two stacks of sums, refresh cache | `push`, `pop`, `evaluate`, network change | `Position::do_move` | incremental = from scratch |
| `Position`, generators (position.cpp, movegen.cpp) | board, `StateInfo` list | `do_move`, `undo_move`, `legal`, `pseudo_legal`, `gives_check`, `see_ge`, `generate` | search, accumulators, move picker | the rules of chess, without trying a move |
| Time management, tablebases, NUMA, memory | – | – | – | arithmetic, file formats, system calls |

### lc0 (`src/engines/lc0/src`)

| Component | State | Operations | Talks to | Must guarantee |
|---|---|---|---|---|
| `Engine`, UCI loop (engine.cc, uciloop.cc) | current search, position, go parameters | `Go`, `Stop`, `PonderHit`, `SetPosition`, `NewGame` | `Search` | tree not changed under a search |
| `Search` (search.cc) | `stop_`, `ok_to_respond_bestmove_`, `bestmove_is_sent_`, threads | `StartThreads`, `Stop`, `Abort`, `Wait`, watchdog, `MaybeTriggerStop` | workers, tree, stoppers | exactly one bestmove per go that is not aborted |
| `SearchWorker` task workers (search.cc) | task vector, four atomic counters, condition variable | `ResetTasks`, `PickNodesToExtend`, `WaitForTasks`, `RunTasks` | the tree | each task once; the search thread waits for all |
| Search tree (node.cc/h, search.cc) | visits, visits in flight, children | select, extend, back up, cancel, make solid, reuse, collect | all workers, garbage collector | averages and bounds stay exact; visits in flight match; nothing in use is freed or moved |
| Cache (utils/cache.h, memcache.cc) | open-addressing table, pins, eviction order | insert, lookup, pin, unpin, evict | workers | a bounded map, pinned values stay |
| Demux/mux/batch split (neural/) | queue of computations, parts outstanding | compute, notify, abort | backends | each input evaluated once, shutdown wakes everybody |
| Self-play (selfplay/) | games in flight, openings, results | play, abort, wait | searches | each opening as often as asked, one final report |
| Backends, chess rules, training data, options | – | – | – | numerics, conversions |

### Where the difficulty is

* Stockfish: one condition variable per thread shared by the thread and by those
  who wait for it, notified with `notify_one` outside the mutex; lambdas that
  capture locals by reference and run on other threads; flags of a search that
  the UCI thread, the clock and any searcher write; destroying threads while a
  search may run.
* Shared memory: several processes, each of which may die between any two system
  calls; a name that may have moved on to another region; locks that belong to
  the region and files that belong to the name.
* lc0: atomic counters that are reset under spinning workers; pointers into a
  vector; workers that sleep on a condition variable in one phase and spin in the
  other; an answer that may be printed by any of several threads; a tree whose
  nodes change their nature while visits of others are on their way through them.
* Both: moves, sums, bounds and flags derived from the previous state, never
  recomputed.

`PROJECT.json` lists each of them at its line under `hazards`, with the
properties that cover it, or the reason why none does.

## Modules

| Module | Models | Lines of TLA+ do what |
|---|---|---|
| `SfThread` | `Thread` | the operations of one thread's mutex and condition variable |
| `SfSearch` | `Worker::start_searching` and what stops it | extends `SfThread` |
| `SfEngine` | `UCIEngine`, `Engine`, `ThreadPool`; the whole system | extends `SfSearch`; has `Init`, `Next`, `Spec`, `FairSpec`, the properties |
| `SfEngineInv` | – | the inductive invariant of `SfEngine` |
| `SfEngineProof` | – | its proof, and the safety theorems |
| `SfShm` | `SharedMemory` | processes, regions, crashes |
| `SfShmInv`, `SfShmProof` | – | its inductive invariant; the theorems |
| `LcTasks` | `SearchWorker`'s task workers | search thread and workers |
| `LcTasksInv`, `LcTasksProof` | – | its inductive invariant; the theorems |
| `LcSearch` | `Engine`, `ClassicSearch`, `Search`, the iterations of `SearchWorker` | commands, watchdog, search threads |
| `LcSearchInv`, `LcSearchProof` | – | its inductive invariant; the theorems |
| `LcTree` | `Node`, `NodeTree`, what `SearchWorker` does to the tree | visits, bounds, terminals, solid children, moves |
| `LcTreeInv`, `LcTreeProof` | – | its inductive invariant; the theorems |
| `LcFifoCache` | – | what a `HashKeyedCache` promises: the abstract specification |
| `LcCache` | `HashKeyedCache` and its locks | the table |
| `LcMemCache` | `MemCache`, `MemCacheComputation` | extends `LcCache`; threads over the cache; the refinement |
| `LcMemCacheInv`, `LcMemCacheProof` | – | its inductive invariant; the theorems, the refinement among them |
| `LcDemux` | `DemuxingNetwork` and its computations | parts, worker threads, destructor |
| `LcMux` | `MuxingNetwork` and its computations | extends `LcDemux`; clients, the composition |
| `LcMuxInv`, `LcMuxProof` | – | its inductive invariant; the theorems |
| `SfBoard` | `Position::do_move`, `undo_move` and what they report | operators; the rules of chess |
| `SfNnue` | `AccumulatorStack`, `AccumulatorCaches` | extends `SfBoard`; one worker's search |
| `SfMoveGen` | `movegen.cpp`, `legal`, `pseudo_legal`, `gives_check`, `see_ge` | extends `SfBoard` |
| `SfMovePick` | `MovePicker` | the stages |
| `SfMovePickInv`, `SfMovePickProof` | – | its inductive invariant; the theorems |
| `MC...` | – | instances for TLC |

Definitions whose name has an underscore suffix (`Park_NoNotify`,
`Grab_NoRecheck`, ...) are variants with a plausible bug. They take no part in
`Next`; each shows that some property can fail.

### SfThread, SfSearch, SfEngine

`searching`, `jobFunc`, `exit` are the fields of the same names. `cv[t]` is the
set of roles blocked in `cv.wait` of thread *t*: `owner` (the parked thread in
`idle_loop`), `uci` (the UCI thread in `wait_for_search_finished` or
`run_custom_job`), `main` (the main search thread, on a helper). `notify_one`
takes any one of them out. A role that has been taken out evaluates its predicate
in a later action, so there is always room for others between wake-up and
re-check. A critical section is one action; what the code does outside the lock
(`notify_one` at the end of `run_custom_job`) is an action of its own. `place[t]`
and `job[t]` say where the native thread is. `at`, `cmd`, `batch`, `nth` are the
program counter of the UCI thread: the handler it is in, the loop it is in, and
the loop index.

| TLA+ | Code |
|---|---|
| `Park`, `ParkAgain`, `TakeJob`, `Leave`, `JobDone` | `Thread::idle_loop` |
| `PostJob` then `NotifyOne` | `Thread::run_custom_job` |
| `Block`, `Finished` | `cv.wait(lk, [&] { return !searching; })` |
| `Spawn` ... `Built` | `Thread::Thread` inside `ThreadPool::set` |
| `ExitPost`, `ExitNotify`, `ExitJoin` | `Thread::~Thread` |
| `Prepare`, `Post`, `Notify`, `JoinNext`, `StartMain`, `NotifyMain` | `ThreadPool::start_thinking`, `clear`, `TranspositionTable::clear` |
| `ReadGo`, `ReadStop`, ... | the handlers of `UCIEngine::loop` |
| `MainBegins` ... `Bestmove` | `Worker::start_searching` of the main thread |
| `CheckTime`, `TimeUsed`, `MateFound`, `FailLow`, `SeeStop`, `ReachDepth` | what ends `iterative_deepening` |

Abstractions: the tree search is a loop that may end, find a mate, fail low or
use up its budget whenever it likes. Limits are sets of flags. The order in
which the table's slices are given to threads under NUMA binding, and the
binding itself, are left out; the `NumaPolicy` option acts like `Threads`,
`Clear Hash` like `ucinewgame`. `owed` (gos read and not answered) is a history
variable. `gui` remembers what the GUI has sent since the search was prepared.

### SfShm

One action per system call of `open()` and `close()`. A process works on the
region behind its file descriptor (`fd`), which need not be the one the name
refers to (`entry`). `flock` and `mutex` belong to a region, `sentinels` to the
name. `Crash(p)` ends a process between any two calls: the kernel drops its
descriptors and its flock, the robust mutex becomes `Dead`, its sentinel file
stays. A process that starts again reuses the pid, which is how the code's
"stale sentinel" case comes about. A signal is a `Close` of an open region or a
`Crash`. Each call that the code tests may fail: `ftruncate`, `mmap`, the
creation of the sentinel, `flock` (`FlockFails`, `CloseFlockFails`) and the lock of
the mutex (`MutexFails`, `CloseMutexFails`). Without one of the locks `close()` drops
its own sentinel and looks for no others (`Unlocked`). What the code does not test is
not modelled: an unlock or `unlink` that fails, and `opendir` in
`has_other_live_sentinels_locked`, upon which the process takes itself for the last.
The test of a stale sentinel and its `unlink` are one action. `ref_count` is left
out: the code counts it and never reads it. `dirty` is a history variable: somebody
left without the bookkeeping of `close()` and nobody has cleaned up since.

`RemovedByTheLast` says of both places that unlink the name, the end of `close()`
and a failed `open()`, that nobody else is in the region of the process that does
it. It does not say that no region in use ever loses its name: that is false, as
a process that works on an orphan unlinks whatever the name refers to by then
(see Findings). `NothingLeftBehind` says what is true all the same,
of the name and of the sentinels.

### LcTasks

An access to an atomic is one action, so that `if (nta < task_count_)` takes two
steps when `nta` was itself loaded. `asleep` is the set of workers blocked on
`task_added_`. The search thread's `at` walks through `GatherMinibatch`: picking
(`reset` ... `collect`), optionally processing (`reset`, `split`, `wait`), and
again, until the minibatch is full (`next`, where `task_count_` becomes -1). The
atomics are taken as sequentially consistent. A spurious failure of
`compare_exchange_weak` is left out: it only sends the worker once more round its
loop. What a task does to the tree is `LcTree`'s business.

### LcSearch

An engine command is a sequence of calls (`todo`) that its handler makes on the
search and the tree, one action each; `Join` blocks until all threads are gone.
`stop`, `ok`, `sent` are `stop_`, `ok_to_respond_bestmove_`, `bestmove_is_sent_`,
`pending` is `pending_searchers_`, `shared` is `shared_collisions_`. There are two
`Search` objects only between the construction of the new one and the destruction
of the old one, when neither has threads: one set of variables is enough.

| TLA+ | Code |
|---|---|
| `ReadPosition`, `Go`, `ReadPonderHit`, ... | `Engine::SetPosition`, `Go`, `PonderHit`, `NewGame`, `Wait`, `~Engine` |
| `ReadGo` | when the GUI sends `go` |
| `Abort`, `Join`, `ReadStop` | `Search::Abort`, `Wait`, `Stop` |
| `Cancel` | `~Search`, `CancelSharedCollisions` |
| `Reset` | `NodeTree::ResetToPosition`, `TrimTreeAtHead` |
| `Start` | `Search::Search`, `StartThreads` |
| `MaybeTriggerStop` | the same, under both mutexes |
| `WatchdogCheck`, `WatchdogDecide` | `WatchdogThread` |
| `Enter` ... `Loop` | `RunBlocking`, `ExecuteOneIteration` |

`expired` says that the stopper answers yes from now on. A thread's minibatch is a
leaf of its own (`leaf`) or nothing, and the leaves of others it ran into
(`collisions`). The wait for `task_added_` and the splitting of the gathering are
`LcTasks`'s. `MaxConcurrentSearchers` 0, which turns the limit off, is left out.
`owed` (bestmoves the GUI may still expect) and `released` are history variables;
`freed` remembers which listed leaves the tree has given away.

### LcTree

A node is the sequence of moves from the start of the game; a node that was never
visited is a `FreshNode`. `n`, `flight`, `term`, `low`, `up`, `edges` and `solid` are
`n_`, `n_in_flight_`, `terminal_type_`, the bounds, the edges and `solid_children_`;
`wl_` is kept as the exact sum `w` = `wl_ * n_`, so that `AverageExact` can ask for
equality.

| TLA+ | Code |
|---|---|
| `Pick` | `PickNodesToExtend`: descends to leaves, puts visits in flight on the way, or meets collisions |
| `Extend` | `ExtendNode` of the picked leaves |
| `Settle`, `CancelCollision`, `BackupEarly` | the out-of-order part of `GatherMinibatch`: the loop over a call some of whose values are known, under one lock of `nodes_mutex_` |
| `Keep` | the rest of a call stays in the minibatch |
| `Upsize` | a single collision is made larger |
| `CollectCollisions`, `DoBackupUpdate` | the same, with `MaybeSetBounds`, `AdjustForTerminal`, `MakeSolid` |
| `SetPosition`, `Go` | `ResetToPosition`, `MakeMove`, `TrimTreeAtHead`; `StartSearch` with ClearTree, `~Search` |

Each is a step under the mutex the code holds; the out-of-order part takes several,
in which the others are kept from what needs the mutex (`MutexFree`). Its collisions
and visits are met in one order, from the last to the first, which the model leaves
open for the collisions. `lost` collects the nodes `MakeSolid` moved while a minibatch
or the shared collisions referred to them, the minibatch of the thread that backs up
included: a visit that is being backed up is out of it, its collisions are not.

Abstractions: `d_`, `m_` and the policy are left out, the choice among leaves is
free, the leaves of one call are in a fixed order. A draw by rule ends the game
everywhere but at the root of the search (`ExtendNode`). `SetPosition` waits until no
shared collision would be uprooted: what happens otherwise is run `search_held`.
A search of a mated head also makes `MaybeSetBounds` run on a parent without
visits, where the debug build's `assert(*n_to_fix > 0)` (search.cc:2333) would
fail; the release build, which the model follows, adds a correction of nothing.

### LcFifoCache, LcCache, LcMemCache

`LcCache` has the hash table with open addressing and linear probing, the insertion
order, the list of evicted entries that are still pinned and the counters, each
operation in one step under the spin mutex. `LcFifoCache` is a bounded queue of
pairs and locks that keep what they were given; `ImplementsFifo` maps `capacity` to
`capacity`, the queue to the entries of the table in insertion order, and the locks
to themselves. `LcMemCache` is the caching backend: a thread asks (`AddInput`,
`GetCachedEvaluation`), holds a value while it copies (`FetchedImmediately`,
`Refused`), and inserts what was computed (`ComputeBlocking`), while the UCI thread
resizes and clears. A value is an address; an address may be used again once its
value is deleted.

### LcDemux, LcMux

`StartCompute`, `Enqueue` and `Returned` are the caller of `ComputeBlocking`, which holds
the computation's mutex until it waits; a worker takes a part, evaluates it and
notifies. An input stands for its own evaluation, so that `ResultsMatch` compares
what is read with what was put in. In `LcMux` clients queue batches, a mux thread
gathers them into one computation of the network below, and the results are read
back through both offsets. Either network may be destroyed at any time by its
owner, which is the part of the code that says "unstuck waiting computations". A client
that was let go so and reads its results all the same reads through a null `parent_`
(network_mux.cc:50) or past the end of `parents_` (network_demux.cc:52): undefined
behaviour, for which `NoResult` stands and which `ResultsMatch` excepts.

### SfBoard, SfNnue, SfMoveGen, SfMovePick

A board is a function from occupied squares to pieces, of any size; a bitboard is a
set of squares. `SfBoard` has two halves: `DoMove` and `UndoMove` as the code does
them, with the pieces moved one at a time and the threats listed on the way
(`DirtyThreats`), and the rules of chess (`LegalMoves`), found by making a move and
looking whether the king is attacked. `LegalMoves` and what it rests on are no
translation of any line, and `SfMoveGen` has the code they are compared with. In
`SfNnue` a sum of weights is a bag: how
often each weight entered it, by feature and network. `Evaluate` brings the top of
both stacks up to date for both perspectives as `evaluate_side` does;
`LoadNetwork` replaces the network between searches. `SfMoveGen` has the
generators, the tests and the exchange as the code has them and compares them with
the rules. In `SfMovePick` the cursors are numbers of elements, the values of moves
are chosen when a stage scores them, and the move of the table is any move or none.
In check `pseudo_legal` refuses some of the moves `generate<EVASIONS>` makes
(position.cpp:772): `Refused`. When the table has one of these, `EVASION_TT` is left
out and `select` skips the move for good; it is illegal, so nothing is lost, and
`EachMoveOnce` excepts it.
Keys and the counters of plies are left out.

## Runs

| Run | Bounds | Shows |
|---|---|---|
| `pool_safety` | 2 threads, spurious wake-ups, any command at any time | the safety properties of `SfEngine` |
| `pool_live` | 2 threads, a GUI that keeps to the protocol, fairness | stop is answered, limits end a search, the UCI thread returns to its input |
| `shm_crash` | 2 processes, 2 crashes, fairness | contents, clean-up and termination in spite of crashes and failures |
| `tasks_gpu` | 2 workers, room for 2 tasks, fairness | the task protocol |
| `search` | 2 search threads, 1 leaf besides none, 1 place among the searchers, fairness | who answers, when, and in whose tree |
| `search_held` | the same | a counterexample, see Findings |
| `tree` | 2 search threads, 12 positions, 3 openings, 3 visits or collisions at a time, 3 visits since, 2 moves | averages, bounds, visits in flight and pointers stay right |
| `cache` | 2 threads, 3 keys, capacities 0 to 2 | the table is a bounded queue, values are owned |
| `compute` | 2 clients, 2 mux and 2 demux threads, batches 1+1 and 1+3, or the demux alone; fairness | everyone gets his results, or is let go |
| `nnue` | 4x5 board, 4 roots, 3 moves and 2 evaluations in all, 2 networks | incremental sums are full sums |
| `movegen` | 4x5 board, 7 families of positions, 1 move from each | moves, checks and exchanges are those of chess |
| `picker` | 3 captures, 3 quiets, one of each refused in check, 2 and 4 values, 2 depths | each move once, the best first |

Why these bounds are enough to be of interest. Two threads are a main thread and
a helper, and every loop over helpers runs at least once; the pool is resized
between one and two threads. For more there are the theorems, which hold for any
number. With two processes one closes while the other opens; three at a time are
too many together with crashes, so that a third that scans meanwhile is not covered;
`Regions` has one more element than there are processes, as the name may refer to a
region nobody has open. Two crashes allow a crash during the recovery from a crash.
With two workers and room for two tasks the vector fills up, a worker may hold a task
while the other grabs, and both may be asleep or spinning when the counters are
reset. With two search threads and the watchdog there are three that may be the one
to print the bestmove, one of the search threads can be left behind with nothing but
a collision with the other, and with a single place among the searchers each has to
wait for the other's.

In `tree` one first move loses to a mate in one and to a tablebase win, the other
draws by a rule, by stalemate or by a repetition of two plies; the draw by rule has a
mate below it, which counts only once it is the root. The openings leave a tree in
which three nodes have visits, so that a threshold of three makes children solid,
and two changes of position go down the tree and back. In `cache` two keys share a home
at the last slot and the third has the first one: probes collide and wrap. Two
threads and two queries may have the same hash, with and without legal moves. In
`compute` a batch of three is cut into two parts of unequal size, two batches of one
are gathered if both are queued, and a batch larger than the limit is taken alone.
The boards of `nnue` have a castling king that crosses the middle, an en passant
capture, a promotion with capture and a king that stays on a slider's line;
those of `movegen` put one or two pieces on every free square, so that pins,
discovered and double checks, both kinds of castling and exchanges through X-rays all occur.
Its positions number thousands, and one move from each is enough to reach the
stored state (checkers, en passant) that the properties ask about. In `picker` the
values lie on both sides of both thresholds, and a first losing capture, a last one
and all of them occur.

Deadlock is checked in `pool_live`, `shm_crash`, the search runs, `cache`, `nnue`
and `compute`; an ended computation stutters. `pool_safety` allows a GUI that sets an
option during an infinite search: the UCI thread then waits for a search that only a
command could stop, and the system rests. The tasks run stops when the destructor has
finished, the picker when it is out of moves, `movegen` and `tree` at their bounds.

### Fairness

* `SfEngine!FairSpec`: every thread is scheduled (weak fairness of the UCI thread
  inside a handler, of each `idle_loop`, of each job and of leaving the iterations
  once `stop` is seen) and the clock runs (`CheckTime`: "elapsed > maximum", like an
  exhausted node budget, becomes true and stays so). Nothing is assumed of mates,
  fail lows, the depth a search reaches, of spurious wake-ups, or of the GUI ever
  sending anything.
* `SfShm!FairSpec`: a process inside `open()` or `close()` keeps running unless it
  crashes; the kernel does not pass over one waiter on a file lock for ever
  (Linux queues them, hence strong fairness of `Flock` and `CloseFlock`). Nobody
  counts on a lock that fails (`LockFails`).
* `LcTasks!FairSpec`: the search thread and each worker are scheduled. Which way
  the search thread goes is not constrained.
* `LcSearch!FairSpec`: the UCI thread inside a handler, the watchdog (its wait has a
  time-out of 100 ms, so nothing is assumed of notifications) and each search thread
  are scheduled; a search that is neither infinite nor pondering has a limit that is
  reached. The GUI need not send anything. Two threads contending for the one place
  among the searchers cannot starve a liveness property: whichever has it goes on.
* `LcMux!Spec`: as long as some thread of the networks, a client that waits or a
  destructor that has begun can go on, one of them does; none is ever busy without an
  end. A client need not call, and an owner need not destroy.

## What is proved

Eight components have safety properties as theorems, for every value of the
constants. Each has a module with its inductive invariant, which TLC has checked on
the instance of its run before it was proved, and a module with the proof:
`InitInv` and `Inductive` (one step per action, one per part of the invariant below
it, or one lemma per action), then the properties from the invariant. A property of
a later state is never assumed; the only assumptions are the `ASSUME`s on the
constants, and they are named here where they say more than a type.

| Component | Theorems | Of the run |
|---|---|---|
| `SfEngine` | `TypeOK`, `NoLostWakeup`, `OneAnswerPerGo`, `FramesAlive`, `PoolOwnership`, `SameRoot`, `ReportAlone`, `AnswerWhenReleased` | `pool_safety` |
| `SfShm` | `FinishedContents`, `RemovedByTheLast`, `NothingLeftBehind` | `shm_crash` |
| `LcTasks` | `TakenOnce`, `WaitedForAll` | `tasks_gpu` |
| `LcSearch` | `TreeOwnership`, `NothingInFlight`, `BestmoveWhenDue` | `search` |
| `LcMux` | `ResultsMatch` | `compute` |
| `LcMemCache` | `ValuesOwned`, `ImplementsFifo` | `cache` |
| `SfMovePick` | `EachMoveOnce`, `BestFirst` | `picker` |
| `LcTree` | `BoundsSound`, `InFlightExact`, `HeldNodesStay` | `tree` |

### SfEngine

For every `MaxThreads` and every set of `Searches`, with and without spurious
wake-ups, and for a polite and a rude GUI. The safety properties are not inductive.
That nobody touches the pool during a search depends on the UCI thread having
*waited*; that waiting means something depends on `searching[t]` being true whenever
a job is pending or running; that it goes through for every thread, and not only for
the main thread, depends on the main thread having waited for its helpers in turn.
`IInv` therefore says

* `ThreadInv`: the fields of one `Thread` agree with the place of its native thread;
* `PoolInv`: which threads exist at each station of the UCI thread;
* `CmdInv`: which command each station belongs to;
* `JobInv`, with `HelperInv`: at each station, which threads may be busy and with
  which job; while the main thread searches, which helpers may be;
* `WaiterInv`: who may be blocked on which condition variable;
* `RootInv`: which workers have run their setup job, and with which root;
* and `TypeOK`, `NoLostWakeup`, `OneAnswerPerGo` themselves.

`AnswerWhenReleased` adds `ReleaseInv`: whoever raised `stop` did so in a search
without a mate limit only after the GUI had released it, and `ponder` stays true
until then.

### SfShm

For any finite number of processes and any number of crashes between any two system
calls. `LockInv` and `CreatorInv` say that a process works on its region only while it
has the lock on the file, and that the contents are written by the creator alone and
once; `SentinelInv` relates processes on *different* regions,
which have only the directory of sentinel files in common; `NameInv` finds, as long as
nobody has left without the bookkeeping of `close`, a process that will remove the
name, and `RemoverInv` says that a process that is about to unlink the name, after
`close` or after an `open` that failed, is alone in its region. The robust mutex in the
header occurs nowhere in the proof: the file lock already gives what it is there for.

### LcTasks

For any number of workers. The invariant relates three atomics that nobody reads
together: `SumInv` counts the completed tasks, `TakenInv` gives every task taken to one
worker or to the completed ones, and `LockInv` says that the value of `tasks_taken_`
the holder of the spin lock compares with is not below the current one.
`EveryTaskTakenOnce` needs `Cardinality(Workers) <= MAX_TASKS` and states it as its
hypothesis: without it the property is false, see Findings. `AllTasksWaitedFor` does
not need it.

### LcSearch

For any number of search threads, leaves and places among the searchers. The engine
keeps no record of whether threads of a search are left; `CallsInv` finds the answer in
the calls that the handler of the command has yet to make (`todo`): a `Reset` of the
tree has a `Join` before it or comes when no thread is left. `WorkerInv` counts the
threads among the searchers and what each holds, `AnswerInv` relates the answer, its
flags and the watchdog. `BestmoveWhenDue` is an action property, proved from the
invariant of the state before the step.

### LcMux

For any numbers of threads of both networks and clients, any batch sizes, any split
size and batch limit, both backends, and destruction of either network at any time.
`ObjectsAssumption` says that there are as many computations as clients and mux
threads may refer to at once, which is to say that `new` does not fail. The first
half of the invariant follows each computation: the parts to enqueue, in the queue, in
the hands of threads and done add up to `CeilDiv(planes, partial)` (`CountInv`), and the
part added j-th holds the j-th piece of the planes whichever thread was first
(`PartInv`). The second half says who refers to a computation (`OwnerInv`, `FreeInv`,
`MuxInv`), that a client is queued once (`QueueInv`), and that the planes from its
offset on are its inputs (`ClientInv`). That the result read through both offsets is
the one asked for is then arithmetic with quotient and remainder.

### LcCache, LcMemCache

For any keys (numbers of any size), addresses, capacities, threads and batch sizes.
The proof has three layers.

* The table. `Probe`, `Put` and `CloseGap` of an arbitrary table of n slots: a probe
  ends at the entry of the key if the table has no gaps (`NoGap`: no unused slot from
  the home of an entry to the entry, around the end of the table) and at an unused slot
  otherwise; `Put` and `CloseGap` leave no gap. `CloseGap` moves entries one at a time;
  between two moves only `Bridged` holds: the one hole is the only slot that may
  interrupt a probe, and only of entries the walk has yet to come to. A table with two
  slots and one entry, where the walk comes round to the slot it began at, is a case of
  its own.
* The cache, as relations between two of its states: `Dropped(c, d, k)` (without its k
  oldest entries, of which the pinned ones are kept aside), `Joined`, `Refit` (rehashed
  at another capacity), `Repinned`, `Deleted`. Each operation is one or two of them, and
  each of them preserves `Good`: no gaps, no duplicate keys, table and queue with
  the same keys, counters that count, one owner for each value.
* The threads: `PinsOK` (pins count locks, and a lock has an entry in the table or
  aside), `OwnersOK` (a value that is not yet in the cache belongs to one computation),
  `ContentOK` (a value holds an evaluation of a position with its key).

`EveryValueOwned` follows from the invariant by counting slots and values.
`QueueImplemented` is the refinement: the queue of `LcFifoCache` is `Queue`, and each
of the five relations above says what becomes of it: `Newest`, an appended pair, or
nothing. The assumptions on the constants are that `NoEntry` and `NoLock` are no
entries and no locks, that `Threads` is finite, and that each thread has one lock
(`Holders = Threads`), as in memcache.cc.

### SfMovePick

For any lists of captures and quiets, any values of the moves, any result of SEE for
each capture, any depth, any move of the table (or none, or one that cannot be played
here), any set of evasions that `pseudo_legal` refuses, any garbage in a pointer that was not set, and quiets skipped from any moment on.
`MovesAssumption` says what the generators promise (`LegalExactly` of `SfMoveGen`, which
TLC checks): each move once, no move both a capture and a quiet; that a value is an `int`, so
none is below `Lowest`; and that no history reaches the `1 << 28` an evading capture is
given (movepick.cpp:255), which is what the code counts on there.

`EachMoveOnce` is not inductive, for it says nothing of the array. `ArrayHolds` says that
the array has every generated move once, captures in its first `Few` places and quiets
behind them, however it is sorted and swapped; `PointersFit` where the stage's pointers
are; and `Tracked` that, of the moves that are not the table's, those emitted are exactly
those in the places the stages have left behind (`Passed`, which each stage defines in its
own way: while bad captures are emitted, for instance, those are the places up to `cur`,
the captures behind the ones set aside, and the promising quiets). `Drained` is what the
last call found: no candidate. Two parts of the argument are about folds. A sort is a run
of steps each of which moves one element to its rank, so that each step, and the whole,
is a permutation (`PlaceShuffles`, `SortShuffles`); and the pass over the captures
keeps, at every place it comes to, the losing captures in front of the winning ones
(`VisitKeeps`, `SetAsideSplits`).

`BestFirst` relates two moves that were emitted at different times, while what puts them
in order, the array, is sorted in between. `OrderInv` therefore says more than it: that
every move emitted comes before every move that may still be (`WaitingLast`; a move that
is skipped need not), so that the next one may be any of these; and that the array has
them in the order they are due (`ArrayOrdered`). That order differs by stage: all of the
array in the short stages, above `-3560 * depth` only for the quiets of a main search,
and, for the captures of `GOOD_CAPTURE`, that those set aside are in order among
themselves and no worse than those ahead. `SetAsideOrders` proves the last of the loop
that swaps them, `SortOrders` the others of the sort. The value of a move is where it is
in the array, so each stage also has to keep the values of what was already emitted
(`ValuesStay`), and its class with it.

### LcTree

For every finite game in which a player without a move has not won (`Outcome`) and a rule
that ends a game with moves left makes it a draw, every tablebase that is right about it,
any evaluation, any number of threads, any threshold and any sequence of changes of position. The value of a position is defined by the game
alone (`GameValue`), its bounds in the tree by what happened to be visited.

`BoundsSound` is not inductive: `MaybeSetBounds` takes the maximum over the children a
node *has*, so it is right only if they are all the moves. `BoundsInv` says that a node has
all its children or none (`Sound`), and all of them once it has been visited and goes on,
and that below the head no node goes on where the game is over by rule (`GoesOn`);
a node whose children are released (`MakeMove`) is above the head, where nothing is asked
and `MaybeSetBounds` stops. A leaf that waits for its value, out of every mutex, has the
nodes above it extended all the time, however they become terminal or are corrected
meanwhile (`Reached`); when it is backed up it is extended itself (`Extended`). A
two-fold repetition is no bound and stays none when it is taken back
(`EnsureNodeTwoFoldCorrectForDepth`), and `BatchSound` also says that what is taken back
is held by nobody. The sum of a node that is decided must be that of its result in all of
its visits: the round of the backup loop that makes it terminal and the later ones that go
through it each have a case of their own (`Backed`).

A backup is a loop with five locals. `BackupRun` gives the tree after each round, `Round`
is what one of them does, and `BackupOneSound` that a leaf backed up leaves bounds, edges
and visits as they should be, `BackupAllSound` that a minibatch does.

`InFlightExact` is about the nodes below the root of the search. `FlightInv` adds that there
is nothing in flight elsewhere (or a later search would start on it); which stage of a
thread may hold what (`Settled`: the visits of a call and its collisions are gone when it
ends, out of order or not, and what a thread shares it no longer has); and that every collision is at a node to
which the edges still lead (`Linked`), so that a change of position, which releases what
its line does not find, resets only nodes below which no collision is left in flight. Each action then takes from the tree what it takes from the
minibatches and from the shared list: `CancelIs` for the collisions, `BackupFlight` for the
visits, which the backup removes one path at a time, and `FlightStep` for the sum over the
threads of which one has moved.

`HeldNodesStay` rests on the two tests of `CanMakeSolid`: a child with visits in flight is
not terminal and has more than one visit behind it, and what is in flight at the node is in
flight at its children. The second one finds collisions, which are in flight above a node
and not at it, unless a count below zero hides one (`HeldInv` has none): those of other
threads, of the shared list, and those the thread that backs up has itself. For the first one a
leaf in a minibatch must look as it did when it was picked, although its thread is outside
of every mutex: it is terminal, or has no visits yet and only this one in hand at or below
it, and no other thread takes it back, backs it up or comes to it a second time. What is
taken back is a two-fold repetition, which has no children (`Tidy`), so nothing below it is
held. That none ever gets any, as no position comes deeper below the head by a change of
position, is `AllTidy`, kept along a line by `LineTidy`.

### The lemmas

Where a proof would use induction over numbers it takes a least counterexample instead
(`NatMin`), as the induction theorems of the library have an operator for a parameter. A
loop is a function from the number of rounds to the state after it: that there is one,
and what its value is at each place, is a lemma in each case (`FlattenExists`,
`FoldExists`, `BackupRun`, `GameValueExists`).

### Only model-checked

* All liveness: `GoAnswered` (twice), `UciReturns`, `Returns`, `WaitReturns`, `ShutsDown`
  (twice), `CommandsReturn`, `ComputeReturns`. It is beyond the prover's temporal logic
  with `ENABLED`.
* `AverageExact` of `LcTree`. By itself it is not inductive: while a backup climbs, the
  visits and values of a node and of its children disagree by what is still to be
  added on the path, and when a two-fold repetition is taken back by what is still to be
  taken off. A proof would carry that difference through the rounds of the loop, as
  `FlightInv` is carried, and add that a node without visits has no visited children,
  that a two-fold repetition's value is zero, and that every node above a leaf in hand
  has a visit already.
* `SfNnue` and `SfMoveGen`. `SfMoveGen` plays out exchanges with a `RECURSIVE`
  operator, which the prover does not take. What `SfMoveGen` and `SfNnue` say of a whole
  board relates two computations of the same thing, and would be an induction over the
  data.

## Findings

`search_held` (lc0 search.cc:2198): a search thread whose last minibatch holds only
collisions leaves them listed in `shared_collisions_`. `position` joins the threads
and moves the tree; what the new position does not need is garbage-collected;
the next `go` destroys the old `Search`, which walks up from the freed leaves. The
comment at node.cc:247 says that the search code holds references to leaves in flight.

Seen while modelling, and left without a run:

* search.cpp:511: the comment at search.cpp:215-219 says that a pondering or infinite
  search waits for "stop" or "ponderhit". A solved mate limit raises `threads.stop`
  all the same; `AnswerWhenReleased` excepts mate limits for that reason.
* lc0 search.cc:1364: with `TaskWorkers` set to a positive number on a CPU backend
  (`RunsOnCpu = TRUE` in `LcTasks`), the workers are not woken for the processing
  stage and `WaitForTasks` spins for ever: `WaitReturns` fails.
* The same line does not look at the reservation of the task vector: with more than
  100 task workers (`Workers` larger than `MAX_TASKS`) the vector may be reallocated
  under the pointers the workers hold, and `TakenOnce` fails.
* lc0 engine.cc:243: with pondering enabled `go` sets the position of the tree again, and
  does not stop the search before as `position` and `ponderhit` do. A GUI that waits for
  the bestmove, as it should, and sends `go` again without `position` has the tree changed
  under threads that have not ended yet: without the guard of `ReadGo`, TLC finds
  `TreeOwnership` violated. The comment at search/search.h:59 says that `SetPosition` sets
  the position of "future searches".
* shm_linux.h:261: a process that opens a region between the `shm_open` and the `flock` of
  its creator may get the lock first. It finds an empty file, takes it for that of a
  process that died, unlinks its name and makes another one. Two processes that start
  together may thus go on with finished contents, each in a region of its own; and an
  orphan's `close()` may later unlink the name of the other's region. The comment at
  shm.h:188 says that the value "is deduplicated system-wide (for the single user)"; it
  stands at the first of the three definitions of `SharedMemoryBackend`, the one for
  Windows, and the one for Linux (shm.h:412) has no other.

## Not modelled

The parts listed as `not_modelled` in `PROJECT.json`, each with its reason. They are
most of the repository's lines: the network backends (CUDA, SYCL, OpenCL, ONNX, XLA)
are numerics and vendor libraries, the DAG search repeats the classic one, the rest
decodes files (tablebases, networks, training data), parses options and logs, or is
heuristic with no right or wrong result (search below the root, history, time
formulas, stoppers). None of it has a state a model would say something about.
Self-play is the part left out that would deserve a model: its threads, openings and
games, and the races of `Abort` listed among the hazards. Stockfish's transposition
table accepts torn entries by design; the models that read moves from it take any.

Signals that arrive inside `open()` or `close()` of the shared memory, or while its
registry is locked, are not modelled, nor reuse of a pid by an unrelated process. In
`LcSearch`'s `Spec` a GUI that has pondering enabled, or has pressed `ClearTree`, sends
`position` before `go` (`ReadGo`), and the properties of run `search` and the theorems
hold of such a GUI only: a second `go` without a position moves the tree under the threads
of the first search (engine.cc:243, and wrapper.cc:114 by reading), see Findings. In
`LcTree` the choice of leaves by policy, the thread that frees what was released and `current_best_edge_` are
left out; in `SfBoard` keys, repetitions and the fifty-move counter.

## Plan

What is left is the proof of `AverageExact` of `LcTree`, along the lines given under
"Only model-checked".
