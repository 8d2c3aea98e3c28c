------------------------------ MODULE LcTasks ------------------------------
(***************************************************************************)
(* The helpers of one lc0 search thread (SearchWorker in                   *)
(* search/classic/search.cc): task workers that pick leaves of the tree    *)
(* and prepare their evaluation, fed through a vector of tasks and four    *)
(* atomic counters that the workers spin on.  Between iterations, while    *)
(* task_count_ is -1, the workers sleep on a condition variable.           *)
(*                                                                         *)
(* An access to an atomic is one action; so is a critical section of       *)
(* picking_tasks_mutex_.  What a task does to the tree is left out.        *)
(***************************************************************************)
EXTENDS Integers, Sequences, FiniteSets

CONSTANTS
    Workers,     \* the task workers, task_workers_ of them
    MAX_TASKS,   \* reserved capacity of picking_tasks_
    RunsOnCpu    \* backend_attributes_.runs_on_cpu

ASSUME WorkersAssumption == IsFiniteSet(Workers)
ASSUME CapacityAssumption == MAX_TASKS \in Nat \ {0}
ASSUME CpuAssumption == RunsOnCpu \in BOOLEAN

VARIABLES
    task_count,      \* task_count_
    tasks_taken,     \* tasks_taken_
    completed,       \* completed_tasks_
    taking,          \* task_taking_started_, the spin lock
    tasks,           \* picking_tasks_, whether each one is complete
    exiting,         \* exiting_
    asleep,          \* the workers blocked on task_added_
    at,              \* the search thread's place
    stage,           \* what it waits for: the picking or the processing of leaves
    seen,            \* the value of completed_tasks_ WaitForTasks has read
    toSplit,         \* tasks of the processing stage still to be added
    pc,              \* per worker, its place
    nta,             \* per worker, the value of tasks_taken_ it has read
    id               \* per worker, the index of its task

shared == <<task_count, tasks_taken, completed, taking, tasks, exiting, asleep>>
mine == <<at, stage, seen, toSplit>>
locals == <<pc, nta, id>>
vars == <<shared, mine, locals>>

MaxLen == IF Cardinality(Workers) > MAX_TASKS THEN Cardinality(Workers) ELSE MAX_TASKS

Stations == {"iterate", "reset", "resetTaken", "clear", "wake", "gather", "wait", "waitCount",
             "collect", "split", "next", "exit", "join", "done"}
WorkerPlaces == {"look", "compare", "grab", "recheck", "recompare", "fetch", "unlock", "work",
                 "count", "sleep", "asleep", "gone"}

TypeOK ==
    /\ task_count \in -1 .. MaxLen
    /\ tasks_taken \in 0 .. MaxLen
    /\ completed \in 0 .. MaxLen
    /\ taking \in BOOLEAN /\ exiting \in BOOLEAN
    /\ tasks \in Seq(BOOLEAN) /\ Len(tasks) <= MaxLen
    /\ asleep \subseteq Workers
    /\ at \in Stations /\ stage \in {"pick", "process"}
    /\ seen \in 0 .. MaxLen
    /\ toSplit \in 0 .. MaxLen
    /\ pc \in [Workers -> WorkerPlaces]
    /\ nta \in [Workers -> 0 .. MaxLen]
    /\ id \in [Workers -> 0 .. MaxLen]

Init ==
    /\ task_count = -1 /\ tasks_taken = 0 /\ completed = 0
    /\ taking = FALSE /\ exiting = FALSE
    /\ tasks = << >>
    /\ asleep = {}
    /\ at = "iterate" /\ stage = "pick" /\ seen = 0 /\ toSplit = 0
    /\ pc = [w \in Workers |-> "look"]
    /\ nta = [w \in Workers |-> 0]
    /\ id = [w \in Workers |-> 0]

-----------------------------------------------------------------------------
(* The search thread: SearchWorker::ExecuteOneIteration.                   *)

\* GatherMinibatch calls PickNodesToExtend, as often as the minibatch has room.
BeginPicking ==
    /\ at \in {"iterate", "next"}
    /\ at' = "reset" /\ stage' = "pick"
    /\ UNCHANGED <<shared, seen, toSplit, locals>>

\* ResetTasks stores one counter after the other.
Reset ==
    /\ at = "reset"
    /\ task_count' = 0
    /\ at' = "resetTaken"
    /\ UNCHANGED <<tasks_taken, completed, taking, tasks, exiting, asleep, stage, seen, toSplit,
                   locals>>

ResetTaken ==
    /\ at = "resetTaken"
    /\ tasks_taken' = 0
    /\ at' = "clear"
    /\ UNCHANGED <<task_count, completed, taking, tasks, exiting, asleep, stage, seen, toSplit,
                   locals>>

Clear ==
    /\ at = "clear"
    /\ completed' = 0 /\ tasks' = << >>
    /\ at' = IF stage = "pick" THEN "wake" ELSE "split"
    /\ UNCHANGED <<task_count, tasks_taken, taking, exiting, asleep, stage, seen, toSplit, locals>>

\* PickNodesToExtend wakes the workers, unless the backend needs the CPU.
WakeWorkers ==
    /\ at = "wake"
    /\ asleep' = IF RunsOnCpu THEN asleep ELSE {}
    /\ at' = "gather"
    /\ UNCHANGED <<task_count, tasks_taken, completed, taking, tasks, exiting, stage, seen,
                   toSplit, locals>>

\* PickNodesToExtendTask hands over a part of the tree, while there is room.
PassOff ==
    /\ Workers # {} /\ Len(tasks) < MAX_TASKS
    /\ tasks' = Append(tasks, FALSE)
    /\ task_count' = task_count + 1
    /\ asleep' = {}
    /\ UNCHANGED <<tasks_taken, completed, taking, exiting, mine, locals>>

Gather == at = "gather" /\ PassOff

Gathered == at = "gather" /\ at' = "wait" /\ UNCHANGED <<shared, stage, seen, toSplit, locals>>

\* WaitForTasks reads completed_tasks_ first ...
Wait ==
    /\ at = "wait"
    /\ seen' = completed
    /\ at' = "waitCount"
    /\ UNCHANGED <<shared, stage, toSplit, locals>>

\* ... and compares it with task_count_.
WaitCount ==
    /\ at = "waitCount"
    /\ at' = IF task_count # seen THEN "wait" ELSE IF stage = "pick" THEN "collect" ELSE "next"
    /\ UNCHANGED <<shared, stage, seen, toSplit, locals>>

\* The results are in the minibatch; enough of them are worth splitting up, between
\* the workers and the search thread itself.
Split ==
    /\ at = "collect"
    /\ \/ /\ toSplit' \in 1 .. Cardinality(Workers)
          /\ at' = "reset" /\ stage' = "process"
       \/ at' = "next" /\ UNCHANGED <<stage, toSplit>>
    /\ UNCHANGED <<shared, seen, locals>>

\* GatherMinibatch adds the tasks of the processing stage.
AddProcessing ==
    /\ at = "split" /\ toSplit > 0
    /\ tasks' = Append(tasks, FALSE)
    /\ task_count' = task_count + 1
    /\ toSplit' = toSplit - 1
    /\ UNCHANGED <<tasks_taken, completed, taking, exiting, asleep, at, stage, seen, locals>>

\* The search thread has processed its own share.
ShareDone ==
    /\ at = "split" /\ toSplit = 0
    /\ at' = "wait"
    /\ UNCHANGED <<shared, stage, seen, toSplit, locals>>

\* The minibatch is complete: the workers may sleep until the next iteration.
EndIteration ==
    /\ at = "next"
    /\ task_count' = -1
    /\ at' = "iterate"
    /\ UNCHANGED <<tasks_taken, completed, taking, tasks, exiting, asleep, stage, seen, toSplit,
                   locals>>

\* ~SearchWorker: task_count_ is -1 ...
StartExit ==
    /\ at = "iterate"
    /\ task_count' = -1
    /\ at' = "exit"
    /\ UNCHANGED <<tasks_taken, completed, taking, tasks, exiting, asleep, stage, seen, toSplit,
                   locals>>

\* Variant: the destructor leaves the workers asleep.
Exit_NoNotify ==
    /\ at = "exit"
    /\ exiting' = TRUE
    /\ at' = "join"
    /\ UNCHANGED <<task_count, tasks_taken, completed, taking, tasks, asleep, stage, seen, toSplit,
                   locals>>

\* ... then, under the mutex, exiting_ and a notification ...
Exit ==
    /\ at = "exit"
    /\ exiting' = TRUE /\ asleep' = {}
    /\ at' = "join"
    /\ UNCHANGED <<task_count, tasks_taken, completed, taking, tasks, stage, seen, toSplit, locals>>

\* ... and every worker is joined.
Join ==
    /\ at = "join"
    /\ \A w \in Workers : pc[w] = "gone"
    /\ at' = "done"
    /\ UNCHANGED <<shared, stage, seen, toSplit, locals>>

-----------------------------------------------------------------------------
(* A task worker: SearchWorker::RunTasks.                                  *)

Goto(w, p) == pc' = [pc EXCEPT ![w] = p]

ReadTaken(w, p, q) ==
    /\ pc[w] = p
    /\ nta' = [nta EXCEPT ![w] = tasks_taken]
    /\ Goto(w, q)
    /\ UNCHANGED <<shared, mine, id>>

Look(w) == ReadTaken(w, "look", "compare")

Compare(w) ==
    /\ pc[w] = "compare"
    /\ Goto(w, IF nta[w] < task_count THEN "grab" ELSE IF task_count # -1 THEN "look" ELSE "sleep")
    /\ UNCHANGED <<shared, mine, nta, id>>

\* Variant: the counters are not read again under the spin lock.
Grab_NoRecheck(w) ==
    /\ pc[w] = "grab"
    /\ taking' = TRUE
    /\ Goto(w, IF taking THEN "look" ELSE "fetch")
    /\ UNCHANGED <<task_count, tasks_taken, completed, tasks, exiting, asleep, mine, nta, id>>

\* The compare-exchange that takes the spin lock.
Grab(w) ==
    /\ pc[w] = "grab"
    /\ taking' = TRUE
    /\ Goto(w, IF taking THEN "look" ELSE "recheck")
    /\ UNCHANGED <<task_count, tasks_taken, completed, tasks, exiting, asleep, mine, nta, id>>

Recheck(w) == ReadTaken(w, "recheck", "recompare")

Recompare(w) ==
    /\ pc[w] = "recompare"
    /\ IF nta[w] < task_count THEN Goto(w, "fetch") /\ UNCHANGED taking
                              ELSE Goto(w, "look") /\ taking' = FALSE
    /\ UNCHANGED <<task_count, tasks_taken, completed, tasks, exiting, asleep, mine, nta, id>>

\* Variant: the task counts as completed as soon as it is taken.
Fetch_CountsEarly(w) ==
    /\ pc[w] = "fetch"
    /\ id' = [id EXCEPT ![w] = tasks_taken]
    /\ tasks_taken' = tasks_taken + 1
    /\ completed' = completed + 1
    /\ Goto(w, "unlock")
    /\ UNCHANGED <<task_count, taking, tasks, exiting, asleep, mine, nta>>

Fetch(w) ==
    /\ pc[w] = "fetch"
    /\ id' = [id EXCEPT ![w] = tasks_taken]
    /\ tasks_taken' = tasks_taken + 1
    /\ Goto(w, "unlock")
    /\ UNCHANGED <<task_count, completed, taking, tasks, exiting, asleep, mine, nta>>

Unlock(w) ==
    /\ pc[w] = "unlock"
    /\ taking' = FALSE
    /\ Goto(w, "work")
    /\ UNCHANGED <<task_count, tasks_taken, completed, tasks, exiting, asleep, mine, nta, id>>

\* A picking task may pass on a part of its own.
PassOn(w) == pc[w] = "work" /\ stage = "pick" /\ PassOff

Work(w) ==
    /\ pc[w] = "work"
    /\ tasks' = [tasks EXCEPT ![id[w] + 1] = TRUE]
    /\ Goto(w, "count")
    /\ UNCHANGED <<task_count, tasks_taken, completed, taking, exiting, asleep, mine, nta, id>>

Count(w) ==
    /\ pc[w] = "count"
    /\ completed' = completed + 1
    /\ Goto(w, "look")
    /\ UNCHANGED <<task_count, tasks_taken, taking, tasks, exiting, asleep, mine, nta, id>>

\* Variant: task_count_ is not read again under the mutex.
Sleep_NoRecheck(w) ==
    /\ pc[w] = "sleep"
    /\ IF exiting THEN Goto(w, "gone") /\ UNCHANGED asleep
                  ELSE Goto(w, "asleep") /\ asleep' = asleep \cup {w}
    /\ UNCHANGED <<task_count, tasks_taken, completed, taking, tasks, exiting, mine, nta, id>>

\* Under the mutex: sleep, unless something has changed since.
Sleep(w) ==
    /\ pc[w] = "sleep"
    /\ \/ task_count # -1 /\ Goto(w, "look") /\ UNCHANGED asleep
       \/ task_count = -1 /\ exiting /\ Goto(w, "gone") /\ UNCHANGED asleep
       \/ task_count = -1 /\ ~exiting /\ Goto(w, "asleep") /\ asleep' = asleep \cup {w}
    /\ UNCHANGED <<task_count, tasks_taken, completed, taking, tasks, exiting, mine, nta, id>>

Wake(w) ==
    /\ pc[w] = "asleep" /\ w \notin asleep
    /\ Goto(w, IF tasks_taken >= task_count /\ exiting THEN "gone" ELSE "look")
    /\ UNCHANGED <<shared, mine, nta, id>>

Spurious(w) ==
    /\ w \in asleep
    /\ asleep' = asleep \ {w}
    /\ UNCHANGED <<task_count, tasks_taken, completed, taking, tasks, exiting, mine, locals>>

-----------------------------------------------------------------------------
\* What the search thread does next is up to the search; that it goes on is not.
Search ==
    \/ BeginPicking \/ Reset \/ ResetTaken \/ Clear \/ WakeWorkers \/ Gather \/ Gathered
    \/ Wait \/ WaitCount \/ Split \/ AddProcessing \/ ShareDone \/ EndIteration
    \/ StartExit \/ Exit \/ Join

RunTasks(w) ==
    \/ Look(w) \/ Compare(w) \/ Grab(w) \/ Recheck(w) \/ Recompare(w) \/ Fetch(w) \/ Unlock(w)
    \/ PassOn(w) \/ Work(w) \/ Count(w) \/ Sleep(w) \/ Wake(w)

Next == Search \/ \E w \in Workers : RunTasks(w) \/ Spurious(w)

Spec == Init /\ [][Next]_vars

Fairness == WF_vars(Search) /\ \A w \in Workers : WF_vars(RunTasks(w))

FairSpec == Spec /\ Fairness

-----------------------------------------------------------------------------
(* Properties.                                                             *)

\* The workers that hold a task.
Busy == {w \in Workers : pc[w] \in {"unlock", "work", "count"}}

\* The pointer a worker holds refers to its own task: none is taken twice, and none that
\* has not been added, although the counters the workers compare are stored one by one
\* under their feet; and the vector has not been reallocated ("Reserve because resizing
\* breaks pointers held by the task threads").
TakenOnce ==
    /\ Len(tasks) <= MAX_TASKS
    /\ \A w \in Busy : /\ id[w] < Len(tasks)
                       /\ \A v \in Busy : v # w => id[v] # id[w]

\* Past WaitForTasks, when the search thread reads the results, clears the vector or
\* releases the tree lock the workers rely on, every task is complete and no worker
\* holds one.
WaitedForAll ==
    at \in {"iterate", "reset", "resetTaken", "clear", "wake", "collect", "next",
            "exit", "join", "done"} =>
        /\ Busy = {}
        /\ at \notin {"reset", "resetTaken", "clear"} => \A i \in 1 .. Len(tasks) : tasks[i]

\* "Spin lock, other tasks should be done soon": WaitForTasks returns.
WaitReturns == at \in {"wait", "waitCount"} ~> at \in {"collect", "next"}

\* The destructor gets all its threads back.
ShutsDown == at = "exit" ~> at = "done"
=============================================================================
