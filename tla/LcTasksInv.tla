----------------------------- MODULE LcTasksInv -----------------------------
(***************************************************************************)
(* The inductive invariant behind the safety properties of LcTasks.        *)
(*                                                                         *)
(* The search thread stores task_count_, tasks_taken_ and completed_tasks_ *)
(* one after the other, and the workers read them without a lock.  What    *)
(* holds it together: every task taken is counted as completed or has a    *)
(* worker, and the holder of the spin lock never compares with a value of  *)
(* tasks_taken_ below the current one.                                     *)
(***************************************************************************)
EXTENDS LcTasks

\* The places between taking the spin lock and releasing it.
Locked == {"recheck", "recompare", "fetch", "unlock"}

\* The stations at which tasks may be added, taken and worked on.
Filling == {"gather", "wait", "waitCount", "split"}

\* What the search thread has stored in task_count_, station by station.
CountInv ==
    /\ at \in Filling \cup {"collect", "next"} => task_count = Len(tasks)
    /\ at \in {"iterate", "exit", "join", "done"} => task_count = -1
    /\ at = "reset" => task_count \in {-1, Len(tasks)}
    /\ at \in {"resetTaken", "clear", "wake"} => task_count = 0
    /\ at = "waitCount" => seen <= completed
    /\ at = "wake" => tasks = << >>
    /\ toSplit <= Cardinality(Workers)
    /\ at = "split" => stage = "process" /\ Len(tasks) + toSplit <= Cardinality(Workers)

\* At most one worker has the spin lock, and what it has read is not too small.
LockInv ==
    /\ taking <=> \E w \in Workers : pc[w] \in Locked
    /\ \A v, w \in Workers : pc[v] \in Locked /\ pc[w] \in Locked => v = w
    /\ \A w \in Workers :
          /\ pc[w] = "recompare" => tasks_taken <= nta[w]
          /\ pc[w] = "fetch" => at \in Filling /\ tasks_taken < task_count

\* Every task taken is complete or in the hands of one worker.
TakenInv ==
    /\ \A w \in Busy : id[w] < tasks_taken /\ \A v \in Busy : v # w => id[v] # id[w]
    /\ \A i \in 1 .. tasks_taken :
          tasks[i] \/ \E w \in Workers : pc[w] \in {"unlock", "work"} /\ id[w] + 1 = i

\* The counters agree with the tasks, except while the search thread resets them.
SumInv ==
    /\ tasks_taken <= Len(tasks)
    /\ at # "clear" => tasks_taken = completed + Cardinality(Busy)
    /\ at \notin Filling \cup {"clear"} => tasks_taken = Len(tasks)
    /\ at = "clear" => tasks_taken = 0
    /\ at \notin Filling => Busy = {} /\ \A i \in 1 .. Len(tasks) : tasks[i]

IInv ==
    /\ TypeOK
    /\ CountInv
    /\ LockInv
    /\ TakenInv
    /\ SumInv
=============================================================================
