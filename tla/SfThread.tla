------------------------------ MODULE SfThread ------------------------------
(***************************************************************************)
(* Stockfish's Thread objects (thread.cpp, thread.h): a native thread that *)
(* is parked in idle_loop() and runs one job at a time, handed over under  *)
(* a mutex and ONE condition variable shared by the parked thread and by   *)
(* everybody who waits for the thread to finish.                           *)
(*                                                                         *)
(* Each critical section of the mutex is one action.  cv[t] is the set of  *)
(* roles blocked in cv.wait of thread t; notify_one takes one of them out, *)
(* whichever it is, and the one taken out evaluates its predicate again.   *)
(***************************************************************************)
EXTENDS Integers, FiniteSets

CONSTANTS
    MaxThreads,      \* upper limit of the Threads option
    SpuriousWakeups  \* whether cv.wait may return without a notification

ASSUME MaxThreadsAssumption == MaxThreads \in Nat \ {0}
ASSUME SpuriousAssumption == SpuriousWakeups \in BOOLEAN

Tid == 0 .. (MaxThreads - 1)
Main == 0                            \* threads.front()

\* Who may sit in cv.wait: the parked thread itself, the UCI thread, or the
\* main search thread (on the helpers only).
Roles == {"owner", "uci", "main"}

\* "search" is worker->start_searching(), "clear" worker->clear(), "setup" the
\* lambda of start_thinking, "zero" the lambda of TranspositionTable::clear,
\* "build" the lambda of the Thread constructor.
Jobs == {"build", "clear", "setup", "zero", "search"}
NoJob == "none"

\* Where the native thread is.  "absent": there is no such Thread; "idle": about to
\* lock in idle_loop; "parked": in cv.wait; "run": a job was just taken; "dead":
\* idle_loop returned.  The others are places inside the search job.
SearchPlaces == {"helper", "helperNotify", "iterate", "busyWait", "helperJoin", "report"}
Places == {"absent", "idle", "parked", "run", "dead"} \cup SearchPlaces

VARIABLES
    searching,   \* Thread::searching
    jobFunc,     \* Thread::jobFunc
    exit,        \* Thread::exit
    cv,          \* the roles blocked on Thread::cv
    place,       \* the program counter of the native thread
    job          \* the job it is running

threadVars == <<searching, jobFunc, exit, cv, place, job>>

ThreadTypeOK ==
    /\ searching \in [Tid -> BOOLEAN]
    /\ jobFunc \in [Tid -> Jobs \cup {NoJob}]
    /\ exit \in [Tid -> BOOLEAN]
    /\ cv \in [Tid -> SUBSET Roles]
    /\ place \in [Tid -> Places]
    /\ job \in [Tid -> Jobs \cup {NoJob}]

ThreadInit ==
    /\ searching = [t \in Tid |-> FALSE]
    /\ jobFunc = [t \in Tid |-> NoJob]
    /\ exit = [t \in Tid |-> FALSE]
    /\ cv = [t \in Tid |-> {}]
    /\ place = [t \in Tid |-> "absent"]
    /\ job = [t \in Tid |-> NoJob]

-----------------------------------------------------------------------------
(* What other threads do with thread t.                                    *)

\* What notify_one leaves of the set W of blocked roles: one of them goes.
Notified(W) == IF W = {} THEN {{}} ELSE {W \ {r} : r \in W}

\* cv.notify_one() outside the mutex.
NotifyOne(t) ==
    /\ \E W \in Notified(cv[t]) : cv' = [cv EXCEPT ![t] = W]
    /\ UNCHANGED <<searching, jobFunc, exit, place, job>>

\* cv.wait(lk, !searching) goes through: role r is not blocked and the
\* predicate holds.
Finished(r, t) == r \notin cv[t] /\ ~searching[t]

\* cv.wait(lk, !searching) blocks role r.
Block(r, t) ==
    /\ r \notin cv[t]
    /\ searching[t]
    /\ cv' = [cv EXCEPT ![t] = @ \cup {r}]
    /\ UNCHANGED <<searching, jobFunc, exit, place, job>>

\* The critical section of run_custom_job(j), called by role r once the wait at
\* its head goes through; the caller still owes a NotifyOne(t).
PostJob(r, t, j) ==
    /\ Finished(r, t)
    /\ jobFunc' = [jobFunc EXCEPT ![t] = j]
    /\ searching' = [searching EXCEPT ![t] = TRUE]
    /\ UNCHANGED <<cv, job>>

\* std::thread starts in idle_loop; searching is TRUE from the initializer.
Launch(t) ==
    /\ place[t] = "absent"
    /\ searching' = [searching EXCEPT ![t] = TRUE]
    /\ jobFunc' = [jobFunc EXCEPT ![t] = NoJob]
    /\ exit' = [exit EXCEPT ![t] = FALSE]
    /\ place' = [place EXCEPT ![t] = "idle"]
    /\ UNCHANGED <<cv, job>>

\* stdThread.join(), after which the object is gone.
Join(t) ==
    /\ place[t] = "dead"
    /\ place' = [place EXCEPT ![t] = "absent"]
    /\ jobFunc' = [jobFunc EXCEPT ![t] = NoJob]
    /\ searching' = [searching EXCEPT ![t] = FALSE]
    /\ cv' = [cv EXCEPT ![t] = {}]
    /\ exit' = [exit EXCEPT ![t] = FALSE]
    /\ UNCHANGED job

-----------------------------------------------------------------------------
(* idle_loop of thread t.                                                  *)

\* Variant: the notification at the head of idle_loop is missing.
Park_NoNotify(t) ==
    /\ place[t] = "idle"
    /\ searching' = [searching EXCEPT ![t] = FALSE]
    /\ cv' = [cv EXCEPT ![t] = @ \cup {"owner"}]
    /\ place' = [place EXCEPT ![t] = "parked"]
    /\ UNCHANGED <<jobFunc, exit, job>>

\* Head of the loop: searching = false, wake one waiter, and wait.
Park(t) ==
    /\ place[t] = "idle"
    /\ searching' = [searching EXCEPT ![t] = FALSE]
    /\ \E W \in Notified(cv[t]) : cv' = [cv EXCEPT ![t] = W \cup {"owner"}]
    /\ place' = [place EXCEPT ![t] = "parked"]
    /\ UNCHANGED <<jobFunc, exit, job>>

\* Woken, but nothing to do: wait again.
ParkAgain(t) ==
    /\ place[t] = "parked" /\ "owner" \notin cv[t]
    /\ ~searching[t]
    /\ cv' = [cv EXCEPT ![t] = @ \cup {"owner"}]
    /\ UNCHANGED <<searching, jobFunc, exit, place, job>>

\* Woken to terminate: `if (exit) return`.
Leave(t) ==
    /\ place[t] = "parked" /\ "owner" \notin cv[t]
    /\ searching[t] /\ exit[t]
    /\ place' = [place EXCEPT ![t] = "dead"]
    /\ UNCHANGED <<searching, jobFunc, exit, cv, job>>

\* Woken to run a job, which is moved out of jobFunc before the unlock.
TakeJob(t) ==
    /\ place[t] = "parked" /\ "owner" \notin cv[t]
    /\ searching[t] /\ ~exit[t]
    /\ job' = [job EXCEPT ![t] = jobFunc[t]]
    /\ jobFunc' = [jobFunc EXCEPT ![t] = NoJob]
    /\ place' = [place EXCEPT ![t] = "run"]
    /\ UNCHANGED <<searching, exit, cv>>

\* job() returned: back to the head of the loop.
JobDone(t) ==
    /\ place' = [place EXCEPT ![t] = "idle"]
    /\ job' = [job EXCEPT ![t] = NoJob]

\* cv.wait may return for no reason.
Spurious(t) ==
    /\ SpuriousWakeups
    /\ \E r \in cv[t] : cv' = [cv EXCEPT ![t] = @ \ {r}]
    /\ UNCHANGED <<searching, jobFunc, exit, place, job>>
=============================================================================
