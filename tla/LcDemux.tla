------------------------------ MODULE LcDemux ------------------------------
(***************************************************************************)
(* The demultiplexing network of lc0, neural/backends/network_demux.cc: a  *)
(* computation is cut into parts, each part is put on a queue, and worker  *)
(* threads evaluate the parts on the networks behind it, in any order. The *)
(* results are read back through the order in which the workers took the   *)
(* parts.                                                                  *)
(*                                                                         *)
(* A computation holds its own mutex from the moment it enqueues its first *)
(* part until it waits, so workers cannot touch it before that; the queue  *)
(* has the mutex of the network. One step is one critical section. The     *)
(* networks behind give every input its evaluation, so which of them a     *)
(* worker uses is left out, and an input stands for its evaluation.        *)
(***************************************************************************)
EXTENDS Integers, Sequences, SequencesExt, FiniteSetsExt

CONSTANTS
    Computations,       \* the DemuxingComputation objects
    Threads,            \* the threads_ of the DemuxingNetwork
    MinimumSplitSize,   \* the option minimum-split-size
    NoComputation       \* no object

ASSUME DemuxAssumption ==
    /\ IsFiniteSet(Threads)
    /\ Threads # {}
    /\ MinimumSplitSize \in Nat
    /\ NoComputation \notin Computations

VARIABLES
    comp,       \* the fields of each computation, and where its caller is
    queue,      \* queue_: one element for each part nobody has taken
    abort,      \* abort_
    worker,     \* where each thread is, with the part it works on
    sleeping,   \* the threads that wait for cv_ and have not been notified
    owner       \* where the destructor is

demuxVars == <<comp, queue, abort, worker, sleeping, owner>>

NewComputation ==
    [at |-> "new", planes |-> <<>>, partial |-> 0, toQueue |-> 0,
     dataready |-> 0, notified |-> FALSE, parents |-> <<>>]

DemuxInit ==
    /\ comp = [k \in Computations |-> NewComputation]
    /\ queue = <<>>
    /\ abort = FALSE
    /\ worker = [t \in Threads |->
                    [at |-> "lock", comp |-> NoComputation, part |-> 0]]
    /\ sleeping = {}
    /\ owner = "alive"

CeilDiv(a, b) == (a + b - 1) \div b

\* How many inputs go into one part of a batch of n.
PartialSize(n) ==
    LET even == CeilDiv(n, Cardinality(Threads))
    IN  IF even < MinimumSplitSize THEN Min({n, MinimumSplitSize}) ELSE even

(***************************************************************************)
(* The caller of ComputeBlocking.                                          *)
(***************************************************************************)
StartCompute(planes) ==
    LET n == Len(planes)
    IN  IF n = 0 THEN [NewComputation EXCEPT !.at = "done"]
        ELSE [NewComputation EXCEPT !.at = "enqueue",
                                    !.planes = planes,
                                    !.partial = PartialSize(n),
                                    !.toQueue = CeilDiv(n, PartialSize(n)),
                                    !.dataready = CeilDiv(n, PartialSize(n))]

\* notify_one wakes one of those that wait, if there are any.
NotifyOne ==
    IF sleeping = {} THEN UNCHANGED sleeping
    ELSE \E t \in sleeping : sleeping' = sleeping \ {t}

\* After the last part the caller waits and so lets go of its mutex.
Enqueue(k) ==
    /\ comp[k].at = "enqueue"
    /\ queue' = Append(queue, k)
    /\ NotifyOne
    /\ comp' = [comp EXCEPT ![k].toQueue = @ - 1,
                            ![k].at = IF comp[k].toQueue = 1 THEN "wait" ELSE @]
    /\ UNCHANGED <<abort, worker, owner>>

\* dataready_cv_.wait lets its caller go.
Returned(k) ==
    \/ comp[k].at = "done"
    \/ comp[k].at = "wait" /\ comp[k].notified /\ comp[k].dataready = 0

\* NotifyComplete, under the mutex of the computation.
Completed(c) ==
    [c EXCEPT !.dataready = @ - 1, !.notified = @ \/ c.dataready = 1]

(***************************************************************************)
(* The worker threads.                                                     *)
(***************************************************************************)
Goto(t, place) == worker' = [worker EXCEPT ![t].at = place]

\* cv_.wait: the thread blocks unless aborted or there is something to do. The
\* test of abort_ without the mutex, before it, decides nothing else.
Wait(t) ==
    /\ worker[t].at \in {"lock", "asleep"}
    /\ t \notin sleeping
    /\ IF abort THEN Goto(t, "exited") /\ UNCHANGED sleeping
       ELSE IF queue # <<>> THEN Goto(t, "drain") /\ UNCHANGED sleeping
       ELSE Goto(t, "asleep") /\ sleeping' = sleeping \cup {t}
    /\ UNCHANGED <<comp, queue, abort, owner>>

\* The inner loop takes parts until the queue is empty, aborted or not.
TakePart(t) ==
    /\ worker[t].at = "drain"
    /\ IF queue = <<>>
       THEN Goto(t, "lock") /\ UNCHANGED queue
       ELSE /\ worker' = [worker EXCEPT ![t].at = "add", ![t].comp = Head(queue)]
            /\ queue' = Tail(queue)
    /\ UNCHANGED <<comp, abort, sleeping, owner>>

\* AddParentFromNetwork: the next part of the computation, in the order of
\* arrival, goes to a new computation of a network.
AddParent(t) ==
    LET k == worker[t].comp
        first == Len(comp[k].parents) * comp[k].partial + 1
        last == Min({Len(comp[k].planes), first + comp[k].partial - 1})
    IN  /\ worker[t].at = "add"
        /\ comp[k].at # "enqueue"
        /\ comp' = [comp EXCEPT ![k].parents =
                Append(@, [inputs |-> SubSeq(comp[k].planes, first, last),
                           computed |-> FALSE])]
        /\ worker' = [worker EXCEPT ![t].at = "compute",
                                    ![t].part = Len(comp[k].parents) + 1]
        /\ UNCHANGED <<queue, abort, sleeping, owner>>

\* The network has computed the part (ComputeBlocking): NotifyComplete.
Compute(t) ==
    LET k == worker[t].comp
    IN  /\ worker[t].at = "compute"
        /\ comp' = [comp EXCEPT
              ![k] = Completed([@ EXCEPT !.parents[worker[t].part].computed = TRUE])]
        /\ worker' = [worker EXCEPT
                ![t] = [at |-> "drain", comp |-> NoComputation, part |-> 0]]
        /\ UNCHANGED <<queue, abort, sleeping, owner>>

(***************************************************************************)
(* The destructor: Abort, Wait for the threads, and NotifyComplete for     *)
(* each part nobody has taken. Whoever owns the network destroys it only   *)
(* while no caller is still enqueueing.                                    *)
(***************************************************************************)
\* Variant: Abort does not notify the threads.
DemuxAbort_Silent ==
    /\ owner = "alive"
    /\ \A k \in Computations : comp[k].at # "enqueue"
    /\ owner' = "joining"
    /\ abort' = TRUE
    /\ UNCHANGED <<comp, queue, worker, sleeping>>

DemuxAbort ==
    /\ owner = "alive"
    /\ \A k \in Computations : comp[k].at # "enqueue"
    /\ owner' = "joining"
    /\ abort' = TRUE
    /\ sleeping' = {}
    /\ UNCHANGED <<comp, queue, worker>>

DemuxJoined ==
    /\ owner = "joining"
    /\ \A t \in Threads : worker[t].at = "exited"
    /\ owner' = "unstuck"
    /\ UNCHANGED <<comp, queue, abort, worker, sleeping>>

DemuxUnstuck ==
    /\ owner = "unstuck"
    /\ IF queue = <<>>
       THEN owner' = "gone" /\ UNCHANGED <<comp, queue>>
       ELSE /\ comp' = [comp EXCEPT ![Head(queue)] = Completed(@)]
            /\ queue' = Tail(queue)
            /\ UNCHANGED owner
    /\ UNCHANGED <<abort, worker, sleeping>>

Destructor == DemuxAbort \/ DemuxJoined \/ DemuxUnstuck

DemuxWorker(t) == Wait(t) \/ TakePart(t) \/ AddParent(t) \/ Compute(t)

\* GetQVal and its like: the evaluation of one sample of a computation, 0 on.
PartOf(k, sample) == (sample \div comp[k].partial) + 1

HasResult(k, sample) ==
    /\ PartOf(k, sample) \in DOMAIN comp[k].parents
    /\ comp[k].parents[PartOf(k, sample)].computed

Result(k, sample) ==
    comp[k].parents[PartOf(k, sample)].inputs[(sample % comp[k].partial) + 1]
=============================================================================
