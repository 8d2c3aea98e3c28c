------------------------------ MODULE LcMuxInv ------------------------------
(***************************************************************************)
(* The inductive invariant of LcMux. Its first half follows the parts of   *)
(* each computation from its caller through the queue and the workers into *)
(* parents_; its second half says who may refer to a computation, and      *)
(* where in it the inputs of a client lie.                                 *)
(***************************************************************************)
EXTENDS LcMux

Samples == Clients \X Nat

Part == [inputs : Seq(Samples), computed : BOOLEAN]

Computation ==
    [at : {"new", "enqueue", "wait", "done"}, planes : Seq(Samples),
     partial : Nat, toQueue : Nat, dataready : Nat, notified : BOOLEAN,
     parents : Seq(Part)]

WorkerState ==
    [at : {"lock", "asleep", "drain", "add", "compute", "exited"},
     comp : Computations \cup {NoComputation}, part : Nat]

ClientState ==
    [at : {"new", "wait", "done"}, size : Nat,
     parent : Computations \cup {NoComputation}, idx : Nat,
     dataready : BOOLEAN, results : Seq(Samples \cup {NoResult})]

MuxState ==
    [at : {"lock", "asleep", "compute", "exited"},
     parent : Computations \cup {NoComputation}, children : Seq(Clients)]

DemuxTypeOK ==
    /\ comp \in [Computations -> Computation]
    /\ queue \in Seq(Computations)
    /\ abort \in BOOLEAN
    /\ worker \in [Threads -> WorkerState]
    /\ sleeping \subseteq Threads
    /\ owner \in {"alive", "joining", "unstuck", "gone"}

MuxTypeOK ==
    /\ layout \in {"multiplexing", "demux"}
    /\ client \in [Clients -> ClientState]
    /\ muxQueue \in Seq(Clients)
    /\ muxAbort \in BOOLEAN
    /\ mux \in [MuxThreads -> MuxState]
    /\ muxSleeping \subseteq MuxThreads
    /\ muxOwner \in {"alive", "joining", "unstuck", "gone"}

TypeOK == DemuxTypeOK /\ MuxTypeOK

(***************************************************************************)
(* The parts of the computations.                                          *)
(***************************************************************************)
\* How often k is in the queue, and who has taken a part of it.
Occurs(q, k) == Cardinality({i \in 1..Len(q) : q[i] = k})
Busy(k) == {t \in Threads : worker[t].comp = k}
Adding(k) == {t \in Threads : worker[t].comp = k /\ worker[t].at = "add"}

\* How many parts a computation is cut into.
Parts(c) == IF c.planes = <<>> THEN 0 ELSE CeilDiv(Len(c.planes), c.partial)

\* No part of it is anywhere, and none will be.
Idle(c) == c.dataready = 0 /\ c.at # "enqueue"

\* Only a computation that has begun has planes, and it has parts to enqueue
\* exactly while its caller is enqueueing.
Shaped(c) ==
    /\ c.at \in {"new", "done"} =>
          c.planes = <<>> /\ c.parents = <<>> /\ c.dataready = 0
    /\ c.at \in {"enqueue", "wait"} => c.planes # <<>> /\ c.partial > 0
    /\ c.at = "enqueue" <=> c.toQueue > 0

ShapeInv == \A k \in Computations : Shaped(comp[k])

\* dataready_ is the number of parts that are not done, and, until the network
\* is destroyed, no part is lost.
CountInv ==
    \A k \in Computations :
        LET waiting == comp[k].toQueue + Occurs(queue, k)
            added == Cardinality(Adding(k)) + Len(comp[k].parents)
        IN  /\ comp[k].dataready = waiting + Cardinality(Busy(k))
            /\ waiting + added <= Parts(comp[k])
            /\ ~abort => waiting + added = Parts(comp[k])

\* The part added as the j-th holds the j-th piece of the planes, whichever
\* thread added it.
HoldsPieces(c) ==
    \A j \in 1..Len(c.parents), x \in 1..c.partial :
        (j - 1) * c.partial + x <= Len(c.planes) =>
            /\ x <= Len(c.parents[j].inputs)
            /\ c.parents[j].inputs[x] = c.planes[(j - 1) * c.partial + x]

PartInv == \A k \in Computations : HoldsPieces(comp[k])

\* A thread refers to a computation while it has a part of it, and a part that
\* is not computed is one some thread computes.
WorkerInv ==
    /\ \A t \in Threads :
          /\ worker[t].at \in {"add", "compute"} <=> worker[t].comp # NoComputation
          /\ worker[t].at = "compute" =>
                worker[t].part \in 1..Len(comp[worker[t].comp].parents)
    /\ \A k \in Computations : \A j \in 1..Len(comp[k].parents) :
          ~comp[k].parents[j].computed =>
              \E t \in Threads : /\ worker[t].at = "compute"
                                 /\ worker[t].comp = k /\ worker[t].part = j

DemuxInv == ShapeInv /\ CountInv /\ PartInv /\ WorkerInv

(***************************************************************************)
(* Who refers to the computations.                                         *)
(***************************************************************************)
OwnerInv ==
    /\ abort <=> owner # "alive"
    /\ muxOwner \in {"joining", "unstuck"} => muxAbort
    /\ layout = "demux" =>
          muxQueue = <<>> /\ \A w \in MuxThreads : mux[w].at = "exited"

\* A computation nobody refers to is as good as new.
FreeInv ==
    \A k \in Computations \ Parents(client, mux) : comp[k] = NewComputation

\* Whom a mux thread will notify still waits for that, and for nobody else.
MuxOK(w) ==
    /\ mux[w].at = "compute" <=> mux[w].parent # NoComputation
    /\ mux[w].at # "compute" => mux[w].children = <<>>
    /\ \A i \in 1..Len(mux[w].children) :
          LET c == mux[w].children[i]
          IN  /\ client[c].at = "wait" /\ ~client[c].dataready
              /\ client[c].parent = mux[w].parent
    /\ \A i, j \in 1..Len(mux[w].children) :
          mux[w].children[i] = mux[w].children[j] => i = j

MuxInv ==
    /\ \A w \in MuxThreads : MuxOK(w)
    /\ \A v, w \in MuxThreads :
          mux[v].parent = mux[w].parent /\ mux[w].parent # NoComputation => v = w

\* Whoever is queued waits, has not been taken, and is queued once.
QueueInv ==
    /\ \A i \in 1..Len(muxQueue) :
          LET c == muxQueue[i]
          IN  /\ client[c].at = "wait" /\ ~client[c].dataready
              /\ client[c].parent = NoComputation
    /\ \A i, j \in 1..Len(muxQueue) : muxQueue[i] = muxQueue[j] => i = j

\* The planes of k that belong to c are the inputs of c.
HoldsBatch(k, c) ==
    \A i \in 1..client[c].size :
        /\ client[c].idx + i <= Len(comp[k].planes)
        /\ comp[k].planes[client[c].idx + i] = <<c, i>>

\* A client refers to a computation that holds its inputs, and to one that is
\* done with when it has been notified.
ClientOK(c) ==
    /\ client[c].at = "new" => ~client[c].dataready /\ client[c].idx = 0
    /\ client[c].at # "wait" => client[c].parent = NoComputation
    /\ client[c].at = "wait" /\ client[c].parent = NoComputation =>
          layout = "multiplexing" /\ (client[c].dataready => muxAbort)
    /\ client[c].parent # NoComputation =>
          /\ HoldsBatch(client[c].parent, c)
          /\ client[c].dataready => Idle(comp[client[c].parent])

ClientInv == \A c \in Clients : ClientOK(c)

IInv ==
    /\ TypeOK
    /\ DemuxInv
    /\ OwnerInv
    /\ FreeInv
    /\ MuxInv
    /\ QueueInv
    /\ ClientInv
    /\ ResultsMatch
=============================================================================
