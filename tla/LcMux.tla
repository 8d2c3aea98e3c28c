------------------------------- MODULE LcMux -------------------------------
(***************************************************************************)
(* The multiplexing network of lc0, neural/backends/network_mux.cc, over   *)
(* the demultiplexing one: small batches of several clients are gathered   *)
(* into one computation, which the network below cuts into parts. A client *)
(* finds its results at an offset in the gathered batch, and that one      *)
(* finds them in one of its parts.                                         *)
(*                                                                         *)
(* The backend may also be configured as the demultiplexing network alone; *)
(* its clients then own the computations. A client is a thread that        *)
(* evaluates one batch.                                                    *)
(***************************************************************************)
EXTENDS LcDemux

CONSTANTS
    NoResult,       \* a read through a null pointer or past the end of parents_
    Clients,        \* the threads with a batch to evaluate
    MuxThreads,     \* the threads_ of the MuxingNetwork
    MaxBatch,       \* the option max_batch
    BatchSizes,     \* what the sizes of the clients' batches may be
    Layouts         \* the backends that may be configured

ASSUME MuxAssumption ==
    /\ MaxBatch \in Nat
    /\ BatchSizes \subseteq [Clients -> Nat]
    /\ Layouts \subseteq {"multiplexing", "demux"}

\* Allocation does not fail: whoever may refer to a computation finds one.
ASSUME ObjectsAssumption ==
    /\ IsFiniteSet(Computations) /\ IsFiniteSet(Clients) /\ IsFiniteSet(MuxThreads)
    /\ Cardinality(Clients) + Cardinality(MuxThreads) <= Cardinality(Computations)

VARIABLES
    layout,         \* the backend
    client,         \* the MuxingComputation of each client, and where it is
    muxQueue,       \* MuxingNetwork::queue_
    muxAbort,       \* MuxingNetwork::abort_
    mux,            \* where each mux thread is, with parent and children
    muxSleeping,    \* the mux threads that wait and have not been notified
    muxOwner        \* where the destructor of the MuxingNetwork is

muxVars == <<layout, client, muxQueue, muxAbort, mux, muxSleeping, muxOwner>>
vars == <<demuxVars, muxVars>>

Init ==
    /\ DemuxInit
    /\ layout \in Layouts
    /\ \E size \in BatchSizes :
          client = [c \in Clients |->
            [at |-> "new", size |-> size[c], parent |-> NoComputation,
             idx |-> 0, dataready |-> FALSE, results |-> <<>>]]
    /\ muxQueue = <<>>
    /\ muxAbort = FALSE
    /\ muxSleeping = {}
    /\ IF layout = "multiplexing"
       THEN /\ muxOwner = "alive"
            /\ mux = [w \in MuxThreads |-> [at |-> "lock",
                        parent |-> NoComputation, children |-> <<>>]]
       ELSE /\ muxOwner = "gone"
            /\ mux = [w \in MuxThreads |-> [at |-> "exited",
                        parent |-> NoComputation, children |-> <<>>]]

\* The planes of a client's batch; an input stands for its evaluation.
Batch(c) == [i \in 1..client[c].size |-> <<c, i>>]

\* NewComputation: an object nobody refers to, and the end of those nobody
\* refers to any more (std::shared_ptr).
Parents(cl, m) == {cl[c].parent : c \in Clients} \cup {m[w].parent : w \in MuxThreads}

Fresh == CHOOSE k \in Computations : k \notin Parents(client, mux)

Release ==
    comp' = [k \in Computations |->
                IF k \in Parents(client', mux') THEN comp[k] ELSE NewComputation]

\* GetQVal of one sample, and how a client reads all and drops the computation. Where a network
\* was destroyed meanwhile the code reads through a null parent_ (network_mux.cc:50) or past
\* the end of parents_ (network_demux.cc:52), which is undefined behaviour: NoResult stands
\* for whatever comes of that, and ResultsMatch excepts it.
Read(c, sample) ==
    LET k == client[c].parent
        i == sample + client[c].idx
    IN  IF k # NoComputation /\ HasResult(k, i) THEN Result(k, i) ELSE NoResult

ReadResults(c) ==
    client' = [client EXCEPT
        ![c].at = "done", ![c].parent = NoComputation, ![c].idx = 0,
        ![c].results = [i \in 1..client[c].size |-> Read(c, i - 1)]]

(***************************************************************************)
(* A client of the demultiplexing network.                                 *)
(***************************************************************************)
ComputeDirectly(c) ==
    /\ layout = "demux"
    /\ client[c].at = "new"
    /\ owner = "alive"
    /\ client' = [client EXCEPT ![c].at = "wait", ![c].parent = Fresh]
    /\ comp' = [comp EXCEPT ![Fresh] = StartCompute(Batch(c))]
    /\ UNCHANGED <<queue, abort, worker, sleeping, owner, layout, muxQueue,
                   muxAbort, mux, muxSleeping, muxOwner>>

ReturnDirectly(c) ==
    /\ layout = "demux"
    /\ client[c].at = "wait"
    /\ Returned(client[c].parent)
    /\ ReadResults(c)
    /\ UNCHANGED mux
    /\ Release
    /\ UNCHANGED <<queue, abort, worker, sleeping, owner, layout, muxQueue,
                   muxAbort, muxSleeping, muxOwner>>

(***************************************************************************)
(* A client of the multiplexing network: ComputeBlocking.                  *)
(***************************************************************************)
MuxNotifyOne ==
    IF muxSleeping = {} THEN UNCHANGED muxSleeping
    ELSE \E w \in muxSleeping : muxSleeping' = muxSleeping \ {w}

MuxEnqueue(c) ==
    /\ layout = "multiplexing"
    /\ client[c].at = "new"
    /\ muxOwner = "alive"
    /\ muxQueue' = Append(muxQueue, c)
    /\ MuxNotifyOne
    /\ client' = [client EXCEPT ![c].at = "wait"]
    /\ UNCHANGED <<demuxVars, layout, muxAbort, mux, muxOwner>>

MuxReturn(c) ==
    /\ layout = "multiplexing"
    /\ client[c].at = "wait"
    /\ client[c].dataready
    /\ ReadResults(c)
    /\ UNCHANGED mux
    /\ Release
    /\ UNCHANGED <<queue, abort, worker, sleeping, owner, layout, muxQueue,
                   muxAbort, muxSleeping, muxOwner>>

(***************************************************************************)
(* The worker threads of the multiplexing network.                         *)
(***************************************************************************)
Exit(w) ==
    mux' = [mux EXCEPT ![w] = [at |-> "exited", parent |-> NoComputation,
                               children |-> <<>>]]

\* What a parent has been given once the clients cs have populated it in turn.
Inputs(cs) == FlattenSeq([i \in 1..Len(cs) |-> Batch(cs[i])])

\* How many of the queue are gathered: the first whatever its size, or while
\* the batch is empty, and then as long as the limit is kept.
Gathered ==
    LET fits(n) == \A i \in 1..n :
            \/ Inputs(SubSeq(muxQueue, 1, i - 1)) = <<>>
            \/ Len(Inputs(SubSeq(muxQueue, 1, i))) <= MaxBatch
    IN  Max({n \in 0..Len(muxQueue) : fits(n)})

\* Variant: the offset is read after the inputs are added.
Populate_OffsetAfter(k, cs) ==
    /\ comp' = [comp EXCEPT ![k] = StartCompute(Inputs(cs))]
    /\ client' = [c \in Clients |->
          IF c \in ToSet(cs)
          THEN LET i == CHOOSE j \in 1..Len(cs) : cs[j] = c
               IN  [client[c] EXCEPT !.parent = k,
                                     !.idx = Len(Inputs(SubSeq(cs, 1, i)))]
          ELSE client[c]]

\* PopulateToParent of each child, one after the other.
Populate(k, cs) ==
    /\ comp' = [comp EXCEPT ![k] = StartCompute(Inputs(cs))]
    /\ client' = [c \in Clients |->
          IF c \in ToSet(cs)
          THEN LET i == CHOOSE j \in 1..Len(cs) : cs[j] = c
               IN  [client[c] EXCEPT !.parent = k,
                                     !.idx = Len(Inputs(SubSeq(cs, 1, i - 1)))]
          ELSE client[c]]

\* One critical section: wait until there is work and gather a batch of it, in
\* a new computation of the network below. The test of abort_ without the mutex,
\* before it, decides nothing else.
Gather(w) ==
    /\ mux[w].at \in {"lock", "asleep"}
    /\ w \notin muxSleeping
    /\ IF muxAbort
       THEN Exit(w) /\ UNCHANGED <<comp, client, muxQueue, muxSleeping>>
       ELSE IF muxQueue = <<>>
       THEN /\ mux' = [mux EXCEPT ![w].at = "asleep"]
            /\ muxSleeping' = muxSleeping \cup {w}
            /\ UNCHANGED <<comp, client, muxQueue>>
       ELSE LET cs == SubSeq(muxQueue, 1, Gathered)
            IN  /\ Populate(Fresh, cs)
                /\ mux' = [mux EXCEPT ![w] = [at |-> "compute", parent |-> Fresh,
                                               children |-> cs]]
                /\ muxQueue' = SubSeq(muxQueue, Gathered + 1, Len(muxQueue))
                /\ UNCHANGED muxSleeping
    /\ UNCHANGED <<queue, abort, worker, sleeping, owner, layout, muxAbort,
                   muxOwner>>

\* parent->ComputeBlocking() has returned: NotifyReady, child by child.
NotifyChild(w) ==
    LET k == mux[w].parent
    IN  /\ mux[w].at = "compute"
        /\ Returned(k)
        /\ IF mux[w].children = <<>>
           THEN /\ mux' = [mux EXCEPT ![w] = [at |-> "lock",
                              parent |-> NoComputation, children |-> <<>>]]
                /\ UNCHANGED client
                /\ Release
           ELSE /\ client' = [client EXCEPT ![Head(mux[w].children)].dataready = TRUE]
                /\ mux' = [mux EXCEPT ![w].children = Tail(@)]
                /\ UNCHANGED comp
        /\ UNCHANGED <<queue, abort, worker, sleeping, owner, layout, muxQueue,
                       muxAbort, muxSleeping, muxOwner>>

(***************************************************************************)
(* The destructor of the multiplexing network: Abort, Wait, then the       *)
(* clients nobody has taken are released; the networks below go last.      *)
(***************************************************************************)
MuxAbort ==
    /\ muxOwner = "alive"
    /\ muxOwner' = "joining"
    /\ muxAbort' = TRUE
    /\ muxSleeping' = {}
    /\ UNCHANGED <<demuxVars, layout, client, muxQueue, mux>>

MuxJoined ==
    /\ muxOwner = "joining"
    /\ \A w \in MuxThreads : mux[w].at = "exited"
    /\ muxOwner' = "unstuck"
    /\ UNCHANGED <<demuxVars, layout, client, muxQueue, muxAbort, mux,
                   muxSleeping>>

\* Variant: what is left in the queue is forgotten.
MuxUnstuck_Forgets ==
    /\ muxOwner = "unstuck"
    /\ muxOwner' = "gone"
    /\ UNCHANGED <<demuxVars, layout, client, muxQueue, muxAbort, mux, muxSleeping>>

MuxUnstuck ==
    /\ muxOwner = "unstuck"
    /\ IF muxQueue = <<>>
       THEN muxOwner' = "gone" /\ UNCHANGED <<client, muxQueue>>
       ELSE /\ client' = [client EXCEPT ![Head(muxQueue)].dataready = TRUE]
            /\ muxQueue' = Tail(muxQueue)
            /\ UNCHANGED muxOwner
    /\ UNCHANGED <<demuxVars, layout, muxAbort, mux, muxSleeping>>

MuxDestructor == MuxAbort \/ MuxJoined \/ MuxUnstuck

MuxWorker(w) == Gather(w) \/ NotifyChild(w)

\* What the threads and computations of the network below do.
Below ==
    /\ \/ \E k \in Computations : Enqueue(k)
       \/ \E t \in Threads : DemuxWorker(t)
       \/ muxOwner = "gone" /\ Destructor
    /\ UNCHANGED muxVars

\* Everything is destroyed and every client has returned, or never called.
Terminated ==
    /\ owner = "gone"
    /\ \A c \in Clients : client[c].at \in {"new", "done"}
    /\ UNCHANGED vars

Next ==
    \/ \E c \in Clients : ComputeDirectly(c) \/ ReturnDirectly(c)
                              \/ MuxEnqueue(c) \/ MuxReturn(c)
    \/ \E w \in MuxThreads : MuxWorker(w)
    \/ MuxDestructor
    \/ Below
    \/ Terminated

\* What goes on by itself. Nobody has to call, or to destroy the networks; the
\* multiplexing network destroys the one below it in its own destructor.
Progress ==
    \/ \E c \in Clients : ReturnDirectly(c) \/ MuxReturn(c)
    \/ \E w \in MuxThreads : MuxWorker(w)
    \/ MuxJoined \/ MuxUnstuck
    \/ /\ \/ \E k \in Computations : Enqueue(k)
          \/ \E t \in Threads : DemuxWorker(t)
          \/ layout = "multiplexing" /\ muxOwner = "gone" /\ DemuxAbort
          \/ DemuxJoined \/ DemuxUnstuck
       /\ UNCHANGED muxVars

\* Some thread that can go on does. No thread is ever busy without an end, so
\* this is enough for each of them.
Fairness == WF_vars(Progress)

Spec == Init /\ [][Next]_vars /\ Fairness

(***************************************************************************)
(* Properties.                                                             *)
(***************************************************************************)
\* Every result a client reads is the evaluation of the input it put in, at
\* whatever place of which batch it was evaluated, and it is there when
\* ComputeBlocking returns. Only a client with a part still in the queue when the
\* network was destroyed misses results (MuxingComputation::GetQVal,
\* DemuxingComputation::GetQVal).
ResultsMatch ==
    \A c \in Clients : client[c].at = "done" =>
        \/ client[c].results = Batch(c)
        \/ /\ abort \/ muxAbort
           /\ NoResult \in ToSet(client[c].results)
           /\ \A i \in 1..client[c].size : client[c].results[i] \in {<<c, i>>, NoResult}

\* Every ComputeBlocking returns, whether or not the networks are destroyed
\* meanwhile: a client calls once, and none is left waiting.
ComputeReturns == <>[](\A c \in Clients : client[c].at # "wait")

\* A destructor that has begun joins all threads and ends.
ShutsDown == (muxAbort \/ abort) ~> owner = "gone"
=============================================================================
