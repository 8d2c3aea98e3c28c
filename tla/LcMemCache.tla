---------------------------- MODULE LcMemCache -----------------------------
(***************************************************************************)
(* The caching backend of lc0, src/engines/lc0/src/neural/memcache.cc:     *)
(* search threads put inputs into computations, which are answered from    *)
(* the cache at once or evaluated with the rest of the batch and cached    *)
(* afterwards, while the UCI thread resizes and clears the cache.          *)
(*                                                                         *)
(* A position is its hash and the number of legal moves the caller passes, *)
(* 0 when it wants no policy: two positions may have the same hash, and    *)
(* one position is asked for with and without its moves. The evaluation of *)
(* a position stands for itself.                                           *)
(***************************************************************************)
EXTENDS LcCache

CONSTANTS
    Threads,    \* search threads, each with one computation at a time
    Positions,  \* the inputs: [key : Keys, moves : Nat]
    Workloads,  \* the sets of positions one run of the program may ask for
    MaxBatch,   \* how many inputs a computation is given at most
    NoResult    \* what a CachedValue holds before it is computed

ASSUME MemCacheAssumption ==
    /\ Holders = Threads /\ IsFiniteSet(Threads)
    /\ Positions \subseteq [key : Keys, moves : Nat]
    /\ Workloads \subseteq SUBSET Positions
    /\ Values \subseteq Keys \X Nat
    /\ NoResult \notin Positions
    /\ MaxBatch \in Nat \ {0}

VARIABLES
    workload,   \* the positions of this run
    comp,       \* each thread's MemCacheComputation and where the thread is
    content     \* the CachedValue at each address: whose evaluation it is

vars == <<cache, lock, workload, comp, content>>

NoPosition == [key |-> 0, moves |-> 0]

Init ==
    /\ CacheInit
    /\ workload \in Workloads
    /\ comp = [t \in Threads |->
                [at |-> "open", pos |-> NoPosition, entries |-> <<>>]]
    /\ content = [v \in Values |-> NoResult]

\* The values a computation's entries own: not yet computed, or not yet moved
\* into the cache.
Owned(t) == {e.value : e \in ToSet(comp[t].entries)}

Unused == Values \ (Allocated \cup UNION {Owned(t) : t \in Threads})

\* Which unused address the allocator returns does not matter: addresses are
\* only compared for equality, and together with the key. Here an address is
\* the key it is used for and a number, the smallest that is free.
NewValue(key) == CHOOSE v \in Unused :
    v[1] = key /\ \A u \in Unused : u[1] = key => v[2] <= u[2]

\* What a deleted value held is gone.
Reclaim == [v \in Values |-> IF v \in Unused' THEN NoResult ELSE content[v]]

\* A cached value answers a query if it has a policy for the moves asked for.
Serves(value, pos) == pos.moves \in {0, content[value].moves}

Enqueue(t, pos) ==
    LET value == NewValue(pos.key)
    IN  /\ \E v \in Unused : v[1] = pos.key
        /\ comp' = [comp EXCEPT
                      ![t].at = "open",
                      ![t].pos = NoPosition,
                      ![t].entries = Append(@, [pos |-> pos, value |-> value])]
        /\ content' = Reclaim

\* Both questions begin with a HashKeyedCacheLock: found, it is held while the
\* value is looked at. Not found, AddInput puts the position into the batch
\* and GetCachedEvaluation returns nothing.
AddInput(t, pos) ==
    /\ comp[t].at = "open"
    /\ Len(comp[t].entries) < MaxBatch
    /\ LookupAndPin(t, pos.key)
    /\ IF lock'[t] = NoLock
       THEN Enqueue(t, pos)
       ELSE /\ comp' = [comp EXCEPT ![t].at = "held", ![t].pos = pos]
            /\ UNCHANGED content

GetCachedEvaluation(t, pos) ==
    /\ comp[t].at = "open"
    /\ LookupAndPin(t, pos.key)
    /\ lock'[t] # NoLock
    /\ comp' = [comp EXCEPT ![t].at = "held", ![t].pos = pos]
    /\ UNCHANGED content

\* A value that answers is copied before the lock goes.
FetchedImmediately(t) ==
    /\ comp[t].at = "held"
    /\ Serves(lock[t].value, comp[t].pos)
    /\ Unpin(t)
    /\ comp' = [comp EXCEPT ![t].at = "open", ![t].pos = NoPosition]
    /\ content' = Reclaim

\* One that does not is as good as none.
Refused(t) ==
    /\ comp[t].at = "held"
    /\ ~ Serves(lock[t].value, comp[t].pos)
    /\ Unpin(t)
    /\ \/ /\ Len(comp[t].entries) < MaxBatch
          /\ Enqueue(t, comp[t].pos)
       \/ /\ comp' = [comp EXCEPT ![t].at = "open", ![t].pos = NoPosition]
          /\ content' = Reclaim

\* ComputeBlocking: the wrapped computation fills in the values of the batch,
\* which nobody else can see; then one entry after the other is copied to its
\* result and moved into the cache. The computation is then destroyed, and
\* the thread creates the next.
ComputeBlocking(t) ==
    LET entry == Head(comp[t].entries)
        rest == Tail(comp[t].entries)
    IN  /\ comp[t].at \in {"open", "compute"}
        /\ comp[t].entries # <<>>
        /\ Insert(entry.pos.key, entry.value)
        /\ comp' = [comp EXCEPT
                      ![t].entries = rest,
                      ![t].at = IF rest = <<>> THEN "open" ELSE "compute"]
        /\ content' = [Reclaim EXCEPT
                         ![entry.value] = IF entry.value \in Unused'
                                          THEN NoResult ELSE entry.pos]

SetCacheSize(n) ==
    /\ n # cache.capacity
    /\ SetCapacity(n)
    /\ UNCHANGED comp
    /\ content' = Reclaim

ClearCache ==
    /\ Clear
    /\ UNCHANGED comp
    /\ content' = Reclaim

SearchThread(t) ==
    \/ \E pos \in workload : AddInput(t, pos) \/ GetCachedEvaluation(t, pos)
    \/ FetchedImmediately(t)
    \/ Refused(t)
    \/ ComputeBlocking(t)

Next ==
    /\ \/ \E t \in Threads : SearchThread(t)
       \/ \E n \in Capacities : SetCacheSize(n)
       \/ ClearCache
    /\ UNCHANGED workload

Spec == Init /\ [][Next]_vars

(***************************************************************************)
(* Properties                                                              *)
(***************************************************************************)

\* The shape of the cache and of the computations.
TypeOK ==
    /\ workload \in Workloads
    /\ cache.capacity \in Capacities
    /\ cache.insertion_order \in Seq(Keys)
    /\ DOMAIN cache.hash = 0 .. TableSize(cache.capacity) - 1
    /\ \A i \in InUse :
        cache.hash[i] \in [key : Keys, value : Values, pins : Nat]
    /\ \A e \in ToSet(cache.evicted) :
        e \in [key : Keys, value : Values, pins : Nat \ {0}]
    /\ lock \in [Threads -> [key : Keys, value : Values] \cup {NoLock}]
    /\ \A t \in Threads :
        /\ comp[t].at \in {"open", "held", "compute"}
        /\ comp[t].pos \in Positions \cup {NoPosition}
        /\ comp[t].entries \in Seq([pos : Positions, value : Values])
    /\ content \in [Values -> Positions \cup {NoResult}]

\* The counters that ~HashKeyedCache asserts on: size_ counts the table and
\* never exceeds the capacity, so that a slot is unused and every probe ends,
\* allocated_ the values that are not deleted,
\* and a value has one owner: a slot, an evicted entry or a computation.
Accounted ==
    /\ cache.size = Cardinality(InUse) /\ InUse # DOMAIN cache.hash
    /\ cache.size = Len(cache.insertion_order)
    /\ cache.size <= cache.capacity
    /\ cache.allocated = cache.size + Len(cache.evicted)
    /\ cache.allocated = Cardinality(Allocated)
    /\ \A t \in Threads : Owned(t) \cap Allocated = {}
    /\ \A t, u \in Threads : t # u => Owned(t) \cap Owned(u) = {}

\* While a lock holds a value, evictions, resizing and clearing do not delete
\* it, and its pins count its locks, so that the last lock deletes it. What
\* the thread copies from it is the evaluation of a position of the hash it
\* asked for (HashKeyedCacheLock, AddInput).
HeldIntact ==
    /\ \A t \in Threads : lock[t] # NoLock =>
        /\ lock[t].value \in Allocated
        /\ content[lock[t].value] # NoResult
        /\ content[lock[t].value].key = comp[t].pos.key
    /\ \A e \in ToSet(cache.evicted) \cup {cache.hash[i] : i \in InUse} :
        e.pins = Cardinality({t \in Threads :
                                lock[t] = Pair(e.key, e.value)})

\* Values live exactly as long as the table or a lock needs them.
ValuesOwned == Accounted /\ HeldIntact

\* The hash table implements the bounded queue of LcFifoCache: no operation,
\* in whatever order the threads reach the mutex, returns or drops anything
\* else than the queue would.
ImplementsFifo == Fifo!Spec
=============================================================================
