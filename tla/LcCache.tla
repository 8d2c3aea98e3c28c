------------------------------ MODULE LcCache ------------------------------
(***************************************************************************)
(* The evaluation cache of lc0, src/engines/lc0/src/utils/cache.h: a hash  *)
(* table with open addressing and linear probing, evicted first in first   *)
(* out, whose entries are pinned while a HashKeyedCacheLock refers to      *)
(* them. A pinned entry that is evicted moves to a list of its own until   *)
(* its last lock goes.                                                     *)
(*                                                                         *)
(* Every operation of the class runs under its spin mutex and is one step. *)
(* The capacity that Insert, ContainsKey and LookupAndPin read before they *)
(* take the mutex only lets them return early from an empty cache, as if   *)
(* they had run when they read it.                                         *)
(***************************************************************************)
EXTENDS Integers, Sequences, SequencesExt, FiniteSetsExt

CONSTANTS
    Keys,       \* the 64-bit keys: natural numbers, hashed by their remainder
    Values,     \* the addresses values are allocated at
    Holders,    \* the owners of one HashKeyedCacheLock each
    Capacities, \* the capacities the cache is ever given
    NoEntry,    \* a slot of the table that is not in use
    NoLock      \* a HashKeyedCacheLock that holds no value

ASSUME CacheAssumption ==
    /\ Keys \subseteq Nat
    /\ Capacities \subseteq Nat
    /\ NoEntry \notin [key : Keys, value : Values, pins : Nat]
    /\ NoLock \notin [key : Keys, value : Values]

VARIABLES
    cache,  \* the fields of HashKeyedCache
    lock    \* the key and value of each holder's HashKeyedCacheLock

cacheVars == <<cache, lock>>

Pair(key, value) == [key |-> key, value |-> value]

(***************************************************************************)
(* The table: a function on 0 .. n-1, one slot more than 1.9 times the     *)
(* capacity. A probe visits the slots from the home of a key on, around    *)
(* the end of the table, until it finds what it wants or an unused slot.   *)
(***************************************************************************)
TableSize(capacity) == (19 * capacity) \div 10 + 1

EmptyTable(capacity) == [i \in 0 .. TableSize(capacity) - 1 |-> NoEntry]

Home(table, key) == key % Cardinality(DOMAIN table)

\* All slots, from the given one on.
From(table, start) ==
    LET n == Cardinality(DOMAIN table)
    IN  [d \in 1 .. n |-> (start + d - 1) % n]

\* The first slot of a walk that is one of S; such a slot exists whenever
\* the table is not full, and a walk that finds none would never end.
First(walk, S) == walk[SelectInSeq(walk, LAMBDA i : i \in S)]

Holding(table, key) ==
    {i \in DOMAIN table : table[i] # NoEntry /\ table[i].key = key}

NotInUse(table) == {i \in DOMAIN table : table[i] = NoEntry}

Probe(table, key, wanted) ==
    First(From(table, Home(table, key)), NotInUse(table) \cup wanted)

\* A new entry goes to the first unused slot from its home on.
Put(table, entry) ==
    [table EXCEPT ![Probe(table, entry.key, {})] = entry]

\* Variant: a range around the end of the table is empty.
InRange_NoWrap(target, start, end) == target >= start /\ target <= end

InRange(target, start, end) ==
    IF start <= end THEN target >= start /\ target <= end
                    ELSE target >= start \/ target <= end

\* EvictItem leaves a hole at idx. Of the entries that follow without a gap,
\* each whose home is not between the hole and itself moves back into the
\* hole and leaves its own slot as the new hole. The walk is over at an unused
\* slot; in a table that was full that is the hole, met on the second round.
CloseGap(table, idx) ==
    LET Visit(s, next) ==
            IF s.done \/ s.table[next] = NoEntry
            THEN [s EXCEPT !.done = TRUE]
            ELSE IF InRange(Home(table, s.table[next].key), s.hole + 1, next)
            THEN s
            ELSE [s EXCEPT !.table[s.hole] = s.table[next],
                           !.table[next] = NoEntry,
                           !.hole = next]
        round == From(table, idx)
    IN  FoldLeft(Visit, [table |-> table, hole |-> idx, done |-> FALSE],
                 Tail(round) \o round).table

\* Variant: pinned entries are deleted as well.
EvictItem_Pinned(c) ==
    LET key == Head(c.insertion_order)
        idx == First(From(c.hash, Home(c.hash, key)), Holding(c.hash, key))
    IN  [c EXCEPT !.size = @ - 1,
                  !.insertion_order = Tail(@),
                  !.allocated = @ - 1,
                  !.hash = CloseGap([@ EXCEPT ![idx] = NoEntry], idx)]

\* EvictItem: the oldest entry leaves the table. Pinned, it is set aside with
\* its pins; not pinned, its value is deleted.
EvictItem(c) ==
    LET key == Head(c.insertion_order)
        idx == First(From(c.hash, Home(c.hash, key)), Holding(c.hash, key))
        entry == c.hash[idx]
    IN  [c EXCEPT !.size = @ - 1,
                  !.insertion_order = Tail(@),
                  !.allocated = IF entry.pins = 0 THEN @ - 1 ELSE @,
                  !.evicted = IF entry.pins = 0 THEN @ ELSE Append(@, entry),
                  !.hash = CloseGap([@ EXCEPT ![idx] = NoEntry], idx)]

EvictToCapacity(c, capacity) ==
    FoldLeft(LAMBDA s, i : EvictItem(s), c,
             [i \in 1 .. c.size - capacity |-> i])

(***************************************************************************)
(* The operations.                                                         *)
(***************************************************************************)
CacheInit ==
    /\ cache \in
        {[capacity |-> n, size |-> 0, allocated |-> 0,
          insertion_order |-> <<>>, evicted |-> <<>>,
          hash |-> EmptyTable(n)] : n \in Capacities}
    /\ lock = [h \in Holders |-> NoLock]

\* An Insert of a key that is there, or into a cache of no capacity, deletes
\* the value it was given.
Insert(key, value) ==
    LET at == Probe(cache.hash, key, Holding(cache.hash, key))
        entry == [key |-> key, value |-> value, pins |-> 0]
        added == [cache EXCEPT !.hash[at] = entry,
                               !.insertion_order = Append(@, key),
                               !.size = @ + 1,
                               !.allocated = @ + 1]
    IN  /\ cache' = IF cache.capacity = 0 \/ cache.hash[at] # NoEntry
                    THEN cache
                    ELSE EvictToCapacity(added, cache.capacity)
        /\ UNCHANGED lock

ContainsKey(key) ==
    /\ cache.capacity # 0
    /\ cache.hash[Probe(cache.hash, key, Holding(cache.hash, key))] # NoEntry

\* The constructor of a HashKeyedCacheLock: LookupAndPin.
LookupAndPin(h, key) ==
    LET at == Probe(cache.hash, key, Holding(cache.hash, key))
    IN  /\ lock[h] = NoLock
        /\ IF cache.capacity = 0 \/ cache.hash[at] = NoEntry
           THEN UNCHANGED cacheVars
           ELSE /\ cache' = [cache EXCEPT !.hash[at].pins = @ + 1]
                /\ lock' = [lock EXCEPT
                              ![h] = Pair(key, cache.hash[at].value)]

\* The destructor of a HashKeyedCacheLock that holds a value: Unpin looks
\* among the evicted entries first, and then in the table.
Unpin(h) ==
    LET Held(e) == e.key = lock[h].key /\ e.value = lock[h].value
        aside == SelectInSeq(cache.evicted, Held)
        at == Probe(cache.hash, lock[h].key,
                    {i \in Holding(cache.hash, lock[h].key) :
                        cache.hash[i].value = lock[h].value})
    IN  /\ lock[h] # NoLock
        /\ lock' = [lock EXCEPT ![h] = NoLock]
        /\ cache' =
            IF aside = 0
            THEN [cache EXCEPT !.hash[at].pins = @ - 1]
            ELSE IF cache.evicted[aside].pins = 1
            THEN [cache EXCEPT !.evicted = RemoveAt(@, aside),
                               !.allocated = @ - 1]
            ELSE [cache EXCEPT !.evicted[aside].pins = @ - 1]

\* SetCapacity evicts what no longer fits and puts the rest, pins and all,
\* into a new table, in the order of the slots of the old one.
SetCapacity(n) ==
    LET kept == EvictToCapacity(cache, n)
        slots == [i \in 1 .. Cardinality(DOMAIN kept.hash) |-> i - 1]
        Rehash(table, i) ==
            IF kept.hash[i] = NoEntry THEN table ELSE Put(table, kept.hash[i])
    IN  /\ cache' =
            IF cache.capacity = n
            THEN cache
            ELSE [kept EXCEPT !.capacity = n,
                              !.hash = FoldLeft(Rehash, EmptyTable(n), slots)]
        /\ UNCHANGED lock

Clear ==
    /\ cache' = EvictToCapacity(cache, 0)
    /\ UNCHANGED lock

(***************************************************************************)
(* What holds of the cache.                                                *)
(***************************************************************************)
InUse == {i \in DOMAIN cache.hash : cache.hash[i] # NoEntry}

\* The values that are not deleted: in the table or set aside.
Allocated ==
    {cache.hash[i].value : i \in InUse} \cup
    {e.value : e \in ToSet(cache.evicted)}

EntryOf(key) == CHOOSE i \in InUse : cache.hash[i].key = key

\* The queue of the abstract cache: the keys in the order they came, each
\* with the value the table has for it.
Queue ==
    [i \in 1 .. Len(cache.insertion_order) |->
        LET key == cache.insertion_order[i]
        IN  Pair(key, cache.hash[EntryOf(key)].value)]

Fifo ==
    INSTANCE LcFifoCache WITH capacity <- cache.capacity, queue <- Queue
=============================================================================
