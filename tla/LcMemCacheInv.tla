--------------------------- MODULE LcMemCacheInv ---------------------------
(***************************************************************************)
(* The inductive invariant of LcMemCache: the hash table has no gaps, the  *)
(* queue of keys and the table agree, and every value has one owner.       *)
(***************************************************************************)
EXTENDS LcMemCache

Entry == [key : Keys, value : Values, pins : Nat]

Tables(n) == [0 .. n - 1 -> Entry \cup {NoEntry}]

Used(T) == {i \in DOMAIN T : T[i] # NoEntry}
Entries(T) == {T[i] : i \in Used(T)}

\* No key has two slots.
Distinct(T) == \A i, j \in Used(T) : T[i].key = T[j].key => i = j

\* No slot from the home of an entry to the entry is unused, so a probe finds it.
NoGap(T) ==
    \A i \in Used(T), x \in DOMAIN T :
        InRange(x, Home(T, T[i].key), i) => T[x] # NoEntry

TableOK(T, n) == T \in Tables(n) /\ Distinct(T) /\ NoGap(T)

(***************************************************************************)
(* The fields of a cache between two operations, and inside of one.        *)
(***************************************************************************)
CacheStates ==
    [capacity : Capacities, size : Nat, allocated : Nat,
     insertion_order : Seq(Keys), evicted : Seq(Entry),
     hash : UNION {Tables(n) : n \in Nat \ {0}}]

\* The entries that are not deleted.
All(c) == Entries(c.hash) \cup ToSet(c.evicted)

OneSlotEach(q) == \A i, j \in DOMAIN q : q[i] = q[j] => i = j

\* The queue has the keys of the table, each once.
KeysAgree(c) ==
    /\ OneSlotEach(c.insertion_order)
    /\ \A e \in Entries(c.hash) : e.key \in ToSet(c.insertion_order)
    /\ \A key \in ToSet(c.insertion_order) :
        \E e \in Entries(c.hash) : e.key = key

\* The counters, and what an evicted entry is kept for.
Counted(c) ==
    /\ c.size = Len(c.insertion_order)
    /\ c.allocated = Len(c.insertion_order) + Len(c.evicted)
    /\ \A e \in ToSet(c.evicted) : e.pins # 0

\* A value belongs to one entry, in the table or set aside.
OneOwner(c) ==
    /\ \A e, f \in Entries(c.hash) : e.value = f.value => e = f
    /\ \A i, j \in DOMAIN c.evicted :
        c.evicted[i].value = c.evicted[j].value => i = j
    /\ \A e \in Entries(c.hash), f \in ToSet(c.evicted) : e.value # f.value

Good(c) ==
    /\ c \in CacheStates
    /\ TableOK(c.hash, TableSize(c.capacity))
    /\ KeysAgree(c) /\ Counted(c) /\ OneOwner(c)

(***************************************************************************)
(* The threads.                                                            *)
(***************************************************************************)
LockOf(e) == Pair(e.key, e.value)

\* A lock holds the value of an entry, and its pins count its locks.
PinsOK(c, l) ==
    /\ \A t \in Threads : l[t] # NoLock => \E e \in All(c) : l[t] = LockOf(e)
    /\ \A e \in All(c) : e.pins = Cardinality({t \in Threads : l[t] = LockOf(e)})

LockInv ==
    /\ PinsOK(cache, lock)
    /\ \A t \in Threads :
        /\ lock[t] # NoLock <=> comp[t].at = "held"
        /\ lock[t] # NoLock =>
            lock[t].key = comp[t].pos.key /\ comp[t].pos \in Positions

\* Before a value is moved into the cache its computation owns it alone.
Living(c) == {e.value : e \in All(c)}

Pending(m, t) == {e.value : e \in ToSet(m[t].entries)}

OwnersOK(c, m) ==
    /\ \A t \in Threads : \A i, j \in DOMAIN m[t].entries :
        m[t].entries[i].value = m[t].entries[j].value => i = j
    /\ \A t \in Threads : Pending(m, t) \cap Living(c) = {}
    /\ \A t, u \in Threads : t # u => Pending(m, t) \cap Pending(m, u) = {}

OwnerInv == OwnersOK(cache, comp)

\* The value of an entry is the evaluation of a position with its key.
ContentOK(c, v) ==
    \A e \in All(c) : v[e.value] # NoResult /\ v[e.value].key = e.key

ContentInv == ContentOK(cache, content)

CompType ==
    [at : {"open", "held", "compute"}, pos : Positions \cup {NoPosition},
     entries : Seq([pos : Positions, value : Values])]

TypeInv ==
    /\ workload \in Workloads
    /\ lock \in [Threads -> [key : Keys, value : Values] \cup {NoLock}]
    /\ comp \in [Threads -> CompType]
    /\ content \in [Values -> Positions \cup {NoResult}]

CacheInv == Good(cache) /\ cache.size <= cache.capacity

MemCacheInv == TypeInv /\ CacheInv /\ LockInv /\ OwnerInv /\ ContentInv

(***************************************************************************)
(* The queue the table implements.                                         *)
(***************************************************************************)
ValueOf(T, key) == T[CHOOSE i \in Used(T) : T[i].key = key].value

QueueOf(c) ==
    [i \in 1 .. Len(c.insertion_order) |->
        Pair(c.insertion_order[i], ValueOf(c.hash, c.insertion_order[i]))]

=============================================================================
