---------------------------- MODULE LcFifoCache ----------------------------
(***************************************************************************)
(* What a HashKeyedCache of lc0 (src/utils/cache.h) promises to its        *)
(* callers, without a hash table, a probe sequence, a pin count or a list  *)
(* of evicted entries: a bounded queue of key-value pairs, the oldest      *)
(* dropped first, and locks that keep the value they were given for as     *)
(* long as they are held, whatever happens to the queue in between.        *)
(* LcCache is shown to implement this specification.                       *)
(***************************************************************************)
EXTENDS Integers, Sequences, SequencesExt

CONSTANTS
    Keys,       \* the 64-bit keys
    Values,     \* the addresses of the values
    Holders,    \* those who may hold one lock each
    Capacities, \* the capacities the cache is ever given
    NoLock      \* the lock of a holder that holds nothing

VARIABLES
    capacity,   \* how many pairs the queue keeps
    queue,      \* the pairs, the oldest first
    lock        \* what each holder holds: a pair or NoLock

vars == <<capacity, queue, lock>>

Pair == [key : Keys, value : Values]

Init ==
    /\ capacity \in Capacities
    /\ queue = <<>>
    /\ lock = [h \in Holders |-> NoLock]

\* The newest n pairs of a queue.
Newest(n, q) == IF Len(q) <= n THEN q ELSE SubSeq(q, Len(q) - n + 1, Len(q))

Cached(key) == {p \in ToSet(queue) : p.key = key}

\* A new value is none that the queue or a lock still refers to.
Fresh(value) ==
    /\ \A p \in ToSet(queue) : p.value # value
    /\ \A h \in Holders : lock[h] # NoLock => lock[h].value # value

\* The first value of a key stays until it is evicted; later ones are dropped.
Insert(key, value) ==
    /\ UNCHANGED <<capacity, lock>>
    /\ Cached(key) = {}
    /\ queue' = Newest(capacity, Append(queue, [key |-> key, value |-> value]))
    /\ Fresh(value)

\* A holder without a lock asks for a key and gets a lock if it is cached.
Acquire(h, key) ==
    /\ lock[h] = NoLock
    /\ \E p \in Cached(key) : lock' = [lock EXCEPT ![h] = p]
    /\ UNCHANGED <<capacity, queue>>

Release(h) ==
    /\ lock[h] # NoLock
    /\ lock' = [lock EXCEPT ![h] = NoLock]
    /\ UNCHANGED <<capacity, queue>>

Resize(n) ==
    /\ capacity' = n
    /\ UNCHANGED lock
    /\ queue' = Newest(n, queue)

Clear ==
    /\ UNCHANGED <<capacity, lock>>
    /\ queue' = <<>>

Next ==
    \/ \E key \in Keys, value \in Values : Insert(key, value)
    \/ \E h \in Holders : Release(h) \/ \E key \in Keys : Acquire(h, key)
    \/ \E n \in Capacities : Resize(n)
    \/ Clear

Spec == Init /\ [][Next]_vars
=============================================================================
