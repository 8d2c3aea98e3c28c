--------------------------- MODULE MCLcMemCache ----------------------------
(* LcMemCache for TLC. The homes of the keys 3, 7 and 8 are 3, 3 and 0 in   *)
(* the table of 4 slots of a cache of capacity 2, so that probes collide   *)
(* and go around the end of the table.                                     *)
EXTENDS LcMemCache, TLC

CONSTANTS t1, t2

MCThreads == {t1, t2}
MCKeys == {3, 7, 8}
MCValues == MCKeys \X (1 .. 4)
MCCapacities == {0, 1, 2}
MCOneQuery == {[key |-> 3, moves |-> 1], [key |-> 7, moves |-> 1],
               [key |-> 8, moves |-> 0]}
MCSameHash == {[key |-> 3, moves |-> 0], [key |-> 3, moves |-> 1],
               [key |-> 7, moves |-> 1]}
MCPositions == MCOneQuery \cup MCSameHash
MCWorkloads == {MCOneQuery, MCSameHash}
MCSymmetry == Permutations(Threads)
=============================================================================
