----------------------------- MODULE MCSfEngine -----------------------------
(* Instances of SfEngine for TLC.                                          *)
EXTENDS SfEngineInv

\* An endless search, pondering on the clock, and a mated position.
MCSearches == {{"infinite"}, {"ponder", "timed"}, {"noMoves", "depth"}}
=============================================================================
