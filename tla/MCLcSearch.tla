---------------------------- MODULE MCLcSearch -----------------------------
(* Instances of LcSearch for TLC.                                          *)
EXTENDS LcSearch, TLC

CONSTANTS w1, w2, l1

MCWorkers == {w1, w2}
MCLeaves == {l1}
=============================================================================
