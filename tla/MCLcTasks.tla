----------------------------- MODULE MCLcTasks -----------------------------
(* An instance of LcTasks for TLC.                                          *)
EXTENDS LcTasks

CONSTANTS w1, w2

MCTwo == {w1, w2}
=============================================================================
