------------------------------ MODULE MCLcMux ------------------------------
(***************************************************************************)
(* LcMux for TLC: two threads in each network and two clients. With a      *)
(* limit of two, two batches of one are gathered if both are queued, a     *)
(* batch of three exceeds the limit and is taken alone, and its parts over *)
(* two threads differ in size. Each mux thread and each client may refer   *)
(* to one computation.                                                     *)
(***************************************************************************)
EXTENDS LcMux

CONSTANTS c1, c2, t1, t2, w1, w2, k1, k2, k3, k4

MCClients == {c1, c2}
MCThreads == {t1, t2}
MCMuxThreads == {w1, w2}
MCComputations == {k1, k2, k3, k4}
MCBatchSizes == {c1 :> 1 @@ c2 :> 1, c1 :> 1 @@ c2 :> 3}
MCLayouts == {"multiplexing", "demux"}
=============================================================================
