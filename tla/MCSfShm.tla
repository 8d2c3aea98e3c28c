------------------------------ MODULE MCSfShm ------------------------------
(* An instance of SfShm for TLC.                                            *)
EXTENDS SfShm

CONSTANTS p1, p2

MCTwo == {p1, p2}
=============================================================================
