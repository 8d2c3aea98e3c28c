---------------------------- MODULE MCSfMovePick ----------------------------
(***************************************************************************)
(* SfMovePick for TLC.                                                     *)
(***************************************************************************)
EXTENDS SfMovePick

CONSTANTS c1, c2, c3, q1, q2, q3

MCCaptures == <<c1, c2, c3>>
MCQuiets == <<q1, q2, q3>>
MCRefused == {c1, q1}

(* At depth 1 quiets are in order down to -3560, so the third value is     *)
(* good and left unsorted; at depth 4 down to -14240, so the second is     *)
(* sorted among the bad.                                                   *)
MCQuietValues == {-15000, -14100, -5000, 0}
MCCaptureValues == {1, 2}
MCGarbage == {0, 9}
=============================================================================
