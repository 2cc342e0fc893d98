------------------------------ MODULE MCSx1262 ------------------------------
(* Two settings to switch between.                                         *)
EXTENDS Sx1262

CONSTANTS p1, p2
TwoSettings == {p1, p2}
=============================================================================
