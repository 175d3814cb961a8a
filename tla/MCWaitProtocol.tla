--------------------------- MODULE MCWaitProtocol ---------------------------
(* Model-checking instance of WaitProtocol: the constants are model values. *)
EXTENDS WaitRefinement

CONSTANTS p1, p2, p3

Two == {p1, p2}
One == {p1}
Spares == {p3}
None == {}
=============================================================================
