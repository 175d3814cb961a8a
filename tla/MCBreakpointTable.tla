-------------------------- MODULE MCBreakpointTable --------------------------
(* Model-checking instance of BreakpointTable.                              *)
EXTENDS BreakpointTable, TLC

CONSTANTS t1, t2, a1, h1, h2, w1

Two == {t1, t2}
OneAddress == {a1}
OneHandle == {h1}
OneFunction == {h2}
OneWatch == {w1}

Symmetry == Permutations (Two)
=============================================================================
