----------------------------- MODULE MCMainLoop -----------------------------
(* Model-checking instance of MainLoop.                                     *)
EXTENDS MainLoop, TLC

CONSTANTS u1, u2, t1, t2

OneUser == {u1}
TwoUsers == {u1, u2}
OneThread == {t1}
TwoThreads == {t1, t2}
Symmetry == Permutations (TwoUsers) \cup Permutations (TwoThreads)
=============================================================================
