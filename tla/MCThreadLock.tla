---------------------------- MODULE MCThreadLock ----------------------------
(* Model-checking instance of ThreadLock.                                   *)
EXTENDS ThreadLock, TLC

CONSTANTS t1, t2, t3, b1

Two == {t1, t2}
Three == {t1, t2, t3}
OneBreakpoint == {b1}

HitsExitsSignals == {"bp", "exit", "signal"}
NoCommands == {}
AllCommands == {"run", "step", "stop"}

Symmetry == Permutations (Two)
=============================================================================
