---------------------------- MODULE MCProcessOps ----------------------------
(* Model-checking instance of ProcessOps: u1 is the thread of the process   *)
(* p2 that a fork creates, all others belong to p1.                         *)
EXTENDS ProcessRefinement

CONSTANTS t1, t2, t3, u1, p1, p2

ProcessOfThread == [t \in Threads |-> IF t = u1 THEN p2 ELSE p1]
MainThread == [p \in Processes |-> IF p = p1 THEN t1 ELSE u1]
=============================================================================
