--------------------------- MODULE WaitRefinement ---------------------------
(* WaitProtocol implements EventDelivery: moving an event from waitpid()    *)
(* over the wait thread, stop_status and the inbox to its handler is        *)
(* invisible, and no step copies, drops or overtakes one.                   *)
EXTENDS WaitProtocol

Handles == {"process", "n_wait", "n_failed"}

(* The word that is in place x of thread p.                                 *)
WordIn (p, x) ==
    CASE x = "kernel" -> kword[p]
      [] x = "wait thread" -> wev.st
      [] x = "handoff" -> stop_status.st
      [] x = "inbox" -> inbox.st
      [] x = "engine" -> eev.st

(* Where the event of p is before it reaches a handler.                     *)
Found (p) == Places (p) \ (IF epc \in Handles THEN {"engine"} ELSE {})

(* The event of p that has not reached a handler; "twice" if there are two. *)
UnderWay (p) ==
    IF Found (p) = {} THEN "none"
    ELSE IF Cardinality (Found (p)) = 1 THEN WordIn (p, CHOOSE x \in Found (p) : TRUE)
    ELSE "twice"

Running == {p \in Pids : kstate[p] = "running"}
InFlight == [p \in Pids |-> UnderWay (p)]
Handling == IF epc \in Handles THEN <<eev.pid, eev.st>> ELSE <<"none", "none">>

Delivery == INSTANCE EventDelivery WITH
    None <- "none", running <- Running, inflight <- InFlight, handling <- Handling

(* The three mutexes, stop_requested, stop_status and pending_sigstops      *)
(* (x86-linux-ptrace.c, ThreadManager.cs) give every event of a thread to   *)
(* one handler exactly once, and no thread is resumed before that.          *)
ImplementsDelivery == Delivery!Spec
=============================================================================
