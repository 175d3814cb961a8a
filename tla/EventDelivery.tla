--------------------------- MODULE EventDelivery ---------------------------
(***************************************************************************)
(* What the engine is promised of the events of the target's threads,      *)
(* whoever calls waitpid(): an event is under way once, is given to one    *)
(* handler, and its thread runs again only when that handler, or a later   *)
(* command, says so.  There are two exceptions: the first stop of a new    *)
(* thread is consumed without a handler, and an exit with code 0 may be    *)
(* lost while the thread is being stopped.                                 *)
(***************************************************************************)
CONSTANTS Pids, Initial, Words, None

VARIABLES
    running,    \* threads that execute
    inflight,   \* the event of each thread that is on its way, or None
    handling    \* the thread and the event of the current handler, or Idle

vars == <<running, inflight, handling>>

Idle == <<None, None>>

Init == running = Initial /\ inflight = [p \in Pids |-> None] /\ handling = Idle

(* A running thread stops or exits.                                         *)
Emit (p, w) ==
    /\ p \in running
    /\ running' = running \ {p} /\ inflight' = [inflight EXCEPT ![p] = w]
    /\ UNCHANGED handling

(* A new thread, which never ran, is in its initial stop.                   *)
FirstStop (p) ==
    /\ p \notin running /\ inflight[p] = None
    /\ inflight' = [inflight EXCEPT ![p] = "init"]
    /\ UNCHANGED <<running, handling>>

(* That stop is noted in pending_sigstops.                                  *)
Absorb (p) ==
    /\ inflight[p] = "init"
    /\ inflight' = [inflight EXCEPT ![p] = None]
    /\ UNCHANGED <<running, handling>>

Deliver (p) ==
    /\ handling = Idle /\ inflight[p] # None
    /\ handling' = <<p, inflight[p]>> /\ inflight' = [inflight EXCEPT ![p] = None]
    /\ UNCHANGED running

Lose (p) ==
    /\ inflight[p] = "zero"
    /\ inflight' = [inflight EXCEPT ![p] = None]
    /\ UNCHANGED <<running, handling>>

(* The handler keeps the thread stopped or resumes it; for a clone event it *)
(* also resumes the new thread, whose first stop is over.                   *)
Finish ==
    /\ handling # Idle /\ handling' = Idle
    /\ running' = running \/ (handling[2] \notin {"exit", "zero"} /\ running' = running \cup {handling[1]})
    /\ UNCHANGED inflight

FinishClone (c) ==
    /\ handling # Idle /\ handling[2] = "clone" /\ handling' = Idle
    /\ c \notin running /\ inflight[c] \in {None, "init"}
    /\ running' \in {running \cup {c}, running \cup {handling[1], c}}
    /\ inflight' = [inflight EXCEPT ![c] = None]

(* A command resumes a thread that has no event to be handled.              *)
Resume (p) ==
    /\ handling = Idle /\ inflight[p] = None
    /\ running' = running \cup {p}
    /\ UNCHANGED <<inflight, handling>>

Next ==
    \/ Finish
    \/ \E p \in Pids : \/ FirstStop (p) \/ Absorb (p) \/ Deliver (p) \/ Lose (p)
                       \/ FinishClone (p) \/ Resume (p)
                       \/ \E w \in Words : Emit (p, w)

Spec == Init /\ [][Next]_vars
=============================================================================
