--------------------------- MODULE ProcessCommand ---------------------------
(***************************************************************************)
(* What a client is promised of a command that runs all the threads of a   *)
(* process: they all start; the first of them that stops completes the     *)
(* command, once; from then on each stops and none starts again; and the   *)
(* client is told last, when all of them are quiet.                        *)
(***************************************************************************)
EXTENDS Naturals

CONSTANT Members    \* the threads of the process

VARIABLES
    started,    \* how many commands have been started
    open,       \* the commands that have not completed
    active,     \* threads that run, or have an event nobody has handled
    told        \* the wait handle of the last command

vars == <<started, open, active, told>>

Init == started = 0 /\ open = {} /\ active = {} /\ told = TRUE

Start ==
    /\ told /\ open = {} /\ active = {}
    /\ started' = started + 1 /\ open' = {started'}
    /\ active' = Members /\ told' = FALSE

(* Only one thread stops on its own: it completes the command.              *)
FirstStops (t) ==
    /\ open # {} /\ active = Members /\ t \in Members
    /\ active' = Members \ {t}
    /\ UNCHANGED <<started, open, told>>

Complete ==
    /\ open # {} /\ active # Members
    /\ open' = {}
    /\ UNCHANGED <<started, active, told>>

OtherStops (t) ==
    /\ open = {} /\ t \in active
    /\ active' = active \ {t}
    /\ UNCHANGED <<started, open, told>>

Tell ==
    /\ open = {} /\ active = {} /\ ~told
    /\ told' = TRUE
    /\ UNCHANGED <<started, open, active>>

Next == Start \/ Complete \/ Tell \/ \E t \in Members : FirstStops (t) \/ OtherStops (t)

Spec == Init /\ [][Next]_vars
=============================================================================
