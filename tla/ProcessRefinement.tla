-------------------------- MODULE ProcessRefinement -------------------------
(* ProcessOps implements ProcessCommand, for threads that only stop: the    *)
(* wait thread, the nested calls of the engine thread and the commands that *)
(* clients prepare meanwhile are invisible.                                 *)
EXTENDS ProcessOps

(* An event of the thread that nobody has handled.                          *)
Event (t) == word[t] # "none" \/ held.t = t

(* The thread does nothing unless a command resumes it.                     *)
Quiet (t) == kstate[t] # "running" /\ ~Event (t) /\ t \notin pending_events

OpenCommands == {i \in DOMAIN results : ~results[i].IsCompleted}
ActiveThreads == {t \in Threads : ~Quiet (t)}
LastTold == results = << >> \/ Signalled (Len (results))

Promise == INSTANCE ProcessCommand WITH
    Members <- Live, started <- Len (results), open <- OpenCommands, active <- ActiveThreads, told <- LastTold

(* A process-wide or debugger-wide CommandResult completes once, for the    *)
(* first thread that stops; SuspendUserThreads() stops the others and no    *)
(* handler or command starts one of them meanwhile; its wait handle is set  *)
(* when all are quiet, and the next command starts all of them.             *)
ImplementsCommand == Promise!Spec
=============================================================================
