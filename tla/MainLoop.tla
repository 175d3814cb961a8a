------------------------------ MODULE MainLoop ------------------------------
(***************************************************************************)
(* The ThreadManager: its engine thread, its wait thread, the client       *)
(* threads that call SendCommand() and StartApplication(), and Dispose().  *)
(*                                                                         *)
(* The engine thread owns the monitor of `event_queue' except while it is  *)
(* in Monitor.Wait().  The other threads enter the monitor only for the    *)
(* few lines that post a command or an event; nothing in them blocks, so   *)
(* each such section is one action that requires the engine to be waiting. *)
(* `engine_event' (manual reset), `wait_event' (auto reset), `waiting' and *)
(* `abort_requested' are read and written without the monitor.             *)
(*                                                                         *)
(* What handlers do to the target (ProcessEvent, Invoke) is reduced to     *)
(* whether its threads run, stop or exit; global_wait to its answer: see   *)
(* ThreadLock and WaitProtocol for what is inside.                         *)
(***************************************************************************)
EXTENDS Naturals, FiniteSets

CONSTANTS Users,        \* client threads of the debugger
          Threads,      \* threads of the debugged process
          NoUser, NoThread

ASSUME MainLoopAssumption ==
    /\ IsFiniteSet (Users) /\ IsFiniteSet (Threads) /\ Threads # {}
    /\ NoUser \notin Users /\ NoThread \notin Threads

VARIABLES
    engine_event, wait_event, waiting, abort_requested,
    pulsed,             \* the waiting engine thread has been signalled
    current_command,    \* the user whose command is posted
    current_event,      \* the thread whose event is posted
    epc, command, event_engine,     \* engine thread and its locals
    wpc, pid,                       \* wait thread and its local
    upc, kind, executed,    \* clients, the type and fate of their commands
    dpc,                \* the thread that runs Dispose()
    tstate              \* threads of the target

signals == <<engine_event, wait_event, waiting, abort_requested, pulsed>>
posted == <<current_command, current_event>>
engine == <<epc, command, event_engine>>
clients == <<upc, kind, executed>>
vars == <<signals, posted, engine, wpc, pid, clients, dpc, tstate>>

Init ==
    /\ engine_event = TRUE /\ wait_event = FALSE /\ waiting = FALSE
    /\ abort_requested = FALSE /\ pulsed = FALSE
    /\ current_command = NoUser /\ current_event = NoThread
    /\ epc = "wait" /\ command = NoUser /\ event_engine = NoThread
    /\ wpc = "sleep" /\ pid = NoThread
    /\ upc = [u \in Users |-> "idle"]
    /\ kind = [u \in Users |-> "access"]
    /\ executed = [u \in Users |-> FALSE]
    /\ dpc = "none"
    /\ tstate = [t \in Threads |-> "absent"]

MonitorFree == epc = "wait"
Alive (t) == tstate[t] \notin {"absent", "gone"}

-----------------------------------------------------------------------------
(* Clients: SendCommand() and StartApplication().                           *)

(* Debugger.Run() starts the application when there is none; everything     *)
(* else is a command for a thread of the process it created.                *)
UserStart (u) ==
    /\ upc[u] = "idle" /\ dpc = "none"
    /\ \/ /\ \A t \in Threads : tstate[t] = "absent"
          /\ \A v \in Users : upc[v] = "idle"
          /\ kind' = [kind EXCEPT ![u] = "create"]
       \/ /\ \E t \in Threads : Alive (t)
          /\ kind' = [kind EXCEPT ![u] = "access"]
    /\ upc' = [upc EXCEPT ![u] = "gate"]
    /\ executed' = [executed EXCEPT ![u] = FALSE]
    /\ UNCHANGED <<signals, posted, engine, wpc, pid, dpc, tstate>>

UserGate (u) ==
    /\ upc[u] = "gate" /\ engine_event
    /\ upc' = [upc EXCEPT ![u] = "lock"]
    /\ UNCHANGED <<signals, posted, engine, wpc, pid, kind, executed, dpc, tstate>>

(* WaitOne (WaitTimeout) fails: TargetError.NotStopped.                     *)
UserTimeout (u) ==
    /\ upc[u] = "gate" /\ ~engine_event
    /\ upc' = [upc EXCEPT ![u] = "idle"]
    /\ UNCHANGED <<signals, posted, engine, wpc, pid, kind, executed, dpc, tstate>>

(* Mutant: the command is posted without entering the monitor.              *)
UserPostUnlocked (u) ==
    /\ upc[u] = "lock"
    /\ engine_event' = FALSE /\ pulsed' = (pulsed \/ MonitorFree)
    /\ current_command' = u
    /\ upc' = [upc EXCEPT ![u] = "result"]
    /\ UNCHANGED <<wait_event, waiting, abort_requested, current_event, engine, wpc, pid,
                   kind, executed, dpc, tstate>>

(* Lock, Reset, current_command = command, Signal, Unlock.                  *)
UserPost (u) ==
    /\ upc[u] = "lock" /\ MonitorFree
    /\ engine_event' = FALSE /\ pulsed' = TRUE
    /\ current_command' = u
    /\ upc' = [upc EXCEPT ![u] = "result"]
    /\ UNCHANGED <<wait_event, waiting, abort_requested, current_event, engine, wpc, pid,
                   kind, executed, dpc, tstate>>

UserReturn (u) ==
    /\ upc[u] = "result" /\ engine_event
    /\ upc' = [upc EXCEPT ![u] = "idle"]
    /\ UNCHANGED <<signals, posted, engine, wpc, pid, kind, executed, dpc, tstate>>

-----------------------------------------------------------------------------
(* The engine thread: start_inferior() and engine_thread_main().            *)

(* Mutant: current_event is not cleared when it is taken.                   *)
EngineWakeKeepsEvent ==
    /\ epc = "wait" /\ pulsed
    /\ pulsed' = FALSE
    /\ IF abort_requested
       THEN epc' = "loop" /\ UNCHANGED <<posted, command, event_engine>>
       ELSE /\ event_engine' = current_event
            /\ command' = current_command /\ current_command' = NoUser
            /\ epc' = IF current_event # NoThread THEN "event"
                      ELSE IF current_command # NoUser THEN "command" ELSE "loop"
            /\ UNCHANGED current_event
    /\ UNCHANGED <<engine_event, wait_event, waiting, abort_requested, wpc, pid, clients,
                   dpc, tstate>>

EngineWake ==
    /\ epc = "wait" /\ pulsed
    /\ pulsed' = FALSE
    /\ IF abort_requested
       THEN epc' = "loop" /\ UNCHANGED <<posted, command, event_engine>>
       ELSE /\ event_engine' = current_event /\ current_event' = NoThread
            /\ command' = current_command /\ current_command' = NoUser
            /\ epc' = IF current_event # NoThread THEN "event"
                      ELSE IF current_command # NoUser THEN "command" ELSE "loop"
    /\ UNCHANGED <<engine_event, wait_event, waiting, abort_requested, wpc, pid, clients,
                   dpc, tstate>>

(* Mutant: engine_event is set even though a command is still to be run.    *)
ProcessEventSets ==
    /\ epc = "event"
    /\ \E result \in {"stopped", "running", "gone"} :
          tstate' = [tstate EXCEPT ![event_engine] = result]
    /\ dpc' = IF \A t \in Threads : tstate'[t] \in {"absent", "gone"} THEN "queued" ELSE dpc
    /\ engine_event' = TRUE
    /\ event_engine' = NoThread
    /\ epc' = "request"
    /\ UNCHANGED <<wait_event, waiting, abort_requested, pulsed, posted, command, wpc, pid,
                   clients>>

(* ProcessEvent(): the thread stays stopped, is resumed, or has exited; the *)
(* exit of the last one queues Debugger.Dispose() on the thread pool.       *)
ProcessEvent ==
    /\ epc = "event"
    /\ \E result \in {"stopped", "running", "gone"} :
          tstate' = [tstate EXCEPT ![event_engine] = result]
    /\ dpc' = IF \A t \in Threads : tstate'[t] \in {"absent", "gone"} THEN "queued" ELSE dpc
    /\ engine_event' = (engine_event \/ command = NoUser)
    /\ event_engine' = NoThread
    /\ epc' = "request"
    /\ UNCHANGED <<wait_event, waiting, abort_requested, pulsed, posted, command, wpc, pid,
                   clients>>

(* Mutant: RequestWait() only when there is no command.                     *)
RequestWaitIdle ==
    /\ epc = "request"
    /\ IF waiting THEN epc' = "crashed" /\ UNCHANGED wait_event
       ELSE /\ wait_event' = (wait_event \/ command = NoUser)
            /\ epc' = IF command = NoUser THEN "loop" ELSE "command"
    /\ UNCHANGED <<engine_event, waiting, abort_requested, pulsed, posted, command,
                   event_engine, wpc, pid, clients, dpc, tstate>>

(* RequestWait() after an event: its InternalError ends the engine thread.  *)
RequestWait ==
    /\ epc = "request"
    /\ IF waiting THEN epc' = "crashed" /\ UNCHANGED wait_event
       ELSE /\ wait_event' = TRUE
            /\ epc' = IF command = NoUser THEN "loop" ELSE "command"
    /\ UNCHANGED <<engine_event, waiting, abort_requested, pulsed, posted, command,
                   event_engine, wpc, pid, clients, dpc, tstate>>

(* Mutant: engine_event is not set after the command.                       *)
RunCommandNoSet ==
    /\ epc = "command" /\ kind[command] = "access"
    /\ UNCHANGED tstate
    /\ executed' = [executed EXCEPT ![command] = TRUE]
    /\ command' = NoUser /\ epc' = "loop"
    /\ UNCHANGED <<signals, posted, event_engine, wpc, pid, upc, kind, dpc>>

(* Invoke(): any stopped threads may be resumed by the command.             *)
RunCommand ==
    /\ epc = "command" /\ kind[command] = "access"
    /\ \E S \in SUBSET {t \in Threads : tstate[t] = "stopped"} :
          tstate' = [t \in Threads |-> IF t \in S THEN "running" ELSE tstate[t]]
    /\ executed' = [executed EXCEPT ![command] = TRUE]
    /\ engine_event' = TRUE /\ command' = NoUser /\ epc' = "loop"
    /\ UNCHANGED <<wait_event, waiting, abort_requested, pulsed, posted, event_engine, wpc,
                   pid, upc, kind, dpc>>

(* CreateProcess: the new process runs before RequestWait(), whose          *)
(* exception would become the command's result.                             *)
CreateProcess ==
    /\ epc = "command" /\ kind[command] = "create"
    /\ tstate' = [t \in Threads |-> "running"]
    /\ wait_event' = (wait_event \/ ~waiting)
    /\ executed' = [executed EXCEPT ![command] = TRUE]
    /\ engine_event' = TRUE /\ command' = NoUser /\ epc' = "loop"
    /\ UNCHANGED <<waiting, abort_requested, pulsed, posted, event_engine, wpc, pid, upc,
                   kind, dpc>>

(* while (!abort_requested); the monitor is never released on the way out.  *)
EngineLoop ==
    /\ epc = "loop"
    /\ epc' = IF abort_requested THEN "exited" ELSE "enter"
    /\ UNCHANGED <<signals, posted, command, event_engine, wpc, pid, clients, dpc, tstate>>

EngineEnterWait ==
    /\ epc = "enter"
    /\ epc' = "wait"
    /\ UNCHANGED <<signals, posted, command, event_engine, wpc, pid, clients, dpc, tstate>>

-----------------------------------------------------------------------------
(* The wait thread: start_wait_thread() and wait_thread_main().             *)

WaitWake ==
    /\ wpc = "sleep" /\ wait_event
    /\ wait_event' = FALSE /\ wpc' = "woken"
    /\ UNCHANGED <<engine_event, waiting, abort_requested, pulsed, posted, engine, pid,
                   clients, dpc, tstate>>

SetWaiting ==
    /\ wpc = "woken"
    /\ waiting' = TRUE /\ wpc' = "again"
    /\ UNCHANGED <<engine_event, wait_event, abort_requested, pulsed, posted, engine, pid,
                   clients, dpc, tstate>>

WaitAgain ==
    /\ wpc = "again"
    /\ wpc' = IF abort_requested THEN "reap" ELSE "poll"
    /\ UNCHANGED <<signals, posted, engine, pid, clients, dpc, tstate>>

(* global_wait() has an event; with abort_requested it is thrown away.      *)
WaitEvent (t) ==
    /\ wpc = "poll" /\ tstate[t] = "event"
    /\ tstate' = [tstate EXCEPT ![t] = "held"]
    /\ IF abort_requested THEN wpc' = "sleep" /\ UNCHANGED pid
                          ELSE wpc' = "got" /\ pid' = t
    /\ UNCHANGED <<signals, posted, engine, clients, dpc>>

(* Mutant: the result of a failed global_wait() is taken for a thread.      *)
WaitNoChildUnchecked ==
    /\ wpc \in {"poll", "reap"} /\ \A t \in Threads : ~Alive (t)
    /\ wpc' = "got" /\ pid' = 0
    /\ UNCHANGED <<signals, posted, engine, clients, dpc, tstate>>

(* ECHILD, in the normal loop and in the one that reaps the children.  The  *)
(* 0 that do_wait() makes of EINTR is left out: the one signal this source  *)
(* sends the wait thread is the Thread.Abort() of Dispose().                *)
WaitNoChild ==
    /\ wpc \in {"poll", "reap"} /\ \A t \in Threads : ~Alive (t)
    /\ wpc' = IF wpc = "poll" THEN "sleep" ELSE "exited"
    /\ UNCHANGED <<signals, posted, engine, pid, clients, dpc, tstate>>

WaitGate ==
    /\ wpc = "got" /\ engine_event
    /\ wpc' = "lock"
    /\ UNCHANGED <<signals, posted, engine, pid, clients, dpc, tstate>>

(* Mutant: `waiting' is not reset.                                          *)
WaitPostWaiting ==
    /\ wpc = "lock" /\ MonitorFree
    /\ engine_event' = FALSE
    /\ current_event' = pid /\ pid' = NoThread
    /\ pulsed' = TRUE /\ wpc' = "sleep"
    /\ UNCHANGED <<waiting, wait_event, abort_requested, current_command, engine, clients,
                   dpc, tstate>>

(* Lock, Reset, post the event, waiting = false, Signal, Unlock.            *)
WaitPost ==
    /\ wpc = "lock" /\ MonitorFree
    /\ engine_event' = FALSE
    /\ IF current_event # NoThread
       THEN wpc' = "crashed" /\ UNCHANGED <<current_event, waiting, pulsed, pid>>
       ELSE /\ current_event' = pid /\ pid' = NoThread
            /\ waiting' = FALSE /\ pulsed' = TRUE /\ wpc' = "sleep"
    /\ UNCHANGED <<wait_event, abort_requested, current_command, engine, clients, dpc, tstate>>

-----------------------------------------------------------------------------
(* Dispose(), on a thread of the thread pool once the target is gone.       *)

DisposeAbort ==
    /\ dpc = "queued"
    /\ abort_requested' = TRUE /\ dpc' = "signal"
    /\ UNCHANGED <<engine_event, wait_event, waiting, pulsed, posted, engine, wpc, pid,
                   clients, tstate>>

(* if (event_queue.TryLock ()) { Signal; Unlock }                           *)
DisposeSignal ==
    /\ dpc = "signal"
    /\ pulsed' = (pulsed \/ MonitorFree) /\ dpc' = "join"
    /\ UNCHANGED <<engine_event, wait_event, waiting, abort_requested, posted, engine, wpc,
                   pid, clients, tstate>>

(* inferior_thread.Join (); wait_thread.Abort (); wait_thread.Join ();      *)
DisposeJoin ==
    /\ dpc = "join" /\ epc \in {"exited", "crashed"}
    /\ dpc' = "done" /\ wpc' = "exited" /\ pid' = NoThread
    /\ UNCHANGED <<signals, posted, engine, clients, tstate>>

-----------------------------------------------------------------------------
(* The target: a running thread stops or exits.                             *)
TargetEvent (t) ==
    /\ tstate[t] = "running"
    /\ tstate' = [tstate EXCEPT ![t] = "event"]
    /\ UNCHANGED <<signals, posted, engine, wpc, pid, clients, dpc>>

(* Everything has been disposed.                                            *)
Terminated == dpc = "done" /\ UNCHANGED vars

UserThread (u) == UserGate (u) \/ UserTimeout (u) \/ UserPost (u) \/ UserReturn (u)
EngineThread ==
    \/ EngineWake \/ ProcessEvent \/ RequestWait \/ RunCommand \/ CreateProcess
    \/ EngineLoop \/ EngineEnterWait
WaitThread ==
    \/ WaitWake \/ SetWaiting \/ WaitAgain \/ WaitNoChild \/ WaitGate \/ WaitPost
    \/ \E t \in Threads : WaitEvent (t)
DisposeThread == DisposeAbort \/ DisposeSignal \/ DisposeJoin

Next ==
    \/ \E u \in Users : UserStart (u) \/ UserThread (u)
    \/ EngineThread \/ WaitThread \/ DisposeThread
    \/ \E t \in Threads : TargetEvent (t)
    \/ Terminated

(* The debugger's own threads are scheduled; a client that has started a    *)
(* command goes on with it.  The target and the users promise nothing.      *)
Fairness ==
    /\ WF_vars (EngineThread) /\ WF_vars (WaitThread) /\ WF_vars (DisposeThread)
    /\ \A u \in Users : WF_vars (UserThread (u))

Spec == Init /\ [][Next]_vars
FairSpec == Spec /\ Fairness

-----------------------------------------------------------------------------
(* Properties.                                                              *)

(* Every variable has its type: a failed global_wait() never becomes the    *)
(* thread of an event (wait_thread_main).                                   *)
TypeOK ==
    /\ engine_event \in BOOLEAN /\ wait_event \in BOOLEAN /\ waiting \in BOOLEAN
    /\ abort_requested \in BOOLEAN /\ pulsed \in BOOLEAN
    /\ current_command \in Users \cup {NoUser} /\ current_event \in Threads \cup {NoThread}
    /\ epc \in {"wait", "event", "request", "command", "loop", "enter", "exited", "crashed"}
    /\ command \in Users \cup {NoUser} /\ event_engine \in Threads \cup {NoThread}
    /\ wpc \in {"sleep", "woken", "again", "poll", "got", "lock", "reap", "exited", "crashed"}
    /\ pid \in Threads \cup {NoThread}
    /\ upc \in [Users -> {"idle", "gate", "lock", "result"}]
    /\ kind \in [Users -> {"access", "create"}] /\ executed \in [Users -> BOOLEAN]
    /\ dpc \in {"none", "queued", "signal", "join", "done"}
    /\ tstate \in [Threads -> {"absent", "running", "event", "held", "stopped", "gone"}]

(* Neither `throw new InternalError' of the main loop is reachable: the     *)
(* wait thread never finds an unprocessed current_event, and RequestWait()  *)
(* never finds the wait thread still waiting.                               *)
NoInternalError == epc # "crashed" /\ wpc # "crashed"

(* Who has the event of a thread.                                           *)
Holders (t) ==
    {x \in {"wait thread", "posted", "engine"} :
        \/ x = "wait thread" /\ pid = t
        \/ x = "posted" /\ current_event = t
        \/ x = "engine" /\ event_engine = t}

(* An event that waitpid() returned is in exactly one pair of hands until   *)
(* its handler has run: the wait thread's, current_event's or the engine's. *)
EventHeldOnce ==
    ~abort_requested =>
        \A t \in Threads : Cardinality (Holders (t)) = (IF tstate[t] = "held" THEN 1 ELSE 0)

(* The engine thread never sleeps on posted work: Signal() is never lost.   *)
NoLostSignal ==
    epc \in {"wait", "enter"} /\ (current_event # NoThread \/ current_command # NoUser)
        => pulsed

(* SendCommand() returns to its caller only after its command has run.      *)
CommandRanBeforeReturn ==
    [][\A u \in Users : upc[u] = "result" /\ upc'[u] = "idle" => executed[u]]_vars

Quiet == \A t \in Threads : tstate[t] # "running"

(* When the target is quiet, a command that passed the gate returns to its  *)
(* caller: the engine_event it waits for is set again.                      *)
CommandReturns ==
    <>[](Quiet /\ dpc = "none") =>
        \A u \in Users : upc[u] = "lock" ~> upc[u] = "idle"

(* When the clients are quiet, the main loop does not stall: while waitpid  *)
(* has an event to report, the engine thread gets to process one.           *)
EventsProcessed ==
    <>[](dpc = "none" /\ \A u \in Users : upc[u] = "idle") =>
        ((\E t \in Threads : tstate[t] = "event") ~> epc = "event")

(* Dispose(): ``Once both threads exited, we can go ahead and dispose       *)
(* everything.''                                                            *)
DisposeFinishes == dpc = "queued" ~> dpc = "done"
=============================================================================
