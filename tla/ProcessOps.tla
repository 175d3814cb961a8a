----------------------------- MODULE ProcessOps -----------------------------
(***************************************************************************)
(* Commands that operate on several threads and processes.                 *)
(*                                                                         *)
(* A command runs one thread and, in ThreadingModel.Process and .Global,   *)
(* resumes the others; they all carry the same CommandResult.  The first   *)
(* of them that stops completes it: the others are suspended one after the *)
(* other, and the wait handle of the result is set.                        *)
(*                                                                         *)
(* The engine thread runs one handler or command at a time.  `calls' is    *)
(* its call stack, the innermost call first: the calls of Completed(),     *)
(* OperationCompleted() and SuspendUserThreads() nest, and an exception    *)
(* unwinds them all.  Threads of the target, the wait thread and clients   *)
(* run between its steps.  What Inferior.Stop returns is the contract that *)
(* WaitProtocol checks; threads exit one at a time, the first one last.    *)
(***************************************************************************)
EXTENDS Naturals, Sequences, FiniteSets

CONSTANTS
    Threads, Processes,
    ProcessOf, MainOf,      \* a thread's process, a process's main_thread
    Live,                   \* threads of the first process at the start
    Daemons,                \* Thread.Flags.Daemon or .Immutable
    Parkable,               \* threads whose Flags.AutoRun the user may clear
    Reports,                \* what threads of the target may do
    Models,                 \* threading models that clients use
    Commands,               \* other commands of clients
    MaxResults,             \* bound: process and global commands
    NoThread

AllReports == {"stop", "unknown", "exit", "spawn"}
AllModels == {"single", "resume", "process", "global"}

ASSUME ProcessOpsAssumption ==
    /\ IsFiniteSet (Threads) /\ NoThread \notin Threads
    /\ ProcessOf \in [Threads -> Processes] /\ MainOf \in [Processes -> Threads]
    /\ \A p \in Processes : ProcessOf[MainOf[p]] = p
    /\ Live # {} /\ Live \subseteq Threads /\ Live \cap Daemons = {}
    /\ \A t \in Live : ProcessOf[t] = ProcessOf[CHOOSE u \in Live : TRUE] /\ MainOf[ProcessOf[t]] \in Live
    /\ Reports \subseteq AllReports /\ Models \subseteq AllModels /\ MaxResults \in Nat
    /\ Commands \subseteq {"abort", "stop"} /\ Parkable \subseteq Threads

First == ProcessOf[CHOOSE t \in Live : TRUE]
StopOnExit == {MainOf[First]}       \* set by StartApplication() only

(* OperationCommandResults: null, an index of `results', or the             *)
(* ThreadCommandResult of the thread.                                       *)
Null == 0
Own == MaxResults + 1

VARIABLES
    kstate, word, sigstop, child,       \* the target
    held,                               \* the wait thread: a reaped event
    busy, from_wait, calls, hung,       \* the engine thread
    pending_events,                     \* threads with an event set aside
    engine_stopped, op, thread_lock,    \* SingleSteppingEngine, per thread
    thread_hash, current_state, current_operation, stopped_event,   \* Process
    process_hash, global_operation, global_event,                   \* Debugger
    results,    \* [model, process, IsCompleted] of every result
    command     \* a client's command: Step() has checked the thread

target == <<kstate, word, sigstop, child>>
engine == <<busy, from_wait, calls, hung, pending_events>>
sse == <<engine_stopped, op, thread_lock>>
process == <<thread_hash, current_state, current_operation, stopped_event>>
debugger == <<process_hash, global_operation, global_event, results>>
vars == <<target, held, engine, sse, process, debugger, command>>

NoEvent == [t |-> NoThread, w |-> "none"]

(* The first process has been started and has stopped.                      *)
Init ==
    /\ kstate = [t \in Threads |-> IF t \in Live THEN "stopped" ELSE "absent"]
    /\ word = [t \in Threads |-> "none"] /\ sigstop = [t \in Threads |-> FALSE]
    /\ child = [t \in Threads |-> NoThread]
    /\ held = NoEvent
    /\ busy = FALSE /\ from_wait = FALSE /\ calls = << >> /\ hung = FALSE
    /\ pending_events = {}
    /\ engine_stopped = [t \in Threads |-> TRUE] /\ op = [t \in Threads |-> Null]
    /\ thread_lock = [t \in Threads |-> FALSE]
    /\ thread_hash = [p \in Processes |-> IF p = First THEN Live ELSE {}]
    /\ current_state = [p \in Processes |-> "stopped"]
    /\ current_operation = [p \in Processes |-> Null]
    /\ stopped_event = [p \in Processes |-> p = First]
    /\ process_hash = {First} /\ global_operation = Null /\ global_event = FALSE
    /\ results = << >> /\ command = NoEvent

-----------------------------------------------------------------------------
(* The target and the wait thread.                                          *)

(* The kernel reports the exit of the first thread after all others.        *)
MayExit (t) ==
    \A u \in Threads \ {t} :
        t = MainOf[ProcessOf[t]] /\ ProcessOf[u] = ProcessOf[t] =>
            kstate[u] = "absent" \/ (kstate[u] = "dead" /\ word[u] = "none")

Halts (t, w) ==
    /\ kstate[t] = "running"
    /\ w \in Reports \ {"spawn"} /\ (w = "exit" => MayExit (t))
    /\ kstate' = [kstate EXCEPT ![t] = IF w = "exit" THEN "dead" ELSE "stopped"]
    /\ UNCHANGED child

(* clone() or fork(): the new thread waits in its initial stop.             *)
Spawns (t, c) ==
    /\ "spawn" \in Reports /\ kstate[t] = "running" /\ kstate[c] = "absent"
    /\ ProcessOf[c] = ProcessOf[t] \/ MainOf[ProcessOf[c]] = c
    /\ kstate' = [kstate EXCEPT ![t] = "stopped", ![c] = "stopped"]
    /\ child' = [child EXCEPT ![t] = c]

Report (t, w) ==
    /\ IF w = "spawn" THEN \E c \in Threads : Spawns (t, c) ELSE Halts (t, w)
    /\ word' = [word EXCEPT ![t] = w]
    /\ UNCHANGED <<sigstop, held, engine, sse, process, debugger, command>>

DeliverSigstop (t) ==
    /\ kstate[t] = "running" /\ sigstop[t]
    /\ kstate' = [kstate EXCEPT ![t] = "stopped"]
    /\ word' = [word EXCEPT ![t] = "int"] /\ sigstop' = [sigstop EXCEPT ![t] = FALSE]
    /\ UNCHANGED <<child, held, engine, sse, process, debugger, command>>

WaitReap (t) ==
    /\ held = NoEvent /\ ~from_wait /\ word[t] # "none"
    /\ held' = [t |-> t, w |-> word[t]] /\ word' = [word EXCEPT ![t] = "none"]
    /\ UNCHANGED <<kstate, sigstop, child, engine, sse, process, debugger, command>>

Target == \E t \in Threads : \/ DeliverSigstop (t) \/ WaitReap (t)
                             \/ \E w \in AllReports : Report (t, w)

-----------------------------------------------------------------------------
(* Calls of the engine thread.                                              *)

(* SingleSteppingEngine.OperationCompleted (args), args being null, "stop"  *)
(* (stopped or interrupted) or "exit"; what follows result.Completed(); the *)
(* host's OperationCompleted(); SuspendUserThreads().                       *)
Complete (t, w) == [call |-> "complete", t |-> t, w |-> w]
Completing (t, w) == [call |-> "completing", t |-> t, w |-> w]
HostCompleted (p, t, w) == [call |-> "host", p |-> p, t |-> t, w |-> w]
GlobalCompleted (t, w) ==
    [call |-> "global", t |-> t, w |-> w, todo |-> process_hash, snap |-> process_hash]
Suspend (p, t, w) ==
    [call |-> "suspend", p |-> p, t |-> t, w |-> w,
     todo |-> thread_hash[p], snap |-> thread_hash[p]]

In (name) == ~hung /\ calls # << >> /\ Head (calls).call = name
top == Head (calls)
Return == calls' = Tail (calls)
Call (c) == calls' = <<c>> \o calls
TailCall (c) == calls' = <<c>> \o Tail (calls)

(* An exception: engine_thread_main() catches it.                           *)
Throw == calls' = << >>

Go (T) == kstate' = [t \in Threads |->
                        IF t \in T /\ kstate[t] = "stopped" THEN "running" ELSE kstate[t]]

(* OperationCommandResult.Completed (sse, args) and what precedes it in     *)
(* SingleSteppingEngine.OperationCompleted(), which holds the engine's lock *)
(* until it returns.                                                        *)
Exited (t, w) == w = "exit" /\ t \notin StopOnExit
Fresh (i) == i = Own \/ (i # Null /\ ~results[i].IsCompleted)

OperationCompleted ==
    /\ In ("complete")
    /\ engine_stopped' = [engine_stopped EXCEPT ![top.t] = TRUE]
    /\ LET i == op[top.t]
           after == <<Completing (top.t, top.w)>> \o Tail (calls)
       IN  \/ /\ i = Null /\ Throw /\ UNCHANGED results
           \/ /\ i # Null /\ (i = Own \/ ~Fresh (i) \/ Exited (top.t, top.w))
              /\ calls' = after /\ UNCHANGED results
           \/ /\ i \notin {Null, Own} /\ Fresh (i) /\ ~Exited (top.t, top.w)
              /\ results' = [results EXCEPT ![i].IsCompleted = TRUE]
              /\ calls' = <<IF results[i].model = "global"
                            THEN GlobalCompleted (top.t, top.w)
                            ELSE HostCompleted (results[i].process, top.t, top.w)>> \o after
    /\ UNCHANGED <<target, held, busy, from_wait, hung, pending_events, op, thread_lock, process,
                   process_hash, global_operation, global_event, command>>

(* current_operation = null; then the end of OnThreadExited(), with         *)
(* Process.OnThreadExitedEvent() and .OnProcessExitedEvent().               *)
OperationDone ==
    /\ In ("completing") /\ Return
    /\ op' = [op EXCEPT ![top.t] = Null]
    /\ LET p == ProcessOf[top.t]
           last == top.w = "exit" /\ thread_hash[p] = {top.t}
           completes == last /\ current_state[p] = "running"
       IN  /\ thread_hash' = [thread_hash EXCEPT ![p] = IF top.w = "exit" THEN @ \ {top.t} ELSE @]
           /\ current_state' = [current_state EXCEPT ![p] = IF completes THEN "exited" ELSE @]
           /\ current_operation' = [current_operation EXCEPT ![p] = IF completes THEN Null ELSE @]
           /\ stopped_event' = [stopped_event EXCEPT ![p] = @ \/ completes]
           /\ process_hash' = IF last THEN process_hash \ {p} ELSE process_hash
    /\ UNCHANGED <<target, held, busy, from_wait, hung, pending_events, engine_stopped, thread_lock,
                   global_operation, global_event, results, command>>

(* Mutant: the client is told before the other threads are suspended.       *)
ProcessCompletedFirst ==
    /\ In ("host") /\ current_state[top.p] = "running"
    /\ current_state' = [current_state EXCEPT ![top.p] = "stopping"]
    /\ stopped_event' = [stopped_event EXCEPT ![top.p] = TRUE]
    /\ TailCall (Suspend (top.p, top.t, top.w))
    /\ UNCHANGED <<target, held, busy, from_wait, hung, pending_events, sse, thread_hash,
                   current_operation, debugger, command>>

(* Process.OperationCompleted().                                            *)
ProcessCompleted ==
    /\ In ("host")
    /\ LET p == top.p
           nested == current_state[p] = "stopping"
           others == top.w = "exit" /\ top.t # MainOf[p]
       IN  \/ /\ nested /\ Return /\ UNCHANGED current_state
           \/ /\ ~nested /\ current_state[p] # "running"
              /\ Throw /\ UNCHANGED current_state
           \/ /\ current_state[p] = "running" /\ others
              /\ Return /\ UNCHANGED current_state
           \/ /\ current_state[p] = "running" /\ ~others
              /\ current_state' = [current_state EXCEPT ![p] = "stopping"]
              /\ TailCall (Suspend (p, top.t, top.w))
    /\ UNCHANGED <<target, held, busy, from_wait, hung, pending_events, sse, thread_hash,
                   current_operation, stopped_event, debugger, command>>

(* Debugger.OperationCompleted().                                           *)
GlobalNext ==
    /\ In ("global")
    /\ \/ /\ process_hash # top.snap /\ Throw
       \/ /\ process_hash = top.snap
          /\ \E p \in top.todo :
                calls' = <<HostCompleted (p, top.t, top.w), [top EXCEPT !.todo = @ \ {p}]>>
                            \o Tail (calls)
    /\ UNCHANGED <<target, held, busy, from_wait, hung, pending_events, sse, process, debugger, command>>

GlobalDone ==
    /\ In ("global") /\ process_hash = top.snap /\ top.todo = {} /\ Return
    /\ global_operation' = Null /\ global_event' = TRUE
    /\ UNCHANGED <<target, held, busy, from_wait, hung, pending_events, sse, process, process_hash,
                   results, command>>

-----------------------------------------------------------------------------
(* SuspendUserThreads(): thread_hash is enumerated, and a change of it      *)
(* makes the enumerator throw.                                              *)

Suspending (t) ==
    /\ In ("suspend") /\ thread_hash[top.p] = top.snap /\ t \in top.todo
(* Mutant: only threads of this operation are suspended.                    *)
SkippedOwn (t) == t = top.t \/ op[t] = Own \/ engine_stopped[t]

Skipped (t) == t = top.t \/ t \in Daemons \/ (engine_stopped[t] /\ ~thread_lock[t])
Rest (t) == [top EXCEPT !.todo = @ \ {t}]

SuspendSkip (t) ==
    /\ Suspending (t) /\ Skipped (t)
    /\ TailCall (Rest (t))
    /\ UNCHANGED <<target, held, busy, from_wait, hung, pending_events, sse, process, debugger, command>>

(* ``Recursive thread lock''; or no event, because the wait thread has the  *)
(* exit: reading its registers fails.                                       *)
SuspendThrows ==
    /\ In ("suspend")
    /\ \/ thread_hash[top.p] # top.snap
       \/ \E t \in top.todo :
             /\ ~Skipped (t)
             /\ thread_lock[t] \/ (kstate[t] = "dead" /\ word[t] = "none")
    /\ Throw
    /\ UNCHANGED <<target, held, busy, from_wait, hung, pending_events, sse, process, debugger, command>>

(* The thread is stopped, and its event is not there to be waited for.      *)
SuspendHangs (t) ==
    /\ Suspending (t) /\ ~Skipped (t) /\ ~thread_lock[t]
    /\ kstate[t] = "stopped" /\ word[t] = "none"
    /\ hung' = TRUE
    /\ UNCHANGED <<target, held, busy, from_wait, calls, pending_events, sse, process, debugger, command>>

(* A thread that CHILD_CREATED_THREAD or CHILD_FORKED announces: it starts  *)
(* with the operation of the process, CloneParentOperation() for a fork.    *)
CloneResult (p) == IF current_operation[p] = Null THEN Own ELSE current_operation[p]
NewResult (m, p) == [model |-> m, process |-> p, IsCompleted |-> FALSE]

ThreadCreated (t, c) ==
    /\ ProcessOf[c] = ProcessOf[t]
    /\ thread_hash' = [thread_hash EXCEPT ![ProcessOf[t]] = @ \cup {c}]
    /\ engine_stopped' = [engine_stopped EXCEPT ![c] = FALSE]
    /\ op' = [op EXCEPT ![c] = CloneResult (ProcessOf[t])]
    /\ UNCHANGED <<current_state, current_operation, stopped_event, debugger>>

(* Mutant: the new thread is added to the process that forked.              *)
ChildForkedHere (t, c) ==
    /\ ProcessOf[t] # ProcessOf[c] /\ current_state[ProcessOf[t]] \in {"single", "running"}
    /\ thread_hash' = [thread_hash EXCEPT ![ProcessOf[t]] = @ \cup {c}]
    /\ engine_stopped' = [engine_stopped EXCEPT ![c] = FALSE]
    /\ op' = [op EXCEPT ![c] = CloneResult (ProcessOf[t])]
    /\ UNCHANGED <<current_state, current_operation, stopped_event, debugger>>

ChildForked (t, c) ==
    LET p == ProcessOf[t]
        q == ProcessOf[c]
        single == current_state[p] = "single"
        global == ~single /\ results[current_operation[p]].model = "global"
        i == IF global THEN current_operation[p] ELSE Len (results) + 1
    IN  /\ p # q /\ current_state[p] \in {"single", "running"}
        /\ single \/ i <= MaxResults
        /\ process_hash' = process_hash \cup {q}
        /\ thread_hash' = [thread_hash EXCEPT ![q] = {c}]
        /\ current_state' = [current_state EXCEPT ![q] = current_state[p]]
        /\ current_operation' = [current_operation EXCEPT ![q] = IF single THEN Null ELSE i]
        /\ results' = IF single \/ global THEN results ELSE Append (results, NewResult ("process", q))
        /\ engine_stopped' = [engine_stopped EXCEPT ![c] = FALSE]
        /\ op' = [op EXCEPT ![c] = IF single THEN Own ELSE i]
        /\ UNCHANGED <<stopped_event, global_operation, global_event>>

(* CloneParentOperation() throws after the process was registered.          *)
ForkFails (t, c) ==
    LET q == ProcessOf[c]
    IN  /\ ProcessOf[t] # q /\ current_state[ProcessOf[t]] \notin {"single", "running"}
        /\ process_hash' = process_hash \cup {q}
        /\ thread_hash' = [thread_hash EXCEPT ![q] = {c}]
        /\ UNCHANGED <<engine_stopped, op, current_state, current_operation, stopped_event,
                       results, global_operation, global_event>>

(* ProcessEvent() with stop_requested for what Inferior.Stop returned: the  *)
(* operation is interrupted whatever the event was.  An event of unknown    *)
(* type (PTRACE_EVENT_VFORK) is kept in a thread lock.                      *)
SuspendEvent (t, w) ==
    \/ /\ w \in {"stop", "int", "unknown"}
       /\ calls' = <<Complete (t, "null"), Rest (t)>> \o Tail (calls)
       /\ thread_lock' = [thread_lock EXCEPT ![t] = (w = "unknown")]
       /\ UNCHANGED <<engine_stopped, op, process, debugger>>
    \/ /\ w = "exit"
       /\ calls' = <<IF op[t] = Null THEN Completing (t, w) ELSE Complete (t, w), Rest (t)>>
                        \o Tail (calls)
       /\ UNCHANGED <<sse, process, debugger>>
    \/ /\ w = "spawn" /\ (ThreadCreated (t, child[t]) \/ ChildForked (t, child[t]))
       /\ calls' = <<Complete (t, "null"), Rest (t)>> \o Tail (calls)
       /\ UNCHANGED thread_lock
    \/ /\ w = "spawn" /\ ForkFails (t, child[t]) /\ Throw
       /\ UNCHANGED thread_lock

(* Its event was there already.                                             *)
SuspendReap (t) ==
    /\ Suspending (t) /\ ~Skipped (t) /\ ~thread_lock[t] /\ word[t] # "none"
    /\ SuspendEvent (t, word[t])
    /\ word' = [word EXCEPT ![t] = "none"]
    /\ kstate' = [c \in Threads |->
                    IF word[t] = "spawn" /\ c = child[t] /\ ~engine_stopped'[c]
                    THEN "running" ELSE kstate[c]]
    /\ child' = [child EXCEPT ![t] = NoThread]
    /\ UNCHANGED <<sigstop, held, busy, from_wait, hung, pending_events, command>>

(* It gets the SIGSTOP, or stops for another reason and keeps it queued.    *)
SuspendSigstop (t) ==
    /\ Suspending (t) /\ ~Skipped (t) /\ ~thread_lock[t] /\ kstate[t] = "running"
    /\ kstate' = [kstate EXCEPT ![t] = "stopped"] /\ sigstop' = [sigstop EXCEPT ![t] = FALSE]
    /\ SuspendEvent (t, "int")
    /\ UNCHANGED <<word, child, held, busy, from_wait, hung, pending_events, command>>

SuspendOther (t, w) ==
    /\ Suspending (t) /\ ~Skipped (t) /\ ~thread_lock[t]
    /\ w \in {"stop", "unknown", "exit"} /\ Halts (t, w)
    /\ sigstop' = [sigstop EXCEPT ![t] = (w # "exit")]
    /\ SuspendEvent (t, w)
    /\ UNCHANGED <<word, held, busy, from_wait, hung, pending_events, command>>

(* Mutant: the event is not set.                                            *)
SuspendDoneSilent ==
    /\ In ("suspend") /\ thread_hash[top.p] = top.snap /\ top.todo = {} /\ Return
    /\ current_state' = [current_state EXCEPT ![top.p] = "stopped"]
    /\ current_operation' = [current_operation EXCEPT ![top.p] = Null]
    /\ UNCHANGED <<target, held, busy, from_wait, hung, pending_events, sse, thread_hash, debugger,
                   stopped_event, command>>

(* The end of Process.OperationCompleted() and of Process.Stop().           *)
SuspendDone ==
    /\ In ("suspend") /\ thread_hash[top.p] = top.snap /\ top.todo = {} /\ Return
    /\ current_state' = [current_state EXCEPT ![top.p] = "stopped"]
    /\ current_operation' = [current_operation EXCEPT ![top.p] = Null]
    /\ stopped_event' = [stopped_event EXCEPT ![top.p] = TRUE]
    /\ UNCHANGED <<target, held, busy, from_wait, hung, pending_events, sse, thread_hash, debugger,
                   command>>

SuspendUserThreads ==
    \/ SuspendThrows \/ SuspendDone
    \/ \E t \in Threads :
          \/ SuspendSkip (t) \/ SuspendHangs (t) \/ SuspendReap (t) \/ SuspendSigstop (t)
          \/ \E w \in AllReports : SuspendOther (t, w)

-----------------------------------------------------------------------------
(* Events and pending events.                                               *)

(* DoProcessEvent(): the thread stays stopped, or goes on.                  *)
Decide (t) ==
    \/ /\ op[t] = Null /\ Throw /\ UNCHANGED kstate     \* no current operation
    \/ /\ op[t] # Null /\ Call (Complete (t, "stop")) /\ UNCHANGED kstate
    \/ /\ op[t] # Null /\ Go ({t}) /\ UNCHANGED calls

(* Mutant: RequestWait() comes before the handler, not after it.            *)
ProcessEventEarly ==
    /\ ~busy /\ held # NoEvent
    /\ busy' = TRUE /\ held' = NoEvent /\ Decide (held.t)
    /\ UNCHANGED <<word, sigstop, child, from_wait, hung, pending_events, sse, process, debugger, command>>

(* SingleSteppingEngine.ProcessEvent() for the event of the wait thread.    *)
ProcessEvent ==
    LET t == held.t
        c == child[t]
    IN  /\ ~busy /\ held # NoEvent
        /\ busy' = TRUE /\ from_wait' = TRUE /\ held' = NoEvent
        /\ \/ /\ held.w \in {"stop", "unknown"} /\ Decide (t)
              /\ UNCHANGED <<engine_stopped, op, process, debugger>>
           \/ /\ held.w = "int"
              /\ calls' = IF op[t] = Null THEN calls ELSE <<Complete (t, "stop")>>
              /\ UNCHANGED <<kstate, engine_stopped, op, process, debugger>>
           \/ /\ held.w = "exit"
              /\ calls' = <<IF op[t] = Null THEN Completing (t, "exit") ELSE Complete (t, "exit")>>
              /\ UNCHANGED <<kstate, engine_stopped, op, process, debugger>>
           \/ /\ held.w = "spawn" /\ (ThreadCreated (t, c) \/ ChildForked (t, c))
              /\ Go ({t, c}) /\ UNCHANGED calls
           \/ /\ held.w = "spawn" /\ ForkFails (t, c)
              /\ UNCHANGED <<kstate, calls>>
        /\ child' = [child EXCEPT ![t] = NoThread]
        /\ UNCHANGED <<word, sigstop, hung, pending_events, thread_lock, command>>

(* check_pending_events().                                                  *)
ProcessPending (t) ==
    /\ busy /\ ~hung /\ calls = << >> /\ t \in pending_events
    /\ pending_events' = pending_events \ {t}
    /\ Decide (t)
    /\ UNCHANGED <<word, sigstop, child, held, busy, from_wait, hung, sse, process, debugger, command>>

(* RequestWait(), and back to the main loop.                                *)
LoopDone ==
    /\ busy /\ ~hung /\ calls = << >> /\ pending_events = {}
    /\ busy' = FALSE /\ from_wait' = FALSE
    /\ UNCHANGED <<target, held, calls, hung, pending_events, sse, process, debugger, command>>

-----------------------------------------------------------------------------
(* Clients.                                                                 *)

(* OperationCompleted() holds the lock of the engine.                       *)
EngineLocked (t) == \E i \in DOMAIN calls : calls[i].call = "completing" /\ calls[i].t = t
Alive (t) == t \in thread_hash[ProcessOf[t]]

(* Step(): StartOperation() in the client's thread.                         *)
BeginStep (t, m) ==
    /\ m \in Models /\ command = NoEvent
    /\ Alive (t) /\ engine_stopped[t] /\ ~thread_lock[t] /\ ~EngineLocked (t)
    /\ engine_stopped' = [engine_stopped EXCEPT ![t] = FALSE]
    /\ command' = [t |-> t, w |-> m]
    /\ UNCHANGED <<target, held, engine, op, thread_lock, process, debugger>>

Others (P, t) == (UNION {thread_hash[p] : p \in P}) \ (Daemons \cup {t})

(* The user clears and sets AutoRun at any time: what it is when a command  *)
(* starts.                                                                  *)
Resumable (P, t) == {Others (P, t) \ parked : parked \in SUBSET Parkable}
Push (t, i) == IF op[t] = Null THEN i ELSE op[t]

(* Mutants: the others run on a result of their own; nobody is resumed.     *)
ResumedOwn (R, started, i) ==
    /\ engine_stopped' = [u \in Threads |-> engine_stopped[u] /\ u \notin R]
    /\ op' = [u \in Threads |-> IF u \in started THEN i ELSE IF u \in R THEN Own ELSE op[u]]
    /\ Go (R \cup started) /\ UNCHANGED <<pending_events, thread_lock>>
ResumedNobody (R, started, i) == UNCHANGED <<kstate, sse, pending_events>>

(* ResumeUserThreads(): a thread with a set-aside event handles it first.   *)
Resumed (R, started, i) ==
    LET kept == {u \in R : thread_lock[u]}
        runs == {u \in R : engine_stopped[u] /\ ~thread_lock[u]}
    IN  /\ pending_events' = pending_events \cup kept
        /\ thread_lock' = [u \in Threads |-> thread_lock[u] /\ u \notin kept]
        /\ engine_stopped' = [u \in Threads |-> engine_stopped[u] /\ u \notin kept \cup runs]
        /\ op' = [u \in Threads |-> IF u \in kept THEN i
                                    ELSE IF u \in runs \cup started THEN Push (u, i) ELSE op[u]]
        /\ Go (runs \cup started)

Startable (p) == current_state[p] \in {"stopped", "single"}
Sets (f, P, v) == [p \in Processes |-> IF p \in P THEN v ELSE f[p]]

(* Process.StartOperation() or .StartGlobalOperation() for the processes P. *)
Starts (P, i) ==
    /\ current_state' = Sets (current_state, P, "running")
    /\ stopped_event' = Sets (stopped_event, P, FALSE)
    /\ current_operation' = Sets (current_operation, P, i)

(* Debugger.StartOperation(); then OperationStep is pushed and executed.    *)
StartSingle (t, m) ==
    /\ m \in {"single", "resume"} /\ Startable (ProcessOf[t])
    /\ current_state' = Sets (current_state, {ProcessOf[t]}, "single")
    /\ \E R \in Resumable ({ProcessOf[t]}, t) : Resumed (IF m = "resume" THEN R ELSE {}, {t}, Own)
    /\ UNCHANGED <<current_operation, stopped_event, global_operation, global_event, results>>

StartProcess (t, m) ==
    LET i == Len (results) + 1
    IN  /\ m = "process" /\ Startable (ProcessOf[t]) /\ i <= MaxResults
        /\ results' = Append (results, NewResult (m, ProcessOf[t]))
        /\ Starts ({ProcessOf[t]}, i)
        /\ \E R \in Resumable ({ProcessOf[t]}, t) : Resumed (R, {t}, i)
        /\ UNCHANGED <<global_operation, global_event>>

(* A process that is not stopped ends the loop: those before it run on.     *)
StartGlobal (t, m) ==
    LET i == Len (results) + 1
        ok == \A p \in process_hash : Startable (p)
    IN  /\ m = "global" /\ global_operation = Null /\ i <= MaxResults
        /\ results' = Append (results, NewResult (m, ProcessOf[t]))
        /\ global_operation' = i /\ global_event' = FALSE
        /\ \E P \in SUBSET {p \in process_hash : Startable (p)} :
              /\ ok => P = process_hash
              /\ Starts (P, i)
              /\ \E R \in Resumable (P, t) : Resumed (R, IF ok THEN {t} ELSE {}, i)

(* NotStopped, or NoTarget: the thread keeps what BeginStep did to it.      *)
StartRefused (t, m) ==
    /\ \/ ~Alive (t)
       \/ m # "global" /\ ~Startable (ProcessOf[t])
       \/ m = "global" /\ global_operation # Null
    /\ UNCHANGED <<kstate, pending_events, sse, current_state, current_operation, stopped_event,
                   results, global_operation, global_event>>

Step ==
    LET t == command.t
        m == command.w
    IN  /\ ~busy /\ command # NoEvent
        /\ busy' = TRUE /\ command' = NoEvent
        /\ StartRefused (t, m) \/ (Alive (t) /\ (StartSingle (t, m) \/ StartProcess (t, m) \/ StartGlobal (t, m)))
        /\ UNCHANGED <<word, sigstop, child, held, from_wait, calls, hung, thread_hash, process_hash>>

(* Abort() of a result a client has: Process.Stop(), for a global result    *)
(* of every process.                                                        *)
Aborts (i, p) == IF results[i].model = "global" THEN p \in process_hash ELSE p = results[i].process

Abort (p) ==
    /\ "abort" \in Commands /\ ~busy /\ MainOf[p] \in thread_hash[p]
    /\ \E i \in DOMAIN results : Aborts (i, p)
    /\ busy' = TRUE /\ current_state' = [current_state EXCEPT ![p] = "stopping"]
    /\ Call (Suspend (p, NoThread, "null"))
    /\ UNCHANGED <<target, held, from_wait, hung, pending_events, sse, thread_hash, current_operation,
                   stopped_event, debugger, command>>

(* Thread.Stop().                                                           *)
Stop (t) ==
    /\ "stop" \in Commands /\ Alive (t) /\ ~EngineLocked (t)
    /\ ~engine_stopped[t] /\ kstate[t] = "running"
    /\ sigstop' = [sigstop EXCEPT ![t] = TRUE]
    /\ UNCHANGED <<kstate, word, child, held, engine, sse, process, debugger, command>>

Client ==
    \/ \E t \in Threads : Stop (t) \/ \E m \in Models : BeginStep (t, m)
    \/ \E p \in Processes : Abort (p)

Engine ==
    \/ OperationCompleted \/ OperationDone \/ ProcessCompleted \/ GlobalNext \/ GlobalDone
    \/ SuspendUserThreads \/ ProcessEvent \/ LoopDone \/ \E t \in Threads : ProcessPending (t)

(* Of a handler, the others see the system calls and the thread that is     *)
(* examined next; the rest concerns only the engine thread.                 *)
Interruptible == calls # << >> => top.call = "suspend"

Next == Engine \/ Step \/ (Interruptible /\ (Target \/ Client))

(* The debugger's threads are scheduled; an issued command is run.          *)
Fairness ==
    /\ WF_vars (Engine \/ Step)
    /\ \A t \in Threads : WF_vars (Interruptible /\ WaitReap (t))

Spec == Init /\ [][Next]_vars
FairSpec == Spec /\ Fairness

-----------------------------------------------------------------------------
(* Properties.                                                              *)

(* The state of every class has its type: in particular an operation that a *)
(* thread or a process carries was started, and a thread is registered in   *)
(* its own process only, also after clone() and fork().                     *)
TypeOK ==
    /\ kstate \in [Threads -> {"absent", "running", "stopped", "dead"}]
    /\ word \in [Threads -> AllReports \cup {"none", "int"}]
    /\ sigstop \in [Threads -> BOOLEAN] /\ child \in [Threads -> Threads \cup {NoThread}]
    /\ held = NoEvent \/ (held.t \in Threads /\ held.w \in AllReports \cup {"int"})
    /\ busy \in BOOLEAN /\ from_wait \in BOOLEAN /\ hung \in BOOLEAN
    /\ pending_events \subseteq Threads
    /\ engine_stopped \in [Threads -> BOOLEAN] /\ thread_lock \in [Threads -> BOOLEAN]
    /\ op \in [Threads -> {Null, Own} \cup DOMAIN results]
    /\ \A p \in Processes : \A t \in thread_hash[p] : ProcessOf[t] = p
    /\ current_state \in [Processes -> {"single", "running", "stopping", "stopped", "exited"}]
    /\ current_operation \in [Processes -> {Null} \cup DOMAIN results]
    /\ stopped_event \in [Processes -> BOOLEAN]
    /\ process_hash \subseteq Processes /\ global_event \in BOOLEAN
    /\ global_operation \in {Null} \cup DOMAIN results
    /\ Len (results) <= MaxResults
    /\ command = NoEvent \/ (command.t \in Threads /\ command.w \in Models)

(* The threads that suspending concerns: not Thread.Flags.Daemon, Immutable.*)
User (p) == thread_hash[p] \ Daemons

(* A process in ProcessState.Stopped has no user thread that runs, whatever *)
(* the threads did while SuspendUserThreads() stopped them one by one.      *)
StoppedIsQuiet ==
    \A p \in process_hash : current_state[p] = "stopped" =>
        \A t \in User (p) : kstate[t] # "running"

(* When stopped_event is set (CommandResult.CompletedEvent), the process    *)
(* has no operation and none of its user threads still carries a result     *)
(* that could complete, and set the event again, behind the client's back.  *)
SignalledIsDone ==
    \A p \in Processes : stopped_event[p] =>
        /\ current_state[p] # "running" /\ current_operation[p] = Null
        /\ \A t \in User (p) : op[t] = Own \/ ~Fresh (op[t])

(* Between two handlers, the operation of a running process is carried by   *)
(* one of its threads: somebody can still complete it.                      *)
Carried ==
    \A p \in process_hash : ~busy /\ current_state[p] = "running" =>
        \E t \in thread_hash[p] : op[t] = current_operation[p] /\ Fresh (op[t])

(* Whichever thread of a running process stops, it stops the process: every *)
(* one that runs carries the operation, not an older or completed one.      *)
AnyThreadStops ==
    \A p \in process_hash : current_state[p] = "running" =>
        \A t \in thread_hash[p] : kstate[t] = "running" =>
            op[t] = current_operation[p] /\ (~busy => Fresh (op[t]))

(* SuspendUserThread() never waits in stop_and_wait() for a thread that is  *)
(* stopped already and whose status has been reaped.                        *)
NeverHung == ~hung

(* OperationCompleted() takes the process from Stopping to Stopped; no      *)
(* handler returns in between, after which every command is refused.        *)
NotLeftStopping == ~busy => \A p \in process_hash : current_state[p] # "stopping"

Current (i) == i = global_operation \/ \E p \in Processes : i = current_operation[p]
Completed (i) == i \in DOMAIN results /\ results[i].IsCompleted /\ Current (i)
Signalled (i) ==
    /\ i \in DOMAIN results
    /\ IF results[i].model = "global" THEN global_event ELSE stopped_event[results[i].process]

(* CompletedEvent is signalled once the operation has completed, after the  *)
(* other threads have been suspended: the client's Wait() returns.          *)
CompletedSignalled == \A i \in 1 .. MaxResults : Completed (i) ~> Signalled (i)
=============================================================================
