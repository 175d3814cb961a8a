---------------------------- MODULE WaitProtocol ----------------------------
(***************************************************************************)
(* How the wait thread and the engine thread share waitpid().              *)
(*                                                                         *)
(* The wait thread sits in server_ptrace_global_wait() (waitpid (-1)), and *)
(* the engine thread may at any moment call server_ptrace_stop_and_wait()  *)
(* for one thread of the target, or wait for a newly cloned thread in      *)
(* _server_ptrace_wait_for_new_thread().  Three mutexes, `stop_requested'  *)
(* and `stop_status' arbitrate who receives which status word.             *)
(*                                                                         *)
(* Every mutex operation and every waitpid() is an action of its own; the  *)
(* code between two of them is private to its thread or protected by a     *)
(* mutex it holds, so it is part of the action that precedes it.           *)
(***************************************************************************)
EXTENDS Naturals, FiniteSets

CONSTANTS
    Initial,    \* threads of the target that exist at the start
    Spare,      \* threads the target may still create with clone()
    NoPid       \* the pid 0: no thread

ASSUME PidAssumption ==
    /\ IsFiniteSet (Initial) /\ IsFiniteSet (Spare)
    /\ Initial \cap Spare = {} /\ NoPid \notin Initial \cup Spare

Pids == Initial \cup Spare

(* waitpid() status words.  "zero" is the integer 0: the word of a thread   *)
(* that exited with code 0, and also what the C code uses for `no status'.  *)
(* "init" is the SIGSTOP a cloned thread starts with, "clone" the           *)
(* PTRACE_EVENT_CLONE of its creator.                                       *)
Exits == {"zero", "exit"}
Words == Exits \cup {"trap", "stop", "init", "clone"}
Zero == "zero"
Event == [pid : Pids, st : Words]
NoEvent == [pid |-> NoPid, st |-> Zero]

VARIABLES
    kstate,     \* kernel: scheduling state of every thread
    kword,      \* kernel: the status word waitpid() would report, or "none"
    sigstop,    \* kernel: a SIGSTOP is queued for the thread
    child,      \* kernel: PTRACE_GETEVENTMSG of a clone event
    m1, m2, m3, \* wait_mutex, wait_mutex_2, wait_mutex_3: the holder
    stop_requested, stop_status,
    wpc, wev, wait_event,       \* wait thread; the word it has reaped
    inbox,                      \* current_event: handed to the engine thread
    epc, target, already, eev,  \* engine thread; stop_and_wait's locals
    from_wait,                  \* the engine is processing the inbox event
    engine_stopped,             \* the engine knows that the thread is stopped
    thread_hash,                \* threads the ThreadManager knows
    pending_sigstops

kernel == <<kstate, kword, sigstop, child>>
mutexes == <<m1, m2, m3>>
wait == <<wpc, wev, wait_event, inbox>>
engine == <<epc, target, already, eev, from_wait, engine_stopped>>
tables == <<thread_hash, pending_sigstops>>
vars == <<kernel, mutexes, stop_requested, stop_status, wait, engine, tables>>

Init ==
    /\ kstate = [p \in Pids |-> IF p \in Initial THEN "running" ELSE "absent"]
    /\ kword = [p \in Pids |-> "none"]
    /\ sigstop = [p \in Pids |-> FALSE]
    /\ child = [p \in Pids |-> NoPid]
    /\ m1 = "free" /\ m2 = "free" /\ m3 = "free"
    /\ stop_requested = NoPid /\ stop_status = NoEvent
    /\ wpc = "idle" /\ wev = NoEvent /\ wait_event = TRUE /\ inbox = NoEvent
    /\ epc = "idle" /\ target = NoPid /\ already = FALSE /\ eev = NoEvent
    /\ from_wait = FALSE
    /\ engine_stopped = [p \in Pids |-> FALSE]
    /\ thread_hash = Initial
    /\ pending_sigstops = {}

-----------------------------------------------------------------------------
(* The kernel.                                                              *)

Halt (p, state, word) ==
    /\ kstate' = [kstate EXCEPT ![p] = state]
    /\ kword' = [kword EXCEPT ![p] = word]

(* The thread hits a breakpoint, finishes a single step or gets a signal.   *)
Trap (p) ==
    /\ kstate[p] = "running"
    /\ Halt (p, "stopped", "trap")
    /\ UNCHANGED <<sigstop, child, mutexes, stop_requested, stop_status, wait,
                   engine, tables>>

DeliverSigstop (p) ==
    /\ kstate[p] = "running" /\ sigstop[p]
    /\ Halt (p, "stopped", "stop")
    /\ sigstop' = [sigstop EXCEPT ![p] = FALSE]
    /\ UNCHANGED <<child, mutexes, stop_requested, stop_status, wait, engine, tables>>

ThreadExit (p, word) ==
    /\ kstate[p] = "running"
    /\ Halt (p, "zombie", word)
    /\ UNCHANGED <<sigstop, child, mutexes, stop_requested, stop_status, wait,
                   engine, tables>>

Clone (p, c) ==
    /\ kstate[p] = "running" /\ kstate[c] = "absent"
    /\ kstate' = [kstate EXCEPT ![p] = "stopped", ![c] = "starting"]
    /\ kword' = [kword EXCEPT ![p] = "clone"]
    /\ child' = [child EXCEPT ![p] = c]
    /\ UNCHANGED <<sigstop, mutexes, stop_requested, stop_status, wait, engine, tables>>

(* The initial stop of a cloned thread: before or after waitpid() reports   *)
(* the clone event of its creator.                                          *)
ChildStarts (c) ==
    /\ kstate[c] = "starting"
    /\ Halt (c, "stopped", "init")
    /\ UNCHANGED <<sigstop, child, mutexes, stop_requested, stop_status, wait,
                   engine, tables>>

Kernel ==
    \E p \in Pids : \/ Trap (p) \/ DeliverSigstop (p) \/ ChildStarts (p)
                    \/ \E word \in Exits : ThreadExit (p, word)
                    \/ \E c \in Spare : Clone (p, c)

(* What a successful waitpid() leaves behind.                               *)
Reap (p) ==
    /\ kword[p] # "none"
    /\ kword' = [kword EXCEPT ![p] = "none"]
    /\ kstate' = [kstate EXCEPT ![p] =
                    IF @ # "zombie" THEN @
                    ELSE IF kword[p] = Zero THEN "reaped0" ELSE "reaped"]
    /\ UNCHANGED <<sigstop, child>>

Reaped == {"reaped", "reaped0"}      \* with code 0 or another one
HasChildren == \E p \in Pids : kstate[p] \notin Reaped \cup {"absent"}

-----------------------------------------------------------------------------
(* The wait thread: wait_thread_main() around server_ptrace_global_wait().  *)

WaitStart ==
    /\ wpc = "idle" /\ wait_event
    /\ wpc' = "again" /\ wait_event' = FALSE
    /\ UNCHANGED <<kernel, mutexes, stop_requested, stop_status, wev, inbox, engine, tables>>

(* The pending stops are forgotten once 2.5 minutes have passed since they  *)
(* last were, however young they are.                                       *)
WaitAgain ==
    /\ wpc = "again"
    /\ wpc' = "lock"
    /\ pending_sigstops' \in {pending_sigstops, {}}
    /\ UNCHANGED <<kernel, mutexes, stop_requested, stop_status, wev, wait_event, inbox,
                   engine, thread_hash>>

GlobalWaitLock ==
    /\ wpc = "lock" /\ m1 = "free"
    /\ m1' = "wait" /\ wpc' = "waitpid"
    /\ UNCHANGED <<kernel, m2, m3, stop_requested, stop_status, wev, wait_event,
                   inbox, engine, tables>>

GlobalWaitReap (p) ==
    /\ wpc = "waitpid"
    /\ Reap (p)
    /\ wev' = [pid |-> p, st |-> kword[p]]
    /\ wpc' = "lock2"
    /\ UNCHANGED <<mutexes, stop_requested, stop_status, wait_event, inbox, engine, tables>>

(* Mutant: the -1 of a failed waitpid() is not recognised.                  *)
NoChildUnchecked ==
    /\ wpc = "waitpid" /\ ~HasChildren
    /\ wev' = [pid |-> NoPid, st |-> "exit"] /\ wpc' = "lock2"
    /\ UNCHANGED <<kernel, mutexes, stop_requested, stop_status, wait_event, inbox, engine,
                   tables>>

(* ECHILD: global_wait returns -1 and wait_thread_main() sleeps again.  (So *)
(* it does after EINTR, which is left out: only Dispose() aborts the wait.) *)
GlobalWaitNoChild ==
    /\ wpc = "waitpid" /\ ~HasChildren
    /\ m1' = "free" /\ wpc' = "idle"
    /\ UNCHANGED <<kernel, m2, m3, stop_requested, stop_status, wev, wait_event,
                   inbox, engine, tables>>

(* Mutants: a status that was handed over is returned as well; the status   *)
(* of a requested thread is not handed over.                                *)
CheckReturnsToo ==
    /\ wpc = "lock2" /\ m2 = "free"
    /\ m1' = "free" /\ wpc' = "deliver"
    /\ stop_status' = IF wev.pid = stop_requested THEN wev ELSE stop_status
    /\ UNCHANGED <<kernel, m2, m3, stop_requested, wev, wait_event, inbox, engine, tables>>
CheckDrops ==
    /\ wpc = "lock2" /\ m2 = "free"
    /\ m1' = "free" /\ wpc' = IF wev.pid = stop_requested THEN "lock3" ELSE "deliver"
    /\ wev' = IF wev.pid = stop_requested THEN NoEvent ELSE wev
    /\ UNCHANGED <<kernel, m2, m3, stop_requested, stop_status, wait_event, inbox, engine, tables>>

(* The comparison with stop_requested, under wait_mutex_2.                  *)
GlobalWaitCheck ==
    /\ wpc = "lock2" /\ m2 = "free"
    /\ m1' = "free"
    /\ IF wev.pid = stop_requested
       THEN stop_status' = wev /\ wev' = NoEvent /\ wpc' = "lock3"
       ELSE wpc' = "deliver" /\ UNCHANGED <<stop_status, wev>>
    /\ UNCHANGED <<kernel, m2, m3, stop_requested, wait_event, inbox, engine, tables>>

GlobalWaitAgain ==
    /\ wpc = "lock3" /\ m3 = "free"
    /\ wpc' = "lock"
    /\ UNCHANGED <<kernel, mutexes, stop_requested, stop_status, wev, wait_event,
                   inbox, engine, tables>>

(* wait_thread_main() after global_wait: a known thread's event goes to the *)
(* engine thread; the exit and the early stop of an unknown one do not.     *)
(* dispatch_simple() calls SIGKILL an exit with code 0, so "exit" may be    *)
(* ignored or be warned about.                                              *)
WaitDeliver ==
    /\ wpc = "deliver"
    /\ wev' = NoEvent
    /\ \/ /\ wev.pid \in thread_hash
          /\ inbox' = wev /\ wpc' = "idle"
          /\ UNCHANGED <<wait_event, pending_sigstops>>
       \/ /\ wev.pid \notin thread_hash /\ wev.st \in Exits
          /\ wpc' = "again"
          /\ UNCHANGED <<inbox, wait_event, pending_sigstops>>
       \/ /\ wev.pid \notin thread_hash /\ wev.st \in {"init", "stop", "trap"}
          /\ wpc' = "again"
          /\ pending_sigstops' = pending_sigstops \cup {wev.pid}
          /\ UNCHANGED <<inbox, wait_event>>
       \/ /\ wev.pid \notin thread_hash /\ wev.st \in {"exit", "clone"}
          /\ wpc' = "idle" /\ wait_event' = TRUE
          /\ UNCHANGED <<inbox, pending_sigstops>>
    /\ UNCHANGED <<kernel, mutexes, stop_requested, stop_status, engine, thread_hash>>

WaitThread ==
    \/ WaitStart \/ WaitAgain \/ GlobalWaitLock \/ GlobalWaitNoChild
    \/ GlobalWaitCheck \/ GlobalWaitAgain \/ WaitDeliver
    \/ \E p \in Pids : GlobalWaitReap (p)

-----------------------------------------------------------------------------
(* The engine thread: server_ptrace_stop_and_wait().                        *)

(* A user command makes the engine stop a thread it believes to be running. *)
StopCall (p) ==
    /\ epc = "idle" /\ p \in thread_hash /\ ~engine_stopped[p]
    /\ epc' = "s_lock2" /\ target' = p /\ already' = FALSE
    /\ UNCHANGED <<kernel, mutexes, stop_requested, stop_status, wait, eev, from_wait,
                   engine_stopped, tables>>

(* Mutant: a running thread is taken for stopped and gets no SIGSTOP.       *)
SignalSkipped ==
    /\ epc = "s_lock2" /\ m2 = "free"
    /\ \/ /\ kstate[target] \notin Reaped
          /\ m2' = "engine" /\ already' = TRUE /\ epc' = "s_lock3"
       \/ /\ kstate[target] \in Reaped
          /\ epc' = "s_notarget"
          /\ UNCHANGED <<m2, already>>
    /\ UNCHANGED <<kernel, m1, m3, stop_requested, stop_status, wait, target, eev, from_wait,
                   engine_stopped, tables>>

(* server_ptrace_stop(): reading the registers works for a stopped thread;  *)
(* otherwise tkill(), which fails with ESRCH once the thread was reaped.    *)
StopSignal ==
    /\ epc = "s_lock2" /\ m2 = "free"
    /\ \/ /\ kstate[target] = "stopped"
          /\ m2' = "engine" /\ already' = TRUE /\ epc' = "s_lock3"
          /\ UNCHANGED sigstop
       \/ /\ kstate[target] \in {"running", "zombie"}
          /\ m2' = "engine" /\ epc' = "s_lock3"
          /\ sigstop' = [sigstop EXCEPT ![target] = (kstate[target] = "running")]
          /\ UNCHANGED already
       \/ /\ kstate[target] \in Reaped
          /\ epc' = "s_notarget"
          /\ UNCHANGED <<m2, already, sigstop>>
    /\ UNCHANGED <<kstate, kword, child, m1, m3, stop_requested, stop_status, wait, target,
                   eev, from_wait, engine_stopped, tables>>

StopRequest ==
    /\ epc = "s_lock3" /\ m3 = "free"
    /\ m3' = "engine" /\ m2' = "free"
    /\ stop_requested' = target
    /\ epc' = "s_lock1"
    /\ UNCHANGED <<kernel, m1, stop_status, wait, target, already, eev, from_wait,
                   engine_stopped, tables>>

(* Mutant: stop_requested survives when the status is taken.                *)
TakeKeepsRequest ==
    /\ epc = "s_lock1" /\ m1 = "free"
    /\ stop_status' = NoEvent
    /\ IF stop_status.st # Zero
       THEN /\ eev' = stop_status /\ epc' = "s_done"
            /\ m3' = "free" /\ UNCHANGED <<m1, stop_requested>>
       ELSE m1' = "engine" /\ epc' = "s_wait" /\ stop_requested' = NoPid /\ UNCHANGED <<m3, eev>>
    /\ UNCHANGED <<kernel, m2, wait, target, already, from_wait, engine_stopped, tables>>

(* wait_mutex is ours: take the status the wait thread left, if there is    *)
(* one, else keep the mutex and wait for the thread ourselves.              *)
StopTake ==
    /\ epc = "s_lock1" /\ m1 = "free"
    /\ stop_requested' = NoPid /\ stop_status' = NoEvent
    /\ IF stop_status.st # Zero
       THEN /\ eev' = stop_status /\ epc' = "s_done"
            /\ m3' = "free" /\ UNCHANGED m1
       ELSE m1' = "engine" /\ epc' = "s_wait" /\ UNCHANGED <<m3, eev>>
    /\ UNCHANGED <<kernel, m2, wait, target, already, from_wait, engine_stopped, tables>>

StopReap ==
    /\ epc = "s_wait"
    /\ Reap (target)
    /\ eev' = [pid |-> target, st |-> kword[target]]
    /\ m1' = "free" /\ m3' = "free" /\ epc' = "s_done"
    /\ UNCHANGED <<m2, stop_requested, stop_status, wait, target, already, from_wait,
                   engine_stopped, tables>>

(* WNOHANG on a thread that was already stopped: 0 while there is no word,  *)
(* and the do loop goes round.                                              *)
StopPoll ==
    /\ epc = "s_wait" /\ already /\ kword[target] = "none" /\ kstate[target] \notin Reaped
    /\ UNCHANGED vars

(* ECHILD.  (`Should never happen'.)                                        *)
StopNoTarget ==
    /\ epc = "s_wait" /\ kstate[target] \in Reaped
    /\ m1' = "free" /\ m3' = "free" /\ epc' = "s_notarget"
    /\ UNCHANGED <<kernel, m2, stop_requested, stop_status, wait, target, already, eev,
                   from_wait, engine_stopped, tables>>

(* Inferior.Stop (out ChildEvent): an error and a zero word carry no event. *)
StopReturn ==
    \/ /\ epc = "s_notarget"
       /\ epc' = "idle" /\ target' = NoPid
       /\ UNCHANGED <<kernel, mutexes, stop_requested, stop_status, wait, already, eev,
                      from_wait, engine_stopped, tables>>
    \/ /\ epc = "s_done"
       /\ IF eev.st = Zero
          THEN epc' = "idle" /\ eev' = NoEvent /\ target' = NoPid
               /\ engine_stopped' = [engine_stopped EXCEPT ![target] = TRUE]
          ELSE epc' = "process" /\ UNCHANGED <<eev, target, engine_stopped>>
       /\ UNCHANGED <<kernel, mutexes, stop_requested, stop_status, wait, already,
                      from_wait, tables>>

-----------------------------------------------------------------------------
(* The engine thread: processing events and resuming threads.               *)

TakeInbox ==
    /\ epc = "idle" /\ inbox # NoEvent
    /\ eev' = inbox /\ inbox' = NoEvent /\ from_wait' = TRUE
    /\ epc' = "process"
    /\ UNCHANGED <<kernel, mutexes, stop_requested, stop_status, wpc, wev, wait_event,
                   target, already, engine_stopped, tables>>

(* The handler is done: RequestWait() if the event came from the wait       *)
(* thread.                                                                  *)
ProcessDone ==
    /\ epc' = "idle" /\ eev' = NoEvent /\ target' = NoPid /\ from_wait' = FALSE
    /\ wait_event' = (wait_event \/ from_wait)

Continue (S) == kstate' = [p \in Pids |-> IF p \in S THEN "running" ELSE kstate[p]]

(* Mutant: the handler resumes every stopped thread.                        *)
ProcessStopAll ==
    /\ epc = "process" /\ eev.st \in {"trap", "stop", "init"}
    /\ Continue ({p \in Pids : engine_stopped[p] \/ p = eev.pid}) /\ UNCHANGED engine_stopped
    /\ ProcessDone
    /\ UNCHANGED <<kword, sigstop, child, mutexes, stop_requested, stop_status, wpc, wev,
                   inbox, already, tables>>

(* A stop event: the thread stays stopped, or the handler resumes it.       *)
ProcessStop ==
    /\ epc = "process" /\ eev.st \in {"trap", "stop", "init"}
    /\ \/ engine_stopped' = [engine_stopped EXCEPT ![eev.pid] = TRUE] /\ UNCHANGED kstate
       \/ Continue ({eev.pid}) /\ UNCHANGED engine_stopped
    /\ ProcessDone
    /\ UNCHANGED <<kword, sigstop, child, mutexes, stop_requested, stop_status, wpc, wev,
                   inbox, already, tables>>

ProcessExit ==
    /\ epc = "process" /\ eev.st \in Exits
    /\ thread_hash' = thread_hash \ {eev.pid}
    /\ ProcessDone
    /\ UNCHANGED <<kernel, mutexes, stop_requested, stop_status, wpc, wev, inbox, already,
                   engine_stopped, pending_sigstops>>

(* The new thread is resumed.  So is its creator, unless SuspendUserThread  *)
(* stopped it and handles the event (the engine's own stop_requested);      *)
(* AcquireThreadLock, the other caller of stop_and_wait, keeps the event    *)
(* until it resumes the thread.                                             *)
CloneResumes (c) ==
    \/ Continue ({c, eev.pid}) /\ UNCHANGED engine_stopped
    \/ /\ ~from_wait
       /\ Continue ({c})
       /\ engine_stopped' = [engine_stopped EXCEPT ![eev.pid] = TRUE]

(* CHILD_CREATED_THREAD: InitializeThread() waits for the new thread unless *)
(* the wait thread has already seen its initial stop.                       *)
ProcessCloneSeen ==
    LET c == child[eev.pid] IN
    /\ epc = "process" /\ eev.st = "clone" /\ c \in pending_sigstops
    /\ pending_sigstops' = pending_sigstops \ {c}
    /\ thread_hash' = thread_hash \cup {c}
    /\ CloneResumes (c)
    /\ ProcessDone
    /\ UNCHANGED <<kword, sigstop, child, mutexes, stop_requested, stop_status, wpc, wev,
                   inbox, already>>

NewThreadTrylock ==
    /\ epc = "process" /\ eev.st = "clone" /\ child[eev.pid] \notin pending_sigstops
    /\ IF m1 = "free" THEN m1' = "engine" /\ epc' = "n_wait"
                      ELSE UNCHANGED m1 /\ epc' = "n_failed"
    /\ UNCHANGED <<kernel, m2, m3, stop_requested, stop_status, wait, target, already, eev,
                   from_wait, engine_stopped, tables>>

(* Mutant: the new thread is used without waiting for its SIGSTOP.          *)
NewThreadNoWait ==
    /\ epc = "n_wait"
    /\ m1' = "free"
    /\ thread_hash' = thread_hash \cup {child[eev.pid]}
    /\ Continue ({eev.pid})
    /\ ProcessDone
    /\ UNCHANGED <<kword, sigstop, child, m2, m3, stop_requested, stop_status, wpc, wev, inbox,
                   already, engine_stopped, pending_sigstops>>

NewThreadWait ==
    LET c == child[eev.pid] IN
    /\ epc = "n_wait" /\ kword[c] # "none"
    /\ kword' = [kword EXCEPT ![c] = "none"]
    /\ m1' = "free"
    /\ thread_hash' = thread_hash \cup {c}
    /\ CloneResumes (c)
    /\ ProcessDone
    /\ UNCHANGED <<sigstop, child, m2, m3, stop_requested, stop_status, wpc, wev, inbox,
                   already, pending_sigstops>>

(* The exception leaves ProcessEvent(): neither thread is resumed.          *)
NewThreadFailed ==
    /\ epc = "n_failed"
    /\ ProcessDone
    /\ UNCHANGED <<kernel, mutexes, stop_requested, stop_status, wpc, wev, inbox, already,
                   engine_stopped, tables>>

(* A user command resumes a thread that is stopped.                         *)
Resume (p) ==
    /\ epc = "idle" /\ p \in thread_hash /\ engine_stopped[p] /\ kstate[p] = "stopped"
    /\ engine_stopped' = [engine_stopped EXCEPT ![p] = FALSE]
    /\ Continue ({p})
    /\ UNCHANGED <<kword, sigstop, child, mutexes, stop_requested, stop_status, wait, epc,
                   target, already, eev, from_wait, tables>>

StopAndWait ==
    \/ StopSignal \/ StopRequest \/ StopTake \/ StopReap \/ StopPoll \/ StopNoTarget
    \/ StopReturn

Processing ==
    \/ TakeInbox \/ ProcessStop \/ ProcessExit \/ ProcessCloneSeen
    \/ NewThreadTrylock \/ NewThreadWait \/ NewThreadFailed

UserCommand == \E p \in Pids : StopCall (p) \/ Resume (p)

(* All threads are gone, both debugger threads sleep.                       *)
Terminated ==
    /\ ~HasChildren /\ wpc = "idle" /\ ~wait_event /\ epc = "idle" /\ inbox = NoEvent
    /\ \A p \in thread_hash : engine_stopped[p]
    /\ UNCHANGED vars

Next == Kernel \/ WaitThread \/ UserCommand \/ StopAndWait \/ Processing \/ Terminated

(* Both debugger threads keep running; the kernel delivers queued signals   *)
(* and starts cloned threads.  Users and the target promise nothing.        *)
Fairness ==
    /\ WF_vars (WaitThread) /\ WF_vars (StopAndWait) /\ WF_vars (Processing)
    /\ \A p \in Pids : WF_vars (DeliverSigstop (p)) /\ WF_vars (ChildStarts (p))

Spec == Init /\ [][Next]_vars
FairSpec == Spec /\ Fairness

-----------------------------------------------------------------------------
(* Properties.                                                              *)

KernelOK ==
    /\ kstate \in [Pids -> {"absent", "starting", "running", "stopped", "zombie"} \cup Reaped]
    /\ kword \in [Pids -> Words \cup {"none"}]
    /\ child \in [Pids -> Pids \cup {NoPid}]

EventsOK ==
    /\ stop_requested \in Pids \cup {NoPid} /\ stop_status \in Event \cup {NoEvent}
    /\ wev \in Event \cup {NoEvent} /\ inbox \in Event \cup {NoEvent}
    /\ target \in Pids \cup {NoPid} /\ eev \in Event \cup {NoEvent}
    /\ thread_hash \subseteq Pids /\ pending_sigstops \subseteq Pids

ControlOK ==
    /\ m1 \in {"free", "wait", "engine"} /\ m2 \in {"free", "engine"} /\ m3 \in {"free", "engine"}
    /\ wpc \in {"idle", "again", "lock", "waitpid", "lock2", "lock3", "deliver"}
    /\ epc \in {"idle", "s_lock2", "s_lock3", "s_lock1", "s_wait", "s_done", "s_notarget",
               "process", "n_wait", "n_failed"}

FlagsOK ==
    /\ sigstop \in [Pids -> BOOLEAN] /\ engine_stopped \in [Pids -> BOOLEAN]
    /\ wait_event \in BOOLEAN /\ already \in BOOLEAN /\ from_wait \in BOOLEAN

(* Every variable has its type: in particular, no -1 of a failed waitpid()  *)
(* is ever taken for a thread (do_wait, wait_thread_main).                  *)
TypeOK == KernelOK /\ EventsOK /\ ControlOK /\ FlagsOK

(* Where an event of thread p can be on its way to its handler.             *)
Places (p) ==
    {x \in {"kernel", "wait thread", "handoff", "inbox", "engine"} :
        \/ x = "kernel" /\ kword[p] # "none"
        \/ x = "wait thread" /\ wev.pid = p
        \/ x = "handoff" /\ stop_status.pid = p
        \/ x = "inbox" /\ inbox.pid = p
        \/ x = "engine" /\ eev.pid = p}

(* The creator of a thread that the engine could not wait for: its clone    *)
(* event has been handled, by an exception (NewThreadFailed).               *)
CloneFailed (p) == child[p] # NoPid /\ child[p] \notin thread_hash

(* The thread stopped or died, and its event has not been handled yet.      *)
Owes (p) ==
    \/ kstate[p] \in {"zombie", "reaped"}
    \/ kstate[p] = "stopped" /\ ~engine_stopped[p] /\ ~CloneFailed (p)

(* A known thread that stopped or died and whose event has not been handled *)
(* has exactly one event under way: neither waitpid() caller drops it, and  *)
(* the handoff through stop_status never duplicates it or gives the engine  *)
(* a stale one (server_ptrace_global_wait, server_ptrace_stop_and_wait).  A *)
(* running thread has none.  ProcessExit makes a dead thread unknown, and   *)
(* none of its words is left behind for a later handler.  The exits with    *)
(* code 0 that stop_and_wait loses ("reaped0") are ExitReported's subject.  *)
EventUnderWay ==
    /\ \A p \in thread_hash :
          /\ Owes (p) => Cardinality (Places (p)) = 1
          /\ kstate[p] = "running" => Places (p) = {}
    /\ \A p \in Pids : kstate[p] \in Reaped /\ p \notin thread_hash => Places (p) = {}

(* What stop_and_wait returns is a status of the thread it was asked to     *)
(* stop, and no request or status outlives the call.                        *)
StopAnswersRequest ==
    /\ epc = "s_done" => eev.pid = target
    /\ epc \in {"idle", "s_lock2", "s_lock3"} => stop_requested = NoPid /\ stop_status = NoEvent

(* A cloned thread enters thread_hash only after somebody consumed its      *)
(* initial SIGSTOP, so that the stop is never taken for an interrupt:       *)
(* pending_sigstops and _server_ptrace_wait_for_new_thread together cover   *)
(* both orders of the kernel race the comments describe.                    *)
InitialStopConsumed ==
    \A p \in thread_hash : /\ kstate[p] # "starting"
                           /\ kword[p] # "init"
                           /\ \A e \in {wev, inbox, eev, stop_status} :
                                 e.pid = p => e.st # "init"

(* No event is in two places, whatever happens to new threads.              *)
EventOnce == \A p \in Pids : Cardinality (Places (p)) <= 1

(* global_wait has already returned the event of the thread.                *)
Delivered (p) == inbox.pid = p \/ (wpc = "deliver" /\ wev.pid = p)

(* stop_and_wait returns once it has wait_mutex_2, unless the event of the  *)
(* thread had already been returned by global_wait: neither thread waits    *)
(* for ever for a mutex that the other one holds.  A creator whose clone    *)
(* failed has no event any more.                                            *)
StopReturns ==
    \A p \in Pids : (epc = "s_lock3" /\ target = p /\ ~Delivered (p) /\ ~CloneFailed (p))
                       ~> epc \notin {"s_lock3", "s_lock1", "s_wait"}

(* Inferior.Stop: ``the target may have stopped abnormally in the           *)
(* meantime, in this case we return the corresponding ChildEvent.''         *)
ExitReported ==
    \A p \in thread_hash : kstate[p] \in Reaped => Places (p) # {}
=============================================================================
