----------------------------- MODULE ThreadLock -----------------------------
(***************************************************************************)
(* Stepping over a breakpoint under the global thread lock.                *)
(*                                                                         *)
(* To step one thread over an enabled breakpoint, the engine thread stops  *)
(* all other threads of the process (AcquireGlobalThreadLock), disables    *)
(* the breakpoint, single-steps, enables it again, and releases the lock;  *)
(* the events that the stopped threads had are queued in pending_events    *)
(* and handled by check_pending_events() after the current handler.        *)
(*                                                                         *)
(* The engine thread runs one handler or command at a time; the threads of *)
(* the target and the wait thread run in between, and also between the     *)
(* stop_and_wait() calls of one acquire.  What one such call returns is    *)
(* the contract WaitProtocol checks.  The breakpoint is stepped over with  *)
(* OperationStepOverBreakpoint, as for native code and instructions that   *)
(* cannot be executed elsewhere, in ThreadingModel.Single.                 *)
(***************************************************************************)
EXTENDS Naturals, FiniteSets

CONSTANTS
    Threads,
    Breakpoints,    \* the addresses that have a breakpoint
    Reports,        \* what a thread of the target may do
    Commands,       \* what users may ask for
    NoThread, NoBreakpoint

(* "bp": CHILD_HIT_BREAKPOINT.  "signal": CHILD_STOPPED with a signal.      *)
(* "ignored": a signal the debugger resumes from (SIGCHLD).  "exit0" is an  *)
(* exit with code 0: the status word 0 that Inferior.Stop takes for none.   *)
Exits == {"exit", "exit0"}
AllReports == Exits \cup {"bp", "signal", "ignored"}

ASSUME ThreadLockAssumption ==
    /\ IsFiniteSet (Threads) /\ NoThread \notin Threads
    /\ NoBreakpoint \notin Breakpoints
    /\ Reports \subseteq AllReports /\ Commands \subseteq {"run", "step", "stop"}

(* "step": CHILD_STOPPED 0 after a single step.  "sigstop":                 *)
(* CHILD_INTERRUPTED.  "hit": a breakpoint the operation is to stop at.     *)
Words == AllReports \cup {"step", "sigstop", "hit"}

VARIABLES
    kstate, word, sigstop, at, stepping,    \* the target
    held, listening,        \* the wait thread: its event; in global_wait
    requested,              \* clients: the operation one has asked for
    thread_hash, engine_stopped,
    op, over,               \* current_operation; the breakpoint it steps over
    thread_lock,            \* "free", or the StopEvent ("none": null)
    pushed_regs,            \* the server's pushed_regs_rsp is set
    has_thread_lock, enabled, pending_events,
    epc, cur, todo, plist, in_pending, from_wait    \* the engine thread

target == <<kstate, word, sigstop, at, stepping>>
others == <<held, listening, requested>>
sse == <<thread_hash, engine_stopped, op, over>>
locks == <<thread_lock, pushed_regs, has_thread_lock, enabled, pending_events>>
engine == <<epc, cur, todo, plist, in_pending, from_wait>>
vars == <<target, others, sse, locks, engine>>

NoEvent == [t |-> NoThread, w |-> "none"]
Event == [t : Threads, w : Words]

(* All threads are running, each with an OperationStep in StepMode.Run.     *)
Init ==
    /\ kstate = [t \in Threads |-> "running"] /\ word = [t \in Threads |-> "none"]
    /\ sigstop = [t \in Threads |-> FALSE] /\ at = [t \in Threads |-> NoBreakpoint]
    /\ stepping = [t \in Threads |-> FALSE]
    /\ held = NoEvent /\ listening = TRUE /\ requested = [t \in Threads |-> "none"]
    /\ thread_hash = Threads /\ engine_stopped = [t \in Threads |-> FALSE]
    /\ op = [t \in Threads |-> "run"] /\ over = [t \in Threads |-> NoBreakpoint]
    /\ thread_lock = [t \in Threads |-> "free"]
    /\ pushed_regs = [t \in Threads |-> FALSE]
    /\ has_thread_lock = FALSE /\ enabled = Breakpoints
    /\ pending_events = [t \in Threads |-> "none"]
    /\ epc = "idle" /\ cur = NoEvent /\ todo = {} /\ plist = {}
    /\ in_pending = FALSE /\ from_wait = FALSE

-----------------------------------------------------------------------------
(* The target and the wait thread.                                          *)

(* Thread t, running, stops or exits with word w at the given address.      *)
CanReport (t, w, place) ==
    /\ kstate[t] = "running"
    /\ \/ w \in Reports \ {"bp"} /\ place \in Breakpoints \cup {NoBreakpoint}
       \/ w = "bp" /\ w \in Reports /\ ~stepping[t] /\ place \in enabled
       \/ w = "step" /\ stepping[t] /\ place \in Breakpoints \cup {NoBreakpoint}

Halted (t, w, place) ==
    /\ kstate' = [kstate EXCEPT ![t] = IF w \in Exits THEN "dead" ELSE "stopped"]
    /\ at' = [at EXCEPT ![t] = place]

Report (t, w, place) ==
    /\ CanReport (t, w, place) /\ Halted (t, w, place)
    /\ word' = [word EXCEPT ![t] = w]
    /\ UNCHANGED <<sigstop, stepping, others, sse, locks, engine>>

DeliverSigstop (t) ==
    /\ kstate[t] = "running" /\ sigstop[t]
    /\ \E place \in Breakpoints \cup {NoBreakpoint} : Halted (t, "sigstop", place)
    /\ word' = [word EXCEPT ![t] = "sigstop"]
    /\ sigstop' = [sigstop EXCEPT ![t] = FALSE]
    /\ UNCHANGED <<stepping, others, sse, locks, engine>>

(* exit_group(), or SIGKILL from anybody: every thread that is left dies.   *)
(* An event that waitpid() has reported stays with the debugger.            *)
AllDie ==
    /\ kstate' = [t \in Threads |-> "dead"]
    /\ word' = [t \in Threads |-> IF kstate[t] = "dead" THEN word[t] ELSE "exit"]
    /\ UNCHANGED <<sigstop, at, stepping>>

ExitGroup ==
    /\ "exit" \in Reports /\ \E t \in Threads : kstate[t] # "dead"
    /\ AllDie
    /\ UNCHANGED <<others, sse, locks, engine>>

WaitReap (t) ==
    /\ listening /\ held = NoEvent /\ word[t] # "none"
    /\ held' = [t |-> t, w |-> word[t]]
    /\ word' = [word EXCEPT ![t] = "none"]
    /\ UNCHANGED <<kstate, sigstop, at, stepping, listening, requested, sse, locks, engine>>

-----------------------------------------------------------------------------
(* Resuming a thread: do_continue() and do_step_native().                   *)

(* The thread has a pushed OperationStepOverBreakpoint.                     *)
StepsOver (t) == over[t] # NoBreakpoint

(* Back to the handler's caller.                                            *)
Return == epc' = IF in_pending THEN "pending" ELSE "check"

Run (t, single) ==
    /\ kstate' = [kstate EXCEPT ![t] = IF @ = "stopped" THEN "running" ELSE @]
    /\ stepping' = [stepping EXCEPT ![t] = single]

(* OperationCompleted(): the current operation and its child are gone.      *)
Completed (t) ==
    /\ op' = [op EXCEPT ![t] = "none"] /\ over' = [over EXCEPT ![t] = NoBreakpoint]
    /\ engine_stopped' = [engine_stopped EXCEPT ![t] = TRUE]

(* ptrace() fails for a thread that died after its event was reported.      *)
Gone (t) == kstate[t] = "dead"

(* step_over_breakpoint(): at an enabled breakpoint the operation           *)
(* OperationStepOverBreakpoint is pushed.                                   *)
Resume (t, single) ==
    /\ ~Gone (t)
    /\ \/ /\ at[t] \notin enabled
          /\ Run (t, single) /\ Return
          /\ UNCHANGED <<todo, over, has_thread_lock>>
       \/ /\ at[t] \in enabled /\ ~has_thread_lock
          /\ has_thread_lock' = TRUE
          /\ epc' = "acquire" /\ todo' = thread_hash \ {t}
          /\ UNCHANGED <<kstate, stepping, over>>

(* The ``Recursive thread lock'' error is caught by ExecuteOperation().     *)
RecursiveLock (t) ==
    ~Gone (t) /\ at[t] \in enabled /\ has_thread_lock /\ Completed (t) /\ Return

(* The TargetException of a dead thread completes its operation where       *)
(* ProcessOperationEvent() or ExecuteOperation() catches it; elsewhere it   *)
(* leaves the handler.                                                      *)
GoneCompletes (t) == Gone (t) /\ Completed (t) /\ Return
GoneAbandons (t) == Gone (t) /\ Return

-----------------------------------------------------------------------------
(* AcquireGlobalThreadLock(), one thread at a time.                         *)

(* Mutants: a running thread is left alone as well; the loop never gets     *)
(* past a stopped thread.                                                   *)
AcquireSkipAny (t) ==
    /\ epc = "acquire" /\ t \in todo
    /\ todo' = todo \ {t}
    /\ UNCHANGED <<target, others, sse, locks, epc, cur, plist, in_pending, from_wait>>
AcquireSkipStays (t) == epc = "acquire" /\ t \in todo /\ engine_stopped[t] /\ UNCHANGED vars

AcquireSkip (t) ==
    /\ epc = "acquire" /\ t \in todo /\ engine_stopped[t]
    /\ todo' = todo \ {t}
    /\ UNCHANGED <<target, others, sse, locks, epc, cur, plist, in_pending, from_wait>>

(* stop_and_wait() has returned the event w: PushRegisters, unless it died. *)
Locked (t, w) ==
    /\ thread_lock' = [thread_lock EXCEPT ![t] = w]
    /\ pushed_regs' = [pushed_regs EXCEPT ![t] = (w # "exit")]
    /\ engine_stopped' = [engine_stopped EXCEPT ![t] = (w # "exit")]
    /\ todo' = todo \ {t}
    /\ UNCHANGED <<others, thread_hash, op, over, has_thread_lock, enabled, pending_events,
                   epc, cur, plist, in_pending, from_wait>>

(* The thread had stopped before the SIGSTOP could be sent.                 *)
AcquireReap (t) ==
    /\ epc = "acquire" /\ t \in todo /\ ~engine_stopped[t]
    /\ word[t] \notin {"none", "exit0"}
    /\ word' = [word EXCEPT ![t] = "none"]
    /\ Locked (t, word[t])
    /\ UNCHANGED <<kstate, sigstop, at, stepping>>

AcquireSigstop (t, place) ==
    /\ epc = "acquire" /\ t \in todo /\ ~engine_stopped[t] /\ kstate[t] = "running"
    /\ Halted (t, "sigstop", place)
    /\ sigstop' = [sigstop EXCEPT ![t] = FALSE]
    /\ Locked (t, "sigstop")
    /\ UNCHANGED <<word, stepping>>

(* It stops for another reason after tkill(): the SIGSTOP remains queued.   *)
AcquireOther (t, w, place) ==
    /\ epc = "acquire" /\ t \in todo /\ ~engine_stopped[t]
    /\ CanReport (t, w, place) /\ w # "exit0" /\ Halted (t, w, place)
    /\ sigstop' = [sigstop EXCEPT ![t] = TRUE]
    /\ Locked (t, w)
    /\ UNCHANGED <<word, stepping>>

(* Inferior.Stop returns no event for a thread that exited with code 0 or   *)
(* was already reaped: PushRegisters fails, ExecuteOperation() catches.     *)
AcquireFails (t) ==
    /\ epc = "acquire" /\ t \in todo /\ ~engine_stopped[t] /\ kstate[t] = "dead"
    /\ word[t] \in {"none", "exit0"}
    /\ word' = [word EXCEPT ![t] = "none"]
    /\ thread_lock' = [thread_lock EXCEPT ![t] = "none"]
    /\ Completed (cur.t) /\ Return /\ todo' = {}
    /\ UNCHANGED <<kstate, sigstop, at, stepping, others, thread_hash, pushed_regs,
                   has_thread_lock, enabled, pending_events, cur, plist, in_pending, from_wait>>

(* It is stopped but its event is already with the wait thread or in        *)
(* pending_events: waitpid (WNOHANG) returns 0 for ever.                    *)
AcquireSpins (t) ==
    /\ epc = "acquire" /\ t \in todo /\ ~engine_stopped[t] /\ kstate[t] = "stopped"
    /\ word[t] = "none"
    /\ epc' = "spin"
    /\ UNCHANGED <<target, others, sse, locks, cur, todo, plist, in_pending, from_wait>>

(* DisableBreakpoint (Index); Step ().                                      *)
AcquireDone ==
    /\ epc = "acquire" /\ todo = {} /\ ~Gone (cur.t)
    /\ enabled' = enabled \ {at[cur.t]}
    /\ over' = [over EXCEPT ![cur.t] = at[cur.t]]
    /\ Run (cur.t, TRUE) /\ Return
    /\ UNCHANGED <<word, sigstop, at, others, thread_hash, engine_stopped, op, thread_lock,
                   pushed_regs, has_thread_lock, pending_events, cur, todo, plist,
                   in_pending, from_wait>>

(* The thread died meanwhile: the process keeps the thread lock.            *)
AcquireGone ==
    /\ epc = "acquire" /\ todo = {}
    /\ GoneCompletes (cur.t)
    /\ UNCHANGED <<target, others, thread_hash, locks, cur, todo, plist, in_pending, from_wait>>

Acquire ==
    \/ AcquireDone \/ AcquireGone
    \/ \E t \in Threads :
          \/ AcquireSkip (t) \/ AcquireReap (t) \/ AcquireFails (t) \/ AcquireSpins (t)
          \/ \E place \in Breakpoints \cup {NoBreakpoint} :
                AcquireSigstop (t, place) \/ \E w \in Words : AcquireOther (t, w, place)

-----------------------------------------------------------------------------
(* SingleSteppingEngine.ProcessEvent() for the event `cur'.                 *)

TakeEvent ==
    /\ epc = "idle" /\ held # NoEvent
    /\ cur' = held /\ held' = NoEvent /\ listening' = FALSE /\ from_wait' = TRUE
    /\ epc' = "handle"
    /\ UNCHANGED <<target, requested, sse, locks, todo, plist, in_pending>>

(* if (HasThreadLock) SetStopEvent (cevent), which throws an InternalError  *)
(* if the lock has an event already; an exit is handled in any case.        *)
HandleLocked ==
    /\ epc = "handle" /\ cur.w \notin Exits /\ thread_lock[cur.t] # "free"
    /\ thread_lock' = [thread_lock EXCEPT ![cur.t] = IF @ = "none" THEN cur.w ELSE @]
    /\ Return
    /\ UNCHANGED <<target, others, sse, pushed_regs, has_thread_lock, enabled, pending_events,
                   cur, todo, plist, in_pending, from_wait>>

Handling (W) ==
    /\ epc = "handle" /\ cur.w \in W
    /\ cur.w \in Exits \/ thread_lock[cur.t] = "free"

(* The thread is removed; with the last one the lock is dropped.            *)
HandleExit ==
    /\ Handling (Exits)
    /\ Completed (cur.t) /\ Return
    /\ thread_hash' = thread_hash \ {cur.t}
    /\ has_thread_lock' = (has_thread_lock /\ thread_hash' # {})
    /\ UNCHANGED <<target, others, thread_lock, pushed_regs, enabled, pending_events, cur,
                   todo, plist, in_pending, from_wait>>

(* CHILD_INTERRUPTED and signals complete the current operation before a    *)
(* pushed OperationStepOverBreakpoint sees them.                            *)
HandleStop ==
    /\ Handling ({"sigstop", "signal", "hit"}) /\ (cur.w = "hit" => ~StepsOver (cur.t))
    /\ Completed (cur.t) /\ Return
    /\ UNCHANGED <<target, others, thread_hash, locks, cur, todo, plist, in_pending, from_wait>>

(* OperationStep.ResumeOperation(): a "run" continues; a "step" goes on     *)
(* while it is inside its step frame, else it returns false.                *)
ResumeOperation (t) == Resume (t, op[t] = "step")
LeftStepFrame (t) == op[t] = "step"

(* resume_target: Continue() if there is nothing to resume.                 *)
HandleIgnored ==
    /\ Handling ({"ignored"})
    /\ \/ /\ ResumeOperation (cur.t)
          /\ UNCHANGED <<engine_stopped, op>>
       \/ /\ RecursiveLock (cur.t)
          /\ UNCHANGED <<kstate, stepping, has_thread_lock, todo>>
       \/ /\ ~Gone (cur.t) /\ LeftStepFrame (cur.t) /\ Run (cur.t, FALSE) /\ Return
          /\ UNCHANGED <<engine_stopped, op, over, has_thread_lock, todo>>
       \/ /\ GoneAbandons (cur.t)
          /\ UNCHANGED <<kstate, stepping, engine_stopped, op, over, has_thread_lock, todo>>
    /\ UNCHANGED <<word, sigstop, at, others, thread_hash, thread_lock, pushed_regs, enabled,
                   pending_events, cur, plist, in_pending, from_wait>>

(* child_breakpoint(): stop here, or do_continue().                         *)
HandleBreakpoint ==
    /\ Handling ({"bp"})
    /\ \/ /\ cur' = [cur EXCEPT !.w = "hit"]
          /\ UNCHANGED <<kstate, stepping, engine_stopped, op, over, has_thread_lock, epc, todo>>
       \/ /\ Resume (cur.t, FALSE) /\ UNCHANGED <<engine_stopped, op, cur>>
       \/ /\ RecursiveLock (cur.t)
          /\ UNCHANGED <<kstate, stepping, has_thread_lock, todo, cur>>
       \/ /\ GoneAbandons (cur.t)
          /\ UNCHANGED <<kstate, stepping, engine_stopped, op, over, has_thread_lock, todo, cur>>
    /\ UNCHANGED <<word, sigstop, at, others, thread_hash, thread_lock, pushed_regs, enabled,
                   pending_events, plist, in_pending, from_wait>>

HandleStep ==
    /\ Handling ({"step"}) /\ ~StepsOver (cur.t)
    /\ \/ /\ ResumeOperation (cur.t)
          /\ UNCHANGED <<engine_stopped, op>>
       \/ /\ RecursiveLock (cur.t) \/ GoneCompletes (cur.t)
          /\ UNCHANGED <<kstate, stepping, has_thread_lock, todo>>
       \/ /\ LeftStepFrame (cur.t) /\ Completed (cur.t) /\ Return
          /\ UNCHANGED <<kstate, stepping, has_thread_lock, todo>>
    /\ UNCHANGED <<word, sigstop, at, others, thread_hash, thread_lock, pushed_regs, enabled,
                   pending_events, cur, plist, in_pending, from_wait>>

-----------------------------------------------------------------------------
(* OperationStepOverBreakpoint.ReleaseThreadLock(): EnableBreakpoint, then  *)
(* ReleaseGlobalThreadLock().                                               *)

LockedThreads == {t \in thread_hash \ {cur.t} : thread_lock[t] # "free"}

(* Mutants: a thread without a lock is not skipped; the event is dropped;   *)
(* the registers stay pushed; the thread lock is not cleared.               *)
ReleaseUnlockedToo (S) ==
    /\ pushed_regs' = [t \in Threads |-> pushed_regs[t] /\ t \notin S]
    /\ pending_events' = thread_lock
    /\ thread_lock' = [t \in Threads |-> IF t \in S THEN "free" ELSE thread_lock[t]]
ReleaseDropsEvent (S) ==
    /\ pushed_regs' = [t \in Threads |-> pushed_regs[t] /\ t \notin S]
    /\ thread_lock' = [t \in Threads |-> IF t \in S THEN "free" ELSE thread_lock[t]]
    /\ UNCHANGED pending_events
ReleaseKeepsRegisters (S) ==
    /\ pending_events' = [t \in Threads |->
                            IF t \in S THEN thread_lock[t] ELSE pending_events[t]]
    /\ thread_lock' = [t \in Threads |-> IF t \in S THEN "free" ELSE thread_lock[t]]
    /\ UNCHANGED pushed_regs
ReleaseKeepsLock (S) ==
    /\ pushed_regs' = [t \in Threads |-> pushed_regs[t] /\ t \notin S]
    /\ pending_events' = [t \in Threads |->
                            IF t \in S THEN thread_lock[t] ELSE pending_events[t]]
    /\ UNCHANGED thread_lock

(* PopRegisters, AddPendingEvent, engine_stopped = false for threads S.     *)
ReleaseThreads (S) ==
    /\ pushed_regs' = [t \in Threads |-> pushed_regs[t] /\ t \notin S]
    /\ pending_events' = [t \in Threads |->
                            IF t \in S THEN thread_lock[t] ELSE pending_events[t]]
    /\ thread_lock' = [t \in Threads |-> IF t \in S THEN "free" ELSE thread_lock[t]]

(* PopRegisters works: they were pushed, and the thread still exists.       *)
Poppable (t) == pushed_regs[t] /\ ~Gone (t)

Release ==
    /\ Handling ({"step", "hit"}) /\ StepsOver (cur.t) /\ ~Gone (cur.t)
    /\ \A t \in LockedThreads : Poppable (t)
    /\ enabled' = enabled \cup {over[cur.t]}
    /\ ReleaseThreads (LockedThreads)
    /\ engine_stopped' = [t \in Threads |-> engine_stopped[t] /\ t \notin LockedThreads]
    /\ has_thread_lock' = FALSE
    /\ over' = [over EXCEPT ![cur.t] = NoBreakpoint]
    /\ UNCHANGED <<target, others, thread_hash, op, engine>>

(* pop_registers fails for a thread whose registers were not pushed: the    *)
(* TargetException ends the loop, and ProcessOperationEvent() kills the     *)
(* target.  The `killed' it sets makes ProcessEvent() ignore everything but *)
(* CHILD_EXITED; the one event that is left of the thread is its death by   *)
(* SIGKILL, which the server reports as CHILD_EXITED.                       *)
ReleaseFails ==
    /\ Handling ({"step", "hit"}) /\ StepsOver (cur.t) /\ ~Gone (cur.t)
    /\ \E t \in LockedThreads : ~Poppable (t)
    /\ enabled' = enabled \cup {over[cur.t]}
    /\ \E S \in SUBSET {t \in LockedThreads : Poppable (t)} :
          /\ ReleaseThreads (S)
          /\ engine_stopped' = [t \in Threads |-> t = cur.t \/ (engine_stopped[t] /\ t \notin S)]
    /\ AllDie
    /\ op' = [op EXCEPT ![cur.t] = "none"] /\ over' = [over EXCEPT ![cur.t] = NoBreakpoint]
    /\ Return
    /\ UNCHANGED <<others, thread_hash, has_thread_lock, cur, todo, plist, in_pending,
                   from_wait>>

(* inferior.CurrentFrame throws before anything is released.                *)
ReleaseGone ==
    /\ Handling ({"step", "hit"}) /\ StepsOver (cur.t)
    /\ GoneCompletes (cur.t)
    /\ UNCHANGED <<target, others, thread_hash, locks, cur, todo, plist, in_pending, from_wait>>

Handle ==
    \/ HandleLocked \/ HandleExit \/ HandleStop \/ HandleIgnored \/ HandleBreakpoint \/ HandleStep
    \/ Release \/ ReleaseFails \/ ReleaseGone

-----------------------------------------------------------------------------
(* ThreadManager.check_pending_events().                                    *)

CheckPending ==
    /\ epc = "check"
    /\ plist' = {t \in Threads : pending_events[t] # "none"} /\ in_pending' = TRUE
    /\ epc' = "pending"
    /\ UNCHANGED <<target, others, sse, locks, cur, todo, from_wait>>

(* if (engine.Process.HasThreadLock) continue;                              *)
MayProcess == ~has_thread_lock

PendingSkip (t) ==
    /\ epc = "pending" /\ t \in plist /\ ~MayProcess
    /\ plist' = plist \ {t}
    /\ UNCHANGED <<target, others, sse, locks, epc, cur, todo, in_pending, from_wait>>

(* SingleSteppingEngine.ReleaseThreadLock (cevent); the event of a thread   *)
(* that has gone is lost in the exception of inferior.CurrentFrame.         *)
Alive (t) == t \in thread_hash /\ ~Gone (t)

PendingNext (t) ==
    /\ epc = "pending" /\ t \in plist /\ MayProcess
    /\ plist' = plist \ {t}
    /\ pending_events' = [pending_events EXCEPT ![t] = "none"]
    /\ cur' = [t |-> t, w |-> pending_events[t]]
    /\ \/ /\ ~Alive (t) /\ UNCHANGED <<kstate, stepping, has_thread_lock, epc, todo>>
       \/ /\ Alive (t) /\ cur'.w = "sigstop"
          /\ Run (t, stepping[t]) /\ UNCHANGED <<has_thread_lock, epc, todo>>
       \/ /\ Alive (t) /\ cur'.w = "step"
          /\ ResumeOperation (t)
       \/ /\ Alive (t) /\ cur'.w = "step" /\ LeftStepFrame (t)
          /\ UNCHANGED <<kstate, stepping, has_thread_lock, epc, todo>>
       \/ /\ Alive (t) /\ cur'.w \notin {"sigstop", "step"}
          /\ epc' = "handle" /\ UNCHANGED <<kstate, stepping, has_thread_lock, todo>>
    /\ UNCHANGED <<word, sigstop, at, others, sse, thread_lock, pushed_regs, enabled,
                   in_pending, from_wait>>

(* The end of a main loop iteration: RequestWait() after an event.          *)
PendingDone ==
    /\ epc = "pending" /\ plist = {}
    /\ epc' = "idle" /\ cur' = NoEvent /\ in_pending' = FALSE /\ from_wait' = FALSE
    /\ listening' = (listening \/ from_wait)
    /\ UNCHANGED <<target, held, requested, sse, locks, todo, plist>>

Pending ==
    CheckPending \/ PendingDone \/ \E t \in Threads : PendingSkip (t) \/ PendingNext (t)

-----------------------------------------------------------------------------
(* Users.                                                                   *)

(* StartOperation(), in the client's thread: from now on the engine takes   *)
(* the thread for running.  Only this thread's own lock is looked at.       *)
StartOperation (t, o) ==
    /\ o \in Commands \cap {"run", "step"}
    /\ t \in thread_hash /\ engine_stopped[t] /\ thread_lock[t] = "free"
    /\ engine_stopped' = [engine_stopped EXCEPT ![t] = FALSE]
    /\ requested' = [requested EXCEPT ![t] = o]
    /\ UNCHANGED <<target, held, listening, thread_hash, op, over, locks, engine>>

Waiting (t) == requested[t] \in {"run", "step"}

(* SendCommand() fails: other commands keep the engine busy until           *)
(* engine_event times out, or another client overwrites current_command.    *)
(* Nobody sets engine_stopped again.                                        *)
CommandLost (t) ==
    /\ Waiting (t) /\ (epc # "idle" \/ \E u \in Threads \ {t} : Waiting (u))
    /\ requested' = [requested EXCEPT ![t] = "lost"]
    /\ UNCHANGED <<target, held, listening, sse, locks, engine>>

(* Mutant: the target is resumed without pushing the operation.             *)
ExecuteUnpushed (t) ==
    /\ epc = "idle" /\ Waiting (t) /\ t \in thread_hash
    /\ requested' = [requested EXCEPT ![t] = "none"]
    /\ cur' = [t |-> t, w |-> "none"]
    /\ Resume (t, requested[t] = "step")
    /\ UNCHANGED <<word, sigstop, at, held, listening, thread_hash, engine_stopped, op,
                   thread_lock, pushed_regs, enabled, pending_events, plist, in_pending, from_wait>>

(* The command in the engine thread: PushOperation().  It does nothing for  *)
(* a thread that exited in between.                                         *)
ExecuteOperation (t) ==
    /\ epc = "idle" /\ Waiting (t)
    /\ requested' = [requested EXCEPT ![t] = "none"]
    /\ cur' = [t |-> t, w |-> "none"]
    /\ \/ /\ t \in thread_hash
          /\ Resume (t, requested[t] = "step")
          /\ op' = [op EXCEPT ![t] = requested[t]]
          /\ UNCHANGED engine_stopped
       \/ /\ t \in thread_hash /\ (RecursiveLock (t) \/ GoneCompletes (t))
          /\ UNCHANGED <<kstate, stepping, has_thread_lock, todo>>
       \/ /\ t \notin thread_hash /\ Return
          /\ UNCHANGED <<kstate, stepping, engine_stopped, op, over, has_thread_lock, todo>>
    /\ UNCHANGED <<word, sigstop, at, held, listening, thread_hash, thread_lock, pushed_regs,
                   enabled, pending_events, plist, in_pending, from_wait>>

(* Stop(): tkill (SIGSTOP), unless the engine knows that it is stopped.     *)
Stop (t) ==
    /\ "stop" \in Commands
    /\ t \in thread_hash /\ ~engine_stopped[t] /\ kstate[t] = "running"
    /\ sigstop' = [sigstop EXCEPT ![t] = TRUE]
    /\ UNCHANGED <<kstate, word, at, stepping, others, sse, locks, engine>>

User ==
    \E t \in Threads : Stop (t) \/ CommandLost (t) \/ \E o \in Commands : StartOperation (t, o)

Target ==
    \/ ExitGroup
    \/ \E t \in Threads :
          \/ DeliverSigstop (t) \/ WaitReap (t)
          \/ \E w \in Words, place \in Breakpoints \cup {NoBreakpoint} : Report (t, w, place)

Engine ==
    TakeEvent \/ Handle \/ Acquire \/ Pending \/ \E t \in Threads : ExecuteOperation (t)

Next == Target \/ Engine \/ User

(* The debugger's threads are scheduled; a thread of the target that was    *)
(* told to execute one instruction executes it.                             *)
Fairness ==
    /\ WF_vars (Engine)
    /\ \A t \in Threads :
          /\ WF_vars (WaitReap (t))
          /\ WF_vars (\E place \in Breakpoints \cup {NoBreakpoint} : Report (t, "step", place))

Spec == Init /\ [][Next]_vars
FairSpec == Spec /\ Fairness

-----------------------------------------------------------------------------
(* Properties.                                                              *)

TargetType ==
    /\ kstate \in [Threads -> {"running", "stopped", "dead"}]
    /\ sigstop \in [Threads -> BOOLEAN] /\ stepping \in [Threads -> BOOLEAN]
    /\ at \in [Threads -> Breakpoints \cup {NoBreakpoint}]

EventType ==
    /\ word \in [Threads -> Words \cup {"none"}]
    /\ held \in Event \cup {NoEvent} /\ listening \in BOOLEAN
    /\ thread_lock \in [Threads -> Words \cup {"free", "none"}]
    /\ pushed_regs \in [Threads -> BOOLEAN]
    /\ pending_events \in [Threads -> Words \cup {"none"}]
    /\ cur \in Event \cup {NoEvent} \cup [t : Threads, w : {"none"}]

EngineType ==
    /\ thread_hash \subseteq Threads /\ engine_stopped \in [Threads -> BOOLEAN]
    /\ op \in [Threads -> {"none", "run", "step"}]
    /\ requested \in [Threads -> {"none", "run", "step", "lost"}]
    /\ over \in [Threads -> Breakpoints \cup {NoBreakpoint}]
    /\ has_thread_lock \in BOOLEAN /\ enabled \subseteq Breakpoints
    /\ epc \in {"idle", "handle", "acquire", "spin", "check", "pending"}
    /\ todo \subseteq Threads /\ plist \subseteq Threads
    /\ in_pending \in BOOLEAN /\ from_wait \in BOOLEAN

(* Every variable has its type: pending_events holds events, never the      *)
(* lock state of a thread that was not locked (ReleaseThreadLock).          *)
TypeOK == TargetType /\ EventType /\ EngineType

(* While a breakpoint is disabled for one thread, no other thread runs and  *)
(* could pass it: ``stopping all other threads, removing the breakpoint,    *)
(* single-step one instruction and then releasing the thread lock''.        *)
OnlyOwnerRuns ==
    enabled # Breakpoints =>
        \A t \in thread_hash : kstate[t] = "running" => StepsOver (t)

(* No thread runs on the stack pointer that PushRegisters displaced, the    *)
(* server never has registers pushed that no thread lock will pop, and only *)
(* one operation steps over a breakpoint at a time.                         *)
RegistersBalanced ==
    \A t \in thread_hash :
        /\ pushed_regs[t] => thread_lock[t] # "free" /\ kstate[t] # "running"
        /\ StepsOver (t) => has_thread_lock /\ \A u \in Threads \ {t} : ~StepsOver (u)

(* AddPendingEvent() never finds an older event of the thread: the          *)
(* ArgumentException of Hashtable.Add cannot happen.  The InternalError of  *)
(* SetStopEvent happens only to a thread that was killed while an older     *)
(* event of it was on its way.                                              *)
PendingOnce ==
    /\ \A t \in thread_hash : pushed_regs[t] => pending_events[t] = "none"
    /\ epc = "handle" /\ cur.w \notin Exits => thread_lock[cur.t] = "free" \/ Gone (cur.t)

(* ``SSE has no current operation, but received event'': every event of a   *)
(* thread finds the operation that resumed it.                              *)
EventHasOperation ==
    epc = "handle" /\ cur.w \notin Exits => cur.t \in thread_hash /\ op[cur.t] # "none"

(* The event of the thread is on its way to the engine.                     *)
UnderWay (t) ==
    \/ word[t] # "none" \/ held.t = t \/ pending_events[t] # "none"
    \/ thread_lock[t] # "free" \/ (epc \notin {"idle", "pending"} /\ cur.t = t)

(* A thread that the engine takes for running is running, its event is      *)
(* still on its way to the engine, or a client has asked for an operation   *)
(* that was not started yet, or was lost: the lock forgets nobody.          *)
(* Excepted are threads that step, whose finished step                      *)
(* ReleaseThreadLock (cevent) may drop.  (An exit with code 0 is lost in    *)
(* Inferior.Stop: WaitProtocol's ExitReported.)                             *)
NoThreadForgotten ==
    \A t \in thread_hash :
        ~engine_stopped[t] /\ kstate[t] = "stopped" /\ op[t] # "step"
            => UnderWay (t) \/ requested[t] # "none"

(* Every handler and every command returns to the main loop, unless a Stop  *)
(* spins (AcquireSpins).                                                    *)
HandlerReturns == epc # "idle" ~> epc \in {"idle", "spin"}

(* Process.AcquireGlobalThreadLock: ``The threads are automatically resumed *)
(* to their previos state when ReleaseGlobalThreadLock() is called.''       *)
PopSucceeds ==
    epc = "handle" /\ cur.w \in {"step", "hit"} /\ StepsOver (cur.t)
        => \A t \in LockedThreads : pushed_regs[t]

(* doc/thread-design.txt: the thread lock is released after the single      *)
(* step, so it is held only while some thread steps over a breakpoint.      *)
LockReleased == epc = "idle" /\ has_thread_lock => \E t \in Threads : StepsOver (t)
=============================================================================
