# A TLA+ model of the Mono debugger's engine

`mdb` debugs native and managed programs on Linux through `ptrace`.  This
directory models the part of it that is concurrent: how status words of the
target's threads reach the code that handles them, how commands of client
threads reach the engine thread, how one thread is stepped over a breakpoint
while all others are held still, how breakpoints are shared, patched into the
code and taken out of it again, how a command stops and resumes all threads of
a process, and how methods of the program are called in one of its threads.

## 1. The system

| Part | State | Operations | Source |
|---|---|---|---|
| Linux server | `stop_requested`, `stop_status`, three mutexes | `global_wait`, `stop`, `stop_and_wait`, `wait_for_new_thread` | `sysdeps/server/x86-linux-ptrace.c` |
| Thread manager | `thread_hash`, `pending_events`, `pending_sigstops`, `current_command`, `current_event`, `engine_event`, `wait_event`, `waiting`, `abort_requested` | `SendCommand`, `StartApplication`, `engine_thread_main`, `wait_thread_main`, `check_pending_events`, `Dispose` | `backend/ThreadManager.cs`, `backend/EventQueue.cs` |
| Single stepping engine (one per thread) | `engine_stopped`, `current_operation` and its children, `thread_lock`, `stop_requested`, `killed` | `ProcessEvent`, `StartOperation`, `Stop`, `AcquireThreadLock`, `ReleaseThreadLock`, the `Operation` classes | `backend/SingleSteppingEngine.cs` |
| Inferior | target state, the server handle | `Stop`, `Continue`, `Step`, `Resume`, `PushRegisters`, `InitializeThread` | `backend/Inferior.cs` |
| Process | `thread_hash`, `has_thread_lock`, `current_state`, `current_operation`, `stopped_event` | `AcquireGlobalThreadLock`, `ReleaseGlobalThreadLock`, `StartOperation`, `OperationCompleted`, `SuspendUserThreads`, `ResumeUserThreads`, `ThreadCreated`, `ChildForked` | `classes/Process.cs` |
| Breakpoints | reference counts, tables by address and by index, enabled flags, debug registers, slots of the runtime's table | insert, remove, enable, disable, look up, clone at a fork | `sysdeps/server/breakpoints.c`, `sysdeps/server/x86_64-arch.c`, `backend/BreakpointManager.cs` |
| Commands | `CommandResult`, its `IsCompleted` flag and wait handle; `current_operation` of the debugger | `Completed`, `Abort`, `StartOperation`, `StopAll` | `classes/Operation.cs`, `classes/Debugger.cs`, `classes/Thread.cs` |
| Method calls | `callback_stack` (server), `rti_stack`, `nested_break_stack`, `abort_requested` (engine), `RuntimeInvokeResult` | `RuntimeInvoke`, `AbortInvocation`, `Return`, the callbacks of `OperationRuntimeInvokeHelper` | `backend/SingleSteppingEngine.cs`, `sysdeps/server/x86_64-arch.c` |
| Sessions, events | active events and their breakpoints | activate, deactivate | `classes/DebuggerSession.cs`, `classes/Event.cs` |
| Runtime support, languages, symbol readers, frontend | read-mostly tables | look-ups, evaluation, parsing | `backend/mono`, `languages`, `backend/os`, `frontend` |

Threads and how they meet:

* the *wait thread* sleeps on `wait_event`, calls `global_wait()`
  (`waitpid (-1)`), and posts the event as `current_event`;
* the *engine thread* owns the monitor of `event_queue` except inside
  `Monitor.Wait`; it runs one event handler or command at a time and is the
  only thread that calls `ptrace`.  Inside a handler it may call
  `stop_and_wait()` on other threads, which competes with the wait thread
  for `waitpid()`;
* *client threads* block on `engine_event`, post `current_command`, and block
  on `engine_event` again until the command has been run;
* `Dispose()` runs on a thread-pool thread once the last thread of the target
  is gone.

What is hard here, and what makes each part correct:

* two callers of `waitpid()`: every stop or exit of a thread is seen by
  exactly one of them, and reaches its handler once;
* the kernel reports the first stop of a cloned thread before or after the
  clone event: the engine must learn of the thread once, and never take that
  stop for an interrupt;
* `Monitor.Pulse`, `AutoResetEvent` and `ManualResetEvent` remember different
  things: no command and no event may be left waiting;
* stopping all threads takes one system call per thread, and those still
  running go on producing events: nobody may run through the removed
  breakpoint, no event may be lost or handled twice, and the stack pointers
  that were displaced must be restored;
* one breakpoint of the server may belong to a user's breakpoint and to
  temporary breakpoints of several threads, is disabled for a step, and is
  copied by a fork: the debugger must never take its own trap for an
  instruction of the program, and never remove what somebody still uses;
* a process-wide command is carried by all threads and completed by the first
  that stops, while others stop, exit or are created: the process must end up
  with nobody running, and the client must be told after that, once;
* a method call may stop at its entry, at breakpoints and by signals, another
  call may be made inside it, and it may be aborted at any time: three stacks
  in two programs must stay in step, and whoever waits must get an answer.

`PROJECT.json` lists the hazards with their source lines.

## 2. Modules

| Module | Models | Checked by |
|---|---|---|
| `WaitProtocol` | `global_wait`, `stop_and_wait`, `wait_for_new_thread`, `pending_sigstops` | `MCWaitProtocol`, `WaitProtocolProofs`, `WaitDeliveryProofs` |
| `EventDelivery` | what `WaitProtocol` promises: abstract events | `WaitRefinement` (the mapping), `MCWaitProtocol`, `WaitRefinementProofs` |
| `MainLoop` | the thread manager's threads and its clients | `MCMainLoop`, `MainLoopProofs` |
| `ThreadLock` | event dispatch, stepping over a breakpoint, the global thread lock, pending events | `MCThreadLock`, `ThreadLockProofs` |
| `BreakpointTable` | `breakpoints.c`, the server's breakpoint calls, `BreakpointManager`, temporary breakpoints, forks | `MCBreakpointTable`, `BreakpointTableProofs` |
| `ProcessOps` | commands for a thread, a process or all of them; suspending and resuming; clones, forks and exits | `MCProcessOps`, `ProcessOpsProofs` |
| `ProcessCommand` | what `ProcessOps` promises a client: a command, abstractly | `ProcessRefinement` (the mapping), `MCProcessOps`, `ProcessOpsProofs` |
| `RuntimeInvoke` | `print` and `call`: callbacks, nested break states, aborts | `MCRuntimeInvoke`, `RuntimeInvokeProofs` |

The modules are layers of one system.  `MainLoop` takes what a handler does to
the target and what `global_wait()` returns as choices; `WaitProtocol` says
what is inside `global_wait()` and one `stop_and_wait()`; `ThreadLock` and
`ProcessOps` use the contract of `stop_and_wait()` that `WaitProtocol` checks
and say what the handlers do: `ThreadLock` inside one step over a breakpoint,
`ProcessOps` when operations start and complete.  `BreakpointTable` stands
beside `ThreadLock`: it takes the lock as atomic (a step over a breakpoint
stops the other running threads at once) and says what happens to the tables
and to the code.  `RuntimeInvoke` is about one thread and takes the others as
absent: a method call neither stops nor resumes them.

### WaitProtocol

`kstate`, `kword`, `sigstop` and `child` are the kernel's: the state of each
thread, the status word `waitpid()` would return, a queued `SIGSTOP`, and the
thread a clone event names.  `m1`, `m2`, `m3` are the three mutexes.  Each
mutex operation and each `waitpid()` is one action; `wpc` and `epc` are the
program counters of the wait thread and the engine thread.  The status word 0
(an exit with code 0) is the same value as `no status', as in the C code.
`WaitAgain` chooses whether the 2.5 minutes after which `pending_sigstops` is
cleared have passed.  Handlers are reduced to: stay stopped, resume, remove
the thread, start a new one.  The creator of a new thread stays stopped if
`SuspendUserThread` is what stopped it (`CloneResumes`).

`Owes (p)` says that a thread stopped or died and its event was not handled.
`EventUnderWay` gives such a thread exactly one event as long as the engine
knows it; a thread that died is forgotten when its exit is handled
(`ProcessExit`), and then none of its words may be left anywhere.

`EventDelivery` says what the engine may rely on: a thread that stops or
exits has one event under way, one handler gets it, and the thread runs again
only when that handler or a later command says so.  The first stop of a new
thread is absorbed, and an exit with code 0 may be lost (section 5).
`WaitRefinement` maps the kernel's word, the wait thread's, `stop_status`, the
inbox and the engine's local variable to that one event; a step that copied,
dropped or overtook an event would not be a step of `EventDelivery`.

### MainLoop

A section in which a thread holds the monitor of `event_queue` is one action
guarded by `MonitorFree`; the engine thread holds the monitor in every state
but `epc = "wait"`.  `pulsed` says that the waiting engine thread has been
pulsed.  The gates on `engine_event` are separate actions, because the code
tests the event before it enters the monitor.  `kind` distinguishes
`StartApplication()` from `SendCommand()`, `executed` is a history variable.

### ThreadLock

`epc` walks through one handler: `handle`, `acquire` (one thread of `todo` at
a time), `check`/`pending` (`check_pending_events`), `idle`; `spin` is a
`stop_and_wait()` that never returns.  `op[t]` is the current operation
(`run` or `step`), `over[t]` the breakpoint its pushed
`OperationStepOverBreakpoint` has disabled, `thread_lock[t]` the `StopEvent`
of the thread's lock.  A `run` always resumes; a `step` single-steps and may
find at any stop that it is finished (`LeftStepFrame`), which stands for the
frame comparison in `OperationStep.Step`.  Whether a breakpoint makes the
operation stop or is skipped is a choice (`child_breakpoint`).  `AcquireReap`,
`AcquireSigstop`, `AcquireOther`, `AcquireFails` and `AcquireSpins` are the
outcomes of one `Inferior.Stop`.  `ReleaseFails` is the error path in which
the target is killed.

A command has two steps, in two threads: `StartOperation` clears
`engine_stopped` in the client's thread, at any time; `ExecuteOperation` pushes
the operation later, between two handlers.  `requested` is the operation in
between, and stays `lost` if `SendCommand()` gave up or another client
overwrote it (`CommandLost`): nobody sets `engine_stopped` again.  Meanwhile the
engine takes the stopped thread for running, and an acquire for another thread
spins on it (`AcquireSpins`).

The flag `killed` is left out.  It is set by `Kill()`, which is not modelled,
and by `ReleaseFails` (`SingleSteppingEngine.cs:521`); but there the one event
that is left of the thread is its death by `SIGKILL`, which the server reports
as `CHILD_EXITED` (`x86-ptrace.c:270`), the one event that a killed thread still handles
(`SingleSteppingEngine.cs:184`).

A thread may die at any time (another one calls `exit_group()`), and its exit
is reported after the events that are already under way.  A `ptrace()` call
for a thread that is `Gone` fails: the exception completes the operation
(`AcquireGone`, `ReleaseGone`), or ends the handler.  `HandleLocked` is the
event of a thread that is locked: it is kept in the lock (`SetStopEvent`).

### BreakpointTable

`mem[p][a]` is the target's code, `insn` or `trap`; `bpm[p][a]` the
`BreakpointInfo` at an address; `index_hash`, `dr_regs`, `temp_breakpoint`,
`last_breakpoint_id` are the fields of that name; `slots` counts the bits set
in the runtime's `breakpoint_table_bitfield`.  Every call of the server is an
operator (`AddReference`, `NewBreakpoint`, `InsertFails`, `NewHardware`,
`RemoveCalls`), and the actions are the commands and handlers that make one
such call.  `run[t]` says what thread `t` does: it is stopped or running, or
the engine is inside a handler for it (`Handling`), between two calls.
`until` is the argument of `do_continue()`, `step_over` the `Index` of the
pushed `OperationStepOverBreakpoint`.  A call through a running thread fails,
as `ptrace()` does; where the code has given up a reference by then, the
model has too.  A breakpoint of a domain that is unloaded is one of
`FunctionHandles`; `NonGlobal` are those with a thread group of their own.

`Fork` is the kernel's, `ChildForked` and `DetachAfterFork` the handler's, so
that commands come in between.  Two ghost variables keep the properties
honest: `copied` records that nothing changed in between, and `stale` which
index entries are known to hold no reference (section 5).  Two bounds are in
the guards: after the fork is handled only the new process is explored
(`Explored`: the two share nothing but the id counter), and a removal that
failed is retried only through a stopped thread (`RetryBound`).

### ProcessOps

`calls` is the call stack of the engine thread inside a handler: completing an
operation, the process's and the debugger's `OperationCompleted`, and one
`SuspendUserThreads` per nesting, with the threads it has still to look at.
An event handled inside `SuspendUserThread` pushes calls on it, an exception
(`Throw`) unwinds all of them.  `SuspendSkip`, `SuspendReap`,
`SuspendSigstop`, `SuspendOther`, `SuspendThrows` and `SuspendHangs` are the
outcomes of one `SuspendUserThread`.  `op[t]` is the `CommandResult` that
thread `t` carries: none, its own, or an index of `results`, which the threads
of a process share.  `command` holds a client's command between the check in
the client's thread (`BeginStep`) and its execution in the engine thread.
`Resumable` leaves out the threads whose `AutoRun` flag the user has cleared,
any of `Parkable` at each command.
`Interruptible` lets the target and the clients act only where the engine
thread is at a point at which their steps make a difference: between two
threads in `SuspendUserThreads`, and between two handlers.  `MaxResults`
bounds the number of process-wide and debugger-wide commands.

`ProcessCommand` says what a client is promised of a command for a whole
process whose threads only stop: all threads start; the first that stops
completes the command, once; each of the others stops and none starts again;
the client is told when all are quiet.  `ProcessRefinement` maps `ProcessOps`
to it: a command is an index of `results`, open until it is completed; a
thread is active while it runs or has an event that is in the kernel, held by
the wait thread or pending; the wait handle is that of the last result.  The
stack of calls, the suspended threads' states and the clients are invisible.

### RuntimeInvoke

`callback_stack` is the server's; `ops` is `current_operation` with the chain
of its children; `rti` has one record per invocation, by the ID it shares
with its helper (`stage`, `HasStarted`, `AbortRequested`, `IsSuspended`; `done`
is `InvocationCompleted` or `InvocationAborted`, `completed` the wait handle
of the result).  A stop of the thread and the handler of its event are one
action.  The stages before the method is compiled (resolving the class, boxing
the instance, finding the virtual method) are one stage, `prepare`, which may
repeat.  `call` has the flags `BreakOnEntry` and `NestedBreakStates`, `nested`
only the latter, `print` none.  `dead` is `no` until an exception
ends the engine thread or the target is killed.  `MaxIds` bounds
`OperationCallback.next_id`.

## 3. Runs

| Run | Bounds | Shows |
|---|---|---|
| `WaitEvents` | 1 thread, 1 clone; 23326 states | `EventUnderWay`: a stopped or dead thread has its event in exactly one place until it is handled, and none afterwards; `EventOnce`; `StopAnswersRequest`: `stop_and_wait()` gets the event of its own thread and leaves nothing behind; `InitialStopConsumed`: a cloned thread is known only after its first stop was consumed; `StopReturns`: `stop_and_wait()` returns unless `global_wait()` had already returned that event; `ImplementsDelivery`: the refinement of `EventDelivery` |
| `LoopOneClient` | 1 client, 2 threads; 2661 states | `NoInternalError`: neither `throw new InternalError` is reached; `EventHeldOnce`; `NoLostSignal`; `CommandRanBeforeReturn`; `CommandReturns` while the target is quiet; `EventsProcessed` while the clients are quiet |
| `LockEvents` | 3 threads, 1 breakpoint, breakpoints, signals and exits, no commands; 745438 states | `OnlyOwnerRuns`; `HandlerReturns` |
| `LockCommands` | 2 threads, all events, all commands; 749746 states | `RegistersBalanced`; `PendingOnce`; `EventHasOperation`; `NoThreadForgotten` |
| `Breakpoints` | 2 threads and a forked one, 1 address, 1 address breakpoint, 1 function breakpoint, 1 watchpoint, 1 debug register, 2 usable slots, 3 ids; 2.1 million states | `ReadsOriginal`: reading the code never shows a trap; `EnabledIsPatched`: an enabled breakpoint is in the code unless the runtime's table is full; `OwnersCounted`: every user of a breakpoint holds a reference, and nobody else does; `LetGoClean`: a process that is let go after a fork runs its own code |
| `OpsStops` | 3 threads that stop, 3 process-wide or debugger-wide commands, `Thread.Stop()`; 53319 states | `Carried`: the operation of a running process has a thread that can complete it; `AnyThreadStops`: whichever thread stops, the process stops; `NeverHung`: suspending the others never waits for an event that is gone; `CompletedSignalled`: a completed command sets its wait handle; `ImplementsCommand`: the refinement of `ProcessCommand` |
| `OpsAll` | 3 threads in 2 processes, exits, clones, forks, unknown events, commands for a thread, a process and all processes, `Abort()`, one parkable thread; 1.3 million states | `StoppedIsQuiet`: a stopped process has no user thread that runs; `SignalledIsDone`: once the wait handle is set, nobody carries an operation that could still complete |
| `Invokes` | 3 callback operations; 2.4 million states | `StacksAgree`: the calls the thread executes are the invocations the engine knows to be under way, in order; `NestedAgree`; `DoneIsGone`: a finished or aborted result is about a call that has left the stack; `NobodyWaits`: when the thread has stopped, every client has been told or its invocation is suspended and unfinished; `TemporaryOwned` |
| `WaitExitZero`, `LoopTwoClients`, `LockLeaked`, `OpsExit` | smallest that suffice | disagreements with comments or documents, see section 5 |

Every module's `TypeOK` is checked too.

Why the bounds are enough.  One `stop_and_wait()` has one target and one
competitor for its event, and a clone needs a creator and one new thread; the
new thread, once it runs, is the second thread of the protocol.  The same
properties hold for two threads and a clone (1.4 million states, too slow
for a regular run).  The main loop has one slot for a command and one
for an event; two threads make the second collide, and for the first the
proofs of section 4 cover any number of clients.  The thread lock
distinguishes the thread that steps, one that is locked, and one whose event
is handled while another is still pending: three.  A second breakpoint would
add only addresses; `at[t]` may be the breakpoint again after a step.  All
sharing of a breakpoint happens at one address; one debug register is full
after one watchpoint, so that temporary breakpoints are of both kinds; two
slots are used up by one insertion and one step, and three ids let a
breakpoint be removed and inserted again; the one branch that needs more is
the failure of a temporary breakpoint in an event (a second address): it kills
the target, as the failure in `EnableBreakpoint` does, which is reached.
Suspending needs the thread that
stopped, one that stops at the same time, and one that still runs; in `OpsAll`
threads may be created, so that one command meets clone, fork and exit (with
ordinary stops added to it, 3.2 million states, the properties hold as well).
Three callback operations are an invocation, one nested in it, and an abort of
either.

Fairness.  `WaitProtocol` and `MainLoop` assume weak fairness of the
debugger's own threads, each as a whole (the scheduler runs them), and of the
kernel's delivery of queued signals and first stops.  Threads of the target
and users are never forced to act, except that a client that has started a
command continues with it.  `ThreadLock` also assumes that a thread that was
told to execute one instruction reports it.  `ProcessOps` assumes that the
engine thread goes on with its handler and with a command that was issued, and
that the wait thread reaps what a thread reports; clients and threads of the
target are not forced to do anything.  `RuntimeInvoke` has no fairness: a
method that is called may run for ever.  Mutexes and monitors are not
assumed to be fair.

All runs turn TLC's deadlock check off: a target may stop for good with all
threads stopped, bounded commands may be used up, and the behaviours of
section 5 end in states where everybody waits.

## 4. Proofs

Each theorem holds for every value of the constants that satisfies the named
assumptions of its module: any finite set of threads, any number of clients,
addresses, handles, registers, slots and ids.  All proofs have the same shape:
`Init => IInv`, `IInv /\ [Next]_vars => IInv'` with one step per action, and
`IInv` implies the property.  TLC has checked the inductive invariants, or the
conjuncts that are new in them, on instances of the size of section 3.

### WaitProtocolProofs, WaitDeliveryProofs, WaitRefinementProofs

For any finite sets `Initial` and `Spare` of threads (`PidAssumption`: finite,
disjoint, without the pid 0):

* `TypeCorrect`: `Spec => []TypeOK`;
* `StopCorrect`: `Spec => []StopAnswersRequest`;
* `OnceCorrect`: `Spec => []EventOnce`;
* `UnderWayCorrect`: `Spec => []EventUnderWay`;
* `InitialStopCorrect`: `Spec => []InitialStopConsumed`;
* `DeliveryImplemented`: `Spec => ImplementsDelivery`, the refinement of
  `EventDelivery` under the mapping of `WaitRefinement`.

The first two follow from `IInv == TypeOK /\ CloneInv /\ StopInv`.  `CloneInv`
is needed for types: wherever a clone event is on its way, `child` names a
thread, so that `InitializeThread` gets a real pid.  `StopInv` is the argument
of the protocol: `stop_requested` is the target's pid exactly while the engine
waits for `wait_mutex`, and a `stop_status` other than `no status' is one of
that thread, because the wait thread compares and writes under `wait_mutex_2`
and the engine clears both while it owns `wait_mutex`.

For the delivery theorems this is strengthened by what each place knows of its
event: a place that holds an event of a thread excludes the others, a running
thread has none anywhere, and a thread that is new is not known yet.  The
refinement then goes action by action: each step of the wait thread or of
`stop_and_wait()` moves the one event of a thread from place to place, which is
a stutter of `EventDelivery`, or reports, handles or resumes it.

### MainLoopProofs

For any finite sets of clients and of threads:

* `TypeCorrect`: `Spec => []TypeOK`;
* `MainLoopNeverThrows`: `Spec => []NoInternalError`;
* `SignalKept`: `Spec => []NoLostSignal`;
* `EventHasOneHolder`: `Spec => []EventHeldOnce`;
* `CommandRanCorrect`: `Spec => CommandRanBeforeReturn`, if there is at most
  one client (`LoopTwoClients` refutes it for two).

The argument is a token.  The right to call `global_wait()` is in one of three
places: `wait_event` is set; the wait thread is inside `wait_thread_main()`;
or the engine has, or is about to take, the event that came of it and will
call `RequestWait()` when it is done (`WaitToken`).  It is never in two, so
`RequestWait()` never finds `waiting` set and the wait thread never finds
`current_event` occupied.  `Posted` says that work is posted only while the
engine thread waits in `Monitor.Wait`, and that it has been pulsed; `Held`
that a reaped event is in the hands of the wait thread, the queue or the
engine.  `Waiting` (whoever's command is being run waits for its result) and
`Starting` (before the application is started the wait thread does nothing,
and nobody starts it twice) are what makes these inductive.  On two
clients and two threads TLC finds the invariant in all 8411 states.

For the action property, `Answered`: a client that waits for a result which is
not there has its command in `current_command` or in the engine's local
variable, and `engine_event` is reset.  A second client breaks it by
overwriting `current_command`.

### ThreadLockProofs

For any threads, breakpoints, kinds of events and commands:

* `TypeCorrect`: `Spec => []TypeOK`;
* `RegistersCorrect`: `Spec => []RegistersBalanced`;
* `PendingCorrect`: `Spec => []PendingOnce`;
* `OperationCorrect`: `Spec => []EventHasOperation`;
* `OwnerCorrect`: `Spec => []OnlyOwnerRuns` if users give no `run` or `step`
  commands;
* `ForgottenCorrect`: `Spec => []NoThreadForgotten`.

The hypothesis of `OwnerCorrect` is needed: with the commands the property
fails (section 5).  Breakpoints, signals, exits and `Stop` remain.
`NoThreadForgotten` holds for all commands, the time between the client's step
and the engine's included, but says nothing of a thread whose operation is a
`step` (section 5) and allows for a command that is lost.

The invariant is `TypeOK`, `EngineInv` (what the engine thread is doing) and
`ThreadInv (t)` for each thread.  Its heart is `Once`: a stop of a thread is in
one place, be it the kernel, the wait thread, the handler, the thread lock or
`pending_events`, and the thread does not run until a handler lets it.  `Quiet`
says that a thread taken for stopped, or asked to start and not started, has no
event to be handled, `Lock` that
a locked thread has its registers pushed or has died, `Exit` that an exit
is the last event of a thread and is handled once, `Operation` that a thread
that runs or will be resumed has an operation, and `Over` ties `over` and `has_thread_lock` to the thread
that steps.  `OwnerInv` and `KnownInv` extend it for the last two theorems.

`PendingOnce` has an exception for a thread that has died, which the proof
brought to light: with three threads the engine may handle an older event of a
thread that is locked and dead (`HandleLocked`, section 5).

### BreakpointTableProofs

For any finite sets of addresses and threads, any handles, and any numbers of
debug registers, slots and ids (`BreakpointAssumption`):

* `TypeCorrect`: `Spec => []TypeOK`;
* `ReadsCorrect`: `Spec => []ReadsOriginal`;
* `PatchedCorrect`: `Spec => []EnabledIsPatched`;
* `LetGoCorrect`: `Spec => []LetGoClean`;
* `OwnersCorrect`: `Spec => []OwnersCounted`.

The first four rest on `IInv`.  `CellInv` says of each address that its code
is a trap exactly if its breakpoint is enabled, unless the slots are used up,
and that the saved instruction is the program's; neither half is inductive
without the other, because enabling saves what is read.  `ForkInv` says that
the new process has no thread until its tables are copied, so that nobody
changes the one without the other.

`OwnersCorrect` needs `CountInv` on top of it.  `IdInv`: no id exceeds
`last_breakpoint_id` and an id stands for one address of a process, so that a
new breakpoint starts with no owners and a removal touches one entry.
`Hardware`: an id in a debug register is in no table, and belongs to one
watchpoint or to the temporary breakpoint of one thread, so that emptying the
register leaves no user behind.  The number of owners is a cardinality; the
lemmas `OwnersIndex` and `OwnersTemp` say how it changes when a handle or a
temporary breakpoint comes or goes, and `CountsStep` that the reference count
changes with it.  There is one lemma per kind of step: a call that concerns no
reference, a shared breakpoint, a new one, a debug register, removals, a
temporary breakpoint that is removed or forgotten, and the copy at a fork.

### RuntimeInvokeProofs

For any bound on the number of invocations (`RuntimeInvokeAssumption`):

* `InvocationTypes`: `Spec => []TypeOK`;
* `StacksAlwaysAgree`: `Spec => []StacksAgree`;
* `NestedAlwaysAgree`: `Spec => []NestedAgree`;
* `DoneIsAlwaysGone`: `Spec => []DoneIsGone`;
* `NobodyEverWaits`: `Spec => []NobodyWaits`;
* `TemporaryAlwaysOwned`: `Spec => []TemporaryOwned`.

All follow from `RInv` (`InvocationInvariant`), whose parts need each other.
`CallsOK`, `RtisOK`, `NestedOK` and `FreshIds`: the IDs on each of the three
stacks ascend and none is above `next_id`, so that a new call is on top of
everything and an ID is on a stack once.  That two stacks have the same IDs in
the same order is thereby a statement about one ID at a time (`FramesAgree`,
`SuspendedAgree`), which needs no induction over sequences: the lemmas on
pushing and popping say what a step does to the set of IDs.  `OpsOK`: an
invocation is at the bottom of the operations and its helper right on it.
`Current`: the invocation under way is the innermost one of `rti_stack`, and
neither suspended nor done; without it, `RUNTIME_INVOKE_DONE` could pop the
wrong one.  `Waiting`: whoever has not been told waits for the invocation under
way while the thread runs, or is in a nested break state.

There is one lemma per kind of ending that actions share (`FinishedStep`,
`ToldStep`, `SuspendedStep`, `AbortStep`, ...), and one per action.

### ProcessOpsProofs

For any threads, processes, reports, threading models and commands
(`ProcessOpsAssumption`):

* `OperationTypes`: `Spec => []TypeOK`;
* `SignalledAlwaysDone`: `Spec => []SignalledIsDone`;
* `StoppedAlwaysQuiet`: `Spec => []StoppedIsQuiet`, if `Daemons = {}`.

The hypothesis of the last one is needed: `SuspendUserThreads()` lets a daemon
run, and when it creates a thread after the process has stopped, the handler
starts the new thread, which is a user thread.  TLC shows this with three
threads and one daemon.

All follow from `PInv` (`OperationsInvariant`).  A thread is `Quiet` if it does
not run and has no event anywhere, and `Settled` if the result it carries can
no longer complete.  `StoppedIsQuiet` and `SignalledIsDone` are about what
`SuspendDone` finds, so the invariant must say what became of the threads that
were visited first while the others, the wait thread and the clients went on:

* `Calls`: every thread that a `SuspendUserThreads()` on the stack has dealt
  with is still quiet, and settled unless the call on top is completing its
  operation right now (`FrameOK`).  The calls nest, so this is said of every
  frame, not of the innermost one.  The frame of a completion is on top only.
* `Events`: a thread with an event anywhere has stopped for it, and has one
  event only; a thread that is not quiet is known, and the engine takes it for
  running.  So nothing can start a thread that has been visited: a command
  refuses to run while the handler does, and no event is left to resume it.
* `Stopped`: a thread that the engine takes for stopped carries nothing that
  could complete, which is why skipping it is right.
* `Children`, `NewProcesses`, `Owners`: nothing is known of a new thread, nor
  of a new process, before the event of its parent is handled; and then its
  parent was not quiet, so that its process was not stopped.

The steps that share an effect share a lemma: `ControlStep` (only the calls
and the states of processes change), `HandledStep` (an event is handled),
`InterruptedStep` (a suspended thread), `AdoptedStep` (clone and fork, found by
the wait thread or while suspending) and `ResumedStep` (all commands).

For threads that stop and exit, and process-wide or debugger-wide commands and
`Thread.Stop()` (`StopsAndExits`: `Reports \subseteq {"stop", "exit"}`, `Models
\subseteq {"process", "global"}`, `Commands \subseteq {"stop"}`), with any
number of threads and commands, and no `AutoRun` flag cleared
(`Parkable = {}`):

* `OperationCarried`: `Spec => []Carried`;
* `AnyThreadStopsIt`: `Spec => []AnyThreadStops`;
* `NeverHungCorrect`: `Spec => []NeverHung`;

and if no thread exits (`OnlyStops`):

* `NeverLeftStopping`: `Spec => []NotLeftStopping`;
* `CommandImplemented`: `Spec => ImplementsCommand`, the refinement.

These follow from `SInv` (`CommandPhases`), the invariant that says in which
phase a command is; `PInv` is used throughout.  `Calm` is what no phase
changes: only stops and exits are reported, the status of an exit is that of a
dead thread and every other status that of a stopped one, one process is known
at most, nothing is pending, nobody carries a result of its own.  `Known` is
its `thread_hash`, which only shrinks.  The phases are

| Phase | Engine thread | Threads of the process |
|---|---|---|
| `AllRun` | between handlers | all known ones carry the open operation, none is quiet |
| `OneStops` | completes the operation of the first that stopped, or removes one that has exited | the others as before |
| `IsTold` | in the process's or the debugger's `OperationCompleted` | the others carry a completed operation |
| `Stopping` | in `SuspendUserThreads()` | those visited are quiet, stopped or asked to, and carry nothing; those still to visit are as before |
| `OtherStops` | completes the operation of a thread whose own stop came first, inside `SuspendUserThreads()` | that thread apart, as in `Stopping` |
| `Ending` | returns from the calls | all are quiet |
| `AllStopped` | between handlers | all are quiet; the next command may start them |
| `LeftStopping` | anywhere, after an exit has changed `thread_hash` while it was enumerated | nobody carries an open operation, and no command can start one |
| `Gone` | between handlers, after the last thread has exited | none |

Each lemma `...Phase` is one action: which phases it is possible in, and to
which it leads.  `PhasesKept` covers the target, which may change a phase only
through what is quiet, and a thread that is not quiet stays so until its event
is handled.  `NeverHung` needs the stack to be as deep as the phase says: that
an event to wait for is still there follows from `~Quiet`.  An exit while the
others are being suspended ends in `LeftStopping`, because the enumerator throws
(section 5); no later step leaves it, and this is what keeps the three
invariants true there: nobody is resumed with an operation that could complete.
For the refinement
`Commanded` adds that the wait handle is set exactly in `AllStopped` and
`Ending`, and that every command before the last is completed;
each action then maps to one action of `ProcessCommand` or to a stutter
(`OperationCompletedPromised`: `Complete`; `ProcessEventPromised`:
`FirstStops`; `InterruptedPromised`: `OtherStops`; `StepPromised`: `Start`;
`TellPromised`: `Tell`).

Each part of the hypothesis is needed, as TLC shows on instances of the same
size: a command for a single thread breaks `AnyThreadStops` and `NeverHung`, so
does one that resumes a single thread; an event of unknown kind or `Abort()`
breaks `NeverHung`, and so does a parked thread, which a client may ask to run
just when the others stop; an exit or a clone breaks `NotLeftStopping`, a clone
`Carried` and `AnyThreadStops` too.

### What is only model-checked

All liveness properties: the prover has no rules for fairness.  The four
properties of section 5 are false.  `TypeOK` and every other invariant of the
runs is stated by a theorem; those of `OpsStops` under `StopsAndExits` or
`OnlyStops`, which the run's constants satisfy.

## 5. Where the code and its comments disagree

Each of the four runs marked `violation` checks what a comment or document
says; TLC finds a behaviour of the code that contradicts it.

* `WaitExitZero`: a thread that exits with code 0 while it is being stopped is
  never reported; the word 0 means "no status".
* `LoopTwoClients`: two clients pass the gate together, one of them returns
  without its command having run.
* `LockLeaked`: a signal or an interrupt during the single step completes the
  operation without releasing the lock.
* `OpsExit`: a thread that exits while it is being suspended changes
  `thread_hash` during its enumeration; the exception leaves the process in
  `Stopping`, the wait handle is never set, and later commands are refused.

The models show more behaviours of this kind, which have no run of their own:

* `DisposeFinishes` fails: `TryLock` fails while the engine thread is about to
  wait, nobody wakes it, and `Dispose()` joins it for ever.
* `PopSucceeds` fails with exits: a thread that exits while it is being locked
  is marked as locked with its registers pushed; the release pops what was
  never pushed, and the engine kills the target.
* `NewThreadTrylock` may fail when the clone event came from
  `stop_and_wait()`, which the comment in the code calls impossible; and it
  may succeed when the wait thread has already reaped the new thread's stop
  without having noted it yet (or the note was cleared), in which case
  `NewThreadWait` blocks holding `wait_mutex`.
* `StopPoll` repeats for ever when `global_wait()` has already returned the
  thread's event.  In `ThreadLock` this is `AcquireSpins`: after a release the
  other threads are still stopped but `engine_stopped` is false, and the next
  acquire may come before `check_pending_events()` has resumed them.
* A `SIGSTOP` that stays queued after `AcquireOther` is delivered later and
  completes an operation as interrupted, although no user asked for it.
* With `run` and `step` commands `OnlyOwnerRuns` fails, because
  `StartOperation` looks only at its own thread's lock, and with `step`
  commands a thread may be forgotten, because `ReleaseThreadLock (cevent)`
  ignores that `ResumeOperation()` may return false: its step is finished, it
  stays stopped, and no event is left.  `LockEvents` and `OwnerCorrect`
  therefore have no commands, and `NoThreadForgotten` excepts threads that step.
* A command that is lost in `SendCommand()`, or that waits for a handler which
  then spins on its thread, leaves `engine_stopped` false on a stopped thread.
* `SetStopEvent()` throws its `InternalError`: an event of a thread is on its
  way to the engine when the thread is killed, the next acquire finds its exit
  and locks it, and then the older event is handled.  `PendingOnce` says that
  nothing else leads there.
* `runtime_info_disable_breakpoint()` returns before it frees the slot.  Each
  enable takes another one; when they are used up, the breakpoint cannot be
  enabled again after a step, is marked enabled nevertheless, and the
  exception kills the target.
* Removing a breakpoint while a thread steps over it makes the
  `EnableBreakpoint()` after the step fail, which kills the target.
* Removing a breakpoint through a running thread fails after the reference
  was given up; if a temporary breakpoint shares it, that one's removal fails
  next and its operation never completes (`hung`).
* `InitializeAfterFork()` and `RemoveAllBreakpoints()` keep the index entries
  of what they removed, and a watchpoint's entry is copied to the new process
  although its debug register is not.
* If a breakpoint is inserted, removed or being stepped over between the fork
  and its event, the new process has a trap nobody knows of, or a breakpoint
  that is not in its code (`copied` is false).
* A thread that exits with a software temporary breakpoint leaves its
  reference behind, and a detach leaves the temporary breakpoints of all
  threads in the code.
* In process mode an exit or a clone inside `SuspendUserThreads` leaves the
  state `Stopping` (`NotLeftStopping` fails in the instance of `OpsExit`), and
  `Abort()` does so too, and may wait for an event that is gone (`NeverHung`).
* Commands of different threading models at the same time: a thread started
  with its own result stops without stopping the process.  A daemon thread's
  stop finds a completed result and is swallowed.
* An event of unknown kind keeps its thread stopped while the engine thinks it
  runs; suspending it waits for ever.
* A debugger-wide command whose first process exits is completed with the
  second process still running.
* `doc/README.threading-model:116` says that `TargetEvent` is fired "after
  suspending all threads"; `SendResult` (`Operation.cs:97`) comes first.
* An invocation that never began (its helper failed, was aborted, or was
  stopped in one of its calls) stays on `rti_stack`, above the one it is
  nested in: the `RUNTIME_INVOKE_DONE` of that one throws an `InternalError`.
  `doc/thread-design.txt:325` says that funcevals may be nested and mixed.
  `StacksAgree` speaks of the invocations that began.
* `get_callback_frame` finds the outermost call, so that aborting a nested
  invocation is refused, and aborting the outer one aborts the inner.
* `AbortInvocation` of a stopped thread resumes it with `engine_stopped` still
  set; a `run` then fails and completes the abort operation, and the event of
  the finished invocation finds no operation.
* `abort_requested` stays set when the interrupt finds no operation; the next
  abort is refused as "already queued".
* Boxing an instance makes the call and throws, because `get_method_address()`
  returns false for it: the thread runs while its operation is given up.
* A breakpoint before the method is entered (a static constructor), or while
  it is being aborted, stops a `print`, contrary to `thread-design.txt:316`.
* Read, not modelled: `insert_lmf_breakpoint()` sets `temp_breakpoint` to null
  and then reads its address (`SingleSteppingEngine.cs:2417`).

## 6. Not modelled

* `RuntimeInvoke` leaves out runtimes that cannot abort an invocation
  themselves (`OperationReturn` unwinds the stack instead; there the result of
  a suspended invocation is never completed), exceptions thrown in the called
  method, and the other callback operations.
* Source-level stepping: which instruction ends a step depends on line tables
  and frames; `ThreadLock` has it as a choice.
* An interrupted `waitpid()`: `do_wait()` returns 0 for `EINTR`
  (`x86-linux-ptrace.c:243`), `global_wait()` then returns 0, and the wait thread
  sleeps again with `waiting` set and nobody to call `RequestWait()`, so that
  `EventsProcessed` would fail.  The one signal this source sends the wait
  thread is the `Thread.Abort()` of `Dispose()`, after which no event is
  processed anyway; a signal from elsewhere would have this effect.
* Exec, attaching, what a detach does beyond the breakpoint tables, `Kill()`,
  the breakpoints at the runtime's LMF.
* Sessions and events: sequential calls made by the client.
* The Mono runtime's notifications: the runtime is not in the repository.
* The ports to Darwin and Windows, including the branch for targets without
  thread events.
* Parsing (ELF, DWARF, symbol files, expressions), disassembly, symbol tables,
  type systems and the frontend.  They are sequential functions of their
  input, and with the vendored BFD and opcode libraries they are by far the
  largest part of the repository: most of its 147000 lines of implementation
  are `sysdeps/bfd`.  The concurrent core, which this project is about, is a few
  files in `backend`, `classes` and `sysdeps/server`.

## 7. Plan

1. The refinement of `ProcessCommand` for threads that may also exit, with an
   abstract command that may be lost; `NeverHung` with clones.
2. An abstract lock specification implemented by `ThreadLock`.
3. `OperationReturn` and exceptions in `RuntimeInvoke`; breakpoints of events
   and sessions.
