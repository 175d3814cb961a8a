--------------------------- MODULE BreakpointTable ---------------------------
(***************************************************************************)
(* Breakpoints in the target: the reference-counted table of the server    *)
(* (breakpoints.c, x86_64-arch.c), the index_hash of BreakpointManager,    *)
(* the temporary breakpoints of the single stepping engines, and the code  *)
(* of the target that all of them patch.                                   *)
(*                                                                         *)
(* The engine thread runs one handler or command at a time and holds the   *)
(* manager's mutex inside each call, so an action is one call; a handler   *)
(* that makes several calls has run[t] in Handling between them.  Threads  *)
(* of the target run in between.  Code is patched with ptrace(), which     *)
(* fails for a thread that is running.                                     *)
(*                                                                         *)
(* The target may fork once: the kernel copies the patched code at the     *)
(* fork, BreakpointManager copies its tables when the event is handled.    *)
(***************************************************************************)
EXTENDS Integers, FiniteSets

CONSTANTS
    Addresses, NoAddress,
    Threads,            \* the threads of the parent process
    ChildThread,        \* the thread of the forked process
    AddressHandles,     \* AddressBreakpointHandle: inserted once
    FunctionHandles,    \* FunctionBreakpointHandle: once per compiled method
    WatchHandles,       \* hardware watchpoints
    NonGlobal,          \* handles whose breakpoint has a thread group
    NoHandle,
    DebugRegs,          \* DR_NADDR
    TableSize,          \* breakpoint_table_size; 0: no mono_runtime
    MaxId               \* bound on last_breakpoint_id

Handles == AddressHandles \cup FunctionHandles \cup WatchHandles
AllThreads == Threads \cup {ChildThread}
Procs == {"parent", "child"}
Ids == 1 .. MaxId

ASSUME BreakpointAssumption ==
    /\ NoAddress \notin Addresses /\ NoHandle \notin Handles
    /\ IsFiniteSet (Threads) /\ ChildThread \notin Threads
    /\ IsFiniteSet (Addresses)
    /\ NonGlobal \subseteq Handles
    /\ DebugRegs \in Nat /\ TableSize \in Nat /\ MaxId \in Nat

VARIABLES
    mem,            \* mem[p][a]: the byte of the target's code at a
    bpm,            \* bpm[p][a]: the BreakpointInfo by address
    index_hash,     \* index_hash[p][id]: the handle
    dr_regs,        \* dr_regs[t][k]: the id in debug register k of t
    last_breakpoint_id,
    slots,          \* bits set in breakpoint_table_bitfield
    temp_breakpoint,    \* temp_breakpoint[t]: its id, 0 for null
    step_over,      \* Index of the OperationStepOverBreakpoint of t, or 0
    until,          \* do_continue (until)
    run,            \* what the engine or the thread does
    fork,           \* the life of the forked process
    copied,         \* ghost: the code and the table were copied alike
    stale           \* ghost: ids whose index entry holds no reference

tables == <<mem, bpm, dr_regs, last_breakpoint_id, slots>>
vars == <<tables, index_hash, temp_breakpoint, step_over, until, run, fork, copied, stale>>

NoInfo == [id |-> 0, refcount |-> 0, enabled |-> FALSE, saved_insn |-> "insn"]
Info == [id : 0 .. MaxId, refcount : Int, enabled : BOOLEAN, saved_insn : {"insn", "trap"}]

(* "command" and "event": the thread is stopped and do_continue() is to run *)
(* next, for a command or for an event; "done", "unload", "detach": the     *)
(* rest of OperationCompleted(), of the DomainUnload notification, of       *)
(* Detach(); "init": OperationInitAfterFork has its event;                 *)
(* "fork": stopped with a CHILD_FORKED that is not handled yet; "locked":   *)
(* stopped by the global thread lock; "hung": an exception ended the        *)
(* handler before the operation completed.                                  *)
Handling == {"command", "event", "done", "unload", "detach", "init"}
RunStates ==
    Handling \cup {"none", "stopped", "running", "fork", "locked", "locked_fork", "hung", "gone"}

Init ==
    /\ mem = [p \in Procs |-> [a \in Addresses |-> "insn"]]
    /\ bpm = [p \in Procs |-> [a \in Addresses |-> NoInfo]]
    /\ index_hash = [p \in Procs |-> [i \in Ids |-> NoHandle]]
    /\ dr_regs = [t \in AllThreads |-> [k \in 1 .. DebugRegs |-> 0]]
    /\ last_breakpoint_id = 0 /\ slots = 0
    /\ temp_breakpoint = [t \in AllThreads |-> 0]
    /\ step_over = [t \in AllThreads |-> 0]
    /\ until = [t \in AllThreads |-> NoAddress]
    /\ run = [t \in AllThreads |-> IF t = ChildThread THEN "none" ELSE "stopped"]
    /\ fork = "none" /\ copied = TRUE
    /\ stale = [p \in Procs |-> {}]

-----------------------------------------------------------------------------
Proc (t) == IF t = ChildThread THEN "child" ELSE "parent"
Team (p) == {t \in AllThreads : Proc (t) = p}
Idle == \A t \in AllThreads : run[t] \notin Handling

Runs (t) == run[t] = "running"
Present (t) == run[t] \notin {"none", "gone"}

(* The process's has_thread_lock: taken by the thread that steps over a     *)
(* breakpoint.  A thread that exits in that step leaves it locked.  Threads *)
(* that are stopped when it is taken are not locked and may be started.     *)
HasThreadLock (p) == \E t \in Team (p) : step_over[t] # 0

Unlocked == {"running", "fork"}
AcquireAll (t) == [u \in AllThreads |->
    IF u \in Team (Proc (t)) \ {t} /\ run[u] \in Unlocked
    THEN (IF run[u] = "fork" THEN "locked_fork" ELSE "locked") ELSE run[u]]
ReleaseAll (t) == [u \in AllThreads |->
    IF u \notin Team (Proc (t)) THEN run[u]
    ELSE IF run[u] = "locked" THEN "running"
    ELSE IF run[u] = "locked_fork" THEN "fork" ELSE run[u]]

(* ptrace (PT_WRITE_D, PTRACE_POKEUSER) works only for a stopped thread.    *)
Halted (t) == Present (t) /\ ~Runs (t)

(* _server_ptrace_read_memory(), and x86_arch_remove_breakpoints_from_      *)
(* target_memory() on what it read.                                         *)
ReadMemory (p, a) == IF bpm[p][a].enabled THEN bpm[p][a].saved_insn ELSE mem[p][a]

(* handle->mono_runtime is set; runtime_info_disable_breakpoint() returns   *)
(* before it clears the slot, so slots are only taken.                      *)
HasRuntime (p) == p = "parent" /\ TableSize > 0
(* Mutant: the search includes slot 0.                                      *)
SlotZeroToo == slots < TableSize

SlotFree == slots < TableSize - 1
FindSlot (p) == slots' = IF HasRuntime (p) /\ SlotFree THEN slots + 1 ELSE slots
CanPatch (t) == Halted (t) /\ (HasRuntime (Proc (t)) => SlotFree)

-----------------------------------------------------------------------------
(* The server's calls.  server_ptrace_insert_breakpoint(): one more         *)
(* reference, or a new BreakpointInfo.                                      *)

(* Mutant: the reference is not counted.                                    *)
ShareUncounted (p, a) == bpm[p][a].id # 0 /\ UNCHANGED tables

Counted (info, n) == [info EXCEPT !.refcount = @ + n]

AddReference (p, a) ==
    /\ bpm[p][a].id # 0
    /\ bpm' = [bpm EXCEPT ![p][a] = Counted (@, 1)]
    /\ UNCHANGED <<mem, dr_regs, last_breakpoint_id, slots>>

NewId == last_breakpoint_id < MaxId /\ last_breakpoint_id' = last_breakpoint_id + 1

NewInfo (p, a) ==
    [id |-> last_breakpoint_id + 1, refcount |-> 1,
     enabled |-> TRUE, saved_insn |-> ReadMemory (p, a)]

NewBreakpoint (t, a) ==
    LET p == Proc (t) IN
    /\ bpm[p][a].id = 0 /\ CanPatch (t) /\ NewId
    /\ bpm' = [bpm EXCEPT ![p][a] = NewInfo (p, a)]
    /\ mem' = [mem EXCEPT ![p][a] = "trap"]
    /\ FindSlot (p)
    /\ UNCHANGED dr_regs

InsertFails (t, a) ==
    /\ bpm[Proc (t)][a].id = 0 /\ ~CanPatch (t) /\ NewId
    /\ FindSlot (Proc (t))
    /\ UNCHANGED <<mem, bpm, dr_regs>>

(* server_ptrace_insert_hw_breakpoint().                                    *)
FreeRegs (t) == {k \in 1 .. DebugRegs : dr_regs[t][k] = 0}

NewHardware (t) ==
    /\ Halted (t) /\ NewId
    /\ \E k \in FreeRegs (t) :
          /\ \A l \in FreeRegs (t) : k <= l
          /\ dr_regs' = [dr_regs EXCEPT ![t][k] = last_breakpoint_id + 1]
    /\ UNCHANGED <<mem, bpm, slots>>

(* server_ptrace_remove_breakpoint (id) for every id of S, and              *)
(* mono_debugger_breakpoint_manager_remove().  The reference is given up    *)
(* before the code is restored.                                             *)
LastReference (p, a) == bpm[p][a].refcount <= 1
Restorable (t, a) == ~bpm[Proc (t)][a].enabled \/ Halted (t)
Freed (t, a, S) ==
    bpm[Proc (t)][a].id \in S /\ LastReference (Proc (t), a) /\ Restorable (t, a)

InfoAfter (t, a, S) ==
    LET info == bpm[Proc (t)][a] IN
    IF Freed (t, a, S) THEN NoInfo ELSE IF info.id \in S THEN Counted (info, -1) ELSE info
CodeAfter (t, a, S) ==
    IF Freed (t, a, S) THEN ReadMemory (Proc (t), a) ELSE mem[Proc (t)][a]

RemoveCalls (t, S) ==
    /\ bpm' = [bpm EXCEPT ![Proc (t)] = [a \in Addresses |-> InfoAfter (t, a, S)]]
    /\ mem' = [mem EXCEPT ![Proc (t)] = [a \in Addresses |-> CodeAfter (t, a, S)]]
    /\ dr_regs' = [dr_regs EXCEPT ![t] = [k \in 1 .. DebugRegs |->
                  IF @[k] \in S /\ Halted (t) THEN 0 ELSE @[k]]]
    /\ UNCHANGED <<last_breakpoint_id, slots>>

(* lookup_breakpoint() looks into the registers of t, then into the table.  *)
InRegisters (t, i) == \E k \in 1 .. DebugRegs : dr_regs[t][k] = i
RemoveRaises (t, i) ==
    IF InRegisters (t, i) THEN ~Halted (t)
    ELSE \A a \in Addresses :
            bpm[Proc (t)][a].id = i => LastReference (Proc (t), a) /\ ~Restorable (t, a)

-----------------------------------------------------------------------------
(* BreakpointManager, called by commands: SingleSteppingEngine.Insert- and  *)
(* RemoveBreakpoint.                                                        *)

LookupBreakpoint (p, a) == IF bpm[p][a].id = 0 THEN NoHandle ELSE index_hash[p][bpm[p][a].id]
IndicesOf (p, h) == {i \in Ids : index_hash[p][i] = h}

MayInsert (t, h, a) ==
    /\ Idle /\ Present (t)
    /\ LookupBreakpoint (Proc (t), a) = NoHandle
    /\ h \notin FunctionHandles => \A p \in Procs : IndicesOf (p, h) = {}

Register (p, i, h) == index_hash' = [index_hash EXCEPT ![p][i] = h]

InsertBreakpoint (t, h, a) ==
    /\ h \notin WatchHandles /\ MayInsert (t, h, a)
    /\ \/ AddReference (Proc (t), a) /\ Register (Proc (t), bpm[Proc (t)][a].id, h)
       \/ NewBreakpoint (t, a) /\ Register (Proc (t), last_breakpoint_id + 1, h)
       \/ InsertFails (t, a) /\ UNCHANGED index_hash
    /\ UNCHANGED <<temp_breakpoint, step_over, until, run, fork, copied, stale>>

InsertWatchpoint (t, h, a) ==
    /\ h \in WatchHandles /\ MayInsert (t, h, a)
    /\ NewHardware (t) /\ Register (Proc (t), last_breakpoint_id + 1, h)
    /\ UNCHANGED <<temp_breakpoint, step_over, until, run, fork, copied, stale>>

(* The loops over index_hash: the entries of S are removed; if the call for *)
(* one of the others raises an exception, the loop ends there.              *)
RemoveIndices (t, ids) ==
    LET p == Proc (t) IN
    \E S \in SUBSET ids, F \in SUBSET ids :
       /\ \A i \in S : ~RemoveRaises (t, i)
       /\ \/ F = {} /\ S = ids
          \/ \E f \in ids \ S : F = {f} /\ RemoveRaises (t, f)
       /\ RemoveCalls (t, S \cup F)
       /\ index_hash' = [index_hash EXCEPT ![p] = [i \in Ids |-> IF i \in S THEN NoHandle ELSE @[i]]]
       /\ stale' = [stale EXCEPT ![p] = @ \cup F]

(* Bound: a removal that failed is retried only through a stopped thread.   *)
RetryBound (t) ==
    Halted (t) \/ \A a \in Addresses : bpm[Proc (t)][a].id # 0 => bpm[Proc (t)][a].refcount > 0

RemoveBreakpoint (t, h) ==
    /\ Idle /\ Present (t) /\ RetryBound (t)
    /\ IndicesOf (Proc (t), h) # {}
    /\ RemoveIndices (t, IndicesOf (Proc (t), h))
    /\ UNCHANGED <<temp_breakpoint, step_over, until, run, fork, copied>>

(* NotificationType.DomainUnload: the breakpoints of the domain's methods   *)
(* are removed; an exception ends the handler.                              *)
DomainUnload (t) ==
    LET ids == UNION {IndicesOf (Proc (t), h) : h \in FunctionHandles} IN
    /\ run[t] = "unload"
    /\ RemoveIndices (t, ids)
    /\ run' = [run EXCEPT ![t] =
                  IF \A i \in ids : index_hash'[Proc (t)][i] = NoHandle THEN "event" ELSE "hung"]
    /\ UNCHANGED <<temp_breakpoint, step_over, until, fork, copied>>

(* SingleSteppingEngine.Detach(): the thread locks are taken, then          *)
(* RemoveAllBreakpoints(), which reports and ignores exceptions and leaves  *)
(* index_hash as it is, and DoDetach().                                     *)
DetachLock (t) ==
    /\ Idle /\ t \in Threads /\ Present (t) /\ ~HasThreadLock ("parent")
    /\ run' = [run EXCEPT ![t] = "detach"]
    /\ UNCHANGED <<tables, index_hash, temp_breakpoint, step_over, until, fork, copied, stale>>

Detach (t) ==
    LET ids == {i \in Ids : index_hash["parent"][i] # NoHandle} IN
    /\ run[t] = "detach"
    /\ RemoveCalls (t, ids)
    /\ stale' = [stale EXCEPT !["parent"] = @ \cup ids]
    /\ run' = [u \in AllThreads |-> IF u \in Threads THEN "gone" ELSE run[u]]
    /\ UNCHANGED <<index_hash, temp_breakpoint, step_over, until, fork, copied>>

-----------------------------------------------------------------------------
(* The engine of one thread.                                                *)

(* StartOperation(): a command that ends in do_continue (u).                *)
Start (t, u) ==
    /\ Idle /\ run[t] = "stopped"
    /\ run' = [run EXCEPT ![t] = "command"] /\ until' = [until EXCEPT ![t] = u]
    /\ UNCHANGED <<tables, index_hash, temp_breakpoint, step_over, fork, copied, stale>>

(* An event of a running thread: the operation resumes, is completed, or    *)
(* the event is a notification.                                             *)
Report (t) ==
    /\ Idle /\ Runs (t) /\ step_over[t] = 0
    /\ \E r \in IF t = ChildThread /\ fork = "init" THEN {"init"} ELSE {"event", "done", "unload"} :
          run' = [run EXCEPT ![t] = r]
    /\ UNCHANGED <<tables, index_hash, temp_breakpoint, step_over, until, fork, copied, stale>>

(* inferior.Kill() of ProcessOperationEvent().                              *)
KillTarget (p) ==
    run' = [u \in AllThreads |-> IF u \in Team (p) /\ Present (u) THEN "gone" ELSE run[u]]

(* Mutants: the instruction is not restored; the flag is not cleared.       *)
StepOverPatched (t, a) ==
    /\ run[t] \in {"command", "event"} /\ bpm[Proc (t)][a].enabled
    /\ bpm' = [bpm EXCEPT ![Proc (t)][a].enabled = FALSE]
    /\ step_over' = [step_over EXCEPT ![t] = bpm[Proc (t)][a].id]
    /\ run' = [run EXCEPT ![t] = "running"]
    /\ UNCHANGED <<mem, dr_regs, last_breakpoint_id, slots, index_hash, temp_breakpoint, until, fork,
                   copied, stale>>

StepOverEnabled (t, a) ==
    /\ run[t] \in {"command", "event"} /\ bpm[Proc (t)][a].enabled
    /\ mem' = [mem EXCEPT ![Proc (t)][a] = bpm[Proc (t)][a].saved_insn]
    /\ step_over' = [step_over EXCEPT ![t] = bpm[Proc (t)][a].id]
    /\ run' = [run EXCEPT ![t] = "running"]
    /\ UNCHANGED <<bpm, dr_regs, last_breakpoint_id, slots, index_hash, temp_breakpoint, until, fork,
                   copied, stale>>

(* do_continue(): step_over_breakpoint() at the current frame a.            *)
StepOverBreakpoint (t, a) ==
    LET p == Proc (t) IN
    /\ run[t] \in {"command", "event"}
    /\ bpm[p][a].enabled /\ ~HasThreadLock (p)
    /\ bpm' = [bpm EXCEPT ![p][a] = [@ EXCEPT !.enabled = FALSE]]
    /\ mem' = [mem EXCEPT ![p][a] = bpm[p][a].saved_insn]
    /\ step_over' = [step_over EXCEPT ![t] = bpm[p][a].id]
    /\ run' = [AcquireAll (t) EXCEPT ![t] = "running"]
    /\ UNCHANGED <<dr_regs, last_breakpoint_id, slots, index_hash, temp_breakpoint, until, fork,
                   copied, stale>>

(* AcquireGlobalThreadLock() throws if another thread has the lock;         *)
(* ExecuteOperation() completes the operation.                              *)
StepOverRefused (t, a) ==
    /\ run[t] \in {"command", "event"}
    /\ bpm[Proc (t)][a].enabled /\ HasThreadLock (Proc (t))
    /\ run' = [run EXCEPT ![t] = "done"]
    /\ UNCHANGED <<tables, index_hash, temp_breakpoint, step_over, until, fork, copied, stale>>

(* do_continue (null) at a frame without an enabled breakpoint, or whose    *)
(* instruction is executed or emulated elsewhere.                           *)
Continue (t) ==
    /\ run[t] \in {"command", "event"} /\ until[t] = NoAddress
    /\ run' = [run EXCEPT ![t] = "running"]
    /\ UNCHANGED <<tables, index_hash, temp_breakpoint, step_over, until, fork, copied, stale>>

(* do_continue (until): insert_temporary_breakpoint() takes a debug         *)
(* register, or a software breakpoint if all are occupied.                  *)
ContinueUntil (t) ==
    LET p == Proc (t)
        a == until[t]
        SetTemp (i) == temp_breakpoint' = [temp_breakpoint EXCEPT ![t] = i]
    IN
    /\ run[t] \in {"command", "event"} /\ a # NoAddress /\ temp_breakpoint[t] = 0
    /\ \/ /\ \/ NewHardware (t) /\ SetTemp (last_breakpoint_id + 1)
             \/ FreeRegs (t) = {} /\ AddReference (p, a) /\ SetTemp (bpm[p][a].id)
             \/ FreeRegs (t) = {} /\ NewBreakpoint (t, a) /\ SetTemp (last_breakpoint_id + 1)
          /\ run' = [run EXCEPT ![t] = "running"]
       \/ /\ FreeRegs (t) = {} /\ InsertFails (t, a) /\ UNCHANGED temp_breakpoint
          /\ IF run[t] = "event" THEN KillTarget (p) ELSE run' = [run EXCEPT ![t] = "stopped"]
    /\ until' = [until EXCEPT ![t] = NoAddress]
    /\ UNCHANGED <<index_hash, step_over, fork, copied, stale>>

(* OperationStepOverBreakpoint.ReleaseThreadLock(): EnableBreakpoint(),     *)
(* server_ptrace_enable_breakpoint() and x86_arch_enable_breakpoint().  The *)
(* info counts as enabled even if the code could not be patched; that, and  *)
(* an Index that was removed meanwhile, raises an exception.                *)
Reenabled (p, a) == [bpm[p][a] EXCEPT !.enabled = TRUE, !.saved_insn = ReadMemory (p, a)]
SteppedOver (t) == {a \in Addresses : bpm[Proc (t)][a].id = step_over[t]}
Patchable (p, a) == ~bpm[p][a].enabled /\ (HasRuntime (p) => SlotFree)
Succeeds (t) ==
    SteppedOver (t) # {} /\
    \A a \in SteppedOver (t) : bpm[Proc (t)][a].enabled \/ Patchable (Proc (t), a)

EnableBreakpoint (t) ==
    LET p == Proc (t)  A == SteppedOver (t) IN
    /\ Idle /\ Runs (t) /\ step_over[t] # 0
    /\ bpm' = [bpm EXCEPT ![p] = [a \in Addresses |-> IF a \in A THEN Reenabled (p, a) ELSE @[a]]]
    /\ mem' = [mem EXCEPT ![p] = [a \in Addresses |->
                  IF a \in A /\ Patchable (p, a) THEN "trap" ELSE @[a]]]
    /\ IF A = {} THEN UNCHANGED slots ELSE FindSlot (p)
    /\ step_over' = [step_over EXCEPT ![t] = IF Succeeds (t) THEN 0 ELSE @]
    /\ \/ Succeeds (t) /\ \E r \in {"event", "done"} : run' = [ReleaseAll (t) EXCEPT ![t] = r]
       \/ ~Succeeds (t) /\ KillTarget (p)
    /\ UNCHANGED <<dr_regs, last_breakpoint_id, index_hash, temp_breakpoint, until, fork, copied,
                   stale>>

(* OperationCompleted(), or a hit of the temporary breakpoint:              *)
(* remove_temporary_breakpoint(); its exception ends the handler.           *)
OperationCompleted (t) ==
    LET i == temp_breakpoint[t]  raises == i # 0 /\ RemoveRaises (t, i) IN
    /\ run[t] = "done"
    /\ RemoveCalls (t, {i} \ {0})
    /\ temp_breakpoint' = [temp_breakpoint EXCEPT ![t] = IF raises THEN @ ELSE 0]
    /\ run' = [run EXCEPT ![t] = IF raises THEN "hung" ELSE "stopped"]
    /\ until' = [until EXCEPT ![t] = NoAddress]
    /\ UNCHANGED <<index_hash, step_over, fork, copied, stale>>

(* CHILD_EXITED, CHILD_SIGNALED: the temporary breakpoint is forgotten, the *)
(* ArchInfo with the debug registers freed.                                 *)
ThreadExit (t) ==
    /\ Idle /\ Runs (t)
    /\ run' = [run EXCEPT ![t] = "gone"]
    /\ temp_breakpoint' = [temp_breakpoint EXCEPT ![t] = 0]
    /\ dr_regs' = [dr_regs EXCEPT ![t] = [k \in 1 .. DebugRegs |-> 0]]
    /\ until' = [until EXCEPT ![t] = NoAddress]
    /\ UNCHANGED <<mem, bpm, last_breakpoint_id, slots, index_hash, step_over, fork, copied, stale>>

-----------------------------------------------------------------------------
(* A fork.                                                                  *)

(* Ghost: whether the code, copied then, agrees with the tables, copied now. *)
CopiedAlike == \A a \in Addresses : bpm["parent"][a].enabled <=> mem["child"][a] = "trap"

(* The kernel: the new process has a copy of the patched code.              *)
Fork (t) ==
    /\ fork = "none" /\ t \in Threads /\ Runs (t)
    /\ mem' = [mem EXCEPT !["child"] = mem["parent"]]
    /\ run' = [run EXCEPT ![t] = "fork"]
    /\ fork' = "forked"
    /\ UNCHANGED <<bpm, dr_regs, last_breakpoint_id, slots, index_hash, temp_breakpoint, step_over,
                   until, copied, stale>>

(* Process.ChildForked(): the constructors of Process and BreakpointManager *)
(* copy the tables, then the child is followed ...                          *)
ChildForked (t) ==
    /\ Idle /\ run[t] = "fork"
    /\ bpm' = [bpm EXCEPT !["child"] = bpm["parent"]]
    /\ index_hash' = [index_hash EXCEPT !["child"] = index_hash["parent"]]
    /\ stale' = [stale EXCEPT !["child"] = stale["parent"]]
    /\ copied' = CopiedAlike
    /\ run' = [run EXCEPT ![t] = "running", ![ChildThread] = "command"]
    /\ fork' = "init"
    /\ UNCHANGED <<mem, dr_regs, last_breakpoint_id, slots, temp_breakpoint, step_over, until>>

(* Mutant: breakpoints with a handle are left to BreakpointManager.         *)
DetachAfterForkUnowned (t) ==
    /\ Idle /\ run[t] = "fork"
    /\ copied' = CopiedAlike
    /\ mem' = [mem EXCEPT !["child"] = [a \in Addresses |->
                  IF LookupBreakpoint ("parent", a) = NoHandle THEN "insn" ELSE @[a]]]
    /\ run' = [run EXCEPT ![t] = "running"]
    /\ fork' = "detached"
    /\ UNCHANGED <<bpm, dr_regs, last_breakpoint_id, slots, index_hash, temp_breakpoint, step_over,
                   until, stale>>

(* ... or let go: server_ptrace_detach_after_fork().                        *)
DetachAfterFork (t) ==
    /\ Idle /\ run[t] = "fork"
    /\ copied' = CopiedAlike
    /\ mem' = [mem EXCEPT !["child"] = [a \in Addresses |->
                  IF bpm["parent"][a].enabled THEN bpm["parent"][a].saved_insn ELSE @[a]]]
    /\ run' = [run EXCEPT ![t] = "running"]
    /\ fork' = "detached"
    /\ UNCHANGED <<bpm, dr_regs, last_breakpoint_id, slots, index_hash, temp_breakpoint, step_over,
                   until, stale>>

(* OperationInitAfterFork: BreakpointManager.InitializeAfterFork() removes  *)
(* the breakpoints of thread groups but keeps their index entries.          *)
InitializeAfterFork (t) ==
    LET ids == UNION {IndicesOf ("child", h) : h \in NonGlobal} IN
    /\ run[t] = "init"
    /\ RemoveCalls (t, ids)
    /\ stale' = [stale EXCEPT !["child"] = @ \cup ids]
    /\ fork' = "followed"
    /\ \E r \in {"event", "done"} : run' = [run EXCEPT ![t] = r]
    /\ UNCHANGED <<index_hash, temp_breakpoint, step_over, until, copied>>

Command (t) ==
    \/ \E h \in Handles : RemoveBreakpoint (t, h)
    \/ \E h \in Handles, a \in Addresses : InsertBreakpoint (t, h, a) \/ InsertWatchpoint (t, h, a)
    \/ \E u \in Addresses \cup {NoAddress} : Start (t, u)
    \/ DetachLock (t) \/ Detach (t)

Event (t) ==
    \/ Report (t) \/ EnableBreakpoint (t) \/ OperationCompleted (t) \/ ThreadExit (t)
    \/ Continue (t) \/ ContinueUntil (t) \/ DomainUnload (t)
    \/ \E a \in Addresses : StepOverBreakpoint (t, a) \/ StepOverRefused (t, a)
    \/ Fork (t) \/ ChildForked (t) \/ DetachAfterFork (t) \/ InitializeAfterFork (t)

(* Bound: once a fork is handled only the new process is explored.  The two *)
(* share last_breakpoint_id and nothing else, so that the parent goes on as *)
(* one that has not forked.                                                 *)
Explored == IF fork \in {"none", "forked"} THEN Threads ELSE Team ("child")

Next == \E t \in AllThreads : t \in Explored /\ (Command (t) \/ Event (t))

Spec == Init /\ [][Next]_vars

-----------------------------------------------------------------------------
TablesType ==
    /\ mem \in [Procs -> [Addresses -> {"insn", "trap"}]]
    /\ bpm \in [Procs -> [Addresses -> Info]]
    /\ dr_regs \in [AllThreads -> [1 .. DebugRegs -> 0 .. MaxId]]
    /\ last_breakpoint_id \in 0 .. MaxId
    /\ slots \in 0 .. TableSize /\ (TableSize > 0 => slots < TableSize)

EnginesType ==
    /\ temp_breakpoint \in [AllThreads -> 0 .. MaxId]
    /\ step_over \in [AllThreads -> 0 .. MaxId]
    /\ until \in [AllThreads -> Addresses \cup {NoAddress}]
    /\ run \in [AllThreads -> RunStates]
    /\ fork \in {"none", "forked", "init", "followed", "detached"}

(* The types of the tables and of the engines' fields.                      *)
TypeOK ==
    /\ TablesType /\ EnginesType
    /\ index_hash \in [Procs -> [Ids -> Handles \cup {NoHandle}]]
    /\ copied \in BOOLEAN
    /\ stale \in [Procs -> SUBSET Ids]

(* The code of a process and its table were in step when it was forked.     *)
InStep (p) == p = "parent" \/ (fork \in {"init", "followed"} /\ copied)

(* What server_ptrace_read_memory() returns is the program's own code,      *)
(* whatever was inserted, disabled, removed, shared or copied by a fork: no *)
(* trap is ever taken for an instruction and saved, or left behind.         *)
ReadsOriginal == \A p \in Procs, a \in Addresses : InStep (p) => ReadMemory (p, a) = "insn"

(* An enabled breakpoint is in the code, unless the runtime's breakpoint    *)
(* table was full when it was to be enabled again after a step over it.     *)
EnabledIsPatched ==
    \A p \in Procs, a \in Addresses :
        InStep (p) /\ bpm[p][a].enabled
            => mem[p][a] = "trap" \/ (HasRuntime ("parent") /\ ~SlotFree)

(* Who uses breakpoint i of process p: its index entry and the temporary    *)
(* breakpoints of threads.                                                  *)
Owners (p, i) ==
    Cardinality ({t \in Team (p) : temp_breakpoint[t] = i})
        + (IF index_hash[p][i] = NoHandle THEN 0 ELSE 1)

IsWatch (p, i) == index_hash[p][i] \in WatchHandles \/ \E t \in AllThreads : InRegisters (t, i)

(* A software breakpoint stays in the table as long as a handle or a        *)
(* temporary breakpoint uses it, with a reference for each, unless removing *)
(* it has failed before; and in the parent, as long as no thread has        *)
(* exited, with no reference more.                                          *)
OwnersCounted ==
    \A p \in Procs, i \in Ids :
        i \notin stale[p] /\ ~IsWatch (p, i) /\ (p = "child" => fork \in {"init", "followed"}) =>
        /\ Owners (p, i) > 0 => \E a \in Addresses : bpm[p][a].id = i
        /\ \A a \in Addresses : bpm[p][a].id = i =>
              /\ bpm[p][a].refcount >= Owners (p, i)
              /\ (p = "parent" /\ \A t \in Threads : Present (t)) =>
                    bpm[p][a].refcount = Owners (p, i)

(* A process that is not followed after a fork runs its own code.           *)
LetGoClean == fork = "detached" /\ copied => \A a \in Addresses : mem["child"][a] = "insn"
=============================================================================
