---------------------------- MODULE RuntimeInvoke ----------------------------
(***************************************************************************)
(* Calling methods of the debugged program in one of its threads: `print', *)
(* `print -nested-break' and `call', which may stop half-way, nest, and be *)
(* aborted.                                                                *)
(*                                                                         *)
(* Three stacks have to agree: callback_stack of the server, which knows   *)
(* the calls that the thread is executing; rti_stack of the engine, which  *)
(* knows the invocations it has begun; and nested_break_stack, the ones    *)
(* that the user sees as nested break states.  current_operation and the   *)
(* operations pushed on it decide who gets an event.                       *)
(*                                                                         *)
(* The thread's stop and the handler of the event are one action.  The     *)
(* runtime is one that can abort an invocation itself                      *)
(* (HasAbortRuntimeInvoke), and the session allows nested break states.    *)
(***************************************************************************)
EXTENDS Naturals, SequencesExt

CONSTANTS MaxIds        \* bound on OperationCallback.next_id

ASSUME RuntimeInvokeAssumption == MaxIds \in Nat \ {0}

Ids == 1 .. MaxIds
NoId == 0

VARIABLES
    state, sigstop,             \* the thread, and a SIGSTOP on its way to it
    callback_stack,             \* CallbackData: its argument, and is_rti
    ops,                        \* current_operation and the chain of its children
    engine_stopped, abort_requested, temp_breakpoint,
    rti_stack, nested_break_stack,
    rti, next_id,               \* OperationRuntimeInvoke and its helper, by ID
    dead                        \* "no", or how the engine or the target ended

target == <<state, sigstop, callback_stack>>
stacks == <<rti_stack, nested_break_stack>>
vars == <<target, ops, engine_stopped, abort_requested, temp_breakpoint, stacks, rti, next_id,
          dead>>

Modes == {"print", "nested", "call"}
NoRti == [mode |-> "none", stage |-> "none", HasStarted |-> FALSE, AbortRequested |-> FALSE,
          IsSuspended |-> FALSE, done |-> FALSE, completed |-> FALSE]

(* The thread is stopped in managed code.                                   *)
Init ==
    /\ state = "stopped" /\ sigstop = FALSE /\ callback_stack = <<>>
    /\ ops = <<>> /\ engine_stopped = TRUE
    /\ abort_requested = NoId /\ temp_breakpoint = NoId
    /\ rti_stack = <<>> /\ nested_break_stack = <<>>
    /\ rti = [i \in Ids |-> NoRti] /\ next_id = 0
    /\ dead = "no"

Op (kind, i) == [op |-> kind, id |-> i]
Call (i, is_rti) == [id |-> i, is_rti |-> is_rti]
current_operation == ops[1]
InManaged == callback_stack # <<>> => Last (callback_stack).is_rti

(* Whoever waits for the result of operation o is told.                     *)
Told (r, o) == IF o.op = "rti" THEN [r EXCEPT ![o.id].completed = TRUE] ELSE r

(* Mutant: the temporary breakpoint stays when the operation is suspended.  *)
OperationCompletedKeeps (o, r, nested, suspended) ==
    /\ engine_stopped' = TRUE /\ ops' = <<>>
    /\ temp_breakpoint' = (IF suspended THEN temp_breakpoint ELSE NoId)
    /\ rti' = IF suspended THEN [r EXCEPT ![o.id].IsSuspended = TRUE] ELSE Told (r, o)
    /\ nested_break_stack' = IF suspended THEN Append (nested, o.id) ELSE nested

(* OperationCompleted() for current operation o, after the handler has made *)
(* r of rti and `nested' of nested_break_stack.                             *)
OperationCompleted (o, r, nested, suspended) ==
    /\ engine_stopped' = TRUE /\ ops' = <<>> /\ temp_breakpoint' = NoId
    /\ rti' = IF suspended THEN [r EXCEPT ![o.id].IsSuspended = TRUE] ELSE Told (r, o)
    /\ nested_break_stack' = IF suspended THEN Append (nested, o.id) ELSE nested

Completed (r, suspended) ==
    OperationCompleted (current_operation, r, nested_break_stack, suspended)

engine == <<ops, engine_stopped, temp_breakpoint, rti, nested_break_stack>>

(* An InternalError or a NullReferenceException ends the engine thread.     *)
Crash (why) == dead' = why /\ UNCHANGED engine

-----------------------------------------------------------------------------
(* Commands of the clients.                                                 *)

(* OperationRuntimeInvoke and its helper are pushed.  The helper calls a    *)
(* function of the runtime, or fails; when it has to box the instance it    *)
(* makes the call and fails all the same, because get_method_address()      *)
(* returns false for that, too.                                             *)
RuntimeInvoke (mode) ==
    /\ dead = "no" /\ engine_stopped /\ state = "stopped" /\ InManaged
    /\ next_id < MaxIds /\ next_id' = next_id + 1
    /\ rti_stack' = Append (rti_stack, next_id')
    /\ LET r (stage) == [rti EXCEPT ![next_id'] = [NoRti EXCEPT !.mode = mode, !.stage = stage]]
           calls == /\ callback_stack' = Append (callback_stack, Call (next_id', FALSE))
                    /\ state' = "running"
           fails == /\ rti' = Told (r ("prepare"), Op ("rti", next_id'))
                    /\ UNCHANGED <<ops, engine_stopped>>
       IN \/ /\ calls
             /\ \E stage \in {"prepare", "compile"} : rti' = r (stage)
             /\ ops' = <<Op ("rti", next_id'), Op ("helper", next_id')>>
             /\ engine_stopped' = FALSE
          \/ fails /\ UNCHANGED <<callback_stack, state>>
          \/ fails /\ calls
    /\ UNCHANGED <<sigstop, abort_requested, temp_breakpoint, nested_break_stack, dead>>

(* Mutant: a thread that runs takes the operation as well.                  *)
RunUnchecked ==
    /\ dead = "no" /\ engine_stopped
    /\ state' = "running" /\ engine_stopped' = FALSE
    /\ ops' = Append (ops, Op ("run", NoId))
    /\ UNCHANGED <<sigstop, callback_stack, abort_requested, temp_breakpoint, stacks, rti,
                   next_id, dead>>

(* Step (StepMode.Run).  If the thread runs although engine_stopped is set, *)
(* do_continue() throws and the current operation is completed.             *)
Run ==
    /\ dead = "no" /\ engine_stopped
    /\ IF state = "running"
       THEN /\ OperationCompleted (Head (Append (ops, Op ("run", NoId))), rti,
                                   nested_break_stack, FALSE)
            /\ UNCHANGED state
       ELSE /\ state' = "running" /\ engine_stopped' = FALSE
            /\ ops' = <<Op ("run", NoId)>>
            /\ UNCHANGED <<temp_breakpoint, rti, nested_break_stack>>
    /\ UNCHANGED <<sigstop, callback_stack, abort_requested, rti_stack, next_id, dead>>

Stop ==
    /\ dead = "no" /\ ~engine_stopped
    /\ sigstop' = TRUE
    /\ UNCHANGED <<state, callback_stack, engine, abort_requested, rti_stack, next_id, dead>>

(* GetCallbackFrame (..., false) looks from the outermost call inwards.     *)
CallbackFrame (i) == callback_stack # <<>> /\ Head (callback_stack).id = i

(* OperationAbortRuntimeInvoke is pushed and calls the runtime.             *)
PushAbort ==
    /\ next_id < MaxIds /\ next_id' = next_id + 1
    /\ ops' = Append (ops, Op ("abort", next_id'))
    /\ callback_stack' = Append (callback_stack, Call (next_id', FALSE))
    /\ state' = "running"

(* Mutant: the result says `aborted' as soon as the abort is on its way.    *)
DoAbortInvocationEarly (i) ==
    LET known == i \in ToSet (rti_stack) IN
    IF known /\ rti[i].HasStarted /\ CallbackFrame (i)
    THEN PushAbort /\ rti' = [rti EXCEPT ![i].done = TRUE]
    ELSE /\ rti' = [rti EXCEPT ![i].AbortRequested = @ \/ (known /\ ~rti[i].HasStarted)]
         /\ UNCHANGED <<ops, callback_stack, next_id, state>>

(* DoAbortInvocation(): the runtime is asked to abort invocation i.  If it  *)
(* has not started yet, it is marked; if it is not the one found on the     *)
(* stack, the request fails.                                                *)
DoAbortInvocation (i) ==
    LET known == i \in ToSet (rti_stack) IN
    IF known /\ rti[i].HasStarted /\ CallbackFrame (i)
    THEN PushAbort /\ UNCHANGED rti
    ELSE /\ rti' = [rti EXCEPT ![i].AbortRequested = @ \/ (known /\ ~rti[i].HasStarted)]
         /\ UNCHANGED <<ops, callback_stack, next_id, state>>

(* RuntimeInvokeResult.Abort(), by whoever waited too long for the result.  *)
(* A running thread is stopped first; engine_stopped is not touched.        *)
AbortInvocation (i) ==
    /\ dead = "no" /\ rti[i].mode # "none" /\ abort_requested = NoId
    /\ \/ /\ state = "running"
          /\ sigstop' = TRUE /\ abort_requested' = i
          /\ UNCHANGED <<state, callback_stack, ops, rti, next_id>>
       \/ /\ state = "stopped"
          /\ DoAbortInvocation (i)
          /\ UNCHANGED <<sigstop, abort_requested>>
    /\ UNCHANGED <<engine_stopped, temp_breakpoint, stacks, dead>>

(* `return -invocation'.                                                    *)
Return ==
    /\ dead = "no" /\ engine_stopped /\ state = "stopped"
    /\ rti_stack # <<>> /\ CallbackFrame (Last (rti_stack))
    /\ PushAbort /\ engine_stopped' = FALSE
    /\ UNCHANGED <<sigstop, abort_requested, temp_breakpoint, stacks, rti, dead>>

-----------------------------------------------------------------------------
(* Events of the thread, each with its handler in ProcessEvent().           *)

Running == dead = "no" /\ state = "running"

(* The temporary breakpoint at the first instruction of the invoked method: *)
(* a `call' stops there, others only if there is a user's breakpoint, too.  *)
(* The event does not get past a pushed abort.                              *)
InvokeEntered (breakpoint) ==
    /\ Running /\ temp_breakpoint # NoId
    /\ LET o == Last (ops).op
           mode == rti[temp_breakpoint].mode
           suspends == o = "helper" /\ (mode = "call" \/ (mode = "nested" /\ breakpoint))
       IN IF suspends \/ (o = "abort" /\ breakpoint)
          THEN state' = "stopped" /\ Completed (rti, suspends)
          ELSE /\ temp_breakpoint' = NoId
               /\ ops' = IF o = "helper" THEN <<current_operation>> ELSE ops
               /\ UNCHANGED <<state, engine_stopped, rti, nested_break_stack>>
    /\ UNCHANGED <<sigstop, callback_stack, abort_requested, rti_stack, next_id, dead>>

(* A user's breakpoint.  An invocation that has been entered stops there    *)
(* unless it belongs to a `print'; before that, and when it is being        *)
(* aborted, the pushed callback gives up.                                   *)
HitBreakpoint ==
    /\ Running /\ InManaged
    /\ IF ops = <<>>
       THEN state' = "stopped" /\ Crash ("no operation")
       ELSE /\ UNCHANGED dead
            /\ IF Last (ops).op = "rti" /\ rti[Last (ops).id].mode = "print"
               THEN UNCHANGED <<state, engine>>
               ELSE state' = "stopped" /\ Completed (rti, Last (ops).op = "rti")
    /\ UNCHANGED <<sigstop, callback_stack, abort_requested, rti_stack, next_id>>

(* A signal other than SIGSTOP suspends whichever invocation is current.    *)
Signalled ==
    /\ Running /\ state' = "stopped"
    /\ IF ops = <<>> THEN Crash ("no operation")
       ELSE Completed (rti, current_operation.op = "rti") /\ UNCHANGED dead
    /\ UNCHANGED <<sigstop, callback_stack, abort_requested, rti_stack, next_id>>

(* CHILD_INTERRUPTED: OperationInterrupted(), unless there is no operation; *)
(* then the thread stays stopped without a current frame.                   *)
Interrupted ==
    /\ Running /\ sigstop /\ sigstop' = FALSE
    /\ \/ /\ ops = <<>> /\ state' = "unseen"
          /\ UNCHANGED <<callback_stack, engine, abort_requested, next_id>>
       \/ /\ ops # <<>> /\ abort_requested # NoId
          /\ abort_requested' = NoId
          /\ DoAbortInvocation (abort_requested)
          /\ UNCHANGED <<engine_stopped, temp_breakpoint, nested_break_stack>>
       \/ /\ ops # <<>> /\ abort_requested = NoId
          /\ state' = "stopped" /\ Completed (rti, FALSE)
          /\ UNCHANGED <<callback_stack, abort_requested, next_id>>
    /\ UNCHANGED <<rti_stack, dead>>

(* CHILD_CALLBACK that is not for the helper: a pushed abort goes on and    *)
(* waits for the invocation to end, any other operation is completed.       *)
CallbackReturned ==
    /\ Running /\ ~InManaged
    /\ LET i == Last (callback_stack).id IN
       IF ops = <<>>
       THEN state' = "stopped" /\ Crash ("no operation")
       ELSE /\ Last (ops) # Op ("helper", i)
            /\ UNCHANGED dead
            /\ IF Last (ops) = Op ("abort", i)
               THEN UNCHANGED <<state, engine>>
               ELSE state' = "stopped" /\ Completed (rti, FALSE)
    /\ callback_stack' = Front (callback_stack)
    /\ UNCHANGED <<sigstop, abort_requested, rti_stack, next_id>>

(* What the helper waited for.                                              *)
HelperCallback (i, stage) ==
    /\ Running /\ ~InManaged /\ ops # <<>>
    /\ Last (ops) = Op ("helper", i) /\ Last (callback_stack).id = i
    /\ rti[i].stage = stage
    /\ UNCHANGED <<sigstop, abort_requested, rti_stack, next_id>>

(* Somebody asked to abort it meanwhile.                                    *)
HelperAborted (i) ==
    /\ \E stage \in {"prepare", "compile"} : HelperCallback (i, stage)
    /\ rti[i].AbortRequested
    /\ callback_stack' = Front (callback_stack)
    /\ state' = "stopped" /\ Completed ([rti EXCEPT ![i].done = TRUE], FALSE)
    /\ UNCHANGED dead

(* The class is resolved or the virtual method found: the next call is      *)
(* made, or something fails.  If that was the call that boxes the instance, *)
(* either the handler's own clean-up fails and the target is killed, or the *)
(* invocation is given up while the thread runs.                            *)
HelperPrepared (i) ==
    /\ HelperCallback (i, "prepare") /\ ~rti[i].AbortRequested
    /\ \/ /\ \E stage \in {"prepare", "compile"} : rti' = [rti EXCEPT ![i].stage = stage]
          /\ UNCHANGED <<target, ops, engine_stopped, temp_breakpoint, nested_break_stack, dead>>
       \/ /\ \E done \in BOOLEAN : Completed ([rti EXCEPT ![i].done = done], FALSE)
          /\ callback_stack' = Front (callback_stack) /\ state' = "stopped"
          /\ UNCHANGED dead
       \/ /\ Completed (rti, FALSE)
          /\ dead' \in {"no", "killed"}
          /\ UNCHANGED <<callback_stack, state>>

(* The method is compiled: it is invoked, with a temporary breakpoint on    *)
(* its first instruction, or that fails.                                    *)
HelperCompiled (i) ==
    /\ HelperCallback (i, "compile") /\ ~rti[i].AbortRequested
    /\ LET r == [rti EXCEPT ![i].HasStarted = TRUE] IN
       \/ /\ rti' = [r EXCEPT ![i].stage = "invoked"]
          /\ temp_breakpoint' = i
          /\ callback_stack' = Append (Front (callback_stack), Call (i, TRUE))
          /\ UNCHANGED <<state, ops, engine_stopped, nested_break_stack>>
       \/ /\ Completed (r, FALSE)
          /\ callback_stack' = Front (callback_stack) /\ state' = "stopped"
    /\ UNCHANGED dead

(* Mutant: the invocation is not popped.                                    *)
InvokeDoneKept ==
    /\ Running /\ callback_stack # <<>> /\ Last (callback_stack).is_rti /\ ops # <<>>
    /\ LET i == Last (callback_stack).id IN
       OperationCompleted (Op ("rti", i), Told ([rti EXCEPT ![i].done = TRUE], current_operation),
                           nested_break_stack, FALSE)
    /\ callback_stack' = Front (callback_stack) /\ state' = "stopped"
    /\ UNCHANGED <<sigstop, abort_requested, rti_stack, next_id, dead>>

(* Mutant: the nested break state is not left.                              *)
InvokeDoneNested ==
    /\ Running /\ callback_stack # <<>> /\ Last (callback_stack).is_rti /\ ops # <<>>
    /\ LET i == Last (callback_stack).id IN
       /\ rti_stack # <<>> /\ Last (rti_stack) = i
       /\ OperationCompleted (Op ("rti", i),
                              Told ([rti EXCEPT ![i].done = TRUE], current_operation),
                              nested_break_stack, FALSE)
    /\ rti_stack' = Front (rti_stack)
    /\ callback_stack' = Front (callback_stack) /\ state' = "stopped"
    /\ UNCHANGED <<sigstop, abort_requested, next_id, dead>>

(* Mutant: only the current operation is completed.                         *)
InvokeDoneForgets ==
    /\ Running /\ callback_stack # <<>> /\ Last (callback_stack).is_rti /\ ops # <<>>
    /\ LET i == Last (callback_stack).id
           nested == IF rti[i].IsSuspended THEN Front (nested_break_stack) ELSE nested_break_stack
       IN /\ rti_stack # <<>> /\ Last (rti_stack) = i
          /\ OperationCompleted (current_operation, [rti EXCEPT ![i].done = TRUE], nested, FALSE)
    /\ rti_stack' = Front (rti_stack)
    /\ callback_stack' = Front (callback_stack) /\ state' = "stopped"
    /\ UNCHANGED <<sigstop, abort_requested, next_id, dead>>

(* RUNTIME_INVOKE_DONE: the innermost invocation has returned.  It is       *)
(* completed, and so is the operation that resumed the thread.              *)
InvokeDone ==
    /\ Running /\ callback_stack # <<>> /\ Last (callback_stack).is_rti
    /\ LET i == Last (callback_stack).id
           suspended == rti[i].IsSuspended
           r == [rti EXCEPT ![i].done = TRUE]
       IN IF rti_stack = <<>> \/ Last (rti_stack) # i
          THEN Crash ("unknown RUNTIME_INVOKE_DONE") /\ UNCHANGED rti_stack
          ELSE /\ rti_stack' = Front (rti_stack)
               /\ IF suspended /\ (nested_break_stack = <<>> \/ Last (nested_break_stack) # i)
                  THEN Crash ("unexpected item on nested break state stack")
                  ELSE IF ops = <<>> THEN Crash ("no operation")
                  ELSE /\ OperationCompleted (Op ("rti", i), Told (r, current_operation),
                              IF suspended THEN Front (nested_break_stack) ELSE nested_break_stack,
                              FALSE)
                       /\ UNCHANGED dead
    /\ callback_stack' = Front (callback_stack) /\ state' = "stopped"
    /\ UNCHANGED <<sigstop, abort_requested, next_id>>

Next ==
    \/ \E mode \in Modes : RuntimeInvoke (mode)
    \/ Run \/ Stop \/ Return
    \/ \E i \in Ids : AbortInvocation (i)
    \/ \E breakpoint \in BOOLEAN : InvokeEntered (breakpoint)
    \/ HitBreakpoint \/ Signalled \/ Interrupted \/ CallbackReturned \/ InvokeDone
    \/ \E i \in Ids : HelperAborted (i) \/ HelperPrepared (i) \/ HelperCompiled (i)

Spec == Init /\ [][Next]_vars

-----------------------------------------------------------------------------
(* Properties.                                                              *)

Invoked (i) == rti[i].stage = "invoked"
Suspended (i) == rti[i].IsSuspended
CallIds == [k \in DOMAIN callback_stack |-> callback_stack[k].id]

(* An ID is given when a call begins, so that this says: innermost last.    *)
Ascending (s) == \A j, k \in DOMAIN s : j < k => s[j] < s[k]

(* Every variable has its type; a step is never pushed on an operation that *)
(* is under way (ExecuteOperation).                                         *)
TypeOK ==
    /\ state \in {"stopped", "running", "unseen"} /\ sigstop \in BOOLEAN
    /\ callback_stack \in Seq ([id : Ids, is_rti : BOOLEAN])
    /\ ops \in Seq ([op : {"run", "rti", "helper", "abort"}, id : Ids \cup {NoId}])
    /\ \A k \in 2 .. Len (ops) : ops[k].op # "run"
    /\ engine_stopped \in BOOLEAN
    /\ abort_requested \in Ids \cup {NoId} /\ temp_breakpoint \in Ids \cup {NoId}
    /\ rti_stack \in Seq (Ids) /\ nested_break_stack \in Seq (Ids)
    /\ \A i \in Ids :
         /\ rti[i].mode \in Modes \cup {"none"}
         /\ rti[i].stage \in {"none", "prepare", "compile", "invoked"}
         /\ \A f \in {"HasStarted", "AbortRequested", "IsSuspended", "done", "completed"} :
              rti[i][f] \in BOOLEAN
    /\ next_id \in 0 .. MaxIds

(* The invocations that the thread is executing, as the server knows them,  *)
(* are those the engine knows to be under way, in the same order: whatever  *)
(* stops, nests or aborts them, RUNTIME_INVOKE_DONE finds its operation     *)
(* unless an invocation that never began is in the way.                     *)
StacksAgree ==
    dead = "no" =>
        /\ {c.id : c \in {c \in ToSet (callback_stack) : c.is_rti}}
             = {i \in ToSet (rti_stack) : Invoked (i)}
        /\ Ascending (CallIds) /\ Ascending (rti_stack)

(* The nested break states that were announced and not yet left are those   *)
(* of the suspended invocations, innermost last.                            *)
NestedAgree ==
    dead = "no" =>
        /\ ToSet (nested_break_stack) = {i \in ToSet (rti_stack) : Suspended (i)}
        /\ Ascending (nested_break_stack)

(* A result that says `completed' or `aborted' is about an invocation that  *)
(* the thread is no longer executing.                                       *)
DoneIsGone ==
    \A i \in Ids : rti[i].done => \A k \in DOMAIN callback_stack : callback_stack[k].id # i

(* When the thread has stopped, whoever waits for the result of an          *)
(* invocation has been told, also if another command resumed the thread,    *)
(* or the invocation is in a nested break state and is not finished.        *)
NobodyWaits ==
    dead = "no" /\ state # "running" =>
        \A i \in Ids : rti[i].mode # "none" =>
            rti[i].completed \/ (Suspended (i) /\ ~rti[i].done)

(* The engine's only temporary breakpoint is that of the invocation which   *)
(* is just being entered: insert_temporary_breakpoint() never finds one.    *)
TemporaryOwned ==
    temp_breakpoint # NoId /\ dead = "no" =>
        state = "running" /\ current_operation = Op ("rti", temp_breakpoint)
=============================================================================
