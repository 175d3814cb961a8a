-------------------------- MODULE ThreadLockProofs --------------------------
(***************************************************************************)
(* Theorems about ThreadLock, for any threads, breakpoints, events and     *)
(* commands.                                                               *)
(*                                                                         *)
(* None of the invariants is inductive.  They rest on one fact about the   *)
(* whole debugger: the stop of a thread, from waitpid() over the wait      *)
(* thread, the thread lock and pending_events to its handler, is in one    *)
(* place, and the thread does not run until the handler lets it (Once).    *)
(***************************************************************************)
EXTENDS ThreadLock, TLAPS

Stops == Words \ Exits

(* The engine handles a stop of the thread, or is about to resume it.       *)
Handled (t) ==
    cur.t = t /\ (epc = "acquire" \/ (epc = "handle" /\ cur.w \in Stops))

(* A stop of the thread is in one place, and the thread does not run.       *)
Once (t) ==
    /\ kstate[t] = "running" => /\ word[t] = "none" /\ held.t # t /\ ~Handled (t)
                                /\ ~pushed_regs[t] /\ pending_events[t] = "none"
    /\ word[t] \in Stops => /\ held.t # t /\ ~Handled (t)
                            /\ ~pushed_regs[t] /\ pending_events[t] = "none"
    /\ held.t = t /\ held.w \in Stops =>
          ~Handled (t) /\ ~pushed_regs[t] /\ pending_events[t] = "none"
    /\ Handled (t) => ~pushed_regs[t] /\ pending_events[t] = "none"
    /\ pushed_regs[t] => pending_events[t] = "none"

(* A thread that the engine takes for stopped, or that waits for its        *)
(* operation to be started, has no stop to be handled, but may hold the one *)
(* that its thread lock keeps.                                              *)
Quiet (t) ==
    t \in thread_hash /\ (engine_stopped[t] \/ requested[t] # "none") =>
        /\ kstate[t] # "running" /\ word[t] \notin Stops
        /\ held.t = t => held.w \notin Stops
        /\ ~Handled (t) /\ pending_events[t] = "none"

(* A locked thread has its registers pushed, or has died.                   *)
Lock (t) ==
    /\ pushed_regs[t] => thread_lock[t] \in Stops /\ (t \in thread_hash => engine_stopped[t])
    /\ thread_lock[t] # "free" => pushed_regs[t] \/ kstate[t] = "dead"
    /\ pending_events[t] \notin Exits

(* An exit is the last event of a thread, and is handled once.              *)
Exit (t) ==
    /\ word[t] \in Exits => kstate[t] = "dead"
    /\ held.t = t /\ held.w \in Exits => kstate[t] = "dead" /\ word[t] = "none"
    /\ epc = "handle" /\ cur.t = t /\ cur.w \in Exits =>
          kstate[t] = "dead" /\ word[t] = "none" /\ held.t # t
    /\ t \notin thread_hash =>
          /\ kstate[t] = "dead" /\ word[t] = "none" /\ held.t # t
          /\ epc \in {"handle", "acquire"} => cur.t # t

(* Every thread that runs, or will be resumed, has an operation, unless the *)
(* engine has yet to start it for a client.                                 *)
Operation (t) ==
    t \in thread_hash =>
        /\ requested[t] # "none" => ~engine_stopped[t]
        /\ (~engine_stopped[t] /\ requested[t] = "none") \/ pushed_regs[t] => op[t] # "none"

(* At most one operation steps over a breakpoint, under the global lock.    *)
Over (t) ==
    StepsOver (t) => /\ has_thread_lock /\ t \in thread_hash /\ epc # "acquire"
                     /\ \A u \in Threads : StepsOver (u) => t = u

ThreadInv (t) ==
    Once (t) /\ Quiet (t) /\ Lock (t) /\ Exit (t) /\ Operation (t) /\ Over (t)

(* What the engine thread is working on.                                    *)
EngineInv ==
    /\ epc = "handle" => cur \in Event
    /\ epc = "acquire" => /\ has_thread_lock /\ cur.t \in thread_hash
                          /\ todo \subseteq thread_hash \ {cur.t}
    /\ \A t \in plist : pending_events[t] # "none"

IInv == TypeOK /\ EngineInv /\ \A t \in Threads : ThreadInv (t)

(* Words, events and the values that stand for none.                        *)
LEMMA EventFacts ==
    /\ NoThread \notin Threads /\ NoBreakpoint \notin Breakpoints
    /\ \A e \in Event : e.t \in Threads /\ e.w \in Words /\ e # NoEvent
    /\ \A e \in [t : Threads, w : {"none"}] : e.t \in Threads /\ e.w = "none"
    /\ \A t \in Threads, w \in Words : [t |-> t, w |-> w] \in Event
    /\ \A t \in Threads : [t |-> t, w |-> "none"] \in [t : Threads, w : {"none"}]
    /\ NoEvent.t = NoThread /\ NoEvent.w = "none"
BY ThreadLockAssumption DEF Event, NoEvent, Words, AllReports, Exits

LEMMA WordFacts ==
    /\ "none" \notin Words /\ "free" \notin Words /\ Exits \subseteq Words
    /\ "none" \notin Exits /\ "free" \notin Exits /\ Reports \subseteq Words
    /\ {"bp", "signal", "ignored", "step", "sigstop", "hit"} \subseteq Stops
BY ThreadLockAssumption DEF Words, AllReports, Exits, Stops

LEMMA HitFacts ==
    ASSUME NEW e \in Event
    PROVE  /\ [e EXCEPT !.w = "hit"] \in Event
           /\ [e EXCEPT !.w = "hit"].t = e.t /\ [e EXCEPT !.w = "hit"].w = "hit"
BY DEF Event, Words

(* child_breakpoint() changes what the event is, not whose event it is.     *)
LEMMA BreakpointCur ==
    ASSUME EngineInv, HandleBreakpoint
    PROVE  cur'.t = cur.t /\ cur'.w \in Stops
<1>1. cur' = cur \/ cur' = [cur EXCEPT !.w = "hit"]
  BY DEF HandleBreakpoint, Resume, RecursiveLock, GoneAbandons, Run, Completed, Return
<1>2. cur \in Event /\ cur.w = "bp"
  BY DEF HandleBreakpoint, Handling, Resume, RecursiveLock, GoneAbandons, Run, Completed,
         Return, EngineInv
<1> QED
  BY <1>1, <1>2, WordFacts DEF Event

(* Resuming a thread, and completing its operation, keep the types.         *)
LEMMA RunType ==
    ASSUME TargetType, UNCHANGED <<sigstop, at>>, NEW t \in Threads, NEW single \in BOOLEAN,
           Run (t, single)
    PROVE  TargetType'
BY DEF TargetType, Run

LEMMA CompletedType ==
    ASSUME EngineType, NEW t \in Threads, Completed (t)
    PROVE  /\ engine_stopped' \in [Threads -> BOOLEAN] /\ op' \in [Threads -> {"none", "run", "step"}]
           /\ over' \in [Threads -> Breakpoints \cup {NoBreakpoint}]
BY DEF EngineType, Completed

(* All threads run when the debugger starts, each with an operation.        *)
LEMMA InitIInv == Init => IInv
<1> SUFFICES ASSUME Init PROVE IInv
  OBVIOUS
<1>1. TypeOK
  BY EventFacts DEF Init, TypeOK, TargetType, EventType, EngineType
<1>2. EngineInv
  BY DEF Init, EngineInv
<1>3. ASSUME NEW t \in Threads PROVE ThreadInv (t)
  BY EventFacts, WordFacts
  DEF Init, ThreadInv, Once, Handled, Quiet, Lock, Exit, Operation, Over, StepsOver, Stops
<1> QED
  BY <1>1, <1>2, <1>3 DEF IInv

(* Every step of the target, the wait thread, the engine thread and the     *)
(* users keeps the invariant.                                               *)
LEMMA NextIInv == IInv /\ [Next]_vars => IInv'
<1> SUFFICES ASSUME IInv, [Next]_vars PROVE IInv'
  OBVIOUS
<1>type. TypeOK
  BY DEF IInv
<1>engine. EngineInv
  BY DEF IInv
<1>inv. ASSUME NEW t \in Threads PROVE ThreadInv (t)
  BY DEF IInv
<1>held. \A t \in Threads : held.t = t => held.w \in Words /\ held # NoEvent
  BY <1>type, EventFacts DEF TypeOK, EventType
<1>cur. epc = "handle" => cur.t \in Threads /\ cur.w \in Words
  BY <1>engine, EventFacts DEF EngineInv
<1> USE EventFacts, WordFacts DEF target, others, sse, locks, engine
<1>1. ASSUME NEW t \in Threads, NEW w \in Words, NEW place \in Breakpoints \cup {NoBreakpoint},
          Report (t, w, place)
      PROVE  IInv'
  <2>1. TypeOK'
    BY <1>1, <1>type, <1>engine
    DEF Report, CanReport, Halted, EngineInv, TypeOK, TargetType, EventType, EngineType
  <2>2. EngineInv'
    BY <1>1, <1>type, <1>engine, <1>inv
    DEF Report, CanReport, Halted, EngineInv, TypeOK, TargetType, EventType, EngineType,
        ThreadInv
  <2>3. ASSUME NEW u \in Threads PROVE ThreadInv (u)'
    <3>1. Operation (u)' /\ Over (u)'
      BY <1>1, <1>inv DEF Report, CanReport, Halted, ThreadInv, Operation, Over, StepsOver
    <3>2. Once (u)'
      BY <1>1, <1>type, <1>inv, <1>held, <1>cur
      DEF Report, CanReport, Halted, ThreadInv, Once, Handled, Stops, Exits, Exit, TypeOK,
          TargetType, EventType, EngineType
    <3>3. Quiet (u)'
      BY <1>1, <1>type, <1>inv, <1>held, <1>cur
      DEF Report, CanReport, Halted, ThreadInv, Quiet, Handled, Stops, Exits, TypeOK,
          TargetType, EventType, EngineType
    <3>4. Lock (u)'
      BY <1>1, <1>type, <1>inv, <1>held, <1>cur
      DEF Report, CanReport, Halted, ThreadInv, Lock, Stops, Exits, TypeOK, TargetType,
          EventType, EngineType
    <3>5. Exit (u)'
      BY <1>1, <1>type, <1>inv, <1>held, <1>cur
      DEF Report, CanReport, Halted, ThreadInv, Exit, Stops, Exits, Once, Handled, TypeOK,
          TargetType, EventType, EngineType
    <3> QED
      BY <3>1, <3>2, <3>3, <3>4, <3>5 DEF ThreadInv
  <2> QED
    BY <2>1, <2>2, <2>3 DEF IInv
<1>2. ASSUME NEW t \in Threads, DeliverSigstop (t) PROVE IInv'
  <2>1. TypeOK'
    <3>1. TargetType'
      BY <1>2, <1>type, <1>engine
      DEF DeliverSigstop, Halted, EngineInv, TypeOK, TargetType, EngineType
    <3>2. EventType'
      BY <1>2, <1>type, <1>engine
      DEF DeliverSigstop, Halted, EngineInv, TypeOK, EventType, Stops
    <3>3. EngineType'
      BY <1>2, <1>type, <1>engine DEF DeliverSigstop, Halted, EngineInv, TypeOK, EngineType
    <3> QED
      BY <3>1, <3>2, <3>3 DEF TypeOK
  <2>2. EngineInv'
    BY <1>2, <1>type, <1>engine, <1>inv
    DEF DeliverSigstop, Halted, EngineInv, TypeOK, TargetType, EventType, EngineType, ThreadInv
  <2>3. ASSUME NEW u \in Threads PROVE ThreadInv (u)'
    <3>1. Operation (u)' /\ Over (u)'
      BY <1>2, <1>inv DEF DeliverSigstop, Halted, ThreadInv, Operation, Over, StepsOver
    <3>2. Once (u)'
      BY <1>2, <1>type, <1>inv, <1>held, <1>cur
      DEF DeliverSigstop, Halted, ThreadInv, Once, Handled, Stops, Exits, TypeOK, TargetType,
          EventType, EngineType
    <3>3. Quiet (u)'
      BY <1>2, <1>type, <1>inv, <1>held, <1>cur
      DEF DeliverSigstop, Halted, ThreadInv, Quiet, Handled, Stops, Exits, TypeOK, TargetType,
          EventType, EngineType
    <3>4. Lock (u)'
      BY <1>2, <1>type, <1>inv, <1>held, <1>cur
      DEF DeliverSigstop, Halted, ThreadInv, Lock, Stops, Exits, TypeOK, TargetType, EventType,
          EngineType
    <3>5. Exit (u)'
      BY <1>2, <1>type, <1>inv, <1>held, <1>cur
      DEF DeliverSigstop, Halted, ThreadInv, Exit, Stops, Exits, Once, Handled, TypeOK,
          TargetType, EventType, EngineType
    <3> QED
      BY <3>1, <3>2, <3>3, <3>4, <3>5 DEF ThreadInv
  <2> QED
    BY <2>1, <2>2, <2>3 DEF IInv
<1>3. CASE ExitGroup
  <2>1. TypeOK'
    BY <1>3, <1>type, <1>engine
    DEF ExitGroup, AllDie, EngineInv, TypeOK, TargetType, EventType, EngineType
  <2>2. EngineInv'
    BY <1>3, <1>type, <1>engine, <1>inv
    DEF ExitGroup, AllDie, EngineInv, TypeOK, TargetType, EventType, EngineType, ThreadInv
  <2>3. ASSUME NEW u \in Threads PROVE ThreadInv (u)'
    <3>1. Operation (u)' /\ Over (u)'
      BY <1>3, <1>inv DEF ExitGroup, AllDie, ThreadInv, Operation, Over, StepsOver
    <3>2. Once (u)'
      BY <1>3, <1>type, <1>inv, <1>held, <1>cur
      DEF ExitGroup, AllDie, ThreadInv, Once, Handled, Stops, Exits, TypeOK, TargetType,
          EventType, EngineType
    <3>3. Quiet (u)'
      BY <1>3, <1>type, <1>inv, <1>held, <1>cur
      DEF ExitGroup, AllDie, ThreadInv, Quiet, Handled, Stops, Exits, TypeOK, TargetType,
          EventType, EngineType
    <3>4. Lock (u)'
      BY <1>3, <1>type, <1>inv, <1>held, <1>cur
      DEF ExitGroup, AllDie, ThreadInv, Lock, Stops, Exits, TypeOK, TargetType, EventType,
          EngineType
    <3>5. Exit (u)'
      BY <1>3, <1>type, <1>inv, <1>held, <1>cur
      DEF ExitGroup, AllDie, ThreadInv, Exit, Stops, Exits, TypeOK, TargetType, EventType,
          EngineType
    <3> QED
      BY <3>1, <3>2, <3>3, <3>4, <3>5 DEF ThreadInv
  <2> QED
    BY <2>1, <2>2, <2>3 DEF IInv
<1>4. ASSUME NEW t \in Threads, WaitReap (t) PROVE IInv'
  <2>1. TypeOK'
    BY <1>4, <1>type, <1>engine
    DEF WaitReap, EngineInv, TypeOK, TargetType, EventType, EngineType
  <2>2. EngineInv'
    BY <1>4, <1>type, <1>engine, <1>inv
    DEF WaitReap, EngineInv, TypeOK, TargetType, EventType, EngineType, ThreadInv
  <2>3. ASSUME NEW u \in Threads PROVE ThreadInv (u)'
    <3>1. Lock (u)' /\ Operation (u)' /\ Over (u)'
      BY <1>4, <1>inv DEF WaitReap, ThreadInv, Lock, Operation, Over, StepsOver
    <3>2. Once (u)'
      BY <1>4, <1>type, <1>inv, <1>held, <1>cur
      DEF WaitReap, ThreadInv, Once, Handled, Stops, Exits, TypeOK, TargetType, EventType,
          EngineType
    <3>3. Quiet (u)'
      BY <1>4, <1>type, <1>inv, <1>held, <1>cur
      DEF WaitReap, ThreadInv, Quiet, Handled, Stops, Exits, TypeOK, TargetType, EventType,
          EngineType
    <3>4. Exit (u)'
      BY <1>4, <1>type, <1>inv, <1>held, <1>cur
      DEF WaitReap, ThreadInv, Exit, Stops, Exits, TypeOK, TargetType, EventType, EngineType
    <3> QED
      BY <3>1, <3>2, <3>3, <3>4 DEF ThreadInv
  <2> QED
    BY <2>1, <2>2, <2>3 DEF IInv
<1>5. ASSUME NEW t \in Threads, AcquireSkip (t) PROVE IInv'
  <2>1. TypeOK'
    BY <1>5, <1>type, <1>engine
    DEF AcquireSkip, EngineInv, TypeOK, TargetType, EventType, EngineType
  <2>2. EngineInv'
    BY <1>5, <1>type, <1>engine, <1>inv
    DEF AcquireSkip, EngineInv, TypeOK, TargetType, EventType, EngineType, ThreadInv
  <2>3. ASSUME NEW u \in Threads PROVE ThreadInv (u)'
    <3>1. Lock (u)' /\ Operation (u)' /\ Over (u)'
      BY <1>5, <1>inv DEF AcquireSkip, ThreadInv, Lock, Operation, Over, StepsOver
    <3>2. Once (u)'
      BY <1>5, <1>type, <1>inv, <1>held, <1>cur
      DEF AcquireSkip, ThreadInv, Once, Handled, Stops, Exits, TypeOK, TargetType, EventType,
          EngineType
    <3>3. Quiet (u)'
      BY <1>5, <1>type, <1>inv, <1>held, <1>cur
      DEF AcquireSkip, ThreadInv, Quiet, Handled, Stops, Exits, TypeOK, TargetType, EventType,
          EngineType
    <3>4. Exit (u)'
      BY <1>5, <1>type, <1>inv, <1>held, <1>cur
      DEF AcquireSkip, ThreadInv, Exit, Stops, Exits, TypeOK, TargetType, EventType, EngineType
    <3> QED
      BY <3>1, <3>2, <3>3, <3>4 DEF ThreadInv
  <2> QED
    BY <2>1, <2>2, <2>3 DEF IInv
<1>6. ASSUME NEW t \in Threads, AcquireReap (t) PROVE IInv'
  <2>1. TypeOK'
    BY <1>6, <1>type, <1>engine
    DEF AcquireReap, Locked, EngineInv, TypeOK, TargetType, EventType, EngineType
  <2>2. EngineInv'
    BY <1>6, <1>type, <1>engine, <1>inv
    DEF AcquireReap, Locked, EngineInv, TypeOK, TargetType, EventType, EngineType, ThreadInv
  <2>3. ASSUME NEW u \in Threads PROVE ThreadInv (u)'
    <3>1. Over (u)'
      BY <1>6, <1>inv DEF AcquireReap, Locked, ThreadInv, Over, StepsOver
    <3>2. Once (u)'
      BY <1>6, <1>type, <1>inv, <1>held, <1>cur, <1>engine
      DEF AcquireReap, Locked, ThreadInv, Once, Handled, Stops, Exits, EngineInv, Exit, TypeOK,
          TargetType, EventType, EngineType
    <3>3. Quiet (u)'
      BY <1>6, <1>type, <1>inv, <1>held, <1>cur, <1>engine
      DEF AcquireReap, Locked, ThreadInv, Quiet, Handled, Stops, Exits, Once, EngineInv, Exit,
          TypeOK, TargetType, EventType, EngineType
    <3>4. Lock (u)'
      <4>1. CASE u = t
        <5>1. word[t] \in Words \ {"exit0"} /\ Once (t) /\ Lock (t) /\ Exit (t)
          BY <1>6, <1>type, <1>inv DEF AcquireReap, ThreadInv, TypeOK, EventType
        <5>2. /\ thread_lock'[t] = word[t] /\ pushed_regs'[t] = (word[t] # "exit")
              /\ engine_stopped'[t] = (word[t] # "exit")
              /\ UNCHANGED <<kstate, pending_events>>
          BY <1>6, <1>type DEF AcquireReap, Locked, TypeOK, EventType, EngineType
        <5> QED
          BY <4>1, <5>1, <5>2 DEF Lock, Exit, Stops, Exits
      <4>2. CASE u # t
        BY <1>6, <4>2, <1>type, <1>inv
        DEF AcquireReap, Locked, ThreadInv, Lock, TypeOK, TargetType, EventType, EngineType
      <4> QED
        BY <4>1, <4>2
    <3>5. Exit (u)'
      BY <1>6, <1>type, <1>inv, <1>held, <1>cur
      DEF AcquireReap, Locked, ThreadInv, Exit, Stops, Exits, TypeOK, TargetType, EventType,
          EngineType
    <3>6. Operation (u)'
      BY <1>6, <1>type, <1>inv, <1>held, <1>cur
      DEF AcquireReap, Locked, ThreadInv, Operation, Stops, Exits, TypeOK, TargetType,
          EventType, EngineType, Quiet, Handled, Once
    <3> QED
      BY <3>1, <3>2, <3>3, <3>4, <3>5, <3>6 DEF ThreadInv
  <2> QED
    BY <2>1, <2>2, <2>3 DEF IInv
<1>7. ASSUME NEW t \in Threads, NEW place \in Breakpoints \cup {NoBreakpoint},
          AcquireSigstop (t, place)
      PROVE  IInv'
  <2>1. TypeOK'
    <3>1. TargetType'
      BY <1>7, <1>type, <1>engine
      DEF AcquireSigstop, Halted, Locked, EngineInv, TypeOK, TargetType, EngineType
    <3>2. EventType'
      BY <1>7, <1>type, <1>engine
      DEF AcquireSigstop, Halted, Locked, EngineInv, TypeOK, EventType, Stops
    <3>3. EngineType'
      BY <1>7, <1>type, <1>engine
      DEF AcquireSigstop, Halted, Locked, EngineInv, TypeOK, EngineType
    <3> QED
      BY <3>1, <3>2, <3>3 DEF TypeOK
  <2>2. EngineInv'
    BY <1>7, <1>type, <1>engine, <1>inv
    DEF AcquireSigstop, Halted, Locked, EngineInv, TypeOK, TargetType, EventType, EngineType,
        ThreadInv
  <2>3. ASSUME NEW u \in Threads PROVE ThreadInv (u)'
    <3>1. Over (u)'
      BY <1>7, <1>inv DEF AcquireSigstop, Halted, Locked, ThreadInv, Over, StepsOver
    <3>2. Once (u)'
      BY <1>7, <1>type, <1>inv, <1>held, <1>cur
      DEF AcquireSigstop, Halted, Locked, ThreadInv, Once, Handled, Stops, Exits, TypeOK,
          TargetType, EventType, EngineType
    <3>3. Quiet (u)'
      BY <1>7, <1>type, <1>inv, <1>held, <1>cur, <1>engine
      DEF AcquireSigstop, Halted, Locked, ThreadInv, Quiet, Handled, Stops, Exits, Once,
          EngineInv, TypeOK, TargetType, EventType, EngineType
    <3>4. Lock (u)'
      BY <1>7, <1>type, <1>inv, <1>held, <1>cur
      DEF AcquireSigstop, Halted, Locked, ThreadInv, Lock, Stops, Exits, Once, Handled, TypeOK,
          TargetType, EventType, EngineType
    <3>5. Exit (u)'
      BY <1>7, <1>type, <1>inv, <1>held, <1>cur
      DEF AcquireSigstop, Halted, Locked, ThreadInv, Exit, Stops, Exits, Once, Handled, TypeOK,
          TargetType, EventType, EngineType
    <3>6. Operation (u)'
      BY <1>7, <1>type, <1>inv, <1>held, <1>cur
      DEF AcquireSigstop, Halted, Locked, ThreadInv, Operation, Stops, Exits, TypeOK,
          TargetType, EventType, EngineType, Quiet, Handled, Once
    <3> QED
      BY <3>1, <3>2, <3>3, <3>4, <3>5, <3>6 DEF ThreadInv
  <2> QED
    BY <2>1, <2>2, <2>3 DEF IInv
<1>8. ASSUME NEW t \in Threads, NEW w \in Words, NEW place \in Breakpoints \cup {NoBreakpoint},
          AcquireOther (t, w, place)
      PROVE  IInv'
  <2>1. TypeOK'
    BY <1>8, <1>type, <1>engine
    DEF AcquireOther, CanReport, Halted, Locked, EngineInv, TypeOK, TargetType, EventType,
        EngineType
  <2>2. EngineInv'
    BY <1>8, <1>type, <1>engine, <1>inv
    DEF AcquireOther, CanReport, Halted, Locked, EngineInv, TypeOK, TargetType, EventType,
        EngineType, ThreadInv
  <2>3. ASSUME NEW u \in Threads PROVE ThreadInv (u)'
    <3>1. Over (u)'
      BY <1>8, <1>inv DEF AcquireOther, CanReport, Halted, Locked, ThreadInv, Over, StepsOver
    <3>2. Once (u)'
      BY <1>8, <1>type, <1>inv, <1>held, <1>cur
      DEF AcquireOther, CanReport, Halted, Locked, ThreadInv, Once, Handled, Stops, Exits,
          TypeOK, TargetType, EventType, EngineType
    <3>3. Quiet (u)'
      BY <1>8, <1>type, <1>inv, <1>held, <1>cur, <1>engine
      DEF AcquireOther, CanReport, Halted, Locked, ThreadInv, Quiet, Handled, Stops, Exits,
          Once, EngineInv, TypeOK, TargetType, EventType, EngineType
    <3>4. Lock (u)'
      BY <1>8, <1>type, <1>inv, <1>held, <1>cur
      DEF AcquireOther, CanReport, Halted, Locked, ThreadInv, Lock, Stops, Exits, Once, Handled,
          TypeOK, TargetType, EventType, EngineType
    <3>5. Exit (u)'
      BY <1>8, <1>type, <1>inv, <1>held, <1>cur
      DEF AcquireOther, CanReport, Halted, Locked, ThreadInv, Exit, Stops, Exits, Once, Handled,
          TypeOK, TargetType, EventType, EngineType
    <3>6. Operation (u)'
      BY <1>8, <1>type, <1>inv, <1>held, <1>cur
      DEF AcquireOther, CanReport, Halted, Locked, ThreadInv, Operation, Stops, Exits, TypeOK,
          TargetType, EventType, EngineType, Quiet, Handled, Once
    <3> QED
      BY <3>1, <3>2, <3>3, <3>4, <3>5, <3>6 DEF ThreadInv
  <2> QED
    BY <2>1, <2>2, <2>3 DEF IInv
<1>9. ASSUME NEW t \in Threads, AcquireFails (t) PROVE IInv'
  <2>1. TypeOK'
    BY <1>9, <1>type, <1>engine
    DEF AcquireFails, Completed, Return, EngineInv, TypeOK, TargetType, EventType, EngineType
  <2>2. EngineInv'
    BY <1>9, <1>type, <1>engine, <1>inv
    DEF AcquireFails, Completed, Return, EngineInv, TypeOK, TargetType, EventType, EngineType,
        ThreadInv
  <2>3. ASSUME NEW u \in Threads PROVE ThreadInv (u)'
    <3>1. Once (u)'
      BY <1>9, <1>type, <1>inv, <1>held, <1>cur
      DEF AcquireFails, Completed, Return, ThreadInv, Once, Handled, Stops, Exits, TypeOK,
          TargetType, EventType, EngineType
    <3>2. Quiet (u)'
      BY <1>9, <1>type, <1>inv, <1>held, <1>cur, <1>engine
      DEF AcquireFails, Completed, Return, ThreadInv, Quiet, Handled, Stops, Exits, Once,
          EngineInv, TypeOK, TargetType, EventType, EngineType
    <3>3. Lock (u)'
      BY <1>9, <1>type, <1>inv, <1>held, <1>cur, <1>engine
      DEF AcquireFails, Completed, Return, ThreadInv, Lock, Stops, Exits, EngineInv, TypeOK,
          TargetType, EventType, EngineType
    <3>4. Exit (u)'
      BY <1>9, <1>type, <1>inv, <1>held, <1>cur
      DEF AcquireFails, Completed, Return, ThreadInv, Exit, Stops, Exits, TypeOK, TargetType,
          EventType, EngineType
    <3>5. Operation (u)'
      BY <1>9, <1>type, <1>inv, <1>held, <1>cur, <1>engine
      DEF AcquireFails, Completed, Return, ThreadInv, Operation, Stops, Exits, Once, Handled,
          EngineInv, TypeOK, TargetType, EventType, EngineType, Quiet
    <3>6. Over (u)'
      BY <1>9, <1>type, <1>inv, <1>held, <1>cur
      DEF AcquireFails, Completed, Return, ThreadInv, Over, StepsOver, Stops, Exits, TypeOK,
          TargetType, EventType, EngineType
    <3> QED
      BY <3>1, <3>2, <3>3, <3>4, <3>5, <3>6 DEF ThreadInv
  <2> QED
    BY <2>1, <2>2, <2>3 DEF IInv
<1>10. ASSUME NEW t \in Threads, AcquireSpins (t) PROVE IInv'
  <2>1. TypeOK'
    BY <1>10, <1>type, <1>engine
    DEF AcquireSpins, EngineInv, TypeOK, TargetType, EventType, EngineType
  <2>2. EngineInv'
    BY <1>10, <1>type, <1>engine, <1>inv
    DEF AcquireSpins, EngineInv, TypeOK, TargetType, EventType, EngineType, ThreadInv
  <2>3. ASSUME NEW u \in Threads PROVE ThreadInv (u)'
    <3>1. Lock (u)' /\ Operation (u)'
      BY <1>10, <1>inv DEF AcquireSpins, ThreadInv, Lock, Operation
    <3>2. Once (u)'
      BY <1>10, <1>type, <1>inv, <1>held, <1>cur
      DEF AcquireSpins, ThreadInv, Once, Handled, Stops, Exits, TypeOK, TargetType, EventType,
          EngineType
    <3>3. Quiet (u)'
      BY <1>10, <1>type, <1>inv, <1>held, <1>cur
      DEF AcquireSpins, ThreadInv, Quiet, Handled, Stops, Exits, TypeOK, TargetType, EventType,
          EngineType
    <3>4. Exit (u)'
      BY <1>10, <1>type, <1>inv, <1>held, <1>cur
      DEF AcquireSpins, ThreadInv, Exit, Stops, Exits, TypeOK, TargetType, EventType, EngineType
    <3>5. Over (u)'
      BY <1>10, <1>type, <1>inv, <1>held, <1>cur
      DEF AcquireSpins, ThreadInv, Over, StepsOver, Stops, Exits, TypeOK, TargetType, EventType,
          EngineType
    <3> QED
      BY <3>1, <3>2, <3>3, <3>4, <3>5 DEF ThreadInv
  <2> QED
    BY <2>1, <2>2, <2>3 DEF IInv
<1>11. CASE AcquireDone
  <2>1. TypeOK'
    BY <1>11, <1>type, <1>engine
    DEF AcquireDone, Gone, Run, Return, EngineInv, TypeOK, TargetType, EventType, EngineType
  <2>2. EngineInv'
    BY <1>11, <1>type, <1>engine, <1>inv
    DEF AcquireDone, Gone, Run, Return, EngineInv, TypeOK, TargetType, EventType, EngineType,
        ThreadInv
  <2>3. ASSUME NEW u \in Threads PROVE ThreadInv (u)'
    <3>1. Operation (u)'
      BY <1>11, <1>inv DEF AcquireDone, Gone, Run, Return, ThreadInv, Operation
    <3>2. Once (u)'
      BY <1>11, <1>type, <1>inv, <1>held, <1>cur, <1>engine
      DEF AcquireDone, Gone, Run, Return, ThreadInv, Once, Handled, Stops, Exits, EngineInv,
          Exit, TypeOK, TargetType, EventType, EngineType
    <3>3. Quiet (u)'
      BY <1>11, <1>type, <1>inv, <1>held, <1>cur, <1>engine
      DEF AcquireDone, Gone, Run, Return, ThreadInv, Quiet, Handled, Stops, Exits, EngineInv,
          TypeOK, TargetType, EventType, EngineType
    <3>4. Lock (u)'
      BY <1>11, <1>type, <1>inv, <1>held, <1>cur, <1>engine
      DEF AcquireDone, Gone, Run, Return, ThreadInv, Lock, Stops, Exits, Once, Handled,
          EngineInv, TypeOK, TargetType, EventType, EngineType
    <3>5. Exit (u)'
      BY <1>11, <1>type, <1>inv, <1>held, <1>cur, <1>engine
      DEF AcquireDone, Gone, Run, Return, ThreadInv, Exit, Stops, Exits, EngineInv, TypeOK,
          TargetType, EventType, EngineType
    <3>6. Over (u)'
      BY <1>11, <1>type, <1>inv, <1>held, <1>cur, <1>engine
      DEF AcquireDone, Gone, Run, Return, ThreadInv, Over, StepsOver, Stops, Exits, EngineInv,
          TypeOK, TargetType, EventType, EngineType
    <3> QED
      BY <3>1, <3>2, <3>3, <3>4, <3>5, <3>6 DEF ThreadInv
  <2> QED
    BY <2>1, <2>2, <2>3 DEF IInv
<1>12. CASE AcquireGone
  <2>1. TypeOK'
    BY <1>12, <1>type, <1>engine
    DEF AcquireGone, GoneCompletes, Gone, Completed, Return, EngineInv, TypeOK, TargetType,
        EventType, EngineType
  <2>2. EngineInv'
    BY <1>12, <1>type, <1>engine, <1>inv
    DEF AcquireGone, GoneCompletes, Gone, Completed, Return, EngineInv, TypeOK, TargetType,
        EventType, EngineType, ThreadInv
  <2>3. ASSUME NEW u \in Threads PROVE ThreadInv (u)'
    <3>1. Once (u)'
      BY <1>12, <1>type, <1>inv, <1>held, <1>cur
      DEF AcquireGone, GoneCompletes, Gone, Completed, Return, ThreadInv, Once, Handled, Stops,
          Exits, TypeOK, TargetType, EventType, EngineType
    <3>2. Quiet (u)'
      BY <1>12, <1>type, <1>inv, <1>held, <1>cur, <1>engine
      DEF AcquireGone, GoneCompletes, Gone, Completed, Return, ThreadInv, Quiet, Handled, Stops,
          Exits, Once, EngineInv, TypeOK, TargetType, EventType, EngineType
    <3>3. Lock (u)'
      BY <1>12, <1>type, <1>inv, <1>held, <1>cur, <1>engine
      DEF AcquireGone, GoneCompletes, Gone, Completed, Return, ThreadInv, Lock, Stops, Exits,
          EngineInv, TypeOK, TargetType, EventType, EngineType
    <3>4. Exit (u)'
      BY <1>12, <1>type, <1>inv, <1>held, <1>cur
      DEF AcquireGone, GoneCompletes, Gone, Completed, Return, ThreadInv, Exit, Stops, Exits,
          TypeOK, TargetType, EventType, EngineType
    <3>5. Operation (u)'
      BY <1>12, <1>type, <1>inv, <1>held, <1>cur, <1>engine
      DEF AcquireGone, GoneCompletes, Gone, Completed, Return, ThreadInv, Operation, Stops,
          Exits, Once, Handled, EngineInv, TypeOK, TargetType, EventType, EngineType, Quiet
    <3>6. Over (u)'
      BY <1>12, <1>type, <1>inv, <1>held, <1>cur
      DEF AcquireGone, GoneCompletes, Gone, Completed, Return, ThreadInv, Over, StepsOver,
          Stops, Exits, TypeOK, TargetType, EventType, EngineType
    <3> QED
      BY <3>1, <3>2, <3>3, <3>4, <3>5, <3>6 DEF ThreadInv
  <2> QED
    BY <2>1, <2>2, <2>3 DEF IInv
<1>13. CASE TakeEvent
  <2>1. TypeOK'
    BY <1>13, <1>type, <1>engine
    DEF TakeEvent, EngineInv, TypeOK, TargetType, EventType, EngineType
  <2>2. EngineInv'
    BY <1>13, <1>type, <1>engine, <1>inv
    DEF TakeEvent, EngineInv, TypeOK, TargetType, EventType, EngineType, ThreadInv
  <2>3. ASSUME NEW u \in Threads PROVE ThreadInv (u)'
    <3>1. Lock (u)' /\ Operation (u)'
      BY <1>13, <1>inv DEF TakeEvent, ThreadInv, Lock, Operation
    <3>2. Once (u)'
      BY <1>13, <1>type, <1>inv, <1>held, <1>cur
      DEF TakeEvent, ThreadInv, Once, Handled, Stops, Exits, TypeOK, TargetType, EventType,
          EngineType
    <3>3. Quiet (u)'
      BY <1>13, <1>type, <1>inv, <1>held, <1>cur
      DEF TakeEvent, ThreadInv, Quiet, Handled, Stops, Exits, TypeOK, TargetType, EventType,
          EngineType
    <3>4. Exit (u)'
      BY <1>13, <1>type, <1>inv, <1>held, <1>cur
      DEF TakeEvent, ThreadInv, Exit, Stops, Exits, TypeOK, TargetType, EventType, EngineType
    <3>5. Over (u)'
      BY <1>13, <1>type, <1>inv, <1>held, <1>cur
      DEF TakeEvent, ThreadInv, Over, StepsOver, Stops, Exits, TypeOK, TargetType, EventType,
          EngineType
    <3> QED
      BY <3>1, <3>2, <3>3, <3>4, <3>5 DEF ThreadInv
  <2> QED
    BY <2>1, <2>2, <2>3 DEF IInv
<1>14. CASE HandleLocked
  <2>1. TypeOK'
    BY <1>14, <1>type, <1>engine
    DEF HandleLocked, Return, EngineInv, TypeOK, TargetType, EventType, EngineType
  <2>2. EngineInv'
    BY <1>14, <1>type, <1>engine, <1>inv
    DEF HandleLocked, Return, EngineInv, TypeOK, TargetType, EventType, EngineType, ThreadInv
  <2>3. ASSUME NEW u \in Threads PROVE ThreadInv (u)'
    <3>1. Operation (u)'
      BY <1>14, <1>inv DEF HandleLocked, Return, ThreadInv, Operation
    <3>2. Once (u)'
      BY <1>14, <1>type, <1>inv, <1>held, <1>cur
      DEF HandleLocked, Return, ThreadInv, Once, Handled, Stops, Exits, TypeOK, TargetType,
          EventType, EngineType
    <3>3. Quiet (u)'
      BY <1>14, <1>type, <1>inv, <1>held, <1>cur
      DEF HandleLocked, Return, ThreadInv, Quiet, Handled, Stops, Exits, TypeOK, TargetType,
          EventType, EngineType
    <3>4. Lock (u)'
      BY <1>14, <1>type, <1>inv, <1>held, <1>cur, <1>engine
      DEF HandleLocked, Return, ThreadInv, Lock, Stops, Exits, Once, Handled, EngineInv, TypeOK,
          TargetType, EventType, EngineType
    <3>5. Exit (u)'
      BY <1>14, <1>type, <1>inv, <1>held, <1>cur
      DEF HandleLocked, Return, ThreadInv, Exit, Stops, Exits, TypeOK, TargetType, EventType,
          EngineType
    <3>6. Over (u)'
      BY <1>14, <1>type, <1>inv, <1>held, <1>cur
      DEF HandleLocked, Return, ThreadInv, Over, StepsOver, Stops, Exits, TypeOK, TargetType,
          EventType, EngineType
    <3> QED
      BY <3>1, <3>2, <3>3, <3>4, <3>5, <3>6 DEF ThreadInv
  <2> QED
    BY <2>1, <2>2, <2>3 DEF IInv
<1>15. CASE HandleExit
  <2>1. TypeOK'
    BY <1>15, <1>type, <1>engine
    DEF HandleExit, Handling, Completed, Return, EngineInv, TypeOK, TargetType, EventType,
        EngineType
  <2>2. EngineInv'
    BY <1>15, <1>type, <1>engine, <1>inv
    DEF HandleExit, Handling, Completed, Return, EngineInv, TypeOK, TargetType, EventType,
        EngineType, ThreadInv
  <2>3. ASSUME NEW u \in Threads PROVE ThreadInv (u)'
    <3>1. Once (u)'
      BY <1>15, <1>type, <1>inv, <1>held, <1>cur
      DEF HandleExit, Handling, Completed, Return, ThreadInv, Once, Handled, Stops, Exits,
          TypeOK, TargetType, EventType, EngineType
    <3>2. Quiet (u)'
      BY <1>15, <1>type, <1>inv, <1>held, <1>cur, <1>engine
      DEF HandleExit, Handling, Completed, Return, ThreadInv, Quiet, Handled, Stops, Exits,
          EngineInv, TypeOK, TargetType, EventType, EngineType
    <3>3. Lock (u)'
      BY <1>15, <1>type, <1>inv, <1>held, <1>cur
      DEF HandleExit, Handling, Completed, Return, ThreadInv, Lock, Stops, Exits, TypeOK,
          TargetType, EventType, EngineType
    <3>4. Exit (u)'
      BY <1>15, <1>type, <1>inv, <1>held, <1>cur, <1>engine
      DEF HandleExit, Handling, Completed, Return, ThreadInv, Exit, Stops, Exits, EngineInv,
          TypeOK, TargetType, EventType, EngineType
    <3>5. Operation (u)'
      BY <1>15, <1>type, <1>inv, <1>held, <1>cur, <1>engine
      DEF HandleExit, Handling, Completed, Return, ThreadInv, Operation, Stops, Exits,
          EngineInv, TypeOK, TargetType, EventType, EngineType
    <3>6. Over (u)'
      BY <1>15, <1>type, <1>inv, <1>held, <1>cur, <1>engine
      DEF HandleExit, Handling, Completed, Return, ThreadInv, Over, StepsOver, Stops, Exits,
          EngineInv, TypeOK, TargetType, EventType, EngineType
    <3> QED
      BY <3>1, <3>2, <3>3, <3>4, <3>5, <3>6 DEF ThreadInv
  <2> QED
    BY <2>1, <2>2, <2>3 DEF IInv
<1>16. CASE HandleStop
  <2>1. TypeOK'
    BY <1>16, <1>type, <1>engine
    DEF HandleStop, Handling, Completed, Return, EngineInv, TypeOK, TargetType, EventType,
        EngineType
  <2>2. EngineInv'
    BY <1>16, <1>type, <1>engine, <1>inv
    DEF HandleStop, Handling, Completed, Return, EngineInv, TypeOK, TargetType, EventType,
        EngineType, ThreadInv
  <2>3. ASSUME NEW u \in Threads PROVE ThreadInv (u)'
    <3>1. Once (u)'
      BY <1>16, <1>type, <1>inv, <1>held, <1>cur
      DEF HandleStop, Handling, Completed, Return, ThreadInv, Once, Handled, Stops, Exits,
          TypeOK, TargetType, EventType, EngineType
    <3>2. Quiet (u)'
      BY <1>16, <1>type, <1>inv, <1>held, <1>cur, <1>engine
      DEF HandleStop, Handling, Completed, Return, ThreadInv, Quiet, Handled, Stops, Exits,
          Once, EngineInv, TypeOK, TargetType, EventType, EngineType
    <3>3. Lock (u)'
      BY <1>16, <1>type, <1>inv, <1>held, <1>cur, <1>engine
      DEF HandleStop, Handling, Completed, Return, ThreadInv, Lock, Stops, Exits, EngineInv,
          TypeOK, TargetType, EventType, EngineType
    <3>4. Exit (u)'
      BY <1>16, <1>type, <1>inv, <1>held, <1>cur
      DEF HandleStop, Handling, Completed, Return, ThreadInv, Exit, Stops, Exits, TypeOK,
          TargetType, EventType, EngineType
    <3>5. Operation (u)'
      BY <1>16, <1>type, <1>inv, <1>held, <1>cur, <1>engine
      DEF HandleStop, Handling, Completed, Return, ThreadInv, Operation, Stops, Exits, Once,
          Handled, EngineInv, TypeOK, TargetType, EventType, EngineType, Quiet
    <3>6. Over (u)'
      BY <1>16, <1>type, <1>inv, <1>held, <1>cur
      DEF HandleStop, Handling, Completed, Return, ThreadInv, Over, StepsOver, Stops, Exits,
          TypeOK, TargetType, EventType, EngineType
    <3> QED
      BY <3>1, <3>2, <3>3, <3>4, <3>5, <3>6 DEF ThreadInv
  <2> QED
    BY <2>1, <2>2, <2>3 DEF IInv
<1>17. CASE HandleIgnored
  <2>1. TypeOK'
    <3>1. TargetType'
      <4>1. UNCHANGED <<kstate, stepping>> \/ \E single \in BOOLEAN : Run (cur.t, single)
        BY <1>17, <1>type
        DEF HandleIgnored, Handling, ResumeOperation, Resume, RecursiveLock, GoneAbandons, Gone,
            TypeOK, TargetType
      <4>2. UNCHANGED <<sigstop, at>>
        BY <1>17
        DEF HandleIgnored, Handling, ResumeOperation, Resume, RecursiveLock, GoneAbandons, Gone,
            Run, Completed, Return
      <4> QED
        BY <4>1, <4>2, <1>type, <1>cur, RunType, <1>17
        DEF TypeOK, TargetType, HandleIgnored, Handling
    <3>2. EventType'
      BY <1>17, <1>type, <1>engine, <1>cur
      DEF HandleIgnored, Handling, ResumeOperation, Resume, RecursiveLock, GoneAbandons, Gone,
          Run, Completed, Return, EngineInv, TypeOK, EventType, Event, Stops
    <3>3. EngineType'
      <4>1. UNCHANGED <<engine_stopped, op, over>> \/ Completed (cur.t)
        BY <1>17
        DEF HandleIgnored, Handling, ResumeOperation, Resume, RecursiveLock, GoneAbandons, Gone
      <4>2. todo' \subseteq Threads
        BY <1>17, <1>type
        DEF HandleIgnored, Handling, ResumeOperation, Resume, RecursiveLock, GoneAbandons, Gone,
            Run, Completed, Return, TypeOK, EngineType
      <4>3. epc' \in {"idle", "handle", "acquire", "spin", "check", "pending"}
        BY <1>17, <1>type
        DEF HandleIgnored, Handling, ResumeOperation, Resume, RecursiveLock, GoneAbandons, Gone,
            Run, Completed, Return, TypeOK, EngineType
      <4> QED
        BY <1>17, <4>1, <4>2, <4>3, <1>type, <1>cur, CompletedType
        DEF HandleIgnored, Handling, ResumeOperation, Resume, RecursiveLock, GoneAbandons, Gone,
            TypeOK, EngineType
    <3> QED
      BY <3>1, <3>2, <3>3 DEF TypeOK
  <2>2. EngineInv'
    <3>1. epc' = "handle" => cur' \in Event
      BY <1>17, <1>type, <1>engine
      DEF HandleIgnored, Handling, ResumeOperation, Resume, RecursiveLock, GoneAbandons, Gone,
          Run, Completed, Return, EngineInv, TypeOK, EngineType
    <3>2. epc' = "acquire" => /\ has_thread_lock' /\ cur'.t \in thread_hash'
                             /\ todo' \subseteq thread_hash' \ {cur'.t}
      BY <1>17, <1>type, <1>engine, <1>inv, <1>cur
      DEF HandleIgnored, Handling, ResumeOperation, Resume, RecursiveLock, GoneAbandons, Gone,
          Run, Completed, Return, EngineInv, ThreadInv, Exit, TypeOK, EngineType
    <3>3. (\A t \in plist : pending_events[t] # "none")'
      BY <1>17, <1>type, <1>engine
      DEF HandleIgnored, Handling, ResumeOperation, Resume, RecursiveLock, GoneAbandons, Gone,
          Run, Completed, Return, EngineInv, TypeOK, EventType, EngineType
    <3> QED
      BY <3>1, <3>2, <3>3 DEF EngineInv
  <2>3. ASSUME NEW u \in Threads PROVE ThreadInv (u)'
    <3>1. Once (u)'
      BY <1>17, <1>type, <1>inv, <1>held, <1>cur, <1>engine
      DEF HandleIgnored, Handling, ResumeOperation, Resume, RecursiveLock, GoneAbandons, Gone,
          Run, Completed, Return, ThreadInv, Once, Handled, Stops, Exits, EngineInv, Exit,
          TypeOK, TargetType, EventType, EngineType
    <3>2. Quiet (u)'
      BY <1>17, <1>type, <1>inv, <1>held, <1>cur, <1>engine
      DEF HandleIgnored, Handling, ResumeOperation, Resume, RecursiveLock, GoneAbandons, Gone,
          Run, Completed, Return, ThreadInv, Quiet, Handled, Stops, Exits, Once, EngineInv,
          TypeOK, TargetType, EventType, EngineType
    <3>3. Lock (u)'
      BY <1>17, <1>type, <1>inv, <1>held, <1>cur, <1>engine
      DEF HandleIgnored, Handling, ResumeOperation, Resume, RecursiveLock, GoneAbandons, Gone,
          Run, Completed, Return, ThreadInv, Lock, Stops, Exits, Once, Handled, EngineInv,
          TypeOK, TargetType, EventType, EngineType
    <3>4. Exit (u)'
      BY <1>17, <1>type, <1>inv, <1>held, <1>cur, <1>engine
      DEF HandleIgnored, Handling, ResumeOperation, Resume, RecursiveLock, GoneAbandons, Gone,
          Run, Completed, Return, ThreadInv, Exit, Stops, Exits, EngineInv, TypeOK, TargetType,
          EventType, EngineType
    <3>5. Operation (u)'
      BY <1>17, <1>type, <1>inv, <1>held, <1>cur, <1>engine
      DEF HandleIgnored, Handling, ResumeOperation, Resume, RecursiveLock, GoneAbandons, Gone,
          Run, Completed, Return, ThreadInv, Operation, Stops, Exits, Once, Handled, EngineInv,
          TypeOK, TargetType, EventType, EngineType, Quiet
    <3>6. Over (u)'
      BY <1>17, <1>type, <1>inv, <1>held, <1>cur
      DEF HandleIgnored, Handling, ResumeOperation, Resume, RecursiveLock, GoneAbandons, Gone,
          Run, Completed, Return, ThreadInv, Over, StepsOver, Stops, Exits, TypeOK, TargetType,
          EventType, EngineType
    <3> QED
      BY <3>1, <3>2, <3>3, <3>4, <3>5, <3>6 DEF ThreadInv
  <2> QED
    BY <2>1, <2>2, <2>3 DEF IInv
<1>18. CASE HandleBreakpoint
  <2>1. TypeOK'
    <3>1. TargetType'
      <4>1. UNCHANGED <<kstate, stepping>> \/ \E single \in BOOLEAN : Run (cur.t, single)
        BY <1>18, <1>type
        DEF HandleBreakpoint, Handling, Resume, RecursiveLock, GoneAbandons, Gone, TypeOK,
            TargetType
      <4>2. UNCHANGED <<sigstop, at>>
        BY <1>18
        DEF HandleBreakpoint, Handling, Resume, RecursiveLock, GoneAbandons, Gone, Run,
            Completed, Return
      <4> QED
        BY <4>1, <4>2, <1>type, <1>cur, RunType, <1>18
        DEF TypeOK, TargetType, HandleBreakpoint, Handling
    <3>2. EventType'
      BY <1>18, <1>type, <1>engine, <1>cur, HitFacts
      DEF HandleBreakpoint, Handling, Resume, RecursiveLock, GoneAbandons, Gone, Run, Completed,
          Return, EngineInv, TypeOK, EventType
    <3>3. EngineType'
      <4>1. UNCHANGED <<engine_stopped, op, over>> \/ Completed (cur.t)
        BY <1>18 DEF HandleBreakpoint, Handling, Resume, RecursiveLock, GoneAbandons, Gone
      <4>2. todo' \subseteq Threads
        BY <1>18, <1>type
        DEF HandleBreakpoint, Handling, Resume, RecursiveLock, GoneAbandons, Gone, Run,
            Completed, Return, TypeOK, EngineType
      <4>3. epc' \in {"idle", "handle", "acquire", "spin", "check", "pending"}
        BY <1>18, <1>type
        DEF HandleBreakpoint, Handling, Resume, RecursiveLock, GoneAbandons, Gone, Run,
            Completed, Return, TypeOK, EngineType
      <4> QED
        BY <1>18, <4>1, <4>2, <4>3, <1>type, <1>cur, CompletedType
        DEF HandleBreakpoint, Handling, Resume, RecursiveLock, GoneAbandons, Gone, TypeOK,
            EngineType
    <3> QED
      BY <3>1, <3>2, <3>3 DEF TypeOK
  <2>2. EngineInv'
    <3>1. epc' = "handle" => cur' \in Event
      BY <1>18, <1>type, <1>engine, HitFacts
      DEF HandleBreakpoint, Handling, Resume, RecursiveLock, GoneAbandons, Gone, Run, Completed,
          Return, EngineInv, TypeOK, EngineType
    <3>2. epc' = "acquire" => /\ has_thread_lock' /\ cur'.t \in thread_hash'
                             /\ todo' \subseteq thread_hash' \ {cur'.t}
      BY <1>18, <1>type, <1>engine, <1>inv, <1>cur
      DEF HandleBreakpoint, Handling, Resume, RecursiveLock, GoneAbandons, Gone, Run, Completed,
          Return, EngineInv, ThreadInv, Exit, TypeOK, EngineType
    <3>3. (\A t \in plist : pending_events[t] # "none")'
      BY <1>18, <1>type, <1>engine
      DEF HandleBreakpoint, Handling, Resume, RecursiveLock, GoneAbandons, Gone, Run, Completed,
          Return, EngineInv, TypeOK, EventType, EngineType
    <3> QED
      BY <3>1, <3>2, <3>3 DEF EngineInv
  <2>3. ASSUME NEW u \in Threads PROVE ThreadInv (u)'
    <3>1. Once (u)'
      <4>1. cur'.t = cur.t /\ cur'.w \in Stops
        BY <1>18, <1>engine, BreakpointCur
      <4> QED
        BY <1>18, <4>1, <1>type, <1>inv, <1>held, <1>cur
        DEF HandleBreakpoint, Handling, Resume, RecursiveLock, GoneAbandons, Gone, Run,
            Completed, Return, ThreadInv, Once, Handled, Quiet, Exit, Stops, Exits, TypeOK,
            TargetType, EventType, EngineType
    <3>2. Quiet (u)'
      <4>1. cur'.t = cur.t /\ cur'.w \in Stops
        BY <1>18, <1>engine, BreakpointCur
      <4> QED
        BY <1>18, <4>1, <1>type, <1>inv, <1>held, <1>cur
        DEF HandleBreakpoint, Handling, Resume, RecursiveLock, GoneAbandons, Gone, Run,
            Completed, Return, ThreadInv, Once, Handled, Quiet, Exit, Stops, Exits, TypeOK,
            TargetType, EventType, EngineType
    <3>3. Lock (u)'
      BY <1>18, <1>type, <1>inv, <1>held, <1>cur, <1>engine
      DEF HandleBreakpoint, Handling, Resume, RecursiveLock, GoneAbandons, Gone, Run, Completed,
          Return, ThreadInv, Lock, Stops, Exits, Once, Handled, EngineInv, TypeOK, TargetType,
          EventType, EngineType
    <3>4. Exit (u)'
      <4>1. cur'.t = cur.t /\ cur'.w \in Stops
        BY <1>18, <1>engine, BreakpointCur
      <4> QED
        BY <1>18, <4>1, <1>type, <1>inv, <1>held, <1>cur
        DEF HandleBreakpoint, Handling, Resume, RecursiveLock, GoneAbandons, Gone, Run,
            Completed, Return, ThreadInv, Once, Handled, Quiet, Exit, Stops, Exits, TypeOK,
            TargetType, EventType, EngineType
    <3>5. Operation (u)'
      BY <1>18, <1>type, <1>inv, <1>held, <1>cur, <1>engine
      DEF HandleBreakpoint, Handling, Resume, RecursiveLock, GoneAbandons, Gone, Run, Completed,
          Return, ThreadInv, Operation, Stops, Exits, Once, Handled, EngineInv, TypeOK,
          TargetType, EventType, EngineType, Quiet
    <3>6. Over (u)'
      BY <1>18, <1>type, <1>inv, <1>held, <1>cur
      DEF HandleBreakpoint, Handling, Resume, RecursiveLock, GoneAbandons, Gone, Run, Completed,
          Return, ThreadInv, Over, StepsOver, Stops, Exits, TypeOK, TargetType, EventType,
          EngineType
    <3> QED
      BY <3>1, <3>2, <3>3, <3>4, <3>5, <3>6 DEF ThreadInv
  <2> QED
    BY <2>1, <2>2, <2>3 DEF IInv
<1>19. CASE HandleStep
  <2>1. TypeOK'
    <3>1. TargetType'
      <4>1. UNCHANGED <<kstate, stepping>> \/ \E single \in BOOLEAN : Run (cur.t, single)
        BY <1>19, <1>type
        DEF HandleStep, Handling, ResumeOperation, LeftStepFrame, Resume, RecursiveLock,
            GoneCompletes, Gone, TypeOK, TargetType
      <4>2. UNCHANGED <<sigstop, at>>
        BY <1>19
        DEF HandleStep, Handling, ResumeOperation, LeftStepFrame, Resume, RecursiveLock,
            GoneCompletes, Gone, Run, Completed, Return
      <4> QED
        BY <4>1, <4>2, <1>type, <1>cur, RunType, <1>19
        DEF TypeOK, TargetType, HandleStep, Handling
    <3>2. EventType'
      BY <1>19, <1>type, <1>engine, <1>cur
      DEF HandleStep, Handling, ResumeOperation, LeftStepFrame, Resume, RecursiveLock,
          GoneCompletes, Gone, Run, Completed, Return, EngineInv, TypeOK, EventType, Event,
          Stops
    <3>3. EngineType'
      <4>1. UNCHANGED <<engine_stopped, op, over>> \/ Completed (cur.t)
        BY <1>19
        DEF HandleStep, Handling, ResumeOperation, LeftStepFrame, Resume, RecursiveLock,
            GoneCompletes, Gone
      <4>2. todo' \subseteq Threads
        BY <1>19, <1>type
        DEF HandleStep, Handling, ResumeOperation, LeftStepFrame, Resume, RecursiveLock,
            GoneCompletes, Gone, Run, Completed, Return, TypeOK, EngineType
      <4>3. epc' \in {"idle", "handle", "acquire", "spin", "check", "pending"}
        BY <1>19, <1>type
        DEF HandleStep, Handling, ResumeOperation, LeftStepFrame, Resume, RecursiveLock,
            GoneCompletes, Gone, Run, Completed, Return, TypeOK, EngineType
      <4> QED
        BY <1>19, <4>1, <4>2, <4>3, <1>type, <1>cur, CompletedType
        DEF HandleStep, Handling, ResumeOperation, LeftStepFrame, Resume, RecursiveLock,
            GoneCompletes, Gone, TypeOK, EngineType
    <3> QED
      BY <3>1, <3>2, <3>3 DEF TypeOK
  <2>2. EngineInv'
    <3>1. epc' = "handle" => cur' \in Event
      BY <1>19, <1>type, <1>engine
      DEF HandleStep, Handling, ResumeOperation, LeftStepFrame, Resume, RecursiveLock,
          GoneCompletes, Gone, Run, Completed, Return, EngineInv, TypeOK, EngineType
    <3>2. epc' = "acquire" => /\ has_thread_lock' /\ cur'.t \in thread_hash'
                             /\ todo' \subseteq thread_hash' \ {cur'.t}
      BY <1>19, <1>type, <1>engine, <1>inv, <1>cur
      DEF HandleStep, Handling, ResumeOperation, LeftStepFrame, Resume, RecursiveLock,
          GoneCompletes, Gone, Run, Completed, Return, EngineInv, ThreadInv, Exit, TypeOK,
          EngineType
    <3>3. (\A t \in plist : pending_events[t] # "none")'
      BY <1>19, <1>type, <1>engine
      DEF HandleStep, Handling, ResumeOperation, LeftStepFrame, Resume, RecursiveLock,
          GoneCompletes, Gone, Run, Completed, Return, EngineInv, TypeOK, EventType, EngineType
    <3> QED
      BY <3>1, <3>2, <3>3 DEF EngineInv
  <2>3. ASSUME NEW u \in Threads PROVE ThreadInv (u)'
    <3>1. Once (u)'
      BY <1>19, <1>type, <1>inv, <1>held, <1>cur, <1>engine
      DEF HandleStep, Handling, ResumeOperation, LeftStepFrame, Resume, RecursiveLock,
          GoneCompletes, Gone, Run, Completed, Return, ThreadInv, Once, Handled, Stops, Exits,
          EngineInv, Exit, TypeOK, TargetType, EventType, EngineType
    <3>2. Quiet (u)'
      BY <1>19, <1>type, <1>inv, <1>held, <1>cur, <1>engine
      DEF HandleStep, Handling, ResumeOperation, LeftStepFrame, Resume, RecursiveLock,
          GoneCompletes, Gone, Run, Completed, Return, ThreadInv, Quiet, Handled, Stops, Exits,
          Once, EngineInv, TypeOK, TargetType, EventType, EngineType
    <3>3. Lock (u)'
      BY <1>19, <1>type, <1>inv, <1>held, <1>cur, <1>engine
      DEF HandleStep, Handling, ResumeOperation, LeftStepFrame, Resume, RecursiveLock,
          GoneCompletes, Gone, Run, Completed, Return, ThreadInv, Lock, Stops, Exits, Once,
          Handled, EngineInv, TypeOK, TargetType, EventType, EngineType
    <3>4. Exit (u)'
      BY <1>19, <1>type, <1>inv, <1>held, <1>cur, <1>engine
      DEF HandleStep, Handling, ResumeOperation, LeftStepFrame, Resume, RecursiveLock,
          GoneCompletes, Gone, Run, Completed, Return, ThreadInv, Exit, Stops, Exits, EngineInv,
          TypeOK, TargetType, EventType, EngineType
    <3>5. Operation (u)'
      BY <1>19, <1>type, <1>inv, <1>held, <1>cur, <1>engine
      DEF HandleStep, Handling, ResumeOperation, LeftStepFrame, Resume, RecursiveLock,
          GoneCompletes, Gone, Run, Completed, Return, ThreadInv, Operation, Stops, Exits, Once,
          Handled, EngineInv, TypeOK, TargetType, EventType, EngineType, Quiet
    <3>6. Over (u)'
      BY <1>19, <1>type, <1>inv, <1>held, <1>cur
      DEF HandleStep, Handling, ResumeOperation, LeftStepFrame, Resume, RecursiveLock,
          GoneCompletes, Gone, Run, Completed, Return, ThreadInv, Over, StepsOver, Stops, Exits,
          TypeOK, TargetType, EventType, EngineType
    <3> QED
      BY <3>1, <3>2, <3>3, <3>4, <3>5, <3>6 DEF ThreadInv
  <2> QED
    BY <2>1, <2>2, <2>3 DEF IInv
<1>20. CASE Release
  <2>1. TypeOK'
    <3>1. TargetType'
      BY <1>20, <1>type
      DEF Release, Handling, ReleaseThreads, LockedThreads, Poppable, TypeOK, TargetType
    <3>2. EventType'
      <4>1. pushed_regs' \in [Threads -> BOOLEAN]
        BY <1>20, <1>type
        DEF Release, Handling, ReleaseThreads, LockedThreads, Poppable, TypeOK, EventType
      <4>2. thread_lock' \in [Threads -> Words \cup {"free", "none"}]
        BY <1>20, <1>type
        DEF Release, Handling, ReleaseThreads, LockedThreads, Poppable, TypeOK, EventType
      <4>3. pending_events' \in [Threads -> Words \cup {"none"}]
        BY <1>20, <1>type, <1>inv
        DEF Release, Handling, ReleaseThreads, LockedThreads, Poppable, TypeOK, EventType,
            ThreadInv, Lock, Stops
      <4>4. word' \in [Threads -> Words \cup {"none"}]
        BY <1>20, <1>type
        DEF Release, Handling, ReleaseThreads, LockedThreads, Poppable, TypeOK, EventType,
            Exits
      <4> QED
        BY <1>20, <4>1, <4>2, <4>3, <4>4, <1>type DEF Release, TypeOK, EventType
    <3>3. EngineType'
      <4>1. enabled' \subseteq Breakpoints
        BY <1>20, <1>type, <1>cur
        DEF Release, Handling, ReleaseThreads, LockedThreads, Poppable, StepsOver, TypeOK,
            EngineType
      <4>2. engine_stopped' \in [Threads -> BOOLEAN]
        BY <1>20, <1>type
        DEF Release, Handling, ReleaseThreads, LockedThreads, Poppable, TypeOK, EngineType
      <4>3. over' \in [Threads -> Breakpoints \cup {NoBreakpoint}] /\ op' \in [Threads -> {"none", "run", "step"}]
        BY <1>20, <1>type
        DEF Release, Handling, ReleaseThreads, LockedThreads, Poppable, TypeOK, EngineType
      <4> QED
        BY <1>20, <4>1, <4>2, <4>3, <1>type
        DEF Release, Handling, ReleaseThreads, LockedThreads, Poppable, TypeOK, EngineType
    <3> QED
      BY <3>1, <3>2, <3>3 DEF TypeOK
  <2>2. EngineInv'
    <3>1. epc' = "handle" => cur' \in Event
      BY <1>20, <1>type, <1>engine
      DEF Release, Handling, ReleaseThreads, LockedThreads, Poppable, EngineInv, TypeOK,
          EngineType
    <3>2. epc' = "acquire" => /\ has_thread_lock' /\ cur'.t \in thread_hash'
                             /\ todo' \subseteq thread_hash' \ {cur'.t}
      BY <1>20, <1>type, <1>engine, <1>inv, <1>cur
      DEF Release, Handling, ReleaseThreads, LockedThreads, Poppable, EngineInv, ThreadInv,
          Exit, TypeOK, EngineType
    <3>3. (\A t \in plist : pending_events[t] # "none")'
      BY <1>20, <1>type, <1>engine, <1>inv
      DEF Release, Handling, ReleaseThreads, LockedThreads, Poppable, EngineInv, ThreadInv,
          Lock, Stops, TypeOK, EventType, EngineType
    <3> QED
      BY <3>1, <3>2, <3>3 DEF EngineInv
  <2>3. ASSUME NEW u \in Threads PROVE ThreadInv (u)'
    <3>1. Exit (u)'
      BY <1>20, <1>inv
      DEF Release, Handling, ReleaseThreads, LockedThreads, Poppable, ThreadInv, Exit
    <3>2. Once (u)'
      BY <1>20, <1>type, <1>inv, <1>held, <1>cur
      DEF Release, Handling, ReleaseThreads, LockedThreads, Poppable, ThreadInv, Once, Handled,
          Stops, Exits, Lock, TypeOK, TargetType, EventType, EngineType
    <3>3. Quiet (u)'
      BY <1>20, <1>type, <1>inv, <1>held, <1>cur, <1>engine
      DEF Release, Handling, ReleaseThreads, LockedThreads, Poppable, ThreadInv, Quiet, Handled,
          Stops, Exits, EngineInv, Once, TypeOK, TargetType, EventType, EngineType, Lock, Operation
    <3>4. Lock (u)'
      BY <1>20, <1>type, <1>inv, <1>held, <1>cur, <1>engine
      DEF Release, Handling, ReleaseThreads, LockedThreads, Poppable, ThreadInv, Lock, Stops,
          Exits, EngineInv, TypeOK, TargetType, EventType, EngineType
    <3>5. Operation (u)'
      BY <1>20, <1>type, <1>inv, <1>held, <1>cur
      DEF Release, Handling, ReleaseThreads, LockedThreads, Poppable, ThreadInv, Operation,
          Stops, Exits, TypeOK, TargetType, EventType, EngineType
    <3>6. Over (u)'
      BY <1>20, <1>type, <1>inv, <1>held, <1>cur, <1>engine
      DEF Release, Handling, ReleaseThreads, LockedThreads, Poppable, ThreadInv, Over,
          StepsOver, Stops, Exits, EngineInv, TypeOK, TargetType, EventType, EngineType
    <3> QED
      BY <3>1, <3>2, <3>3, <3>4, <3>5, <3>6 DEF ThreadInv
  <2> QED
    BY <2>1, <2>2, <2>3 DEF IInv
<1>21. CASE ReleaseFails
  <2>1. TypeOK'
    <3>1. TargetType'
      BY <1>21, <1>type
      DEF ReleaseFails, Handling, ReleaseThreads, LockedThreads, Poppable, AllDie, TypeOK,
          TargetType
    <3>2. EventType'
      <4>1. pushed_regs' \in [Threads -> BOOLEAN]
        BY <1>21, <1>type
        DEF ReleaseFails, Handling, ReleaseThreads, LockedThreads, Poppable, AllDie, TypeOK,
            EventType
      <4>2. thread_lock' \in [Threads -> Words \cup {"free", "none"}]
        BY <1>21, <1>type
        DEF ReleaseFails, Handling, ReleaseThreads, LockedThreads, Poppable, AllDie, TypeOK,
            EventType
      <4>3. pending_events' \in [Threads -> Words \cup {"none"}]
        BY <1>21, <1>type, <1>inv
        DEF ReleaseFails, Handling, ReleaseThreads, LockedThreads, Poppable, AllDie, TypeOK,
            EventType, ThreadInv, Lock, Stops
      <4>4. word' \in [Threads -> Words \cup {"none"}]
        BY <1>21, <1>type
        DEF ReleaseFails, Handling, ReleaseThreads, LockedThreads, Poppable, AllDie, TypeOK,
            EventType, Exits
      <4> QED
        BY <1>21, <4>1, <4>2, <4>3, <4>4, <1>type DEF ReleaseFails, TypeOK, EventType
    <3>3. EngineType'
      <4>1. enabled' \subseteq Breakpoints
        BY <1>21, <1>type, <1>cur
        DEF ReleaseFails, Handling, ReleaseThreads, LockedThreads, Poppable, AllDie, StepsOver,
            TypeOK, EngineType
      <4>2. engine_stopped' \in [Threads -> BOOLEAN]
        BY <1>21, <1>type
        DEF ReleaseFails, Handling, ReleaseThreads, LockedThreads, Poppable, AllDie, TypeOK,
            EngineType
      <4>3. over' \in [Threads -> Breakpoints \cup {NoBreakpoint}] /\ op' \in [Threads -> {"none", "run", "step"}]
        BY <1>21, <1>type
        DEF ReleaseFails, Handling, ReleaseThreads, LockedThreads, Poppable, AllDie, TypeOK,
            EngineType
      <4> QED
        BY <1>21, <4>1, <4>2, <4>3, <1>type
        DEF ReleaseFails, Handling, ReleaseThreads, LockedThreads, Poppable, AllDie, Return,
            TypeOK, EngineType
    <3> QED
      BY <3>1, <3>2, <3>3 DEF TypeOK
  <2>2. EngineInv'
    <3>1. epc' = "handle" => cur' \in Event
      BY <1>21, <1>type, <1>engine
      DEF ReleaseFails, Handling, ReleaseThreads, LockedThreads, Poppable, AllDie, Return,
          EngineInv, TypeOK, EngineType
    <3>2. epc' = "acquire" => /\ has_thread_lock' /\ cur'.t \in thread_hash'
                             /\ todo' \subseteq thread_hash' \ {cur'.t}
      BY <1>21, <1>type, <1>engine, <1>inv, <1>cur
      DEF ReleaseFails, Handling, ReleaseThreads, LockedThreads, Poppable, AllDie, Return,
          EngineInv, ThreadInv, Exit, TypeOK, EngineType
    <3>3. (\A t \in plist : pending_events[t] # "none")'
      BY <1>21, <1>type, <1>engine, <1>inv
      DEF ReleaseFails, Handling, ReleaseThreads, LockedThreads, Poppable, AllDie, Return,
          EngineInv, ThreadInv, Lock, Stops, TypeOK, EventType, EngineType
    <3> QED
      BY <3>1, <3>2, <3>3 DEF EngineInv
  <2>3. ASSUME NEW u \in Threads PROVE ThreadInv (u)'
    <3>1. Once (u)'
      BY <1>21, <1>type, <1>inv, <1>held, <1>cur
      DEF ReleaseFails, Handling, ReleaseThreads, LockedThreads, Poppable, AllDie, Return,
          ThreadInv, Once, Handled, Stops, Exits, Lock, TypeOK, TargetType, EventType,
          EngineType
    <3>2. Quiet (u)'
      BY <1>21, <1>type, <1>inv, <1>held, <1>cur, <1>engine
      DEF ReleaseFails, Handling, ReleaseThreads, LockedThreads, Poppable, AllDie, Return,
          ThreadInv, Quiet, Handled, Stops, Exits, EngineInv, Once, TypeOK, TargetType,
          EventType, EngineType, Lock, Operation
    <3>3. Lock (u)'
      BY <1>21, <1>type, <1>inv, <1>held, <1>cur, <1>engine
      DEF ReleaseFails, Handling, ReleaseThreads, LockedThreads, Poppable, AllDie, Return,
          ThreadInv, Lock, Stops, Exits, EngineInv, TypeOK, TargetType, EventType, EngineType
    <3>4. Exit (u)'
      BY <1>21, <1>type, <1>inv, <1>held, <1>cur, <1>engine
      DEF ReleaseFails, Handling, ReleaseThreads, LockedThreads, Poppable, AllDie, Return,
          ThreadInv, Exit, Stops, Exits, EngineInv, TypeOK, TargetType, EventType, EngineType
    <3>5. Operation (u)'
      <4>1. PICK S \in SUBSET {t \in LockedThreads : Poppable (t)} :
                 /\ ReleaseThreads (S)
                 /\ engine_stopped' = [t \in Threads |-> t = cur.t \/ (engine_stopped[t] /\ t \notin S)]
        BY <1>21 DEF ReleaseFails
      <4>2. /\ op' = [op EXCEPT ![cur.t] = "none"] /\ UNCHANGED <<requested, thread_hash>>
            /\ pushed_regs'[u] = (pushed_regs[u] /\ u \notin S)
            /\ engine_stopped'[u] = (u = cur.t \/ (engine_stopped[u] /\ u \notin S))
            /\ u \in S => pushed_regs[u]
        BY <1>21, <4>1 DEF ReleaseFails, ReleaseThreads, Poppable
      <4>3. CASE u = cur.t
        <5>1. Handled (u) /\ Once (u) /\ Quiet (u)
          BY <1>21, <1>inv, <4>3 DEF ReleaseFails, Handling, Handled, ThreadInv
        <5> QED
          BY <4>2, <4>3, <5>1 DEF Once, Quiet, Operation
      <4>4. CASE u # cur.t
        <5>1. Operation (u) /\ op'[u] = op[u]
          BY <1>type, <1>inv, <4>2, <4>4 DEF ThreadInv, TypeOK, EngineType
        <5>2. pushed_regs[u] /\ u \in thread_hash => requested[u] = "none"
          BY <1>inv DEF ThreadInv, Lock, Operation
        <5> QED
          BY <4>2, <4>4, <5>1, <5>2 DEF Operation
      <4> QED
        BY <4>3, <4>4
    <3>6. Over (u)'
      BY <1>21, <1>type, <1>inv, <1>held, <1>cur, <1>engine
      DEF ReleaseFails, Handling, ReleaseThreads, LockedThreads, Poppable, AllDie, Return,
          ThreadInv, Over, StepsOver, Stops, Exits, EngineInv, TypeOK, TargetType, EventType,
          EngineType
    <3> QED
      BY <3>1, <3>2, <3>3, <3>4, <3>5, <3>6 DEF ThreadInv
  <2> QED
    BY <2>1, <2>2, <2>3 DEF IInv
<1>22. CASE ReleaseGone
  <2>1. TypeOK'
    BY <1>22, <1>type, <1>engine
    DEF ReleaseGone, Handling, GoneCompletes, Gone, Completed, Return, EngineInv, TypeOK,
        TargetType, EventType, EngineType
  <2>2. EngineInv'
    BY <1>22, <1>type, <1>engine, <1>inv
    DEF ReleaseGone, Handling, GoneCompletes, Gone, Completed, Return, EngineInv, TypeOK,
        TargetType, EventType, EngineType, ThreadInv
  <2>3. ASSUME NEW u \in Threads PROVE ThreadInv (u)'
    <3>1. Once (u)'
      BY <1>22, <1>type, <1>inv, <1>held, <1>cur
      DEF ReleaseGone, Handling, GoneCompletes, Gone, Completed, Return, ThreadInv, Once,
          Handled, Stops, Exits, TypeOK, TargetType, EventType, EngineType
    <3>2. Quiet (u)'
      BY <1>22, <1>type, <1>inv, <1>held, <1>cur, <1>engine
      DEF ReleaseGone, Handling, GoneCompletes, Gone, Completed, Return, ThreadInv, Quiet,
          Handled, Stops, Exits, Once, EngineInv, TypeOK, TargetType, EventType, EngineType
    <3>3. Lock (u)'
      BY <1>22, <1>type, <1>inv, <1>held, <1>cur, <1>engine
      DEF ReleaseGone, Handling, GoneCompletes, Gone, Completed, Return, ThreadInv, Lock, Stops,
          Exits, EngineInv, TypeOK, TargetType, EventType, EngineType
    <3>4. Exit (u)'
      BY <1>22, <1>type, <1>inv, <1>held, <1>cur
      DEF ReleaseGone, Handling, GoneCompletes, Gone, Completed, Return, ThreadInv, Exit, Stops,
          Exits, TypeOK, TargetType, EventType, EngineType
    <3>5. Operation (u)'
      BY <1>22, <1>type, <1>inv, <1>held, <1>cur, <1>engine
      DEF ReleaseGone, Handling, GoneCompletes, Gone, Completed, Return, ThreadInv, Operation,
          Stops, Exits, Once, Handled, EngineInv, TypeOK, TargetType, EventType, EngineType, Quiet
    <3>6. Over (u)'
      BY <1>22, <1>type, <1>inv, <1>held, <1>cur
      DEF ReleaseGone, Handling, GoneCompletes, Gone, Completed, Return, ThreadInv, Over,
          StepsOver, Stops, Exits, TypeOK, TargetType, EventType, EngineType
    <3> QED
      BY <3>1, <3>2, <3>3, <3>4, <3>5, <3>6 DEF ThreadInv
  <2> QED
    BY <2>1, <2>2, <2>3 DEF IInv
<1>23. CASE CheckPending
  <2>1. TypeOK'
    BY <1>23, <1>type, <1>engine
    DEF CheckPending, EngineInv, TypeOK, TargetType, EventType, EngineType
  <2>2. EngineInv'
    BY <1>23, <1>type, <1>engine, <1>inv
    DEF CheckPending, EngineInv, TypeOK, TargetType, EventType, EngineType, ThreadInv
  <2>3. ASSUME NEW u \in Threads PROVE ThreadInv (u)'
    <3>1. Lock (u)' /\ Operation (u)'
      BY <1>23, <1>inv DEF CheckPending, ThreadInv, Lock, Operation
    <3>2. Once (u)'
      BY <1>23, <1>type, <1>inv, <1>held, <1>cur
      DEF CheckPending, ThreadInv, Once, Handled, Stops, Exits, TypeOK, TargetType, EventType,
          EngineType
    <3>3. Quiet (u)'
      BY <1>23, <1>type, <1>inv, <1>held, <1>cur
      DEF CheckPending, ThreadInv, Quiet, Handled, Stops, Exits, TypeOK, TargetType, EventType,
          EngineType
    <3>4. Exit (u)'
      BY <1>23, <1>type, <1>inv, <1>held, <1>cur
      DEF CheckPending, ThreadInv, Exit, Stops, Exits, TypeOK, TargetType, EventType, EngineType
    <3>5. Over (u)'
      BY <1>23, <1>type, <1>inv, <1>held, <1>cur
      DEF CheckPending, ThreadInv, Over, StepsOver, Stops, Exits, TypeOK, TargetType, EventType,
          EngineType
    <3> QED
      BY <3>1, <3>2, <3>3, <3>4, <3>5 DEF ThreadInv
  <2> QED
    BY <2>1, <2>2, <2>3 DEF IInv
<1>24. ASSUME NEW t \in Threads, PendingSkip (t) PROVE IInv'
  <2>1. TypeOK'
    BY <1>24, <1>type, <1>engine
    DEF PendingSkip, EngineInv, TypeOK, TargetType, EventType, EngineType
  <2>2. EngineInv'
    BY <1>24, <1>type, <1>engine, <1>inv
    DEF PendingSkip, EngineInv, TypeOK, TargetType, EventType, EngineType, ThreadInv
  <2>3. ASSUME NEW u \in Threads PROVE ThreadInv (u)'
    <3>1. Once (u)' /\ Quiet (u)' /\ Lock (u)' /\ Exit (u)' /\ Operation (u)' /\ Over (u)'
      BY <1>24, <1>inv
      DEF PendingSkip, ThreadInv, Once, Handled, Quiet, Lock, Exit, Operation, Over, StepsOver
    <3> QED
      BY <3>1 DEF ThreadInv
  <2> QED
    BY <2>1, <2>2, <2>3 DEF IInv
<1>25. ASSUME NEW t \in Threads, PendingNext (t) PROVE IInv'
  <2>1. TypeOK'
    <3>1. TargetType'
      <4>1. UNCHANGED <<kstate, stepping>> \/ \E single \in BOOLEAN : Run (t, single)
        BY <1>25, <1>type
        DEF PendingNext, MayProcess, Alive, Gone, ResumeOperation, LeftStepFrame, Resume,
            TypeOK, TargetType
      <4>2. UNCHANGED <<sigstop, at>>
        BY <1>25
        DEF PendingNext, MayProcess, Alive, Gone, ResumeOperation, LeftStepFrame, Resume, Run,
            Return
      <4> QED
        BY <4>1, <4>2, <1>type, <1>cur, RunType, <1>25 DEF TypeOK, TargetType, PendingNext
    <3>2. EventType'
      BY <1>25, <1>type, <1>engine, <1>cur
      DEF PendingNext, MayProcess, Alive, Gone, ResumeOperation, LeftStepFrame, Resume, Run,
          Return, EngineInv, TypeOK, EventType, Event, Stops
    <3>3. EngineType'
      <4>1. UNCHANGED <<engine_stopped, op, over>> \/ Completed (t)
        BY <1>25
        DEF PendingNext, MayProcess, Alive, Gone, ResumeOperation, LeftStepFrame, Resume
      <4>2. todo' \subseteq Threads
        BY <1>25, <1>type
        DEF PendingNext, MayProcess, Alive, Gone, ResumeOperation, LeftStepFrame, Resume, Run,
            Return, TypeOK, EngineType
      <4>3. epc' \in {"idle", "handle", "acquire", "spin", "check", "pending"}
        BY <1>25, <1>type
        DEF PendingNext, MayProcess, Alive, Gone, ResumeOperation, LeftStepFrame, Resume, Run,
            Return, TypeOK, EngineType
      <4> QED
        BY <1>25, <4>1, <4>2, <4>3, <1>type, <1>cur, CompletedType
        DEF PendingNext, MayProcess, Alive, Gone, ResumeOperation, LeftStepFrame, Resume,
            TypeOK, EngineType
    <3> QED
      BY <3>1, <3>2, <3>3 DEF TypeOK
  <2>2. EngineInv'
    BY <1>25, <1>type, <1>engine, <1>inv
    DEF PendingNext, MayProcess, Alive, Gone, ResumeOperation, LeftStepFrame, Resume, Run,
        Return, EngineInv, TypeOK, TargetType, EventType, EngineType, ThreadInv
  <2>3. ASSUME NEW u \in Threads PROVE ThreadInv (u)'
    <3>1. Operation (u)'
      BY <1>25, <1>inv
      DEF PendingNext, MayProcess, Alive, Gone, ResumeOperation, LeftStepFrame, Resume, Run,
          Return, ThreadInv, Operation
    <3>2. Once (u)'
      BY <1>25, <1>type, <1>inv, <1>held, <1>cur, <1>engine
      DEF PendingNext, MayProcess, Alive, Gone, ResumeOperation, LeftStepFrame, Resume, Run,
          Return, ThreadInv, Once, Handled, Stops, Exits, EngineInv, Lock, Exit, TypeOK,
          TargetType, EventType, EngineType
    <3>3. Quiet (u)'
      BY <1>25, <1>type, <1>inv, <1>held, <1>cur, <1>engine
      DEF PendingNext, MayProcess, Alive, Gone, ResumeOperation, LeftStepFrame, Resume, Run,
          Return, ThreadInv, Quiet, Handled, Stops, Exits, EngineInv, TypeOK, TargetType,
          EventType, EngineType
    <3>4. Lock (u)'
      BY <1>25, <1>type, <1>inv, <1>held, <1>cur, <1>engine
      DEF PendingNext, MayProcess, Alive, Gone, ResumeOperation, LeftStepFrame, Resume, Run,
          Return, ThreadInv, Lock, Stops, Exits, Once, Handled, EngineInv, TypeOK, TargetType,
          EventType, EngineType
    <3>5. Exit (u)'
      BY <1>25, <1>type, <1>inv, <1>held, <1>cur, <1>engine
      DEF PendingNext, MayProcess, Alive, Gone, ResumeOperation, LeftStepFrame, Resume, Run,
          Return, ThreadInv, Exit, Stops, Exits, EngineInv, Lock, TypeOK, TargetType, EventType,
          EngineType
    <3>6. Over (u)'
      BY <1>25, <1>type, <1>inv, <1>held, <1>cur, <1>engine
      DEF PendingNext, MayProcess, Alive, Gone, ResumeOperation, LeftStepFrame, Resume, Run,
          Return, ThreadInv, Over, StepsOver, Stops, Exits, EngineInv, TypeOK, TargetType,
          EventType, EngineType
    <3> QED
      BY <3>1, <3>2, <3>3, <3>4, <3>5, <3>6 DEF ThreadInv
  <2> QED
    BY <2>1, <2>2, <2>3 DEF IInv
<1>26. CASE PendingDone
  <2>1. TypeOK'
    BY <1>26, <1>type, <1>engine
    DEF PendingDone, EngineInv, TypeOK, TargetType, EventType, EngineType
  <2>2. EngineInv'
    BY <1>26, <1>type, <1>engine, <1>inv
    DEF PendingDone, EngineInv, TypeOK, TargetType, EventType, EngineType, ThreadInv
  <2>3. ASSUME NEW u \in Threads PROVE ThreadInv (u)'
    <3>1. Lock (u)' /\ Operation (u)'
      BY <1>26, <1>inv DEF PendingDone, ThreadInv, Lock, Operation
    <3>2. Once (u)'
      BY <1>26, <1>type, <1>inv, <1>held, <1>cur
      DEF PendingDone, ThreadInv, Once, Handled, Stops, Exits, TypeOK, TargetType, EventType,
          EngineType
    <3>3. Quiet (u)'
      BY <1>26, <1>type, <1>inv, <1>held, <1>cur
      DEF PendingDone, ThreadInv, Quiet, Handled, Stops, Exits, TypeOK, TargetType, EventType,
          EngineType
    <3>4. Exit (u)'
      BY <1>26, <1>type, <1>inv, <1>held, <1>cur
      DEF PendingDone, ThreadInv, Exit, Stops, Exits, TypeOK, TargetType, EventType, EngineType
    <3>5. Over (u)'
      BY <1>26, <1>type, <1>inv, <1>held, <1>cur
      DEF PendingDone, ThreadInv, Over, StepsOver, Stops, Exits, TypeOK, TargetType, EventType,
          EngineType
    <3> QED
      BY <3>1, <3>2, <3>3, <3>4, <3>5 DEF ThreadInv
  <2> QED
    BY <2>1, <2>2, <2>3 DEF IInv
<1>27. ASSUME NEW t \in Threads, NEW o \in Commands, StartOperation (t, o) PROVE IInv'
  <2>1. TypeOK'
    BY <1>27, <1>type DEF StartOperation, TypeOK, TargetType, EventType, EngineType
  <2>2. EngineInv'
    BY <1>27, <1>engine DEF StartOperation, EngineInv
  <2>3. ASSUME NEW u \in Threads PROVE ThreadInv (u)'
    <3>1. Once (u)' /\ Exit (u)' /\ Over (u)'
      BY <1>27, <1>inv DEF StartOperation, ThreadInv, Once, Handled, Exit, Over, StepsOver
    <3>2. Quiet (u)' /\ Lock (u)' /\ Operation (u)'
      BY <1>27, <1>inv, <1>type
      DEF StartOperation, ThreadInv, Quiet, Handled, Lock, Operation, Stops, TypeOK, EventType, EngineType
    <3> QED
      BY <3>1, <3>2 DEF ThreadInv
  <2> QED
    BY <2>1, <2>2, <2>3 DEF IInv
<1>28. ASSUME NEW t \in Threads, Stop (t) PROVE IInv'
  <2>1. TypeOK'
    BY <1>28, <1>type, <1>engine DEF Stop, EngineInv, TypeOK, TargetType, EventType, EngineType
  <2>2. EngineInv'
    BY <1>28, <1>type, <1>engine, <1>inv
    DEF Stop, EngineInv, TypeOK, TargetType, EventType, EngineType, ThreadInv
  <2>3. ASSUME NEW u \in Threads PROVE ThreadInv (u)'
    <3>1. Once (u)' /\ Quiet (u)' /\ Lock (u)' /\ Exit (u)' /\ Operation (u)' /\ Over (u)'
      BY <1>28, <1>inv
      DEF Stop, ThreadInv, Once, Handled, Quiet, Lock, Exit, Operation, Over, StepsOver
    <3> QED
      BY <3>1 DEF ThreadInv
  <2> QED
    BY <2>1, <2>2, <2>3 DEF IInv
<1>29. ASSUME NEW t \in Threads, ExecuteOperation (t) PROVE IInv'
  <2>1. TypeOK'
    <3>1. TargetType'
      <4>1. UNCHANGED <<kstate, stepping>> \/ \E single \in BOOLEAN : Run (t, single)
        BY <1>29, <1>type
        DEF ExecuteOperation, Resume, RecursiveLock, GoneCompletes, Gone, TypeOK, TargetType
      <4>2. UNCHANGED <<sigstop, at>>
        BY <1>29
        DEF ExecuteOperation, Resume, RecursiveLock, GoneCompletes, Gone, Run, Completed, Return
      <4> QED
        BY <4>1, <4>2, <1>type, <1>cur, RunType, <1>29 DEF TypeOK, TargetType, ExecuteOperation
    <3>2. EventType'
      BY <1>29, <1>type, <1>engine, <1>cur
      DEF ExecuteOperation, Resume, RecursiveLock, GoneCompletes, Gone, Run, Completed, Return,
          EngineInv, TypeOK, EventType, Event, Stops
    <3>3. EngineType'
      <4>1. \/ op' = [op EXCEPT ![t] = requested[t]] /\ UNCHANGED <<engine_stopped, over>>
            \/ UNCHANGED <<engine_stopped, op, over>>
            \/ Completed (t)
        BY <1>29 DEF ExecuteOperation, Resume, RecursiveLock, GoneCompletes, Gone
      <4>2. todo' \subseteq Threads
        BY <1>29, <1>type
        DEF ExecuteOperation, Resume, RecursiveLock, GoneCompletes, Gone, Run, Completed, Return,
            TypeOK, EngineType
      <4>3. epc' \in {"idle", "handle", "acquire", "spin", "check", "pending"}
        <5>1. epc' = "acquire" \/ Return
          BY <1>29
          DEF ExecuteOperation, Resume, RecursiveLock, GoneCompletes, Gone, Run, Completed,
              Return
        <5> QED
          BY <5>1 DEF Return
      <4>4. /\ engine_stopped' \in [Threads -> BOOLEAN] /\ op' \in [Threads -> {"none", "run", "step"}]
            /\ over' \in [Threads -> Breakpoints \cup {NoBreakpoint}]
        <5>1. CASE Completed (t)
          BY <5>1, <1>type, CompletedType DEF TypeOK
        <5>2. CASE op' = [op EXCEPT ![t] = requested[t]] /\ UNCHANGED <<engine_stopped, over>>
          BY <1>29, <5>2, <1>type DEF ExecuteOperation, Waiting, TypeOK, EngineType
        <5>3. CASE UNCHANGED <<engine_stopped, op, over>>
          BY <5>3, <1>type DEF TypeOK, EngineType
        <5> QED
          BY <4>1, <5>1, <5>2, <5>3
      <4>5. has_thread_lock' \in BOOLEAN
        BY <1>29, <1>type
        DEF ExecuteOperation, Resume, RecursiveLock, GoneCompletes, Gone, Run, Completed, Return,
            TypeOK, EngineType
      <4>6. UNCHANGED <<thread_hash, enabled, plist, in_pending, from_wait>>
        BY <1>29, <1>type
        DEF ExecuteOperation, Resume, RecursiveLock, GoneCompletes, Gone, Run, Completed, Return
      <4>7. requested' \in [Threads -> {"none", "run", "step", "lost"}]
        BY <1>29, <1>type DEF ExecuteOperation, TypeOK, EngineType
      <4> QED
        BY <4>2, <4>3, <4>4, <4>5, <4>6, <4>7, <1>type DEF TypeOK, EngineType
    <3> QED
      BY <3>1, <3>2, <3>3 DEF TypeOK
  <2>2. EngineInv'
    BY <1>29, <1>type, <1>engine, <1>inv
    DEF ExecuteOperation, Resume, RecursiveLock, GoneCompletes, Gone, Run, Completed, Return,
        EngineInv, TypeOK, TargetType, EventType, EngineType, ThreadInv
  <2>3. ASSUME NEW u \in Threads PROVE ThreadInv (u)'
    <3>1. Once (u)'
      BY <1>29, <1>type, <1>inv, <1>held, <1>cur
      DEF ExecuteOperation, Resume, RecursiveLock, GoneCompletes, Gone, Run, Completed, Return,
          ThreadInv, Once, Handled, Stops, Exits, Quiet, Lock, Exit, Operation, Waiting, TypeOK, TargetType,
          EventType, EngineType
    <3>2. Quiet (u)'
      BY <1>29, <1>type, <1>inv, <1>held, <1>cur
      DEF ExecuteOperation, Resume, RecursiveLock, GoneCompletes, Gone, Run, Completed, Return,
          ThreadInv, Quiet, Handled, Stops, Exits, Lock, Operation, Waiting, TypeOK, TargetType, EventType,
          EngineType
    <3>3. Lock (u)'
      BY <1>29, <1>type, <1>inv, <1>held, <1>cur
      DEF ExecuteOperation, Resume, RecursiveLock, GoneCompletes, Gone, Run, Completed, Return,
          ThreadInv, Lock, Stops, Exits, TypeOK, TargetType, EventType, EngineType
    <3>4. Exit (u)'
      BY <1>29, <1>type, <1>inv, <1>held, <1>cur
      DEF ExecuteOperation, Resume, RecursiveLock, GoneCompletes, Gone, Run, Completed, Return,
          ThreadInv, Exit, Stops, Exits, TypeOK, TargetType, EventType, EngineType
    <3>5. Operation (u)'
      BY <1>29, <1>type, <1>inv, <1>held, <1>cur
      DEF ExecuteOperation, Resume, RecursiveLock, GoneCompletes, Gone, Run, Completed, Return,
          ThreadInv, Operation, Waiting, Stops, Exits, Lock, TypeOK, TargetType, EventType, EngineType
    <3>6. Over (u)'
      BY <1>29, <1>type, <1>inv, <1>held, <1>cur
      DEF ExecuteOperation, Resume, RecursiveLock, GoneCompletes, Gone, Run, Completed, Return,
          ThreadInv, Over, StepsOver, Stops, Exits, TypeOK, TargetType, EventType, EngineType
    <3> QED
      BY <3>1, <3>2, <3>3, <3>4, <3>5, <3>6 DEF ThreadInv
  <2> QED
    BY <2>1, <2>2, <2>3 DEF IInv
<1>30. ASSUME NEW t \in Threads, CommandLost (t) PROVE IInv'
  <2>1. TypeOK'
    BY <1>30, <1>type DEF CommandLost, Waiting, TypeOK, TargetType, EventType, EngineType
  <2>2. EngineInv'
    BY <1>30, <1>engine DEF CommandLost, Waiting, EngineInv
  <2>3. ASSUME NEW u \in Threads PROVE ThreadInv (u)'
    <3>1. Once (u)' /\ Exit (u)' /\ Over (u)'
      BY <1>30, <1>inv DEF CommandLost, Waiting, ThreadInv, Once, Handled, Exit, Over, StepsOver
    <3>2. Quiet (u)' /\ Lock (u)' /\ Operation (u)'
      BY <1>30, <1>inv, <1>type
      DEF CommandLost, Waiting, ThreadInv, Quiet, Handled, Lock, Operation, Stops, TypeOK, EventType, EngineType
    <3> QED
      BY <3>1, <3>2 DEF ThreadInv
  <2> QED
    BY <2>1, <2>2, <2>3 DEF IInv
<1>31. CASE UNCHANGED vars
  BY <1>31
  DEF vars, IInv, TypeOK, TargetType, EventType, EngineType, EngineInv, ThreadInv, Once,
      Handled, Quiet, Lock, Exit, Operation, Over, StepsOver
<1> QED
  BY <1>1, <1>2, <1>3, <1>4, <1>5, <1>6, <1>7, <1>8, <1>9, <1>10, <1>11, <1>12, <1>13, <1>14,
     <1>15, <1>16, <1>17, <1>18, <1>19, <1>20, <1>21, <1>22, <1>23, <1>24, <1>25, <1>26, <1>27,
     <1>28, <1>29, <1>30, <1>31
  DEF Next, Target, Engine, Handle, Acquire, Pending, User

(* The invariant holds throughout.                                          *)
LEMMA IInvCorrect == Spec => []IInv
<1>1. Init => IInv
  BY InitIInv
<1>2. IInv /\ [Next]_vars => IInv'
  BY NextIInv
<1> QED
  BY <1>1, <1>2, PTL DEF Spec

-----------------------------------------------------------------------------
(* Every variable keeps its type; AddPendingEvent() is given events only.   *)
THEOREM TypeCorrect == Spec => []TypeOK
<1>1. IInv => TypeOK
  BY DEF IInv
<1> QED
  BY <1>1, IInvCorrect, PTL

(* PushRegisters and PopRegisters are balanced: no thread runs while its    *)
(* registers are pushed, and one operation steps over a breakpoint at a     *)
(* time.                                                                    *)
THEOREM RegistersCorrect == Spec => []RegistersBalanced
<1>1. IInv => RegistersBalanced
  <2> SUFFICES ASSUME IInv, NEW t \in thread_hash
               PROVE  /\ pushed_regs[t] => thread_lock[t] # "free" /\ kstate[t] # "running"
                      /\ StepsOver (t) => has_thread_lock /\ \A u \in Threads \ {t} : ~StepsOver (u)
    BY DEF RegistersBalanced
  <2>1. t \in Threads
    BY DEF IInv, TypeOK, EngineType
  <2>2. Once (t) /\ Lock (t) /\ Over (t)
    BY <2>1 DEF IInv, ThreadInv
  <2> QED
    BY <2>2, WordFacts DEF Once, Lock, Over, Stops
<1> QED
  BY <1>1, IInvCorrect, PTL

(* AddPendingEvent() never finds an older event of the thread, and          *)
(* SetStopEvent() a second one only if the thread was killed.               *)
THEOREM PendingCorrect == Spec => []PendingOnce
<1>1. IInv => PendingOnce
  <2> SUFFICES ASSUME IInv PROVE PendingOnce
    OBVIOUS
  <2>1. ASSUME NEW t \in thread_hash, pushed_regs[t] PROVE pending_events[t] = "none"
    <3>1. t \in Threads
      BY DEF IInv, TypeOK, EngineType
    <3> QED
      BY <2>1, <3>1 DEF IInv, ThreadInv, Once
  <2>2. ASSUME epc = "handle", cur.w \notin Exits
        PROVE  thread_lock[cur.t] = "free" \/ Gone (cur.t)
    <3>1. cur.t \in Threads /\ cur.w \in Stops
      BY <2>2, EventFacts DEF IInv, EngineInv, Stops
    <3>2. Once (cur.t) /\ Lock (cur.t)
      BY <3>1 DEF IInv, ThreadInv
    <3> QED
      BY <2>2, <3>1, <3>2 DEF Once, Handled, Lock, Gone
  <2> QED
    BY <2>1, <2>2 DEF PendingOnce
<1> QED
  BY <1>1, IInvCorrect, PTL

(* The engine never receives a stop of a thread that has no operation.      *)
THEOREM OperationCorrect == Spec => []EventHasOperation
<1>1. IInv => EventHasOperation
  <2> SUFFICES ASSUME IInv, epc = "handle", cur.w \notin Exits
               PROVE  cur.t \in thread_hash /\ op[cur.t] # "none"
    BY DEF EventHasOperation
  <2>1. cur.t \in Threads /\ cur.w \in Stops
    BY EventFacts DEF IInv, EngineInv, Stops
  <2>2. Quiet (cur.t) /\ Exit (cur.t) /\ Operation (cur.t)
    BY <2>1 DEF IInv, ThreadInv
  <2> QED
    BY <2>1, <2>2 DEF Quiet, Handled, Exit, Operation
<1> QED
  BY <1>1, IInvCorrect, PTL

-----------------------------------------------------------------------------
(* While a breakpoint is disabled the process has the lock, and every       *)
(* thread but the one that steps over it is stopped; an acquire gets there  *)
(* one thread at a time.                                                    *)
Owner (t) ==
    /\ requested[t] = "none"
    /\ t \in thread_hash /\ enabled # Breakpoints =>
          has_thread_lock /\ (engine_stopped[t] \/ Gone (t) \/ StepsOver (t))
    /\ StepsOver (t) => enabled \cup {over[t]} = Breakpoints
    /\ epc = "acquire" /\ t \in thread_hash \ todo =>
          enabled = Breakpoints /\ (t = cur.t \/ engine_stopped[t] \/ Gone (t))

OwnerInv == \A t \in Threads : Owner (t)

(* A stopped thread that the engine takes for running has an event, or a    *)
(* client waits for its operation.                                          *)
Known (t) ==
    /\ t \in thread_hash /\ ~engine_stopped[t] /\ kstate[t] = "stopped"
    /\ op[t] # "step" /\ requested[t] = "none"
    => \/ word[t] # "none" \/ held.t = t \/ pending_events[t] # "none"
       \/ thread_lock[t] # "free" \/ (epc \in {"handle", "acquire", "spin"} /\ cur.t = t)

KnownInv == \A t \in Threads : Known (t)

(* What waitpid() reports of a thread that exited is true of it.            *)
LEMMA ExitWord ==
    ASSUME IInv, NEW t \in Threads, word[t] = "exit"
    PROVE  Gone (t)
<1>1. "exit" \in Exits
  BY DEF Exits
<1>2. Exit (t)
  BY DEF IInv, ThreadInv
<1> QED
  BY <1>1, <1>2 DEF Exit, Gone

(* The lock covers all threads as long as no user resumes one.              *)
LEMMA NextOwner ==
    ASSUME Commands \cap {"run", "step"} = {}
    PROVE  IInv /\ OwnerInv /\ [Next]_vars => OwnerInv'
<1> SUFFICES ASSUME IInv, OwnerInv, [Next]_vars PROVE OwnerInv'
  OBVIOUS
<1>type. TypeOK
  BY DEF IInv
<1>engine. EngineInv
  BY DEF IInv
<1>inv. ASSUME NEW t \in Threads PROVE ThreadInv (t) /\ Owner (t)
  BY DEF IInv, OwnerInv
<1>held. held.t \in Threads => held.w \in Words /\ held # NoEvent
  BY <1>type, EventFacts DEF TypeOK, EventType
<1>cur. epc = "handle" => cur.t \in Threads /\ cur.w \in Words
  BY <1>engine, EventFacts DEF EngineInv
<1> SUFFICES ASSUME NEW u \in Threads PROVE Owner (u)'
  BY DEF OwnerInv
<1> USE EventFacts, WordFacts DEF target, others, sse, locks, engine
<1>1. ASSUME NEW t \in Threads, NEW w \in Words, NEW place \in Breakpoints \cup {NoBreakpoint},
          Report (t, w, place)
      PROVE  Owner (u)'
  BY <1>1, <1>type, <1>engine, <1>inv, <1>held, <1>cur
  DEF Report, CanReport, Halted, TypeOK, TargetType, EventType, EngineType, EngineInv,
      ThreadInv, Stops, Exits, Owner, StepsOver, Gone, Quiet, Handled, Over, Exit
<1>2. ASSUME NEW t \in Threads, DeliverSigstop (t) PROVE Owner (u)'
  BY <1>2, <1>type, <1>engine, <1>inv, <1>held, <1>cur
  DEF DeliverSigstop, Halted, TypeOK, TargetType, EventType, EngineType, EngineInv, ThreadInv,
      Stops, Exits, Owner, StepsOver, Gone, Quiet, Handled, Over, Exit
<1>3. CASE ExitGroup
  BY <1>3, <1>type, <1>engine, <1>inv, <1>held, <1>cur
  DEF ExitGroup, AllDie, TypeOK, TargetType, EventType, EngineType, EngineInv, ThreadInv, Stops,
      Exits, Owner, StepsOver, Gone, Quiet, Handled, Over, Exit
<1>4. ASSUME NEW t \in Threads, WaitReap (t) PROVE Owner (u)'
  BY <1>4, <1>type, <1>engine, <1>inv, <1>held, <1>cur
  DEF WaitReap, TypeOK, TargetType, EventType, EngineType, EngineInv, ThreadInv, Stops, Exits,
      Owner, StepsOver, Gone, Quiet, Handled, Over, Exit
<1>5. ASSUME NEW t \in Threads, AcquireSkip (t) PROVE Owner (u)'
  BY <1>5, <1>type, <1>engine, <1>inv, <1>held, <1>cur
  DEF AcquireSkip, TypeOK, TargetType, EventType, EngineType, EngineInv, ThreadInv, Stops,
      Exits, Owner, StepsOver, Gone, Quiet, Handled, Over, Exit
<1>6. ASSUME NEW t \in Threads, AcquireReap (t) PROVE Owner (u)'
  <2>1. /\ Owner (u)
        /\ UNCHANGED <<kstate, requested, thread_hash, over, has_thread_lock, enabled, epc, cur>>
        /\ todo' = todo \ {t}
        /\ \A v \in Threads \ {t} : engine_stopped'[v] = engine_stopped[v]
        /\ word[t] # "exit" => engine_stopped'[t]
    BY <1>6, <1>type, <1>inv DEF AcquireReap, Locked, ThreadInv, TypeOK, EngineType
  <2>2. engine_stopped'[t] \/ Gone (t)
    BY <2>1, ExitWord
  <2>3. enabled = Breakpoints
    <3>1. epc = "acquire" /\ cur.t \in thread_hash \ todo /\ cur.t \in Threads
      BY <1>6, <1>engine, <1>type DEF AcquireReap, EngineInv, TypeOK, EngineType
    <3> QED
      BY <3>1, <1>inv DEF Owner
  <2> QED
    BY <1>6, <2>1, <2>2, <2>3 DEF Owner, AcquireReap, StepsOver, Gone
<1>7. ASSUME NEW t \in Threads, NEW place \in Breakpoints \cup {NoBreakpoint},
          AcquireSigstop (t, place)
      PROVE  Owner (u)'
  BY <1>7, <1>type, <1>engine, <1>inv, <1>held, <1>cur
  DEF AcquireSigstop, Halted, Locked, TypeOK, TargetType, EventType, EngineType, EngineInv,
      ThreadInv, Stops, Exits, Owner, StepsOver, Gone, Quiet, Handled, Over, Exit
<1>8. ASSUME NEW t \in Threads, NEW w \in Words, NEW place \in Breakpoints \cup {NoBreakpoint},
          AcquireOther (t, w, place)
      PROVE  Owner (u)'
  BY <1>8, <1>type, <1>engine, <1>inv, <1>held, <1>cur
  DEF AcquireOther, CanReport, Halted, Locked, TypeOK, TargetType, EventType, EngineType,
      EngineInv, ThreadInv, Stops, Exits, Owner, StepsOver, Gone, Quiet, Handled, Over, Exit
<1>9. ASSUME NEW t \in Threads, AcquireFails (t) PROVE Owner (u)'
  BY <1>9, <1>type, <1>engine, <1>inv, <1>held, <1>cur
  DEF AcquireFails, Completed, Return, TypeOK, TargetType, EventType, EngineType, EngineInv,
      ThreadInv, Stops, Exits, Owner, StepsOver, Gone, Quiet, Handled, Over, Exit
<1>10. ASSUME NEW t \in Threads, AcquireSpins (t) PROVE Owner (u)'
  BY <1>10, <1>type, <1>engine, <1>inv, <1>held, <1>cur
  DEF AcquireSpins, TypeOK, TargetType, EventType, EngineType, EngineInv, ThreadInv, Stops,
      Exits, Owner, StepsOver, Gone, Quiet, Handled, Over, Exit
<1>11. CASE AcquireDone
  BY <1>11, <1>type, <1>engine, <1>inv, <1>held, <1>cur
  DEF AcquireDone, Gone, Run, Return, TypeOK, TargetType, EventType, EngineType, EngineInv,
      ThreadInv, Stops, Exits, Owner, StepsOver, Quiet, Handled, Over, Exit
<1>12. CASE AcquireGone
  BY <1>12, <1>type, <1>engine, <1>inv, <1>held, <1>cur
  DEF AcquireGone, GoneCompletes, Gone, Completed, Return, TypeOK, TargetType, EventType,
      EngineType, EngineInv, ThreadInv, Stops, Exits, Owner, StepsOver, Quiet, Handled, Over,
      Exit
<1>13. CASE TakeEvent
  BY <1>13, <1>type, <1>engine, <1>inv, <1>held, <1>cur
  DEF TakeEvent, TypeOK, TargetType, EventType, EngineType, EngineInv, ThreadInv, Stops, Exits,
      Owner, StepsOver, Gone, Quiet, Handled, Over, Exit
<1>14. CASE HandleLocked
  BY <1>14, <1>type, <1>engine, <1>inv, <1>held, <1>cur
  DEF HandleLocked, Return, TypeOK, TargetType, EventType, EngineType, EngineInv, ThreadInv,
      Stops, Exits, Owner, StepsOver, Gone, Quiet, Handled, Over, Exit
<1>15. CASE HandleExit
  BY <1>15, <1>type, <1>engine, <1>inv, <1>held, <1>cur
  DEF HandleExit, Handling, Completed, Return, TypeOK, TargetType, EventType, EngineType,
      EngineInv, ThreadInv, Stops, Exits, Owner, StepsOver, Gone, Quiet, Handled, Over, Exit
<1>16. CASE HandleStop
  BY <1>16, <1>type, <1>engine, <1>inv, <1>held, <1>cur
  DEF HandleStop, Handling, Completed, Return, TypeOK, TargetType, EventType, EngineType,
      EngineInv, ThreadInv, Stops, Exits, Owner, StepsOver, Gone, Quiet, Handled, Over, Exit
<1>17. CASE HandleIgnored
  BY <1>17, <1>type, <1>engine, <1>inv, <1>held, <1>cur
  DEF HandleIgnored, Handling, ResumeOperation, Resume, RecursiveLock, GoneAbandons, Gone, Run,
      Completed, Return, TypeOK, TargetType, EventType, EngineType, EngineInv, ThreadInv, Stops,
      Exits, Owner, StepsOver, Quiet, Handled, Over, Exit
<1>18. CASE HandleBreakpoint
  BY <1>18, <1>type, <1>engine, <1>inv, <1>held, <1>cur
  DEF HandleBreakpoint, Handling, Resume, RecursiveLock, GoneAbandons, Gone, Run, Completed,
      Return, TypeOK, TargetType, EventType, EngineType, EngineInv, ThreadInv, Stops, Exits,
      Owner, StepsOver, Quiet, Handled, Over, Exit
<1>19. CASE HandleStep
  BY <1>19, <1>type, <1>engine, <1>inv, <1>held, <1>cur
  DEF HandleStep, Handling, ResumeOperation, LeftStepFrame, Resume, RecursiveLock,
      GoneCompletes, Gone, Run, Completed, Return, TypeOK, TargetType, EventType, EngineType,
      EngineInv, ThreadInv, Stops, Exits, Owner, StepsOver, Quiet, Handled, Over, Exit
<1>20. CASE Release
  BY <1>20, <1>type, <1>engine, <1>inv, <1>held, <1>cur
  DEF Release, Handling, ReleaseThreads, LockedThreads, Poppable, TypeOK, TargetType, EventType,
      EngineType, EngineInv, ThreadInv, Stops, Exits, Owner, StepsOver, Gone, Quiet, Handled,
      Over, Exit
<1>21. CASE ReleaseFails
  BY <1>21, <1>type, <1>engine, <1>inv, <1>held, <1>cur
  DEF ReleaseFails, Handling, ReleaseThreads, LockedThreads, Poppable, AllDie, Return, TypeOK,
      TargetType, EventType, EngineType, EngineInv, ThreadInv, Stops, Exits, Owner, StepsOver,
      Gone, Quiet, Handled, Over, Exit
<1>22. CASE ReleaseGone
  BY <1>22, <1>type, <1>engine, <1>inv, <1>held, <1>cur
  DEF ReleaseGone, Handling, GoneCompletes, Gone, Completed, Return, TypeOK, TargetType,
      EventType, EngineType, EngineInv, ThreadInv, Stops, Exits, Owner, StepsOver, Quiet,
      Handled, Over, Exit
<1>23. CASE CheckPending
  BY <1>23, <1>type, <1>engine, <1>inv, <1>held, <1>cur
  DEF CheckPending, TypeOK, TargetType, EventType, EngineType, EngineInv, ThreadInv, Stops,
      Exits, Owner, StepsOver, Gone, Quiet, Handled, Over, Exit
<1>24. ASSUME NEW t \in Threads, PendingSkip (t) PROVE Owner (u)'
  BY <1>24, <1>type, <1>engine, <1>inv, <1>held, <1>cur
  DEF PendingSkip, TypeOK, TargetType, EventType, EngineType, EngineInv, ThreadInv, Stops,
      Exits, Owner, StepsOver, Gone, Quiet, Handled, Over, Exit
<1>25. ASSUME NEW t \in Threads, PendingNext (t) PROVE Owner (u)'
  BY <1>25, <1>type, <1>engine, <1>inv, <1>held, <1>cur
  DEF PendingNext, MayProcess, Alive, Gone, ResumeOperation, LeftStepFrame, Resume, Run, Return,
      TypeOK, TargetType, EventType, EngineType, EngineInv, ThreadInv, Stops, Exits, Owner,
      StepsOver, Quiet, Handled, Over, Exit
<1>26. CASE PendingDone
  BY <1>26, <1>type, <1>engine, <1>inv, <1>held, <1>cur
  DEF PendingDone, TypeOK, TargetType, EventType, EngineType, EngineInv, ThreadInv, Stops,
      Exits, Owner, StepsOver, Gone, Quiet, Handled, Over, Exit
<1>27. ASSUME NEW t \in Threads, NEW o \in Commands, StartOperation (t, o) PROVE Owner (u)'
  BY <1>27, <1>type, <1>inv DEF StartOperation, TypeOK, EngineType, Owner, StepsOver, Gone
<1>28. ASSUME NEW t \in Threads, Stop (t) PROVE Owner (u)'
  BY <1>28, <1>type, <1>engine, <1>inv, <1>held, <1>cur
  DEF Stop, TypeOK, TargetType, EventType, EngineType, EngineInv, ThreadInv, Stops, Exits,
      Owner, StepsOver, Gone, Quiet, Handled, Over, Exit
<1>29. ASSUME NEW t \in Threads, ExecuteOperation (t) PROVE Owner (u)'
  BY <1>29, <1>type, <1>engine, <1>inv, <1>held, <1>cur
  DEF ExecuteOperation, Resume, RecursiveLock, GoneCompletes, Gone, Run, Completed, Return,
      TypeOK, TargetType, EventType, EngineType, EngineInv, ThreadInv, Stops, Exits, Owner,
      StepsOver, Quiet, Handled, Over, Exit, Operation, Waiting
<1>30. ASSUME NEW t \in Threads, CommandLost (t) PROVE Owner (u)'
  BY <1>30, <1>type, <1>inv DEF CommandLost, Waiting, TypeOK, EngineType, Owner, StepsOver, Gone
<1>31. CASE UNCHANGED vars
  BY <1>31, <1>inv DEF vars, Owner, StepsOver, Gone
<1> QED
  BY <1>1, <1>2, <1>3, <1>4, <1>5, <1>6, <1>7, <1>8, <1>9, <1>10, <1>11, <1>12, <1>13, <1>14,
     <1>15, <1>16, <1>17, <1>18, <1>19, <1>20, <1>21, <1>22, <1>23, <1>24, <1>25, <1>26, <1>27,
     <1>28, <1>29, <1>30, <1>31
  DEF Next, Target, Engine, Handle, Acquire, Pending, User

(* No step forgets a thread that is not single-stepped.                     *)
LEMMA NextKnown == IInv /\ KnownInv /\ [Next]_vars => KnownInv'
<1> SUFFICES ASSUME IInv, KnownInv, [Next]_vars PROVE KnownInv'
  OBVIOUS
<1>type. TypeOK
  BY DEF IInv
<1>engine. EngineInv
  BY DEF IInv
<1>inv. ASSUME NEW t \in Threads PROVE ThreadInv (t) /\ Known (t)
  BY DEF IInv, KnownInv
<1>held. held.t \in Threads => held.w \in Words /\ held # NoEvent
  BY <1>type, EventFacts DEF TypeOK, EventType
<1>cur. epc = "handle" => cur.t \in Threads /\ cur.w \in Words
  BY <1>engine, EventFacts DEF EngineInv
<1> SUFFICES ASSUME NEW u \in Threads PROVE Known (u)'
  BY DEF KnownInv
<1> USE EventFacts, WordFacts DEF target, others, sse, locks, engine
<1>1. ASSUME NEW t \in Threads, NEW w \in Words, NEW place \in Breakpoints \cup {NoBreakpoint},
          Report (t, w, place)
      PROVE  Known (u)'
  BY <1>1, <1>type, <1>engine, <1>inv, <1>held, <1>cur
  DEF Report, CanReport, Halted, TypeOK, TargetType, EventType, EngineType, EngineInv,
      ThreadInv, Stops, Exits, Known, LeftStepFrame, Gone, Lock
<1>2. ASSUME NEW t \in Threads, DeliverSigstop (t) PROVE Known (u)'
  BY <1>2, <1>type, <1>engine, <1>inv, <1>held, <1>cur
  DEF DeliverSigstop, Halted, TypeOK, TargetType, EventType, EngineType, EngineInv, ThreadInv,
      Stops, Exits, Known, LeftStepFrame, Gone, Lock
<1>3. CASE ExitGroup
  BY <1>3, <1>type, <1>engine, <1>inv, <1>held, <1>cur
  DEF ExitGroup, AllDie, TypeOK, TargetType, EventType, EngineType, EngineInv, ThreadInv, Stops,
      Exits, Known, LeftStepFrame, Gone, Lock
<1>4. ASSUME NEW t \in Threads, WaitReap (t) PROVE Known (u)'
  BY <1>4, <1>type, <1>engine, <1>inv, <1>held, <1>cur
  DEF WaitReap, TypeOK, TargetType, EventType, EngineType, EngineInv, ThreadInv, Stops, Exits,
      Known, LeftStepFrame, Gone, Lock
<1>5. ASSUME NEW t \in Threads, AcquireSkip (t) PROVE Known (u)'
  BY <1>5, <1>type, <1>engine, <1>inv, <1>held, <1>cur
  DEF AcquireSkip, TypeOK, TargetType, EventType, EngineType, EngineInv, ThreadInv, Stops,
      Exits, Known, LeftStepFrame, Gone, Lock
<1>6. ASSUME NEW t \in Threads, AcquireReap (t) PROVE Known (u)'
  BY <1>6, <1>type, <1>engine, <1>inv, <1>held, <1>cur
  DEF AcquireReap, Locked, TypeOK, TargetType, EventType, EngineType, EngineInv, ThreadInv,
      Stops, Exits, Known, LeftStepFrame, Gone, Lock
<1>7. ASSUME NEW t \in Threads, NEW place \in Breakpoints \cup {NoBreakpoint},
          AcquireSigstop (t, place)
      PROVE  Known (u)'
  BY <1>7, <1>type, <1>engine, <1>inv, <1>held, <1>cur
  DEF AcquireSigstop, Halted, Locked, TypeOK, TargetType, EventType, EngineType, EngineInv,
      ThreadInv, Stops, Exits, Known, LeftStepFrame, Gone, Lock
<1>8. ASSUME NEW t \in Threads, NEW w \in Words, NEW place \in Breakpoints \cup {NoBreakpoint},
          AcquireOther (t, w, place)
      PROVE  Known (u)'
  BY <1>8, <1>type, <1>engine, <1>inv, <1>held, <1>cur
  DEF AcquireOther, CanReport, Halted, Locked, TypeOK, TargetType, EventType, EngineType,
      EngineInv, ThreadInv, Stops, Exits, Known, LeftStepFrame, Gone, Lock
<1>9. ASSUME NEW t \in Threads, AcquireFails (t) PROVE Known (u)'
  BY <1>9, <1>type, <1>engine, <1>inv, <1>held, <1>cur
  DEF AcquireFails, Completed, Return, TypeOK, TargetType, EventType, EngineType, EngineInv,
      ThreadInv, Stops, Exits, Known, LeftStepFrame, Gone, Lock
<1>10. ASSUME NEW t \in Threads, AcquireSpins (t) PROVE Known (u)'
  BY <1>10, <1>type, <1>engine, <1>inv, <1>held, <1>cur
  DEF AcquireSpins, TypeOK, TargetType, EventType, EngineType, EngineInv, ThreadInv, Stops,
      Exits, Known, LeftStepFrame, Gone, Lock
<1>11. CASE AcquireDone
  BY <1>11, <1>type, <1>engine, <1>inv, <1>held, <1>cur
  DEF AcquireDone, Gone, Run, Return, TypeOK, TargetType, EventType, EngineType, EngineInv,
      ThreadInv, Stops, Exits, Known, LeftStepFrame, Lock
<1>12. CASE AcquireGone
  BY <1>12, <1>type, <1>engine, <1>inv, <1>held, <1>cur
  DEF AcquireGone, GoneCompletes, Gone, Completed, Return, TypeOK, TargetType, EventType,
      EngineType, EngineInv, ThreadInv, Stops, Exits, Known, LeftStepFrame, Lock
<1>13. CASE TakeEvent
  BY <1>13, <1>type, <1>engine, <1>inv, <1>held, <1>cur
  DEF TakeEvent, TypeOK, TargetType, EventType, EngineType, EngineInv, ThreadInv, Stops, Exits,
      Known, LeftStepFrame, Gone, Lock
<1>14. CASE HandleLocked
  BY <1>14, <1>type, <1>engine, <1>inv, <1>held, <1>cur
  DEF HandleLocked, Return, TypeOK, TargetType, EventType, EngineType, EngineInv, ThreadInv,
      Stops, Exits, Known, LeftStepFrame, Gone, Lock
<1>15. CASE HandleExit
  BY <1>15, <1>type, <1>engine, <1>inv, <1>held, <1>cur
  DEF HandleExit, Handling, Completed, Return, TypeOK, TargetType, EventType, EngineType,
      EngineInv, ThreadInv, Stops, Exits, Known, LeftStepFrame, Gone, Lock
<1>16. CASE HandleStop
  BY <1>16, <1>type, <1>engine, <1>inv, <1>held, <1>cur
  DEF HandleStop, Handling, Completed, Return, TypeOK, TargetType, EventType, EngineType,
      EngineInv, ThreadInv, Stops, Exits, Known, LeftStepFrame, Gone, Lock
<1>17. CASE HandleIgnored
  BY <1>17, <1>type, <1>engine, <1>inv, <1>held, <1>cur
  DEF HandleIgnored, Handling, ResumeOperation, Resume, RecursiveLock, GoneAbandons, Gone, Run,
      Completed, Return, TypeOK, TargetType, EventType, EngineType, EngineInv, ThreadInv, Stops,
      Exits, Known, LeftStepFrame, Lock
<1>18. CASE HandleBreakpoint
  <2>1. cur'.t = cur.t
    BY <1>18, <1>engine, BreakpointCur
  <2> QED
    BY <1>18, <2>1, <1>type, <1>inv, <1>cur
    DEF HandleBreakpoint, Handling, Resume, RecursiveLock, GoneAbandons, Gone, Run, Completed,
        Return, TypeOK, TargetType, EventType, EngineType, Known
<1>19. CASE HandleStep
  BY <1>19, <1>type, <1>engine, <1>inv, <1>held, <1>cur
  DEF HandleStep, Handling, ResumeOperation, LeftStepFrame, Resume, RecursiveLock,
      GoneCompletes, Gone, Run, Completed, Return, TypeOK, TargetType, EventType, EngineType,
      EngineInv, ThreadInv, Stops, Exits, Known, Lock
<1>20. CASE Release
  BY <1>20, <1>type, <1>engine, <1>inv, <1>held, <1>cur
  DEF Release, Handling, ReleaseThreads, LockedThreads, Poppable, TypeOK, TargetType, EventType,
      EngineType, EngineInv, ThreadInv, Stops, Exits, Known, LeftStepFrame, Gone, Lock
<1>21. CASE ReleaseFails
  BY <1>21, <1>type, <1>engine, <1>inv, <1>held, <1>cur
  DEF ReleaseFails, Handling, ReleaseThreads, LockedThreads, Poppable, AllDie, Return, TypeOK,
      TargetType, EventType, EngineType, EngineInv, ThreadInv, Stops, Exits, Known,
      LeftStepFrame, Gone, Lock
<1>22. CASE ReleaseGone
  BY <1>22, <1>type, <1>engine, <1>inv, <1>held, <1>cur
  DEF ReleaseGone, Handling, GoneCompletes, Gone, Completed, Return, TypeOK, TargetType,
      EventType, EngineType, EngineInv, ThreadInv, Stops, Exits, Known, LeftStepFrame, Lock
<1>23. CASE CheckPending
  BY <1>23, <1>type, <1>engine, <1>inv, <1>held, <1>cur
  DEF CheckPending, TypeOK, TargetType, EventType, EngineType, EngineInv, ThreadInv, Stops,
      Exits, Known, LeftStepFrame, Gone, Lock
<1>24. ASSUME NEW t \in Threads, PendingSkip (t) PROVE Known (u)'
  BY <1>24, <1>type, <1>engine, <1>inv, <1>held, <1>cur
  DEF PendingSkip, TypeOK, TargetType, EventType, EngineType, EngineInv, ThreadInv, Stops,
      Exits, Known, LeftStepFrame, Gone, Lock
<1>25. ASSUME NEW t \in Threads, PendingNext (t) PROVE Known (u)'
  BY <1>25, <1>type, <1>engine, <1>inv, <1>held, <1>cur
  DEF PendingNext, MayProcess, Alive, Gone, ResumeOperation, LeftStepFrame, Resume, Run, Return,
      TypeOK, TargetType, EventType, EngineType, EngineInv, ThreadInv, Stops, Exits, Known,
      Lock
<1>26. CASE PendingDone
  BY <1>26, <1>type, <1>engine, <1>inv, <1>held, <1>cur
  DEF PendingDone, TypeOK, TargetType, EventType, EngineType, EngineInv, ThreadInv, Stops,
      Exits, Known, LeftStepFrame, Gone, Lock
<1>27. ASSUME NEW t \in Threads, NEW o \in Commands, StartOperation (t, o) PROVE Known (u)'
  BY <1>27, <1>type, <1>inv DEF StartOperation, TypeOK, EngineType, Known, Gone
<1>28. ASSUME NEW t \in Threads, Stop (t) PROVE Known (u)'
  BY <1>28, <1>type, <1>engine, <1>inv, <1>held, <1>cur
  DEF Stop, TypeOK, TargetType, EventType, EngineType, EngineInv, ThreadInv, Stops, Exits,
      Known, LeftStepFrame, Gone, Lock
<1>29. ASSUME NEW t \in Threads, ExecuteOperation (t) PROVE Known (u)'
  BY <1>29, <1>type, <1>engine, <1>inv, <1>held, <1>cur
  DEF ExecuteOperation, Resume, RecursiveLock, GoneCompletes, Gone, Run, Completed, Return,
      TypeOK, TargetType, EventType, EngineType, EngineInv, ThreadInv, Stops, Exits, Known,
      LeftStepFrame, Lock, Operation, Waiting
<1>30. ASSUME NEW t \in Threads, CommandLost (t) PROVE Known (u)'
  BY <1>30, <1>type, <1>inv DEF CommandLost, Waiting, TypeOK, EngineType, Known, Gone
<1>31. CASE UNCHANGED vars
  BY <1>31, <1>inv DEF vars, Known, StepsOver, Gone
<1> QED
  BY <1>1, <1>2, <1>3, <1>4, <1>5, <1>6, <1>7, <1>8, <1>9, <1>10, <1>11, <1>12, <1>13, <1>14,
     <1>15, <1>16, <1>17, <1>18, <1>19, <1>20, <1>21, <1>22, <1>23, <1>24, <1>25, <1>26, <1>27,
     <1>28, <1>29, <1>30, <1>31
  DEF Next, Target, Engine, Handle, Acquire, Pending, User

-----------------------------------------------------------------------------
(* While a breakpoint is disabled, only the thread that steps over it runs, *)
(* unless a user resumes another one: StartOperation looks only at the lock *)
(* of its own thread.                                                       *)
THEOREM OwnerCorrect ==
    ASSUME Commands \cap {"run", "step"} = {}
    PROVE  Spec => []OnlyOwnerRuns
<1>1. Init => OwnerInv
  BY DEF Init, OwnerInv, Owner, StepsOver
<1>2. IInv /\ OwnerInv /\ [Next]_vars => OwnerInv'
  BY NextOwner
<1>3. IInv /\ OwnerInv => OnlyOwnerRuns
  <2> SUFFICES ASSUME IInv, OwnerInv, enabled # Breakpoints,
                      NEW t \in thread_hash, kstate[t] = "running"
               PROVE  StepsOver (t)
    BY DEF OnlyOwnerRuns
  <2>1. t \in Threads
    BY DEF IInv, TypeOK, EngineType
  <2>2. Owner (t) /\ Quiet (t)
    BY <2>1 DEF OwnerInv, IInv, ThreadInv
  <2> QED
    BY <2>2 DEF Owner, Quiet, Gone
<1> QED
  BY <1>1, <1>2, <1>3, IInvCorrect, PTL DEF Spec

(* Acquiring and releasing the thread lock forgets no thread, whatever the  *)
(* users do between StartOperation() and the command in the engine thread.  *)
THEOREM ForgottenCorrect == Spec => []NoThreadForgotten
<1>1. Init => KnownInv
  BY DEF Init, KnownInv, Known
<1>2. IInv /\ KnownInv /\ [Next]_vars => KnownInv'
  BY NextKnown
<1>3. IInv /\ KnownInv => NoThreadForgotten
  <2> SUFFICES ASSUME IInv, KnownInv, NEW t \in thread_hash,
                      ~engine_stopped[t], kstate[t] = "stopped", op[t] # "step",
                      requested[t] = "none"
               PROVE  UnderWay (t)
    BY DEF NoThreadForgotten
  <2>1. t \in Threads
    BY DEF IInv, TypeOK, EngineType
  <2>2. Known (t)
    BY <2>1 DEF KnownInv
  <2> QED
    BY <2>2 DEF Known, UnderWay
<1> QED
  BY <1>1, <1>2, <1>3, IInvCorrect, PTL DEF Spec
=============================================================================
