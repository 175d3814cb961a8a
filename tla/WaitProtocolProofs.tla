------------------------- MODULE WaitProtocolProofs -------------------------
(***************************************************************************)
(* Theorems about WaitProtocol, for any finite sets of threads.            *)
(*                                                                         *)
(* StopAnswersRequest is not inductive: whether the status word that the   *)
(* wait thread leaves in stop_status is one of the requested thread        *)
(* depends on who may write stop_requested when.  StopInv states that.     *)
(***************************************************************************)
EXTENDS WaitProtocol, TLAPS

InStop == {"s_lock2", "s_lock3", "s_lock1", "s_wait", "s_done", "s_notarget"}

(* A clone event names a thread: InitializeThread() gets a real pid.        *)
CloneInv ==
    /\ \A p \in Pids : kword[p] = "clone" => child[p] \in Pids
    /\ wev.st = "clone" => child[wev.pid] \in Pids
    /\ stop_status.st = "clone" => child[stop_status.pid] \in Pids
    /\ inbox.st = "clone" => child[inbox.pid] \in Pids
    /\ eev.st = "clone" => child[eev.pid] \in Pids
    /\ epc = "n_wait" => eev.st = "clone"

(* stop_requested is the target exactly while stop_and_wait() waits for     *)
(* wait_mutex, and a stop_status belongs to it.                             *)
StopInv ==
    /\ epc \in InStop => target \in Pids
    /\ wpc = "lock2" => wev \in Event
    /\ epc = "s_lock1" => stop_requested = target
    /\ epc # "s_lock1" => stop_requested = NoPid /\ stop_status = NoEvent
    /\ stop_status # NoEvent => stop_status.pid = stop_requested
    /\ epc = "s_done" => eev.pid = target

IInv == TypeOK /\ CloneInv /\ StopInv

(* An event is not the empty one, and its parts have their types.           *)
LEMMA EventFacts ==
    /\ NoPid \notin Pids /\ Spare \subseteq Pids
    /\ \A e \in Event : e.pid \in Pids /\ e.st \in Words /\ e # NoEvent
    /\ \A p \in Pids, w \in Words : [pid |-> p, st |-> w] \in Event
    /\ NoEvent.pid = NoPid /\ NoEvent.st = Zero
    /\ Zero = "zero"
BY PidAssumption DEF Pids, Event, NoEvent, Zero, Words, Exits

(* The invariant holds when the debugger starts.                            *)
LEMMA InitIInv == Init => IInv
BY PidAssumption, EventFacts DEF Init, IInv, TypeOK, KernelOK, EventsOK, ControlOK, FlagsOK,
   CloneInv, StopInv, InStop, Reaped, Words, Exits, Pids, NoEvent, Zero

(* Every step of the three parties keeps the invariant.                     *)
LEMMA NextIInv == IInv /\ [Next]_vars => IInv'
<1> SUFFICES ASSUME IInv, [Next]_vars PROVE IInv'
  OBVIOUS
<1> USE PidAssumption, EventFacts DEF IInv, TypeOK, KernelOK, EventsOK, ControlOK, FlagsOK,
    CloneInv, StopInv, InStop, Reaped, Words, Exits, kernel, mutexes, wait, engine, tables
<1>1. ASSUME NEW p \in Pids, Trap (p) PROVE IInv'
  <2>1. EventsOK' /\ ControlOK' /\ FlagsOK' /\ StopInv'
    BY <1>1 DEF Trap, Halt
  <2>2. KernelOK'
    BY <1>1 DEF Trap, Halt
  <2>3. CloneInv'
    BY <1>1 DEF Trap, Halt
  <2> HIDE DEF KernelOK, EventsOK, ControlOK, FlagsOK, CloneInv, StopInv
  <2> QED
    BY <2>1, <2>2, <2>3
<1>2. ASSUME NEW p \in Pids, DeliverSigstop (p) PROVE IInv'
  <2>1. KernelOK'
    BY <1>2 DEF DeliverSigstop, Halt
  <2>2. EventsOK'
    BY <1>2 DEF DeliverSigstop, Halt
  <2>3. ControlOK'
    BY <1>2 DEF DeliverSigstop, Halt
  <2>4. FlagsOK'
    BY <1>2 DEF DeliverSigstop, Halt
  <2>5. CloneInv'
    BY <1>2 DEF DeliverSigstop, Halt
  <2>6. StopInv'
    BY <1>2 DEF DeliverSigstop, Halt
  <2> HIDE DEF KernelOK, EventsOK, ControlOK, FlagsOK, CloneInv, StopInv
  <2> QED
    BY <2>1, <2>2, <2>3, <2>4, <2>5, <2>6
<1>3. ASSUME NEW p \in Pids, ChildStarts (p) PROVE IInv'
  <2>1. EventsOK' /\ ControlOK' /\ FlagsOK' /\ StopInv'
    BY <1>3 DEF ChildStarts, Halt
  <2>2. KernelOK'
    BY <1>3 DEF ChildStarts, Halt
  <2>3. CloneInv'
    BY <1>3 DEF ChildStarts, Halt
  <2> HIDE DEF KernelOK, EventsOK, ControlOK, FlagsOK, CloneInv, StopInv
  <2> QED
    BY <2>1, <2>2, <2>3
<1>4. ASSUME NEW p \in Pids, NEW word \in Exits, ThreadExit (p, word) PROVE IInv'
  <2>1. EventsOK' /\ ControlOK' /\ FlagsOK' /\ StopInv'
    BY <1>4 DEF ThreadExit, Halt
  <2>2. KernelOK'
    BY <1>4 DEF ThreadExit, Halt
  <2>3. CloneInv'
    BY <1>4 DEF ThreadExit, Halt
  <2> HIDE DEF KernelOK, EventsOK, ControlOK, FlagsOK, CloneInv, StopInv
  <2> QED
    BY <2>1, <2>2, <2>3
<1>5. ASSUME NEW p \in Pids, NEW c \in Spare, Clone (p, c) PROVE IInv'
  <2>1. KernelOK'
    BY <1>5 DEF Clone
  <2>2. EventsOK'
    BY <1>5 DEF Clone
  <2>3. ControlOK'
    BY <1>5 DEF Clone
  <2>4. FlagsOK'
    BY <1>5 DEF Clone
  <2>5. CloneInv'
    BY <1>5 DEF Clone
  <2>6. StopInv'
    BY <1>5 DEF Clone
  <2> HIDE DEF KernelOK, EventsOK, ControlOK, FlagsOK, CloneInv, StopInv
  <2> QED
    BY <2>1, <2>2, <2>3, <2>4, <2>5, <2>6
<1>6. CASE WaitStart
  <2>1. KernelOK' /\ EventsOK' /\ CloneInv'
    BY <1>6 DEF WaitStart
  <2>2. ControlOK'
    BY <1>6 DEF WaitStart
  <2>3. FlagsOK'
    BY <1>6 DEF WaitStart
  <2>4. StopInv'
    BY <1>6 DEF WaitStart
  <2> HIDE DEF KernelOK, EventsOK, ControlOK, FlagsOK, CloneInv, StopInv
  <2> QED
    BY <2>1, <2>2, <2>3, <2>4
<1>7. CASE WaitAgain
  <2>1. KernelOK' /\ FlagsOK' /\ CloneInv'
    BY <1>7 DEF WaitAgain
  <2>2. EventsOK'
    BY <1>7 DEF WaitAgain
  <2>3. ControlOK'
    BY <1>7 DEF WaitAgain
  <2>4. StopInv'
    BY <1>7 DEF WaitAgain
  <2> HIDE DEF KernelOK, EventsOK, ControlOK, FlagsOK, CloneInv, StopInv
  <2> QED
    BY <2>1, <2>2, <2>3, <2>4
<1>8. CASE GlobalWaitLock
  <2>1. KernelOK' /\ EventsOK' /\ FlagsOK' /\ CloneInv'
    BY <1>8 DEF GlobalWaitLock
  <2>2. ControlOK'
    BY <1>8 DEF GlobalWaitLock
  <2>3. StopInv'
    BY <1>8 DEF GlobalWaitLock
  <2> HIDE DEF KernelOK, EventsOK, ControlOK, FlagsOK, CloneInv, StopInv
  <2> QED
    BY <2>1, <2>2, <2>3
<1>9. CASE GlobalWaitNoChild
  <2>1. KernelOK' /\ EventsOK' /\ FlagsOK' /\ CloneInv'
    BY <1>9 DEF GlobalWaitNoChild
  <2>2. ControlOK'
    BY <1>9 DEF GlobalWaitNoChild
  <2>3. StopInv'
    BY <1>9 DEF GlobalWaitNoChild
  <2> HIDE DEF KernelOK, EventsOK, ControlOK, FlagsOK, CloneInv, StopInv
  <2> QED
    BY <2>1, <2>2, <2>3
<1>10. CASE GlobalWaitCheck
  <2>1. KernelOK' /\ FlagsOK'
    BY <1>10 DEF GlobalWaitCheck
  <2>2. EventsOK'
    BY <1>10 DEF GlobalWaitCheck
  <2>3. ControlOK'
    BY <1>10 DEF GlobalWaitCheck
  <2>4. CloneInv'
    BY <1>10 DEF GlobalWaitCheck
  <2>5. StopInv'
    BY <1>10 DEF GlobalWaitCheck
  <2> HIDE DEF KernelOK, EventsOK, ControlOK, FlagsOK, CloneInv, StopInv
  <2> QED
    BY <2>1, <2>2, <2>3, <2>4, <2>5
<1>11. CASE GlobalWaitAgain
  <2>1. KernelOK' /\ EventsOK' /\ FlagsOK' /\ CloneInv'
    BY <1>11 DEF GlobalWaitAgain
  <2>2. ControlOK'
    BY <1>11 DEF GlobalWaitAgain
  <2>3. StopInv'
    BY <1>11 DEF GlobalWaitAgain
  <2> HIDE DEF KernelOK, EventsOK, ControlOK, FlagsOK, CloneInv, StopInv
  <2> QED
    BY <2>1, <2>2, <2>3
<1>12. CASE WaitDeliver
  <2>1. KernelOK'
    BY <1>12 DEF WaitDeliver
  <2>2. EventsOK'
    BY <1>12 DEF WaitDeliver
  <2>3. ControlOK'
    BY <1>12 DEF WaitDeliver
  <2>4. FlagsOK'
    BY <1>12 DEF WaitDeliver
  <2>5. CloneInv'
    BY <1>12 DEF WaitDeliver
  <2>6. StopInv'
    BY <1>12 DEF WaitDeliver
  <2> HIDE DEF KernelOK, EventsOK, ControlOK, FlagsOK, CloneInv, StopInv
  <2> QED
    BY <2>1, <2>2, <2>3, <2>4, <2>5, <2>6
<1>13. ASSUME NEW p \in Pids, GlobalWaitReap (p) PROVE IInv'
  <2>1. FlagsOK'
    BY <1>13 DEF GlobalWaitReap, Reap
  <2>2. KernelOK'
    BY <1>13 DEF GlobalWaitReap, Reap
  <2>3. EventsOK'
    BY <1>13 DEF GlobalWaitReap, Reap
  <2>4. ControlOK'
    BY <1>13 DEF GlobalWaitReap, Reap
  <2>5. CloneInv'
    BY <1>13 DEF GlobalWaitReap, Reap
  <2>6. StopInv'
    BY <1>13 DEF GlobalWaitReap, Reap
  <2> HIDE DEF KernelOK, EventsOK, ControlOK, FlagsOK, CloneInv, StopInv
  <2> QED
    BY <2>1, <2>2, <2>3, <2>4, <2>5, <2>6
<1>14. ASSUME NEW p \in Pids, StopCall (p) PROVE IInv'
  <2>1. KernelOK'
    BY <1>14 DEF StopCall
  <2>2. EventsOK'
    BY <1>14 DEF StopCall
  <2>3. ControlOK'
    BY <1>14 DEF StopCall
  <2>4. FlagsOK'
    BY <1>14 DEF StopCall
  <2>5. CloneInv'
    BY <1>14 DEF StopCall
  <2>6. StopInv'
    BY <1>14 DEF StopCall
  <2> HIDE DEF KernelOK, EventsOK, ControlOK, FlagsOK, CloneInv, StopInv
  <2> QED
    BY <2>1, <2>2, <2>3, <2>4, <2>5, <2>6
<1>15. ASSUME NEW p \in Pids, Resume (p) PROVE IInv'
  <2>1. EventsOK' /\ ControlOK' /\ CloneInv' /\ StopInv'
    BY <1>15 DEF Resume, Continue
  <2>2. KernelOK'
    BY <1>15 DEF Resume, Continue
  <2>3. FlagsOK'
    BY <1>15 DEF Resume, Continue
  <2> HIDE DEF KernelOK, EventsOK, ControlOK, FlagsOK, CloneInv, StopInv
  <2> QED
    BY <2>1, <2>2, <2>3
<1>16. CASE StopSignal
  <2>1. KernelOK' /\ EventsOK'
    BY <1>16 DEF StopSignal
  <2>2. ControlOK'
    BY <1>16 DEF StopSignal
  <2>3. FlagsOK'
    BY <1>16 DEF StopSignal
  <2>4. CloneInv'
    BY <1>16 DEF StopSignal
  <2>5. StopInv'
    BY <1>16 DEF StopSignal
  <2> HIDE DEF KernelOK, EventsOK, ControlOK, FlagsOK, CloneInv, StopInv
  <2> QED
    BY <2>1, <2>2, <2>3, <2>4, <2>5
<1>17. CASE StopRequest
  <2>1. KernelOK' /\ FlagsOK'
    BY <1>17 DEF StopRequest
  <2>2. EventsOK'
    BY <1>17 DEF StopRequest
  <2>3. ControlOK'
    BY <1>17 DEF StopRequest
  <2>4. CloneInv'
    BY <1>17 DEF StopRequest
  <2>5. StopInv'
    BY <1>17 DEF StopRequest
  <2> HIDE DEF KernelOK, EventsOK, ControlOK, FlagsOK, CloneInv, StopInv
  <2> QED
    BY <2>1, <2>2, <2>3, <2>4, <2>5
<1>18. CASE StopTake
  <2>1. KernelOK' /\ FlagsOK'
    BY <1>18 DEF StopTake
  <2>2. EventsOK'
    BY <1>18 DEF StopTake
  <2>3. ControlOK'
    BY <1>18 DEF StopTake
  <2>4. CloneInv'
    BY <1>18 DEF StopTake
  <2>5. StopInv'
    BY <1>18 DEF StopTake
  <2> HIDE DEF KernelOK, EventsOK, ControlOK, FlagsOK, CloneInv, StopInv
  <2> QED
    BY <2>1, <2>2, <2>3, <2>4, <2>5
<1>19. CASE StopReap
  <2>1. FlagsOK'
    BY <1>19 DEF StopReap, Reap
  <2>2. KernelOK'
    BY <1>19 DEF StopReap, Reap
  <2>3. EventsOK'
    BY <1>19 DEF StopReap, Reap
  <2>4. ControlOK'
    BY <1>19 DEF StopReap, Reap
  <2>5. CloneInv'
    BY <1>19 DEF StopReap, Reap
  <2>6. StopInv'
    BY <1>19 DEF StopReap, Reap
  <2> HIDE DEF KernelOK, EventsOK, ControlOK, FlagsOK, CloneInv, StopInv
  <2> QED
    BY <2>1, <2>2, <2>3, <2>4, <2>5, <2>6
<1>20. CASE StopPoll
  BY <1>20 DEF StopPoll, vars
<1>21. CASE StopNoTarget
  <2>1. KernelOK' /\ EventsOK' /\ FlagsOK'
    BY <1>21 DEF StopNoTarget
  <2>2. ControlOK'
    BY <1>21 DEF StopNoTarget
  <2>3. CloneInv'
    BY <1>21 DEF StopNoTarget
  <2>4. StopInv'
    BY <1>21 DEF StopNoTarget
  <2> HIDE DEF KernelOK, EventsOK, ControlOK, FlagsOK, CloneInv, StopInv
  <2> QED
    BY <2>1, <2>2, <2>3, <2>4
<1>22. CASE StopReturn
  <2>1. KernelOK'
    BY <1>22 DEF StopReturn
  <2>2. EventsOK'
    BY <1>22 DEF StopReturn
  <2>3. ControlOK'
    BY <1>22 DEF StopReturn
  <2>4. FlagsOK'
    BY <1>22 DEF StopReturn
  <2>5. CloneInv'
    BY <1>22 DEF StopReturn
  <2>6. StopInv'
    BY <1>22 DEF StopReturn
  <2> HIDE DEF KernelOK, EventsOK, ControlOK, FlagsOK, CloneInv, StopInv
  <2> QED
    BY <2>1, <2>2, <2>3, <2>4, <2>5, <2>6
<1>23. CASE TakeInbox
  <2>1. KernelOK'
    BY <1>23 DEF TakeInbox
  <2>2. EventsOK'
    BY <1>23 DEF TakeInbox
  <2>3. ControlOK'
    BY <1>23 DEF TakeInbox
  <2>4. FlagsOK'
    BY <1>23 DEF TakeInbox
  <2>5. CloneInv'
    BY <1>23 DEF TakeInbox
  <2>6. StopInv'
    BY <1>23 DEF TakeInbox
  <2> HIDE DEF KernelOK, EventsOK, ControlOK, FlagsOK, CloneInv, StopInv
  <2> QED
    BY <2>1, <2>2, <2>3, <2>4, <2>5, <2>6
<1>24. CASE ProcessStop
  <2>1. KernelOK'
    <3>1. CASE UNCHANGED kstate
      BY <1>24, <3>1 DEF ProcessStop
    <3>2. CASE Continue ({eev.pid})
      BY <1>24, <3>2 DEF ProcessStop, Continue
    <3> QED
      BY <1>24, <3>1, <3>2 DEF ProcessStop
  <2>2. EventsOK'
    BY <1>24 DEF ProcessStop, ProcessDone, Continue
  <2>3. ControlOK'
    BY <1>24 DEF ProcessStop, ProcessDone, Continue
  <2>4. FlagsOK'
    BY <1>24 DEF ProcessStop, ProcessDone, Continue
  <2>5. CloneInv'
    BY <1>24 DEF ProcessStop, ProcessDone, Continue
  <2>6. StopInv'
    BY <1>24 DEF ProcessStop, ProcessDone, Continue
  <2> HIDE DEF KernelOK, EventsOK, ControlOK, FlagsOK, CloneInv, StopInv
  <2> QED
    BY <2>1, <2>2, <2>3, <2>4, <2>5, <2>6
<1>25. CASE ProcessExit
  <2>1. KernelOK'
    BY <1>25 DEF ProcessExit, ProcessDone
  <2>2. EventsOK'
    BY <1>25 DEF ProcessExit, ProcessDone
  <2>3. ControlOK'
    BY <1>25 DEF ProcessExit, ProcessDone
  <2>4. FlagsOK'
    BY <1>25 DEF ProcessExit, ProcessDone
  <2>5. CloneInv'
    BY <1>25 DEF ProcessExit, ProcessDone
  <2>6. StopInv'
    BY <1>25 DEF ProcessExit, ProcessDone
  <2> HIDE DEF KernelOK, EventsOK, ControlOK, FlagsOK, CloneInv, StopInv
  <2> QED
    BY <2>1, <2>2, <2>3, <2>4, <2>5, <2>6
<1>26. CASE ProcessCloneSeen
  <2>1. KernelOK'
    <3>1. CASE Continue ({child[eev.pid], eev.pid}) /\ UNCHANGED engine_stopped
      BY <1>26, <3>1
      DEF ProcessCloneSeen, ProcessDone, Continue
    <3>2. CASE Continue ({child[eev.pid]}) /\ engine_stopped' = [engine_stopped EXCEPT ![eev.pid] = TRUE]
      BY <1>26, <3>2
      DEF ProcessCloneSeen, ProcessDone, Continue
    <3> QED
      BY <1>26, <3>1, <3>2 DEF ProcessCloneSeen, CloneResumes
  <2>2. EventsOK'
    BY <1>26 DEF ProcessCloneSeen, ProcessDone, CloneResumes, Continue
  <2>3. ControlOK'
    BY <1>26 DEF ProcessCloneSeen, ProcessDone, CloneResumes, Continue
  <2>4. FlagsOK'
    BY <1>26 DEF ProcessCloneSeen, ProcessDone, CloneResumes, Continue
  <2>5. CloneInv'
    BY <1>26 DEF ProcessCloneSeen, ProcessDone, CloneResumes, Continue
  <2>6. StopInv'
    BY <1>26 DEF ProcessCloneSeen, ProcessDone, CloneResumes, Continue
  <2> HIDE DEF KernelOK, EventsOK, ControlOK, FlagsOK, CloneInv, StopInv
  <2> QED
    BY <2>1, <2>2, <2>3, <2>4, <2>5, <2>6
<1>27. CASE NewThreadTrylock
  <2>1. KernelOK' /\ EventsOK' /\ FlagsOK'
    BY <1>27 DEF NewThreadTrylock
  <2>2. ControlOK'
    BY <1>27 DEF NewThreadTrylock
  <2>3. CloneInv'
    BY <1>27 DEF NewThreadTrylock
  <2>4. StopInv'
    BY <1>27 DEF NewThreadTrylock
  <2> HIDE DEF KernelOK, EventsOK, ControlOK, FlagsOK, CloneInv, StopInv
  <2> QED
    BY <2>1, <2>2, <2>3, <2>4
<1>28. CASE NewThreadWait
  <2>1. KernelOK'
    <3>1. CASE Continue ({child[eev.pid], eev.pid}) /\ UNCHANGED engine_stopped
      BY <1>28, <3>1
      DEF NewThreadWait, ProcessDone, Continue
    <3>2. CASE Continue ({child[eev.pid]}) /\ engine_stopped' = [engine_stopped EXCEPT ![eev.pid] = TRUE]
      BY <1>28, <3>2
      DEF NewThreadWait, ProcessDone, Continue
    <3> QED
      BY <1>28, <3>1, <3>2 DEF NewThreadWait, CloneResumes
  <2>2. EventsOK'
    BY <1>28 DEF NewThreadWait, ProcessDone, CloneResumes, Continue
  <2>3. ControlOK'
    BY <1>28 DEF NewThreadWait, ProcessDone, CloneResumes, Continue
  <2>4. FlagsOK'
    BY <1>28 DEF NewThreadWait, ProcessDone, CloneResumes, Continue
  <2>5. CloneInv'
    BY <1>28 DEF NewThreadWait, ProcessDone, CloneResumes, Continue
  <2>6. StopInv'
    BY <1>28 DEF NewThreadWait, ProcessDone, CloneResumes, Continue
  <2> HIDE DEF KernelOK, EventsOK, ControlOK, FlagsOK, CloneInv, StopInv
  <2> QED
    BY <2>1, <2>2, <2>3, <2>4, <2>5, <2>6
<1>29. CASE NewThreadFailed
  <2>1. KernelOK'
    BY <1>29 DEF NewThreadFailed, ProcessDone
  <2>2. EventsOK'
    BY <1>29 DEF NewThreadFailed, ProcessDone
  <2>3. ControlOK'
    BY <1>29 DEF NewThreadFailed, ProcessDone
  <2>4. FlagsOK'
    BY <1>29 DEF NewThreadFailed, ProcessDone
  <2>5. CloneInv'
    BY <1>29 DEF NewThreadFailed, ProcessDone
  <2>6. StopInv'
    BY <1>29 DEF NewThreadFailed, ProcessDone
  <2> HIDE DEF KernelOK, EventsOK, ControlOK, FlagsOK, CloneInv, StopInv
  <2> QED
    BY <2>1, <2>2, <2>3, <2>4, <2>5, <2>6
<1>30. CASE Terminated
  BY <1>30 DEF Terminated, vars
<1>31. CASE UNCHANGED vars
  BY <1>31 DEF vars
<1> HIDE DEF IInv, TypeOK, CloneInv, StopInv
<1> QED
  BY <1>1, <1>2, <1>3, <1>4, <1>5, <1>6, <1>7, <1>8, <1>9, <1>10, <1>11, <1>12,
     <1>13, <1>14, <1>15, <1>16, <1>17, <1>18, <1>19, <1>20, <1>21, <1>22, <1>23, <1>24,
     <1>25, <1>26, <1>27, <1>28, <1>29, <1>30, <1>31
  DEF Next, Kernel, WaitThread, UserCommand, StopAndWait, Processing

(* The type invariant holds in every reachable state.                       *)
THEOREM TypeCorrect == Spec => []TypeOK
<1>1. IInv => TypeOK
  BY DEF IInv
<1> QED
  BY <1>1, InitIInv, NextIInv, PTL DEF Spec

(* server_ptrace_stop_and_wait() returns a status of the thread it was      *)
(* asked to stop, and neither a request nor a status outlives the call.     *)
THEOREM StopCorrect == Spec => []StopAnswersRequest
<1>1. IInv => StopAnswersRequest
  BY DEF IInv, StopInv, StopAnswersRequest
<1> QED
  BY <1>1, InitIInv, NextIInv, PTL DEF Spec
=============================================================================
