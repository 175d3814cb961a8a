------------------------ MODULE WaitDeliveryProofs ------------------------
(***************************************************************************)
(* The events of the target's threads are neither lost nor duplicated, for *)
(* any finite sets of threads.                                             *)
(*                                                                         *)
(* EventOnce is not inductive: a thread gets a second event when it is     *)
(* resumed while it has one, and an event is lost when a place that holds  *)
(* one is written.  Inv adds what excludes both.                           *)
(***************************************************************************)
EXTENDS WaitProtocolProofs, FiniteSetTheorems

(* The four places an event can be in once waitpid() has reported it.       *)
Free (p) == wev.pid # p /\ stop_status.pid # p /\ inbox.pid # p /\ eev.pid # p

(* Who may write the places: wait_event is the right of the wait thread to  *)
(* wait, and is given back by the handler of the event it delivered; while  *)
(* stop_status is full, the wait thread waits for wait_mutex_3.             *)
PlaceInv ==
    /\ wev # NoEvent <=> wpc \in {"lock2", "deliver"}
    /\ eev # NoEvent <=> epc \in {"s_done", "process", "n_wait", "n_failed"}
    /\ wpc # "idle" => ~wait_event /\ ~from_wait /\ inbox = NoEvent
    /\ inbox # NoEvent => ~wait_event /\ ~from_wait
    /\ from_wait => ~wait_event
    /\ stop_status # NoEvent => wpc = "lock3"
    /\ epc \in {"s_lock1", "s_wait"} => m3 = "engine"
    /\ epc = "n_failed" => eev.st = "clone"

(* An event is in one place.                                                *)
OnceInv ==
    \A p \in Pids :
        /\ kword[p] # "none" => Free (p)
        /\ wev.pid = p => stop_status.pid # p /\ inbox.pid # p /\ eev.pid # p
        /\ stop_status.pid = p => inbox.pid # p /\ eev.pid # p
        /\ inbox.pid = p => eev.pid # p

(* What waitpid() has reported of a thread is still true of it.             *)
Holds (e) ==
    e # NoEvent =>
        kstate[e.pid] = IF e.st = "zero" THEN "reaped0"
                        ELSE IF e.st = "exit" THEN "reaped" ELSE "stopped"

StateInv == Holds (wev) /\ Holds (stop_status) /\ Holds (inbox) /\ Holds (eev)

(* So is what it has yet to report.                                         *)
WordInv ==
    \A p \in Pids : /\ kword[p] \in Exits <=> kstate[p] = "zombie"
                    /\ kword[p] \in Words \ Exits => kstate[p] = "stopped"

(* Which threads the engine can know: the events it holds are those of      *)
(* known threads, and an unknown thread has its initial stop at most.       *)
NewThread (e) == e # NoEvent => (e.st = "init" <=> e.pid \notin thread_hash)

KnownInv ==
    /\ \A p \in thread_hash : kstate[p] \notin {"absent", "starting"} /\ kword[p] # "init"
    /\ \A p \in Pids \ thread_hash : /\ kstate[p] \notin {"running", "zombie"}
                                     /\ kword[p] \in {"init", "none"}
    /\ NewThread (wev)
    /\ \A e \in {stop_status, inbox, eev} :
          e # NoEvent => e.pid \in thread_hash /\ e.st # "init"
    /\ epc \in InStop => target \in thread_hash

(* A thread that the engine left stopped, or whose initial stop was noted,  *)
(* has no event.                                                            *)
QuietInv ==
    /\ \A p \in Pids : engine_stopped[p] =>
          /\ p \in thread_hash /\ kstate[p] \in {"stopped"} \cup Reaped
          /\ kword[p] = "none" /\ Free (p)
    /\ \A p \in pending_sigstops :
          /\ p \notin thread_hash /\ kstate[p] = "stopped"
          /\ kword[p] = "none" /\ Free (p)

(* Every thread has one creator, and it stays unknown until the clone event *)
(* was handled.                                                             *)
Unborn (e) == e.st = "clone" => child[e.pid] \notin thread_hash

ChildInv ==
    /\ \A p \in Pids : child[p] # NoPid => kstate[child[p]] # "absent" /\ child[p] # p
    /\ \A p, q \in Pids : child[p] # NoPid /\ child[p] = child[q] => p = q
    /\ \A p \in Pids : kword[p] = "clone" => child[p] \notin thread_hash
    /\ Unborn (wev) /\ Unborn (stop_status) /\ Unborn (inbox) /\ Unborn (eev)

OwedInv == \A p \in thread_hash : Owes (p) => kword[p] # "none" \/ ~Free (p)

Inv == /\ IInv /\ PlaceInv /\ OnceInv /\ StateInv /\ WordInv
       /\ KnownInv /\ QuietInv /\ ChildInv /\ OwedInv

(* The debugger starts with nothing under way.                              *)
LEMMA InitInv == Init => Inv
<1> SUFFICES ASSUME Init PROVE Inv
  OBVIOUS
<1>1. IInv
  BY InitIInv
<1>2. PlaceInv /\ OnceInv /\ StateInv /\ WordInv
  BY EventFacts DEF Init, PlaceInv, OnceInv, Free, StateInv, Holds, WordInv, Exits, Words
<1>3. KnownInv /\ QuietInv /\ ChildInv /\ OwedInv
  BY EventFacts DEF Init, KnownInv, NewThread, InStop, QuietInv, ChildInv, Unborn, OwedInv, Owes, Pids
<1> QED
  BY <1>1, <1>2, <1>3 DEF Inv

(* Every step of the kernel, the wait thread and the engine thread keeps    *)
(* the invariant.                                                           *)
LEMMA NextInv == Inv /\ [Next]_vars => Inv'
<1> SUFFICES ASSUME Inv, [Next]_vars PROVE Inv'
  OBVIOUS
<1>type. TypeOK
  BY DEF Inv, IInv
<1>clone. CloneInv
  BY DEF Inv, IInv
<1>stop. StopInv
  BY DEF Inv, IInv
<1>place. PlaceInv
  BY DEF Inv
<1>once. OnceInv
  BY DEF Inv
<1>state. StateInv
  BY DEF Inv
<1>word. WordInv
  BY DEF Inv
<1>known. KnownInv
  BY DEF Inv
<1>quiet. QuietInv
  BY DEF Inv
<1>child. ChildInv
  BY DEF Inv
<1>owed. OwedInv
  BY DEF Inv
<1>run. \A p \in Pids : kstate[p] \in {"absent", "starting", "running"} => kword[p] = "none" /\ Free (p)
  BY <1>type, <1>state, <1>word, EventFacts DEF TypeOK, KernelOK, EventsOK, StateInv, Holds, WordInv, Words, Free
<1>iinv. IInv'
  BY NextIInv DEF Inv
<1> USE EventFacts DEF kernel, mutexes, wait, engine, tables, TypeOK, KernelOK, EventsOK, ControlOK, FlagsOK
<1>1. ASSUME NEW p \in Pids, Trap (p) PROVE Inv'
  <2>1. PlaceInv'
    BY <1>1, <1>place
    DEF Trap, Halt, PlaceInv
  <2>2. OnceInv'
    BY <1>1, <1>type, <1>once, <1>run
    DEF Trap, Halt, OnceInv, Free
  <2>3. StateInv'
    BY <1>1, <1>type, <1>state, <1>run
    DEF Trap, Halt, StateInv, Holds, Free
  <2>4. WordInv'
    BY <1>1, <1>type, <1>word
    DEF Trap, Halt, WordInv, Exits, Words
  <2>5. KnownInv'
    BY <1>1, <1>type, <1>known
    DEF Trap, Halt, KnownInv, NewThread, InStop
  <2>6. QuietInv'
    BY <1>1, <1>type, <1>quiet
    DEF Trap, Halt, QuietInv, Free, Reaped
  <2>7. ChildInv'
    BY <1>1, <1>type, <1>child
    DEF Trap, Halt, ChildInv, Unborn
  <2>8. OwedInv'
    BY <1>1, <1>type, <1>owed
    DEF Trap, Halt, OwedInv, Owes, CloneFailed, Free
  <2> QED
    BY <1>iinv, <2>1, <2>2, <2>3, <2>4, <2>5, <2>6, <2>7, <2>8 DEF Inv
<1>2. ASSUME NEW p \in Pids, DeliverSigstop (p) PROVE Inv'
  <2>1. PlaceInv'
    BY <1>2, <1>place
    DEF DeliverSigstop, Halt, PlaceInv
  <2>2. OnceInv'
    BY <1>2, <1>type, <1>once, <1>run
    DEF DeliverSigstop, Halt, OnceInv, Free
  <2>3. StateInv'
    BY <1>2, <1>type, <1>state, <1>run
    DEF DeliverSigstop, Halt, StateInv, Holds, Free
  <2>4. WordInv'
    BY <1>2, <1>type, <1>word
    DEF DeliverSigstop, Halt, WordInv, Exits, Words
  <2>5. KnownInv'
    BY <1>2, <1>type, <1>known
    DEF DeliverSigstop, Halt, KnownInv, NewThread, InStop
  <2>6. QuietInv'
    BY <1>2, <1>type, <1>quiet
    DEF DeliverSigstop, Halt, QuietInv, Free, Reaped
  <2>7. ChildInv'
    BY <1>2, <1>type, <1>child
    DEF DeliverSigstop, Halt, ChildInv, Unborn
  <2>8. OwedInv'
    BY <1>2, <1>type, <1>owed
    DEF DeliverSigstop, Halt, OwedInv, Owes, CloneFailed, Free
  <2> QED
    BY <1>iinv, <2>1, <2>2, <2>3, <2>4, <2>5, <2>6, <2>7, <2>8 DEF Inv
<1>3. ASSUME NEW p \in Pids, ChildStarts (p) PROVE Inv'
  <2>1. PlaceInv'
    BY <1>3, <1>place
    DEF ChildStarts, Halt, PlaceInv
  <2>2. OnceInv'
    BY <1>3, <1>type, <1>once, <1>run
    DEF ChildStarts, Halt, OnceInv, Free
  <2>3. StateInv'
    BY <1>3, <1>type, <1>state, <1>run
    DEF ChildStarts, Halt, StateInv, Holds, Free
  <2>4. WordInv'
    BY <1>3, <1>type, <1>word
    DEF ChildStarts, Halt, WordInv, Exits, Words
  <2>5. KnownInv'
    BY <1>3, <1>type, <1>known
    DEF ChildStarts, Halt, KnownInv, NewThread, InStop
  <2>6. QuietInv'
    BY <1>3, <1>type, <1>quiet
    DEF ChildStarts, Halt, QuietInv, Free, Reaped
  <2>7. ChildInv'
    BY <1>3, <1>type, <1>child
    DEF ChildStarts, Halt, ChildInv, Unborn
  <2>8. OwedInv'
    BY <1>3, <1>type, <1>owed, <1>known
    DEF ChildStarts, Halt, OwedInv, Owes, CloneFailed, Free, KnownInv, NewThread, InStop
  <2> QED
    BY <1>iinv, <2>1, <2>2, <2>3, <2>4, <2>5, <2>6, <2>7, <2>8 DEF Inv
<1>4. ASSUME NEW p \in Pids, NEW word \in Exits, ThreadExit (p, word) PROVE Inv'
  <2>1. PlaceInv'
    BY <1>4, <1>place
    DEF ThreadExit, Halt, Exits, PlaceInv
  <2>2. OnceInv'
    BY <1>4, <1>type, <1>once, <1>run
    DEF ThreadExit, Halt, Exits, OnceInv, Free
  <2>3. StateInv'
    BY <1>4, <1>type, <1>state, <1>run
    DEF ThreadExit, Halt, Exits, StateInv, Holds, Free
  <2>4. WordInv'
    BY <1>4, <1>type, <1>word
    DEF ThreadExit, Halt, Exits, WordInv, Exits, Words
  <2>5. KnownInv'
    BY <1>4, <1>type, <1>known
    DEF ThreadExit, Halt, Exits, KnownInv, NewThread, InStop
  <2>6. QuietInv'
    BY <1>4, <1>type, <1>quiet
    DEF ThreadExit, Halt, Exits, QuietInv, Free, Reaped
  <2>7. ChildInv'
    BY <1>4, <1>type, <1>child
    DEF ThreadExit, Halt, Exits, ChildInv, Unborn
  <2>8. OwedInv'
    BY <1>4, <1>type, <1>owed
    DEF ThreadExit, Halt, Exits, OwedInv, Owes, CloneFailed, Free
  <2> QED
    BY <1>iinv, <2>1, <2>2, <2>3, <2>4, <2>5, <2>6, <2>7, <2>8 DEF Inv
<1>5. ASSUME NEW p \in Pids, NEW c \in Spare, Clone (p, c) PROVE Inv'
  <2>1. PlaceInv'
    BY <1>5, <1>place
    DEF Clone, PlaceInv
  <2>2. OnceInv'
    BY <1>5, <1>type, <1>once, <1>run
    DEF Clone, OnceInv, Free
  <2>3. StateInv'
    BY <1>5, <1>type, <1>state, <1>run
    DEF Clone, StateInv, Holds, Free
  <2>4. WordInv'
    BY <1>5, <1>type, <1>word, <1>run
    DEF Clone, WordInv, Exits, Words, Free
  <2>5. KnownInv'
    BY <1>5, <1>type, <1>known
    DEF Clone, KnownInv, NewThread, InStop
  <2>6. QuietInv'
    BY <1>5, <1>type, <1>quiet
    DEF Clone, QuietInv, Free, Reaped
  <2>7. ChildInv'
    BY <1>5, <1>type, <1>child, <1>known, <1>run, <1>place
    DEF Clone, ChildInv, Unborn, KnownInv, NewThread, InStop, Free, PlaceInv
  <2>8. OwedInv'
    BY <1>5, <1>type, <1>owed, <1>known
    DEF Clone, OwedInv, Owes, CloneFailed, Free, KnownInv, NewThread, InStop
  <2> QED
    BY <1>iinv, <2>1, <2>2, <2>3, <2>4, <2>5, <2>6, <2>7, <2>8 DEF Inv
<1>6. CASE WaitStart
  <2>1. OnceInv' /\ StateInv' /\ WordInv' /\ KnownInv' /\ QuietInv' /\ ChildInv' /\ OwedInv'
    BY <1>6, <1>once, <1>state, <1>word, <1>known, <1>quiet, <1>child, <1>owed
    DEF WaitStart, OnceInv, Free, StateInv, Holds, WordInv, KnownInv, NewThread, QuietInv, ChildInv, Unborn, OwedInv, Owes, CloneFailed
  <2>2. PlaceInv'
    BY <1>6, <1>type, <1>place
    DEF WaitStart, PlaceInv
  <2> QED
    BY <1>iinv, <2>1, <2>2 DEF Inv
<1>7. CASE WaitAgain
  <2>1. OnceInv' /\ StateInv' /\ WordInv' /\ KnownInv' /\ ChildInv' /\ OwedInv'
    BY <1>7, <1>once, <1>state, <1>word, <1>known, <1>child, <1>owed
    DEF WaitAgain, OnceInv, Free, StateInv, Holds, WordInv, KnownInv, NewThread, ChildInv, Unborn, OwedInv, Owes, CloneFailed
  <2>2. PlaceInv'
    BY <1>7, <1>type, <1>place
    DEF WaitAgain, PlaceInv
  <2>3. QuietInv'
    BY <1>7, <1>type, <1>quiet
    DEF WaitAgain, QuietInv, Free, Reaped
  <2> QED
    BY <1>iinv, <2>1, <2>2, <2>3 DEF Inv
<1>8. CASE GlobalWaitLock
  <2>1. OnceInv' /\ StateInv' /\ WordInv' /\ KnownInv' /\ QuietInv' /\ ChildInv' /\ OwedInv'
    BY <1>8, <1>once, <1>state, <1>word, <1>known, <1>quiet, <1>child, <1>owed
    DEF GlobalWaitLock, OnceInv, Free, StateInv, Holds, WordInv, KnownInv, NewThread, QuietInv, ChildInv, Unborn, OwedInv, Owes, CloneFailed
  <2>2. PlaceInv'
    BY <1>8, <1>type, <1>place
    DEF GlobalWaitLock, PlaceInv
  <2> QED
    BY <1>iinv, <2>1, <2>2 DEF Inv
<1>9. CASE GlobalWaitNoChild
  <2>1. OnceInv' /\ StateInv' /\ WordInv' /\ KnownInv' /\ QuietInv' /\ ChildInv' /\ OwedInv'
    BY <1>9, <1>once, <1>state, <1>word, <1>known, <1>quiet, <1>child, <1>owed
    DEF GlobalWaitNoChild, OnceInv, Free, StateInv, Holds, WordInv, KnownInv, NewThread, QuietInv, ChildInv, Unborn, OwedInv, Owes, CloneFailed
  <2>2. PlaceInv'
    BY <1>9, <1>type, <1>place
    DEF GlobalWaitNoChild, PlaceInv
  <2> QED
    BY <1>iinv, <2>1, <2>2 DEF Inv
<1>10. CASE GlobalWaitCheck
  <2>1. WordInv'
    BY <1>10, <1>word
    DEF GlobalWaitCheck, WordInv
  <2>2. PlaceInv'
    BY <1>10, <1>type, <1>place
    DEF GlobalWaitCheck, PlaceInv
  <2>3. OnceInv'
    BY <1>10, <1>type, <1>once, <1>place
    DEF GlobalWaitCheck, OnceInv, Free, PlaceInv
  <2>4. StateInv'
    BY <1>10, <1>type, <1>state
    DEF GlobalWaitCheck, StateInv, Holds
  <2>5. KnownInv'
    BY <1>10, <1>type, <1>known, <1>stop, <1>place
    DEF GlobalWaitCheck, KnownInv, NewThread, InStop, StopInv, PlaceInv
  <2>6. QuietInv'
    BY <1>10, <1>type, <1>quiet, <1>place
    DEF GlobalWaitCheck, QuietInv, Free, Reaped, PlaceInv
  <2>7. ChildInv'
    BY <1>10, <1>type, <1>child
    DEF GlobalWaitCheck, ChildInv, Unborn
  <2>8. OwedInv'
    BY <1>10, <1>type, <1>owed, <1>place, <1>stop
    DEF GlobalWaitCheck, OwedInv, Owes, CloneFailed, Free, PlaceInv, StopInv, InStop
  <2> QED
    BY <1>iinv, <2>1, <2>2, <2>3, <2>4, <2>5, <2>6, <2>7, <2>8 DEF Inv
<1>11. CASE GlobalWaitAgain
  <2>1. OnceInv' /\ StateInv' /\ WordInv' /\ KnownInv' /\ QuietInv' /\ ChildInv' /\ OwedInv'
    BY <1>11, <1>once, <1>state, <1>word, <1>known, <1>quiet, <1>child, <1>owed
    DEF GlobalWaitAgain, OnceInv, Free, StateInv, Holds, WordInv, KnownInv, NewThread, QuietInv, ChildInv, Unborn, OwedInv, Owes, CloneFailed
  <2>2. PlaceInv'
    BY <1>11, <1>type, <1>place, <1>stop
    DEF GlobalWaitAgain, PlaceInv, StopInv, InStop
  <2> QED
    BY <1>iinv, <2>1, <2>2 DEF Inv
<1>12. CASE WaitDeliver
  <2>1. WordInv'
    BY <1>12, <1>word
    DEF WaitDeliver, WordInv
  <2>2. PlaceInv'
    BY <1>12, <1>type, <1>place
    DEF WaitDeliver, PlaceInv
  <2>3. OnceInv'
    BY <1>12, <1>type, <1>once, <1>place
    DEF WaitDeliver, OnceInv, Free, PlaceInv
  <2>4. StateInv'
    BY <1>12, <1>type, <1>state
    DEF WaitDeliver, StateInv, Holds
  <2>5. KnownInv'
    BY <1>12, <1>type, <1>known, <1>place
    DEF WaitDeliver, KnownInv, NewThread, InStop, PlaceInv
  <2>6. QuietInv'
    BY <1>12, <1>type, <1>quiet, <1>place, <1>once, <1>state, <1>known
    DEF WaitDeliver, QuietInv, Free, Reaped, PlaceInv, OnceInv, StateInv, Holds, KnownInv, NewThread, InStop
  <2>7. ChildInv'
    BY <1>12, <1>type, <1>child
    DEF WaitDeliver, ChildInv, Unborn
  <2>8. OwedInv'
    BY <1>12, <1>type, <1>owed, <1>place
    DEF WaitDeliver, OwedInv, Owes, CloneFailed, Free, PlaceInv
  <2> QED
    BY <1>iinv, <2>1, <2>2, <2>3, <2>4, <2>5, <2>6, <2>7, <2>8 DEF Inv
<1>13. ASSUME NEW p \in Pids, GlobalWaitReap (p) PROVE Inv'
  <2>1. PlaceInv'
    BY <1>13, <1>type, <1>place
    DEF GlobalWaitReap, Reap, PlaceInv
  <2>2. OnceInv'
    BY <1>13, <1>type, <1>once, <1>place
    DEF GlobalWaitReap, Reap, OnceInv, Free, PlaceInv
  <2>3. StateInv'
    <3>1. Holds (wev)'
      BY <1>13, <1>type, <1>word DEF GlobalWaitReap, Reap, Holds, WordInv, Exits, Words
    <3>2. Free (p)
      BY <1>13, <1>once DEF GlobalWaitReap, Reap, OnceInv
    <3>3. Holds (stop_status)' /\ Holds (inbox)' /\ Holds (eev)'
      BY <1>13, <1>type, <1>state, <3>2 DEF GlobalWaitReap, Reap, StateInv, Holds, Free
    <3> QED
      BY <3>1, <3>3 DEF StateInv
  <2>4. WordInv'
    BY <1>13, <1>type, <1>word
    DEF GlobalWaitReap, Reap, WordInv, Exits, Words
  <2>5. KnownInv'
    BY <1>13, <1>type, <1>known
    DEF GlobalWaitReap, Reap, KnownInv, NewThread, InStop
  <2>6. QuietInv'
    BY <1>13, <1>type, <1>quiet
    DEF GlobalWaitReap, Reap, QuietInv, Free, Reaped
  <2>7. ChildInv'
    BY <1>13, <1>type, <1>child
    DEF GlobalWaitReap, Reap, ChildInv, Unborn
  <2>8. OwedInv'
    BY <1>13, <1>type, <1>owed, <1>place
    DEF GlobalWaitReap, Reap, OwedInv, Owes, CloneFailed, Free, PlaceInv
  <2> QED
    BY <1>iinv, <2>1, <2>2, <2>3, <2>4, <2>5, <2>6, <2>7, <2>8 DEF Inv
<1>14. ASSUME NEW p \in Pids, StopCall (p) PROVE Inv'
  <2>1. OnceInv' /\ StateInv' /\ WordInv' /\ QuietInv' /\ ChildInv' /\ OwedInv'
    BY <1>14, <1>once, <1>state, <1>word, <1>quiet, <1>child, <1>owed
    DEF StopCall, OnceInv, Free, StateInv, Holds, WordInv, QuietInv, ChildInv, Unborn, OwedInv, Owes, CloneFailed
  <2>2. PlaceInv'
    BY <1>14, <1>type, <1>place
    DEF StopCall, PlaceInv
  <2>3. KnownInv'
    BY <1>14, <1>type, <1>known
    DEF StopCall, KnownInv, NewThread, InStop
  <2> QED
    BY <1>iinv, <2>1, <2>2, <2>3 DEF Inv
<1>15. ASSUME NEW p \in Pids, Resume (p) PROVE Inv'
  <2>1. PlaceInv' /\ OnceInv'
    BY <1>15, <1>place, <1>once
    DEF Resume, Continue, PlaceInv, OnceInv, Free
  <2>2. StateInv'
    BY <1>15, <1>type, <1>state, <1>quiet
    DEF Resume, Continue, StateInv, Holds, QuietInv, Free, Reaped
  <2>3. WordInv'
    BY <1>15, <1>type, <1>word, <1>quiet
    DEF Resume, Continue, WordInv, Exits, Words, QuietInv, Free, Reaped
  <2>4. KnownInv'
    BY <1>15, <1>type, <1>known
    DEF Resume, Continue, KnownInv, NewThread, InStop
  <2>5. QuietInv'
    BY <1>15, <1>type, <1>quiet
    DEF Resume, Continue, QuietInv, Free, Reaped
  <2>6. ChildInv'
    BY <1>15, <1>type, <1>child
    DEF Resume, Continue, ChildInv, Unborn
  <2>7. OwedInv'
    BY <1>15, <1>type, <1>owed
    DEF Resume, Continue, OwedInv, Owes, CloneFailed, Free
  <2> QED
    BY <1>iinv, <2>1, <2>2, <2>3, <2>4, <2>5, <2>6, <2>7 DEF Inv
<1>16. CASE StopSignal
  <2>1. OnceInv' /\ StateInv' /\ WordInv' /\ QuietInv' /\ ChildInv' /\ OwedInv'
    BY <1>16, <1>once, <1>state, <1>word, <1>quiet, <1>child, <1>owed
    DEF StopSignal, OnceInv, Free, StateInv, Holds, WordInv, QuietInv, ChildInv, Unborn, OwedInv, Owes, CloneFailed
  <2>2. PlaceInv'
    BY <1>16, <1>type, <1>place
    DEF StopSignal, PlaceInv
  <2>3. KnownInv'
    BY <1>16, <1>type, <1>known
    DEF StopSignal, KnownInv, NewThread, InStop
  <2> QED
    BY <1>iinv, <2>1, <2>2, <2>3 DEF Inv
<1>17. CASE StopRequest
  <2>1. OnceInv' /\ StateInv' /\ WordInv' /\ QuietInv' /\ ChildInv' /\ OwedInv'
    BY <1>17, <1>once, <1>state, <1>word, <1>quiet, <1>child, <1>owed
    DEF StopRequest, OnceInv, Free, StateInv, Holds, WordInv, QuietInv, ChildInv, Unborn, OwedInv, Owes, CloneFailed
  <2>2. PlaceInv'
    BY <1>17, <1>type, <1>place, <1>stop
    DEF StopRequest, PlaceInv, StopInv, InStop
  <2>3. KnownInv'
    BY <1>17, <1>type, <1>known
    DEF StopRequest, KnownInv, NewThread, InStop
  <2> QED
    BY <1>iinv, <2>1, <2>2, <2>3 DEF Inv
<1>18. CASE StopTake
  <2>1. WordInv'
    BY <1>18, <1>word
    DEF StopTake, WordInv
  <2>2. PlaceInv'
    BY <1>18, <1>type, <1>place, <1>stop
    DEF StopTake, PlaceInv, StopInv, InStop
  <2>3. OnceInv'
    BY <1>18, <1>type, <1>once
    DEF StopTake, OnceInv, Free
  <2>4. StateInv'
    BY <1>18, <1>type, <1>state
    DEF StopTake, StateInv, Holds
  <2>5. KnownInv'
    BY <1>18, <1>type, <1>known, <1>stop
    DEF StopTake, KnownInv, NewThread, InStop, StopInv
  <2>6. QuietInv'
    BY <1>18, <1>type, <1>quiet
    DEF StopTake, QuietInv, Free, Reaped
  <2>7. ChildInv'
    BY <1>18, <1>type, <1>child
    DEF StopTake, ChildInv, Unborn
  <2>8. OwedInv'
    BY <1>18, <1>type, <1>owed, <1>place, <1>state
    DEF StopTake, OwedInv, Owes, CloneFailed, Free, PlaceInv, StateInv, Holds
  <2> QED
    BY <1>iinv, <2>1, <2>2, <2>3, <2>4, <2>5, <2>6, <2>7, <2>8 DEF Inv
<1>19. CASE StopReap
  <2>1. PlaceInv'
    BY <1>19, <1>type, <1>place, <1>stop
    DEF StopReap, Reap, PlaceInv, StopInv, InStop
  <2>2. OnceInv'
    BY <1>19, <1>type, <1>once, <1>place, <1>stop
    DEF StopReap, Reap, OnceInv, Free, PlaceInv, StopInv, InStop
  <2>3. StateInv'
    <3>1. target \in Pids
      BY <1>19, <1>stop DEF StopReap, StopInv, InStop
    <3>2. Holds (eev)'
      BY <1>19, <3>1, <1>type, <1>word DEF StopReap, Reap, Holds, WordInv, Exits, Words
    <3>3. Free (target)
      BY <1>19, <3>1, <1>once DEF StopReap, Reap, OnceInv
    <3>4. Holds (stop_status)' /\ Holds (inbox)' /\ Holds (wev)'
      BY <1>19, <1>type, <1>state, <3>1, <3>3 DEF StopReap, Reap, StateInv, Holds, Free
    <3> QED
      BY <3>2, <3>4 DEF StateInv
  <2>4. WordInv'
    BY <1>19, <1>type, <1>word, <1>stop
    DEF StopReap, Reap, WordInv, Exits, Words, StopInv, InStop
  <2>5. KnownInv'
    BY <1>19, <1>type, <1>known, <1>stop
    DEF StopReap, Reap, KnownInv, NewThread, InStop, StopInv
  <2>6. QuietInv'
    BY <1>19, <1>type, <1>quiet, <1>stop
    DEF StopReap, Reap, QuietInv, Free, Reaped, StopInv, InStop
  <2>7. ChildInv'
    BY <1>19, <1>type, <1>child, <1>stop
    DEF StopReap, Reap, ChildInv, Unborn, StopInv, InStop
  <2>8. OwedInv'
    BY <1>19, <1>type, <1>owed, <1>place, <1>stop
    DEF StopReap, Reap, OwedInv, Owes, CloneFailed, Free, PlaceInv, StopInv, InStop
  <2> QED
    BY <1>iinv, <2>1, <2>2, <2>3, <2>4, <2>5, <2>6, <2>7, <2>8 DEF Inv
<1>20. CASE StopPoll
  BY <1>20 DEF StopPoll, vars, Inv, IInv, CloneInv, StopInv, PlaceInv, OnceInv, Free, StateInv, Holds, WordInv, KnownInv, NewThread,
     QuietInv, ChildInv, Unborn, OwedInv, Owes, CloneFailed
<1>21. CASE StopNoTarget
  <2>1. OnceInv' /\ StateInv' /\ WordInv' /\ QuietInv' /\ ChildInv' /\ OwedInv'
    BY <1>21, <1>once, <1>state, <1>word, <1>quiet, <1>child, <1>owed
    DEF StopNoTarget, OnceInv, Free, StateInv, Holds, WordInv, QuietInv, ChildInv, Unborn, OwedInv, Owes, CloneFailed
  <2>2. PlaceInv'
    BY <1>21, <1>type, <1>place, <1>stop
    DEF StopNoTarget, PlaceInv, StopInv, InStop
  <2>3. KnownInv'
    BY <1>21, <1>type, <1>known
    DEF StopNoTarget, KnownInv, NewThread, InStop
  <2> QED
    BY <1>iinv, <2>1, <2>2, <2>3 DEF Inv
<1>22. CASE StopReturn
  <2>1. WordInv'
    BY <1>22, <1>word
    DEF StopReturn, WordInv
  <2>2. PlaceInv'
    BY <1>22, <1>type, <1>place, <1>stop
    DEF StopReturn, PlaceInv, StopInv, InStop
  <2>3. OnceInv'
    BY <1>22, <1>type, <1>once
    DEF StopReturn, OnceInv, Free
  <2>4. StateInv'
    BY <1>22, <1>type, <1>state
    DEF StopReturn, StateInv, Holds
  <2>5. KnownInv'
    BY <1>22, <1>type, <1>known
    DEF StopReturn, KnownInv, NewThread, InStop
  <2>6. QuietInv'
    BY <1>22, <1>type, <1>quiet, <1>stop, <1>state, <1>once, <1>known, <1>place
    DEF StopReturn, QuietInv, Free, Reaped, StopInv, InStop, StateInv, Holds, OnceInv, KnownInv, NewThread, PlaceInv
  <2>7. ChildInv'
    BY <1>22, <1>type, <1>child
    DEF StopReturn, ChildInv, Unborn
  <2>8. OwedInv'
    BY <1>22, <1>type, <1>owed, <1>state, <1>stop, <1>place
    DEF StopReturn, OwedInv, Owes, CloneFailed, Free, StateInv, Holds, StopInv, InStop, PlaceInv
  <2> QED
    BY <1>iinv, <2>1, <2>2, <2>3, <2>4, <2>5, <2>6, <2>7, <2>8 DEF Inv
<1>23. CASE TakeInbox
  <2>1. WordInv'
    BY <1>23, <1>word
    DEF TakeInbox, WordInv
  <2>2. PlaceInv'
    BY <1>23, <1>type, <1>place, <1>stop
    DEF TakeInbox, PlaceInv, StopInv, InStop
  <2>3. OnceInv'
    BY <1>23, <1>type, <1>once
    DEF TakeInbox, OnceInv, Free
  <2>4. StateInv'
    BY <1>23, <1>type, <1>state
    DEF TakeInbox, StateInv, Holds
  <2>5. KnownInv'
    BY <1>23, <1>type, <1>known
    DEF TakeInbox, KnownInv, NewThread, InStop
  <2>6. QuietInv'
    BY <1>23, <1>type, <1>quiet
    DEF TakeInbox, QuietInv, Free, Reaped
  <2>7. ChildInv'
    BY <1>23, <1>type, <1>child
    DEF TakeInbox, ChildInv, Unborn
  <2>8. OwedInv'
    BY <1>23, <1>type, <1>owed, <1>place
    DEF TakeInbox, OwedInv, Owes, CloneFailed, Free, PlaceInv
  <2> QED
    BY <1>iinv, <2>1, <2>2, <2>3, <2>4, <2>5, <2>6, <2>7, <2>8 DEF Inv
<1>24. CASE ProcessStop
  <2>1. PlaceInv'
    BY <1>24, <1>type, <1>place, <1>stop
    DEF ProcessStop, ProcessDone, Continue, PlaceInv, StopInv, InStop
  <2>2. OnceInv'
    BY <1>24, <1>type, <1>once
    DEF ProcessStop, ProcessDone, Continue, OnceInv, Free
  <2>3. StateInv'
    BY <1>24, <1>type, <1>state, <1>once, <1>place
    DEF ProcessStop, ProcessDone, Continue, StateInv, Holds, OnceInv, Free, PlaceInv
  <2>4. WordInv'
    <3>1. eev.pid \in Pids /\ kword[eev.pid] = "none" /\ kword' = kword
      BY <1>24, <1>type, <1>place, <1>once DEF ProcessStop, PlaceInv, OnceInv, Free
    <3>2. kstate' = kstate \/ kstate' = [kstate EXCEPT ![eev.pid] = "running"]
      BY <1>24, <1>type DEF ProcessStop, Continue
    <3>3. kstate[eev.pid] = "stopped"
      BY <1>24, <1>type, <1>place, <1>state DEF ProcessStop, PlaceInv, StateInv, Holds
    <3> QED
      BY <3>1, <3>2, <3>3, <1>type, <1>word DEF WordInv, Exits, Words
  <2>5. KnownInv'
    BY <1>24, <1>type, <1>known, <1>place
    DEF ProcessStop, ProcessDone, Continue, KnownInv, NewThread, InStop, PlaceInv
  <2>6. QuietInv'
    BY <1>24, <1>type, <1>quiet, <1>once, <1>state, <1>known, <1>place
    DEF ProcessStop, ProcessDone, Continue, QuietInv, Free, Reaped, OnceInv, StateInv, Holds, KnownInv, NewThread, InStop, PlaceInv
  <2>7. ChildInv'
    BY <1>24, <1>type, <1>child
    DEF ProcessStop, ProcessDone, Continue, ChildInv, Unborn
  <2>8. OwedInv'
    <3>1. PICK q \in Pids : q = eev.pid /\ kstate[q] = "stopped"
      BY <1>24, <1>type, <1>place, <1>state DEF ProcessStop, PlaceInv, StateInv, Holds
    <3>2. \/ kstate' = kstate /\ engine_stopped' = [engine_stopped EXCEPT ![q] = TRUE]
          \/ kstate' = [kstate EXCEPT ![q] = "running"] /\ engine_stopped' = engine_stopped
      BY <1>24, <1>type, <3>1 DEF ProcessStop, Continue
    <3>3. UNCHANGED <<kword, wev, stop_status, inbox, child, thread_hash>> /\ eev' = NoEvent
      BY <1>24 DEF ProcessStop, ProcessDone
    <3>4. ~Owes (q)'
      BY <1>type, <3>1, <3>2 DEF Owes
    <3>5. ASSUME NEW p \in thread_hash, p # q, Owes (p)'
          PROVE  Owes (p) /\ (Free (p)' <=> Free (p))
      BY <1>type, <3>1, <3>2, <3>3, <3>5 DEF Owes, CloneFailed, Free
    <3> QED
      BY <1>owed, <3>3, <3>4, <3>5 DEF OwedInv
  <2> QED
    BY <1>iinv, <2>1, <2>2, <2>3, <2>4, <2>5, <2>6, <2>7, <2>8 DEF Inv
<1>25. CASE ProcessExit
  <2>1. WordInv'
    BY <1>25, <1>word
    DEF ProcessExit, ProcessDone, WordInv
  <2>2. PlaceInv'
    BY <1>25, <1>type, <1>place, <1>stop
    DEF ProcessExit, ProcessDone, PlaceInv, StopInv, InStop
  <2>3. OnceInv'
    BY <1>25, <1>type, <1>once
    DEF ProcessExit, ProcessDone, OnceInv, Free
  <2>4. StateInv'
    BY <1>25, <1>type, <1>state
    DEF ProcessExit, ProcessDone, StateInv, Holds
  <2>5. KnownInv'
    BY <1>25, <1>type, <1>known, <1>once, <1>state, <1>place
    DEF ProcessExit, ProcessDone, KnownInv, NewThread, InStop, OnceInv, Free, StateInv, Holds, PlaceInv
  <2>6. QuietInv'
    BY <1>25, <1>type, <1>quiet, <1>once, <1>state, <1>place
    DEF ProcessExit, ProcessDone, QuietInv, Free, Reaped, OnceInv, StateInv, Holds, PlaceInv
  <2>7. ChildInv'
    BY <1>25, <1>type, <1>child
    DEF ProcessExit, ProcessDone, ChildInv, Unborn
  <2>8. OwedInv'
    BY <1>25, <1>type, <1>owed
    DEF ProcessExit, ProcessDone, OwedInv, Owes, CloneFailed, Free
  <2> QED
    BY <1>iinv, <2>1, <2>2, <2>3, <2>4, <2>5, <2>6, <2>7, <2>8 DEF Inv
<1>26. CASE ProcessCloneSeen
  <2>1. PlaceInv'
    BY <1>26, <1>type, <1>place, <1>stop
    DEF ProcessCloneSeen, ProcessDone, CloneResumes, Continue, PlaceInv, StopInv, InStop
  <2>2. OnceInv'
    BY <1>26, <1>type, <1>once
    DEF ProcessCloneSeen, ProcessDone, CloneResumes, Continue, OnceInv, Free
  <2>3. StateInv'
    BY <1>26, <1>type, <1>state, <1>once, <1>quiet, <1>place, <1>clone
    DEF ProcessCloneSeen, ProcessDone, CloneResumes, Continue, StateInv, Holds, OnceInv, Free, QuietInv, Reaped, PlaceInv, CloneInv
  <2>4. WordInv'
    <3>1. CASE Continue ({child[eev.pid], eev.pid}) /\ UNCHANGED engine_stopped
      BY <1>26, <1>type, <1>word, <1>once, <1>quiet, <1>place, <1>clone, <3>1
      DEF ProcessCloneSeen, ProcessDone, Continue, WordInv, Exits, Words, OnceInv, Free, QuietInv, Reaped, PlaceInv, CloneInv
    <3>2. CASE Continue ({child[eev.pid]}) /\ engine_stopped' = [engine_stopped EXCEPT ![eev.pid] = TRUE]
      BY <1>26, <1>type, <1>word, <1>once, <1>quiet, <1>place, <1>clone, <3>2
      DEF ProcessCloneSeen, ProcessDone, Continue, WordInv, Exits, Words, OnceInv, Free, QuietInv, Reaped, PlaceInv, CloneInv
    <3> QED
      BY <1>26, <3>1, <3>2 DEF ProcessCloneSeen, CloneResumes
  <2>5. KnownInv'
    BY <1>26, <1>type, <1>known, <1>quiet, <1>child, <1>clone, <1>place, <1>once
    DEF ProcessCloneSeen, ProcessDone, CloneResumes, Continue, KnownInv, NewThread, InStop, QuietInv, Free, Reaped, ChildInv, Unborn, CloneInv, PlaceInv, OnceInv
  <2>6. QuietInv'
    <3>1. CASE Continue ({child[eev.pid], eev.pid}) /\ UNCHANGED engine_stopped
      BY <1>26, <1>type, <1>quiet, <1>child, <1>once, <1>place, <1>clone, <3>1
      DEF ProcessCloneSeen, ProcessDone, Continue, QuietInv, Free, Reaped, ChildInv, Unborn, OnceInv, PlaceInv, CloneInv
    <3>2. CASE Continue ({child[eev.pid]}) /\ engine_stopped' = [engine_stopped EXCEPT ![eev.pid] = TRUE]
      <4>1. PICK q \in Pids : /\ q = eev.pid /\ q \in thread_hash /\ kstate[q] = "stopped"
                              /\ kword[q] = "none" /\ child[q] \in Pids \ thread_hash
        BY <1>26, <1>type, <1>known, <1>state, <1>once, <1>child, <1>clone, <1>place
        DEF ProcessCloneSeen, KnownInv, StateInv, Holds, OnceInv, Free, ChildInv, Unborn, CloneInv, PlaceInv
      <4>2. Free (q)' /\ \A p \in Pids : p # q => (Free (p)' <=> Free (p))
        BY <1>26, <4>1, <1>type, <1>once DEF ProcessCloneSeen, ProcessDone, OnceInv, Free
      <4>3. /\ kword'[q] = "none" /\ kstate'[q] = "stopped"
            /\ \A p \in Pids : p # child[q] => kstate'[p] = kstate[p] /\ kword'[p] = kword[p]
        BY <1>26, <3>2, <4>1, <1>type DEF ProcessCloneSeen, Continue
      <4>4. ~engine_stopped[child[q]]
        BY <4>1, <1>quiet DEF QuietInv
      <4>5. ASSUME NEW p \in Pids, engine_stopped'[p]
            PROVE  /\ p \in thread_hash' /\ kstate'[p] \in {"stopped"} \cup Reaped
                   /\ kword'[p] = "none" /\ Free (p)'
        BY <1>26, <3>2, <4>1, <4>2, <4>3, <4>4, <4>5, <1>type, <1>quiet DEF ProcessCloneSeen, QuietInv
      <4>6. ASSUME NEW p \in pending_sigstops'
            PROVE  /\ p \notin thread_hash' /\ kstate'[p] = "stopped"
                   /\ kword'[p] = "none" /\ Free (p)'
        BY <1>26, <4>1, <4>2, <4>3, <4>6, <1>type, <1>quiet DEF ProcessCloneSeen, QuietInv
      <4> QED
        BY <4>5, <4>6 DEF QuietInv
    <3> QED
      BY <1>26, <3>1, <3>2 DEF ProcessCloneSeen, CloneResumes
  <2>7. ChildInv'
    BY <1>26, <1>type, <1>child, <1>place, <1>clone, <1>once
    DEF ProcessCloneSeen, ProcessDone, CloneResumes, Continue, ChildInv, Unborn, PlaceInv, CloneInv, OnceInv, Free
  <2>8. OwedInv'
    <3>1. CASE Continue ({child[eev.pid], eev.pid}) /\ UNCHANGED engine_stopped
      BY <1>26, <1>type, <1>owed, <1>child, <1>place, <1>clone, <1>once, <3>1
      DEF ProcessCloneSeen, ProcessDone, Continue, OwedInv, Owes, CloneFailed, Free, ChildInv, Unborn, PlaceInv, CloneInv, OnceInv
    <3>2. CASE Continue ({child[eev.pid]}) /\ engine_stopped' = [engine_stopped EXCEPT ![eev.pid] = TRUE]
      <4>1. eev # NoEvent /\ eev.pid \in Pids /\ child[eev.pid] \in Pids
        BY <1>26, <1>type, <1>clone, <1>place DEF ProcessCloneSeen, CloneInv, PlaceInv
      <4>2. SUFFICES ASSUME NEW p \in thread_hash', Owes (p)' PROVE kword'[p] # "none" \/ ~Free (p)'
        BY DEF OwedInv
      <4>3. p # child[eev.pid] /\ p # eev.pid
        BY <1>26, <3>2, <4>1, <4>2, <1>type, <1>state, <1>clone, <1>place
        DEF ProcessCloneSeen, Continue, Owes, StateInv, Holds, CloneInv, PlaceInv
      <4>4. p \in thread_hash /\ kstate'[p] = kstate[p] /\ kword'[p] = kword[p]
        BY <1>26, <3>2, <4>1, <4>3, <1>type DEF ProcessCloneSeen, Continue
      <4>5. CloneFailed (p) => CloneFailed (p)'
        BY <1>26, <4>1, <4>3, <4>4, <1>type, <1>child DEF ProcessCloneSeen, CloneFailed, ChildInv
      <4>6. Owes (p)
        BY <3>2, <4>1, <4>2, <4>3, <4>4, <4>5, <1>type DEF Owes
      <4>7. Free (p)' => Free (p)
        BY <1>26, <4>3, <1>type DEF ProcessCloneSeen, ProcessDone, Free
      <4> QED
        BY <4>4, <4>6, <4>7, <1>owed DEF OwedInv
    <3> QED
      BY <1>26, <3>1, <3>2 DEF ProcessCloneSeen, CloneResumes
  <2> QED
    BY <1>iinv, <2>1, <2>2, <2>3, <2>4, <2>5, <2>6, <2>7, <2>8 DEF Inv
<1>27. CASE NewThreadTrylock
  <2>1. OnceInv' /\ StateInv' /\ WordInv' /\ QuietInv' /\ ChildInv' /\ OwedInv'
    BY <1>27, <1>once, <1>state, <1>word, <1>quiet, <1>child, <1>owed
    DEF NewThreadTrylock, OnceInv, Free, StateInv, Holds, WordInv, QuietInv, ChildInv, Unborn, OwedInv, Owes, CloneFailed
  <2>2. PlaceInv'
    BY <1>27, <1>type, <1>place, <1>stop
    DEF NewThreadTrylock, PlaceInv, StopInv, InStop
  <2>3. KnownInv'
    BY <1>27, <1>type, <1>known
    DEF NewThreadTrylock, KnownInv, NewThread, InStop
  <2> QED
    BY <1>iinv, <2>1, <2>2, <2>3 DEF Inv
<1>28. CASE NewThreadWait
  <2>1. PlaceInv'
    BY <1>28, <1>type, <1>place, <1>stop
    DEF NewThreadWait, ProcessDone, CloneResumes, Continue, PlaceInv, StopInv, InStop
  <2>2. OnceInv'
    BY <1>28, <1>type, <1>once
    DEF NewThreadWait, ProcessDone, CloneResumes, Continue, OnceInv, Free
  <2>3. StateInv'
    BY <1>28, <1>type, <1>state, <1>once, <1>place, <1>clone
    DEF NewThreadWait, ProcessDone, CloneResumes, Continue, StateInv, Holds, OnceInv, Free, PlaceInv, CloneInv
  <2>4. WordInv'
    <3>1. CASE Continue ({child[eev.pid], eev.pid}) /\ UNCHANGED engine_stopped
      BY <1>28, <1>type, <1>word, <1>once, <1>place, <1>clone, <3>1
      DEF NewThreadWait, ProcessDone, Continue, WordInv, Exits, Words, OnceInv, Free, PlaceInv, CloneInv
    <3>2. CASE Continue ({child[eev.pid]}) /\ engine_stopped' = [engine_stopped EXCEPT ![eev.pid] = TRUE]
      BY <1>28, <1>type, <1>word, <1>once, <1>place, <1>clone, <3>2
      DEF NewThreadWait, ProcessDone, Continue, WordInv, Exits, Words, OnceInv, Free, PlaceInv, CloneInv
    <3> QED
      BY <1>28, <3>1, <3>2 DEF NewThreadWait, CloneResumes
  <2>5. KnownInv'
    BY <1>28, <1>type, <1>known, <1>child, <1>clone, <1>place, <1>once
    DEF NewThreadWait, ProcessDone, CloneResumes, Continue, KnownInv, NewThread, InStop, ChildInv, Unborn, CloneInv, PlaceInv, OnceInv, Free
  <2>6. QuietInv'
    <3>1. CASE Continue ({child[eev.pid], eev.pid}) /\ UNCHANGED engine_stopped
      BY <1>28, <1>type, <1>quiet, <1>child, <1>clone, <1>place, <1>once, <3>1
      DEF NewThreadWait, ProcessDone, Continue, QuietInv, Free, Reaped, ChildInv, Unborn, CloneInv, PlaceInv, OnceInv
    <3>2. CASE Continue ({child[eev.pid]}) /\ engine_stopped' = [engine_stopped EXCEPT ![eev.pid] = TRUE]
      <4>1. PICK q \in Pids : /\ q = eev.pid /\ q \in thread_hash /\ kstate[q] = "stopped"
                              /\ kword[q] = "none" /\ child[q] \in Pids \ thread_hash
        BY <1>28, <1>type, <1>known, <1>state, <1>once, <1>child, <1>clone, <1>place
        DEF NewThreadWait, KnownInv, StateInv, Holds, OnceInv, Free, ChildInv, Unborn, CloneInv, PlaceInv
      <4>2. Free (q)' /\ \A p \in Pids : p # q => (Free (p)' <=> Free (p))
        BY <1>28, <4>1, <1>type, <1>once DEF NewThreadWait, ProcessDone, OnceInv, Free
      <4>3. /\ kword'[q] = "none" /\ kstate'[q] = "stopped"
            /\ \A p \in Pids : p # child[q] => kstate'[p] = kstate[p] /\ kword'[p] = kword[p]
        BY <1>28, <3>2, <4>1, <1>type DEF NewThreadWait, Continue
      <4>4. ~engine_stopped[child[q]]
        BY <4>1, <1>quiet DEF QuietInv
      <4>5. ASSUME NEW p \in Pids, engine_stopped'[p]
            PROVE  /\ p \in thread_hash' /\ kstate'[p] \in {"stopped"} \cup Reaped
                   /\ kword'[p] = "none" /\ Free (p)'
        BY <1>28, <3>2, <4>1, <4>2, <4>3, <4>4, <4>5, <1>type, <1>quiet DEF NewThreadWait, QuietInv
      <4>6. ASSUME NEW p \in pending_sigstops'
            PROVE  /\ p \notin thread_hash' /\ kstate'[p] = "stopped"
                   /\ kword'[p] = "none" /\ Free (p)'
        BY <1>28, <4>1, <4>2, <4>3, <4>6, <1>type, <1>quiet DEF NewThreadWait, QuietInv
      <4> QED
        BY <4>5, <4>6 DEF QuietInv
    <3> QED
      BY <1>28, <3>1, <3>2 DEF NewThreadWait, CloneResumes
  <2>7. ChildInv'
    BY <1>28, <1>type, <1>child, <1>place, <1>clone, <1>once
    DEF NewThreadWait, ProcessDone, CloneResumes, Continue, ChildInv, Unborn, PlaceInv, CloneInv, OnceInv, Free
  <2>8. OwedInv'
    <3>1. CASE Continue ({child[eev.pid], eev.pid}) /\ UNCHANGED engine_stopped
      BY <1>28, <1>type, <1>owed, <1>child, <1>place, <1>clone, <1>once, <3>1
      DEF NewThreadWait, ProcessDone, Continue, OwedInv, Owes, CloneFailed, Free, ChildInv, Unborn, PlaceInv, CloneInv, OnceInv
    <3>2. CASE Continue ({child[eev.pid]}) /\ engine_stopped' = [engine_stopped EXCEPT ![eev.pid] = TRUE]
      <4>1. eev # NoEvent /\ eev.pid \in Pids /\ child[eev.pid] \in Pids
        BY <1>28, <1>type, <1>clone, <1>place DEF NewThreadWait, CloneInv, PlaceInv
      <4>2. SUFFICES ASSUME NEW p \in thread_hash', Owes (p)' PROVE kword'[p] # "none" \/ ~Free (p)'
        BY DEF OwedInv
      <4>3. p # child[eev.pid] /\ p # eev.pid
        BY <1>28, <3>2, <4>1, <4>2, <1>type, <1>state, <1>clone, <1>place
        DEF NewThreadWait, Continue, Owes, StateInv, Holds, CloneInv, PlaceInv
      <4>4. p \in thread_hash /\ kstate'[p] = kstate[p] /\ kword'[p] = kword[p]
        BY <1>28, <3>2, <4>1, <4>3, <1>type DEF NewThreadWait, Continue
      <4>5. CloneFailed (p) => CloneFailed (p)'
        BY <1>28, <4>1, <4>3, <4>4, <1>type, <1>child DEF NewThreadWait, CloneFailed, ChildInv
      <4>6. Owes (p)
        BY <3>2, <4>1, <4>2, <4>3, <4>4, <4>5, <1>type DEF Owes
      <4>7. Free (p)' => Free (p)
        BY <1>28, <4>3, <1>type DEF NewThreadWait, ProcessDone, Free
      <4> QED
        BY <4>4, <4>6, <4>7, <1>owed DEF OwedInv
    <3> QED
      BY <1>28, <3>1, <3>2 DEF NewThreadWait, CloneResumes
  <2> QED
    BY <1>iinv, <2>1, <2>2, <2>3, <2>4, <2>5, <2>6, <2>7, <2>8 DEF Inv
<1>29. CASE NewThreadFailed
  <2>1. WordInv'
    BY <1>29, <1>word
    DEF NewThreadFailed, ProcessDone, WordInv
  <2>2. PlaceInv'
    BY <1>29, <1>type, <1>place, <1>stop
    DEF NewThreadFailed, ProcessDone, PlaceInv, StopInv, InStop
  <2>3. OnceInv'
    BY <1>29, <1>type, <1>once
    DEF NewThreadFailed, ProcessDone, OnceInv, Free
  <2>4. StateInv'
    BY <1>29, <1>type, <1>state
    DEF NewThreadFailed, ProcessDone, StateInv, Holds
  <2>5. KnownInv'
    BY <1>29, <1>type, <1>known
    DEF NewThreadFailed, ProcessDone, KnownInv, NewThread, InStop
  <2>6. QuietInv'
    BY <1>29, <1>type, <1>quiet
    DEF NewThreadFailed, ProcessDone, QuietInv, Free, Reaped
  <2>7. ChildInv'
    BY <1>29, <1>type, <1>child
    DEF NewThreadFailed, ProcessDone, ChildInv, Unborn
  <2>8. OwedInv'
    <3>1. CloneFailed (eev.pid) /\ kstate[eev.pid] = "stopped"
      BY <1>29, <1>type, <1>place, <1>clone, <1>child, <1>state
      DEF NewThreadFailed, PlaceInv, CloneInv, ChildInv, Unborn, StateInv, Holds, CloneFailed
    <3>2. ASSUME NEW p \in thread_hash PROVE Owes (p)' <=> Owes (p)
      BY <1>29 DEF NewThreadFailed, Owes, CloneFailed
    <3>3. ASSUME NEW p \in thread_hash, p # eev.pid PROVE Free (p)' <=> Free (p)
      BY <1>29, <3>3, <1>type DEF NewThreadFailed, ProcessDone, Free
    <3>4. ~Owes (eev.pid)
      BY <3>1 DEF Owes
    <3> QED
      BY <1>29, <1>owed, <3>2, <3>3, <3>4 DEF NewThreadFailed, OwedInv
  <2> QED
    BY <1>iinv, <2>1, <2>2, <2>3, <2>4, <2>5, <2>6, <2>7, <2>8 DEF Inv
<1>30. CASE Terminated
  BY <1>30 DEF Terminated, vars, Inv, IInv, CloneInv, StopInv, PlaceInv, OnceInv, Free, StateInv, Holds, WordInv, KnownInv, NewThread,
     QuietInv, ChildInv, Unborn, OwedInv, Owes, CloneFailed
<1>31. CASE UNCHANGED vars
  BY <1>31 DEF vars, Inv, IInv, CloneInv, StopInv, PlaceInv, OnceInv, Free, StateInv, Holds, WordInv, KnownInv, NewThread,
     QuietInv, ChildInv, Unborn, OwedInv, Owes, CloneFailed
<1> QED
  BY <1>1, <1>2, <1>3, <1>4, <1>5, <1>6, <1>7, <1>8, <1>9, <1>10, <1>11, <1>12, <1>13, <1>14, <1>15, <1>16, <1>17, <1>18, <1>19, <1>20, <1>21, <1>22, <1>23, <1>24, <1>25, <1>26, <1>27, <1>28, <1>29, <1>30, <1>31
  DEF Next, Kernel, WaitThread, UserCommand, StopAndWait, Processing

-----------------------------------------------------------------------------
(* Places and the word that is in them.                                     *)

(* A set without two different elements.                                    *)
LEMMA AtMostOne ==
    ASSUME NEW S, \A x, y \in S : x = y
    PROVE  Cardinality (S) = IF S = {} THEN 0 ELSE 1
<1>1. CASE S = {}
  BY <1>1, FS_EmptySet
<1>2. ASSUME NEW x \in S PROVE Cardinality (S) = 1
  <2>1. S = {x}
    BY <1>2
  <2>2. Cardinality ({x}) = 1
    BY FS_Singleton
  <2> QED
    BY <2>1, <2>2
<1> QED
  BY <1>1, <1>2

(* The places that EventOnce counts are the ones OnceInv keeps apart.       *)
LEMMA PlacesOnce ==
    Inv => \A p \in Pids : \A x, y \in Places (p) : x = y
BY DEF Inv, OnceInv, Free, Places

(* A thread has no event under way.                                         *)
LEMMA PlacesEmpty ==
    ASSUME NEW p PROVE Places (p) = {} <=> kword[p] = "none" /\ Free (p)
BY DEF Places, Free

(* server_ptrace_global_wait() and server_ptrace_stop_and_wait() never hold *)
(* or hand over the same status word twice.                                 *)
THEOREM OnceCorrect == Spec => []EventOnce
<1>1. Inv => EventOnce
  <2> SUFFICES ASSUME Inv, NEW p \in Pids PROVE Cardinality (Places (p)) <= 1
    BY DEF EventOnce
  <2>1. Cardinality (Places (p)) = IF Places (p) = {} THEN 0 ELSE 1
    BY PlacesOnce, AtMostOne
  <2> QED
    BY <2>1
<1> QED
  BY <1>1, InitInv, NextInv, PTL DEF Spec

(* The event of a known thread that stopped or died is in exactly one place *)
(* until it is handled, a thread that runs has none, and neither has a dead *)
(* thread once its exit was handled: neither waitpid() caller drops a word, *)
(* and no handler gets a stale one.                                         *)
THEOREM UnderWayCorrect == Spec => []EventUnderWay
<1>1. ASSUME Inv, NEW p \in thread_hash
      PROVE  /\ Owes (p) => Cardinality (Places (p)) = 1
             /\ kstate[p] = "running" => Places (p) = {}
  <2>1. p \in Pids
    BY <1>1 DEF Inv, IInv, TypeOK, EventsOK
  <2>2. Cardinality (Places (p)) = IF Places (p) = {} THEN 0 ELSE 1
    BY <1>1, <2>1, PlacesOnce, AtMostOne
  <2>3. Owes (p) => Places (p) # {}
    BY <1>1, PlacesEmpty DEF Inv, OwedInv
  <2>4. kstate[p] = "running" => kword[p] = "none" /\ Free (p)
    BY <1>1, <2>1, EventFacts
    DEF Inv, IInv, TypeOK, KernelOK, EventsOK, StateInv, Holds, WordInv, Words, Free
  <2> QED
    BY <2>2, <2>3, <2>4, PlacesEmpty
<1>2. ASSUME Inv, NEW p \in Pids, kstate[p] \in Reaped, p \notin thread_hash
      PROVE  Places (p) = {}
  <2>1. kword[p] = "none"
    BY <1>2 DEF Inv, IInv, TypeOK, KernelOK, WordInv, Words, Exits, Reaped
  <2>2. Free (p)
    BY <1>2, EventFacts
    DEF Inv, IInv, TypeOK, EventsOK, KnownInv, NewThread, StateInv, Holds, PlaceInv, Free, Reaped, Exits
  <2> QED
    BY <2>1, <2>2, PlacesEmpty
<1>3. Inv => EventUnderWay
  BY <1>1, <1>2 DEF EventUnderWay
<1> QED
  BY <1>3, InitInv, NextInv, PTL DEF Spec

(* pending_sigstops and _server_ptrace_wait_for_new_thread() together see   *)
(* to it that the initial stop of a cloned thread is consumed before the    *)
(* ThreadManager knows the thread.                                          *)
THEOREM InitialStopCorrect == Spec => []InitialStopConsumed
<1>1. Inv => InitialStopConsumed
  BY EventFacts DEF Inv, IInv, TypeOK, EventsOK, KnownInv, NewThread, InitialStopConsumed
<1> QED
  BY <1>1, InitInv, NextInv, PTL DEF Spec
=============================================================================
