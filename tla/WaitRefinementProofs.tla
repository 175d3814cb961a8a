----------------------- MODULE WaitRefinementProofs -----------------------
(***************************************************************************)
(* WaitProtocol implements EventDelivery, for any finite sets of threads.  *)
(*                                                                         *)
(* The mapping counts the places of an event.  Under Inv there is at most  *)
(* one, so that what is under way can be read off place by place (Report); *)
(* then every action either moves an event, which is invisible, or is one  *)
(* action of EventDelivery.                                                *)
(***************************************************************************)
EXTENDS WaitDeliveryProofs, WaitRefinement

(* The event of p that has not reached a handler, place by place.           *)
Report (p) ==
    IF kword[p] # "none" THEN kword[p]
    ELSE IF wev.pid = p THEN wev.st
    ELSE IF stop_status.pid = p THEN stop_status.st
    ELSE IF inbox.pid = p THEN inbox.st
    ELSE IF eev.pid = p /\ epc \notin Handles THEN eev.st ELSE "none"

Reported == InFlight = [p \in Pids |-> Report (p)]

(* The refinement mapping never finds an event twice.                       *)
LEMMA UnderWayIs == Inv => Reported
<1> SUFFICES ASSUME Inv, NEW p \in Pids PROVE UnderWay (p) = Report (p)
  BY DEF Reported, InFlight
<1>1. \A x, y \in Found (p) : x = y
  BY PlacesOnce DEF Found
<1>2. ASSUME NEW x \in Found (p) PROVE UnderWay (p) = WordIn (p, x)
  <2>1. x = CHOOSE y \in Found (p) : TRUE
    BY <1>1
  <2>2. Cardinality (Found (p)) = 1
    BY <1>1, AtMostOne
  <2> QED
    BY <2>1, <2>2 DEF UnderWay
<1>3. CASE Found (p) = {}
  <2>1. {"kernel", "wait thread", "handoff", "inbox"} \cap Places (p) = {}
    BY <1>3 DEF Found
  <2>2. epc \notin Handles => "engine" \notin Places (p)
    BY <1>3 DEF Found
  <2>3. kword[p] = "none" /\ wev.pid # p /\ stop_status.pid # p /\ inbox.pid # p
    BY <2>1, Zenon DEF Places
  <2>4. eev.pid = p => epc \in Handles
    BY <2>2, Zenon DEF Places
  <2> QED
    BY <1>3, <2>3, <2>4 DEF UnderWay, Report
<1>4. CASE Found (p) # {}
  <2>1. PICK x \in Found (p) : TRUE
    BY <1>4
  <2>2. x \in Places (p) /\ (x = "engine" => epc \notin Handles)
    BY <2>1 DEF Found
  <2>3. UnderWay (p) = WordIn (p, x)
    BY <1>2
  <2>4. CASE x = "kernel"
    BY <2>2, <2>3, <2>4 DEF Places, WordIn, Report
  <2>5. CASE x = "wait thread"
    BY <2>2, <2>3, <2>5 DEF Places, WordIn, Report, Inv, OnceInv, Free
  <2>6. CASE x = "handoff"
    BY <2>2, <2>3, <2>6 DEF Places, WordIn, Report, Inv, OnceInv, Free
  <2>7. CASE x = "inbox"
    BY <2>2, <2>3, <2>7 DEF Places, WordIn, Report, Inv, OnceInv, Free
  <2>8. CASE x = "engine"
    BY <2>2, <2>3, <2>8 DEF Places, WordIn, Report, Inv, OnceInv, Free
  <2> QED
    BY <2>2, <2>4, <2>5, <2>6, <2>7, <2>8 DEF Places
<1> QED
  BY <1>3, <1>4

(* Every step of the protocol is a step of EventDelivery or is invisible.   *)
LEMMA StepRefines == Inv /\ [Next]_vars => [Delivery!Next]_(Delivery!vars)
<1> SUFFICES ASSUME Inv, [Next]_vars PROVE [Delivery!Next]_(Delivery!vars)
  OBVIOUS
<1>type. TypeOK /\ CloneInv
  BY DEF Inv, IInv
<1>stop. StopInv
  BY DEF Inv, IInv
<1>place. PlaceInv
  BY DEF Inv
<1>once. OnceInv
  BY DEF Inv
<1>run. \A p \in Pids : kstate[p] \in {"absent", "starting", "running"} => Report (p) = "none"
  BY EventFacts
  DEF Inv, IInv, TypeOK, KernelOK, EventsOK, StateInv, Holds, WordInv, Words, Report
<1>flight. InFlight = [p \in Pids |-> Report (p)] /\ InFlight' = [p \in Pids |-> Report (p)']
  <2>1. Inv'
    BY NextInv
  <2>2. Reported /\ Reported'
    BY <2>1, UnderWayIs, PTL
  <2> QED
    BY <2>2 DEF Reported
<1>stutter. ASSUME Running' = Running, Handling' = Handling,
                   \A p \in Pids : Report (p)' = Report (p)
            PROVE  UNCHANGED Delivery!vars
  BY <1>stutter, <1>flight DEF Delivery!vars
<1>moved. ASSUME NEW q \in Pids, NEW v, \A p \in Pids : Report (p)' = IF p = q THEN v ELSE Report (p)
          PROVE  InFlight' = [InFlight EXCEPT ![q] = v]
  BY <1>moved, <1>flight
<1> USE EventFacts DEF kernel, mutexes, wait, engine, tables, TypeOK, KernelOK, EventsOK
<1>1. ASSUME NEW p \in Pids, Trap (p)
      PROVE  Delivery!Next
  <2>1. p \in Running /\ Running' = Running \ {p} /\ Handling' = Handling
    BY <1>1, <1>type DEF Trap, Halt, Running, Handling
  <2>2. \A q \in Pids : Report (q)' = IF q = p THEN "trap" ELSE Report (q)
    BY <1>1, <1>type, <1>run DEF Trap, Halt, Report, Exits
  <2>3. Delivery!Emit (p, "trap")
    BY <2>1, <2>2, <1>moved DEF Delivery!Emit
  <2> QED
    BY <2>3 DEF Delivery!Next, Words, Exits
<1>2. ASSUME NEW p \in Pids, DeliverSigstop (p)
      PROVE  Delivery!Next
  <2>1. p \in Running /\ Running' = Running \ {p} /\ Handling' = Handling
    BY <1>2, <1>type DEF DeliverSigstop, Halt, Running, Handling
  <2>2. \A q \in Pids : Report (q)' = IF q = p THEN "stop" ELSE Report (q)
    BY <1>2, <1>type, <1>run DEF DeliverSigstop, Halt, Report, Exits
  <2>3. Delivery!Emit (p, "stop")
    BY <2>1, <2>2, <1>moved DEF Delivery!Emit
  <2> QED
    BY <2>3 DEF Delivery!Next, Words, Exits
<1>3. ASSUME NEW p \in Pids, NEW word \in Exits, ThreadExit (p, word)
      PROVE  Delivery!Next
  <2>1. p \in Running /\ Running' = Running \ {p} /\ Handling' = Handling
    BY <1>3, <1>type DEF ThreadExit, Halt, Running, Handling
  <2>2. \A q \in Pids : Report (q)' = IF q = p THEN word ELSE Report (q)
    BY <1>3, <1>type, <1>run DEF ThreadExit, Halt, Report, Exits
  <2>3. Delivery!Emit (p, word)
    BY <2>1, <2>2, <1>moved DEF Delivery!Emit
  <2> QED
    BY <2>3 DEF Delivery!Next, Words, Exits
<1>4. ASSUME NEW p \in Pids, NEW c \in Spare, Clone (p, c)
      PROVE  Delivery!Next
  <2>1. p \in Running /\ Running' = Running \ {p} /\ Handling' = Handling
    BY <1>4, <1>type DEF Clone, Running, Handling
  <2>2. \A q \in Pids : Report (q)' = IF q = p THEN "clone" ELSE Report (q)
    BY <1>4, <1>type, <1>run DEF Clone, Report, Exits
  <2>3. Delivery!Emit (p, "clone")
    BY <2>1, <2>2, <1>moved DEF Delivery!Emit
  <2> QED
    BY <2>3 DEF Delivery!Next, Words, Exits
<1>5. ASSUME NEW p \in Pids, ChildStarts (p) PROVE Delivery!Next
  <2>1. p \notin Running /\ Running' = Running /\ Handling' = Handling
    BY <1>5, <1>type DEF ChildStarts, Halt, Running, Handling
  <2>2. Report (p) = "none" /\ \A q \in Pids : Report (q)' = IF q = p THEN "init" ELSE Report (q)
    BY <1>5, <1>type, <1>run DEF ChildStarts, Halt, Report
  <2>3. Delivery!FirstStop (p)
    BY <2>1, <2>2, <1>flight, <1>moved DEF Delivery!FirstStop
  <2> QED
    BY <2>3 DEF Delivery!Next
<1>6. CASE WaitStart
  <2>1. Running' = Running /\ Handling' = Handling
    BY <1>6, <1>type DEF WaitStart, Running, Handling, Handles
  <2>2. \A q \in Pids : Report (q)' = Report (q)
    BY <1>6, <1>type DEF WaitStart, Report, Handles
  <2> QED
    BY <2>1, <2>2, <1>stutter
<1>7. CASE WaitAgain
  <2>1. Running' = Running /\ Handling' = Handling
    BY <1>7, <1>type DEF WaitAgain, Running, Handling, Handles
  <2>2. \A q \in Pids : Report (q)' = Report (q)
    BY <1>7, <1>type DEF WaitAgain, Report, Handles
  <2> QED
    BY <2>1, <2>2, <1>stutter
<1>8. CASE GlobalWaitLock
  <2>1. Running' = Running /\ Handling' = Handling
    BY <1>8, <1>type DEF GlobalWaitLock, Running, Handling, Handles
  <2>2. \A q \in Pids : Report (q)' = Report (q)
    BY <1>8, <1>type DEF GlobalWaitLock, Report, Handles
  <2> QED
    BY <2>1, <2>2, <1>stutter
<1>9. CASE GlobalWaitNoChild
  <2>1. Running' = Running /\ Handling' = Handling
    BY <1>9, <1>type DEF GlobalWaitNoChild, Running, Handling, Handles
  <2>2. \A q \in Pids : Report (q)' = Report (q)
    BY <1>9, <1>type DEF GlobalWaitNoChild, Report, Handles
  <2> QED
    BY <2>1, <2>2, <1>stutter
<1>10. CASE GlobalWaitCheck
  <2>1. Running' = Running /\ Handling' = Handling
    BY <1>10, <1>type DEF GlobalWaitCheck, Running, Handling, Handles
  <2>2. \A q \in Pids : Report (q)' = Report (q)
    BY <1>10, <1>type, <1>place DEF GlobalWaitCheck, Report, Handles, PlaceInv
  <2> QED
    BY <2>1, <2>2, <1>stutter
<1>11. CASE GlobalWaitAgain
  <2>1. Running' = Running /\ Handling' = Handling
    BY <1>11, <1>type DEF GlobalWaitAgain, Running, Handling, Handles
  <2>2. \A q \in Pids : Report (q)' = Report (q)
    BY <1>11, <1>type DEF GlobalWaitAgain, Report, Handles
  <2> QED
    BY <2>1, <2>2, <1>stutter
<1>12. CASE StopSignal
  <2>1. Running' = Running /\ Handling' = Handling
    BY <1>12, <1>type DEF StopSignal, Running, Handling, Handles
  <2>2. \A q \in Pids : Report (q)' = Report (q)
    BY <1>12, <1>type DEF StopSignal, Report, Handles
  <2> QED
    BY <2>1, <2>2, <1>stutter
<1>13. CASE StopRequest
  <2>1. Running' = Running /\ Handling' = Handling
    BY <1>13, <1>type DEF StopRequest, Running, Handling, Handles
  <2>2. \A q \in Pids : Report (q)' = Report (q)
    BY <1>13, <1>type DEF StopRequest, Report, Handles
  <2> QED
    BY <2>1, <2>2, <1>stutter
<1>14. CASE StopReap
  <2>1. Running' = Running /\ Handling' = Handling
    BY <1>14, <1>type DEF StopReap, Reap, Running, Handling, Handles
  <2>2. \A q \in Pids : Report (q)' = Report (q)
    BY <1>14, <1>type, <1>once, <1>place, <1>stop DEF StopReap, Reap, Report, Handles, OnceInv, Free, PlaceInv, StopInv, InStop
  <2> QED
    BY <2>1, <2>2, <1>stutter
<1>15. CASE StopNoTarget
  <2>1. Running' = Running /\ Handling' = Handling
    BY <1>15, <1>type DEF StopNoTarget, Running, Handling, Handles
  <2>2. \A q \in Pids : Report (q)' = Report (q)
    BY <1>15, <1>type DEF StopNoTarget, Report, Handles
  <2> QED
    BY <2>1, <2>2, <1>stutter
<1>16. CASE NewThreadTrylock
  <2>1. Running' = Running /\ Handling' = Handling
    BY <1>16, <1>type DEF NewThreadTrylock, Running, Handling, Handles
  <2>2. \A q \in Pids : Report (q)' = Report (q)
    BY <1>16, <1>type DEF NewThreadTrylock, Report, Handles
  <2> QED
    BY <2>1, <2>2, <1>stutter
<1>17. ASSUME NEW p \in Pids, GlobalWaitReap (p) PROVE UNCHANGED Delivery!vars
  <2>1. Running' = Running /\ Handling' = Handling
    BY <1>17, <1>type DEF GlobalWaitReap, Reap, Running, Handling, Handles
  <2>2. \A q \in Pids : Report (q)' = Report (q)
    BY <1>17, <1>type, <1>once, <1>place DEF GlobalWaitReap, Reap, Report, Handles, OnceInv, Free, PlaceInv
  <2> QED
    BY <2>1, <2>2, <1>stutter
<1>18. ASSUME NEW p \in Pids, StopCall (p) PROVE UNCHANGED Delivery!vars
  <2>1. Running' = Running /\ Handling' = Handling
    BY <1>18, <1>type DEF StopCall, Running, Handling, Handles
  <2>2. \A q \in Pids : Report (q)' = Report (q)
    BY <1>18, <1>type DEF StopCall, Report, Handles
  <2> QED
    BY <2>1, <2>2, <1>stutter
<1>19. CASE WaitDeliver
  <2>1. Running' = Running /\ Handling' = Handling
    BY <1>19 DEF WaitDeliver, Running, Handling
  <2>2. CASE wev.pid \in thread_hash
    <3>1. \A q \in Pids : Report (q)' = Report (q)
      BY <1>19, <2>2, <1>type, <1>once, <1>place DEF WaitDeliver, Report, OnceInv, PlaceInv
    <3> QED
      BY <2>1, <3>1, <1>stutter
  <2>3. CASE wev.pid \notin thread_hash
    <3>1. PICK p \in Pids : p = wev.pid /\ wev.st = "init"
      BY <1>19, <2>3, <1>type, <1>place DEF WaitDeliver, PlaceInv, Inv, KnownInv, NewThread
    <3>2. Report (p) = "init" /\ \A q \in Pids : Report (q)' = IF q = p THEN "none" ELSE Report (q)
      BY <1>19, <2>3, <3>1, <1>type, <1>once, <1>place DEF WaitDeliver, Report, OnceInv, Free, PlaceInv
    <3>3. Delivery!Absorb (p)
      BY <2>1, <3>2, <1>flight, <1>moved DEF Delivery!Absorb
    <3> QED
      BY <3>3 DEF Delivery!Next
  <2> QED
    BY <2>2, <2>3
<1>20. CASE StopTake
  <2>1. Running' = Running /\ Handling' = Handling
    BY <1>20 DEF StopTake, Running, Handling, Handles
  <2>2. CASE stop_status = NoEvent \/ stop_status.st # Zero
    <3>1. \A q \in Pids : Report (q)' = Report (q)
      BY <1>20, <2>2, <1>type, <1>once, <1>place DEF StopTake, Report, Handles, OnceInv, PlaceInv
    <3> QED
      BY <2>1, <3>1, <1>stutter
  <2>3. CASE stop_status # NoEvent /\ stop_status.st = Zero
    <3>1. PICK p \in Pids : p = stop_status.pid
      BY <2>3, <1>type
    <3>2. Report (p) = "zero" /\ \A q \in Pids : Report (q)' = IF q = p THEN "none" ELSE Report (q)
      BY <1>20, <2>3, <3>1, <1>type, <1>once, <1>place DEF StopTake, Report, Handles, OnceInv, Free, PlaceInv
    <3>3. Delivery!Lose (p)
      BY <2>1, <3>2, <1>flight, <1>moved DEF Delivery!Lose
    <3> QED
      BY <3>3 DEF Delivery!Next
  <2> QED
    BY <2>2, <2>3
<1>21. CASE StopReturn
  <2>1. Running' = Running
    BY <1>21 DEF StopReturn, Running
  <2>2. CASE epc = "s_notarget"
    <3>1. Handling' = Handling
      BY <1>21, <2>2 DEF StopReturn, Handling, Handles
    <3>2. \A q \in Pids : Report (q)' = Report (q)
      BY <1>21, <2>2, <1>type, <1>place DEF StopReturn, Report, Handles, PlaceInv
    <3> QED
      BY <2>1, <3>1, <3>2, <1>stutter
  <2>3. CASE epc = "s_done"
    <3>1. PICK p \in Pids : p = eev.pid
      BY <2>3, <1>type, <1>place DEF PlaceInv
    <3>2. /\ Report (p) = eev.st
          /\ \A q \in Pids : Report (q)' = IF q = p THEN "none" ELSE Report (q)
      BY <1>21, <2>3, <3>1, <1>type, <1>once DEF StopReturn, Report, Handles, OnceInv, Free
    <3>3. CASE eev.st = Zero
      <4>1. Handling' = Handling
        BY <1>21, <2>3, <3>3 DEF StopReturn, Handling, Handles
      <4>2. Delivery!Lose (p)
        BY <2>1, <3>2, <3>3, <4>1, <1>flight, <1>moved DEF Delivery!Lose
      <4> QED
        BY <4>2 DEF Delivery!Next
    <3>4. CASE eev.st # Zero
      <4>1. Handling = Delivery!Idle /\ Handling' = <<p, eev.st>>
        BY <1>21, <2>3, <3>1, <3>4 DEF StopReturn, Handling, Handles, Delivery!Idle
      <4>2. eev.st # "none"
        BY <2>3, <1>type, <1>place DEF PlaceInv, Words, Exits
      <4>3. Delivery!Deliver (p)
        BY <2>1, <3>2, <4>1, <4>2, <1>flight, <1>moved DEF Delivery!Deliver
      <4> QED
        BY <4>3 DEF Delivery!Next
    <3> QED
      BY <3>3, <3>4
  <2> QED
    BY <1>21, <2>2, <2>3 DEF StopReturn
<1>22. CASE TakeInbox
  <2>1. PICK p \in Pids : p = inbox.pid
    BY <1>22, <1>type DEF TakeInbox
  <2>2. Running' = Running /\ Handling = Delivery!Idle /\ Handling' = <<p, inbox.st>>
    BY <1>22, <2>1 DEF TakeInbox, Running, Handling, Handles, Delivery!Idle
  <2>3. /\ Report (p) = inbox.st
        /\ \A q \in Pids : Report (q)' = IF q = p THEN "none" ELSE Report (q)
    BY <1>22, <2>1, <1>type, <1>once, <1>place DEF TakeInbox, Report, Handles, OnceInv, Free, PlaceInv
  <2>4. inbox.st # "none"
    BY <1>22, <1>type DEF TakeInbox, Words, Exits
  <2>5. Delivery!Deliver (p)
    BY <2>2, <2>3, <2>4, <1>flight, <1>moved DEF Delivery!Deliver
  <2> QED
    BY <2>5 DEF Delivery!Next
<1>23. CASE ProcessStop
  <2>1. Running' = Running \/ (eev.st \notin Exits /\ Running' = Running \cup {eev.pid})
    BY <1>23, <1>type, <1>place DEF ProcessStop, Continue, Exits, PlaceInv, Running
  <2>2. Handling = <<eev.pid, eev.st>> /\ Handling # Delivery!Idle /\ Handling' = Delivery!Idle
    BY <1>23, <1>type, <1>place
    DEF ProcessStop, ProcessDone, PlaceInv, Handling, Handles, Delivery!Idle, Words, Exits
  <2>3. \A q \in Pids : Report (q)' = Report (q)
    BY <1>23, <1>type DEF ProcessStop, ProcessDone, Report, Handles
  <2>4. Delivery!Finish
    BY <2>1, <2>2, <2>3, <1>flight DEF Delivery!Finish, Exits
  <2> QED
    BY <2>4 DEF Delivery!Next
<1>24. CASE ProcessExit
  <2>1. Running' = Running
    BY <1>24, <1>type, <1>place DEF ProcessExit, Running
  <2>2. Handling = <<eev.pid, eev.st>> /\ Handling # Delivery!Idle /\ Handling' = Delivery!Idle
    BY <1>24, <1>type, <1>place
    DEF ProcessExit, ProcessDone, PlaceInv, Handling, Handles, Delivery!Idle, Words, Exits
  <2>3. \A q \in Pids : Report (q)' = Report (q)
    BY <1>24, <1>type DEF ProcessExit, ProcessDone, Report, Handles
  <2>4. Delivery!Finish
    BY <2>1, <2>2, <2>3, <1>flight DEF Delivery!Finish
  <2> QED
    BY <2>4 DEF Delivery!Next
<1>25. CASE NewThreadFailed
  <2>1. Running' = Running
    BY <1>25, <1>type, <1>place DEF NewThreadFailed, Running
  <2>2. Handling = <<eev.pid, eev.st>> /\ Handling # Delivery!Idle /\ Handling' = Delivery!Idle
    BY <1>25, <1>type, <1>place
    DEF NewThreadFailed, ProcessDone, PlaceInv, Handling, Handles, Delivery!Idle, Words, Exits
  <2>3. \A q \in Pids : Report (q)' = Report (q)
    BY <1>25, <1>type DEF NewThreadFailed, ProcessDone, Report, Handles
  <2>4. Delivery!Finish
    BY <2>1, <2>2, <2>3, <1>flight DEF Delivery!Finish
  <2> QED
    BY <2>4 DEF Delivery!Next
<1>26. CASE ProcessCloneSeen
  <2>1. PICK p \in Pids, c \in Pids : p = eev.pid /\ c = child[p] /\ eev.st = "clone" /\ c # p
    <3>1. eev.pid \in Pids /\ eev.st = "clone"
      BY <1>26, <1>type, <1>place DEF ProcessCloneSeen, PlaceInv, CloneInv
    <3>2. child[eev.pid] \in Pids
      BY <3>1, <1>type DEF CloneInv
    <3>3. child[eev.pid] # eev.pid
      BY <3>1, <3>2 DEF Inv, ChildInv
    <3> QED
      BY <3>1, <3>2, <3>3
  <2>2. c \notin Running /\ Running' \in {Running \cup {c}, Running \cup {p, c}}
    BY <1>26, <2>1, <1>type DEF ProcessCloneSeen, CloneResumes, Continue, Running, Inv, QuietInv
  <2>3. Handling = <<p, "clone">> /\ Handling # Delivery!Idle /\ Handling' = Delivery!Idle
    BY <1>26, <2>1, <1>type
    DEF ProcessCloneSeen, ProcessDone, Handling, Handles, Delivery!Idle
  <2>4. Report (c) = "none" /\ \A q \in Pids : Report (q)' = IF q = c THEN "none" ELSE Report (q)
    BY <1>26, <2>1, <1>type, <1>once
    DEF ProcessCloneSeen, ProcessDone, Report, Handles, OnceInv, Free, Inv, QuietInv
  <2>5. Delivery!FinishClone (c)
    BY <2>2, <2>3, <2>4, <1>flight, <1>moved DEF Delivery!FinishClone
  <2> QED
    BY <2>5 DEF Delivery!Next
<1>27. CASE NewThreadWait
  <2>1. PICK p \in Pids, c \in Pids : p = eev.pid /\ c = child[p] /\ eev.st = "clone" /\ c # p
    <3>1. eev.pid \in Pids /\ eev.st = "clone"
      BY <1>27, <1>type, <1>place DEF NewThreadWait, PlaceInv, CloneInv
    <3>2. child[eev.pid] \in Pids
      BY <3>1, <1>type DEF CloneInv
    <3>3. child[eev.pid] # eev.pid
      BY <3>1, <3>2 DEF Inv, ChildInv
    <3> QED
      BY <3>1, <3>2, <3>3
  <2>2. c \notin Running /\ Running' \in {Running \cup {c}, Running \cup {p, c}}
    BY <1>27, <2>1, <1>type DEF NewThreadWait, CloneResumes, Continue, Running, Inv, WordInv, Words
  <2>3. Handling = <<p, "clone">> /\ Handling # Delivery!Idle /\ Handling' = Delivery!Idle
    BY <1>27, <2>1, <1>type
    DEF NewThreadWait, ProcessDone, Handling, Handles, Delivery!Idle
  <2>4. Report (c) = "init" /\ \A q \in Pids : Report (q)' = IF q = c THEN "none" ELSE Report (q)
    BY <1>27, <2>1, <1>type, <1>once
    DEF NewThreadWait, ProcessDone, Report, Handles, OnceInv, Free, Inv, ChildInv, Unborn, KnownInv, Words
  <2>5. Delivery!FinishClone (c)
    BY <2>2, <2>3, <2>4, <1>flight, <1>moved DEF Delivery!FinishClone
  <2> QED
    BY <2>5 DEF Delivery!Next
<1>28. ASSUME NEW p \in Pids, Resume (p) PROVE Delivery!Next
  <2>1. Running' = Running \cup {p} /\ Handling = Delivery!Idle /\ Handling' = Handling
    BY <1>28, <1>type DEF Resume, Continue, Running, Handling, Handles, Delivery!Idle
  <2>2. Report (p) = "none" /\ \A q \in Pids : Report (q)' = Report (q)
    BY <1>28, <1>type DEF Resume, Report, Inv, QuietInv, Free
  <2>3. Delivery!Resume (p)
    BY <2>1, <2>2, <1>flight DEF Delivery!Resume
  <2> QED
    BY <2>3 DEF Delivery!Next
<1>29. CASE StopPoll \/ Terminated \/ UNCHANGED vars
  <2>1. UNCHANGED vars
    BY <1>29 DEF StopPoll, Terminated
  <2>2. Running' = Running /\ Handling' = Handling
    BY <2>1 DEF vars, Running, Handling
  <2>3. \A q \in Pids : Report (q)' = Report (q)
    BY <2>1 DEF vars, Report
  <2> QED
    BY <2>2, <2>3, <1>stutter
<1> QED
  BY <1>1, <1>2, <1>3, <1>4, <1>5, <1>6, <1>7, <1>8, <1>9, <1>10, <1>11, <1>12, <1>13, <1>14, <1>15, <1>16, <1>17, <1>18, <1>19, <1>20, <1>21, <1>22, <1>23, <1>24, <1>25, <1>26, <1>27, <1>28, <1>29
  DEF Next, Kernel, WaitThread, UserCommand, StopAndWait, Processing

(* The three mutexes, stop_requested, stop_status and pending_sigstops give *)
(* every event of a thread to one handler exactly once, and no thread is    *)
(* resumed before that: WaitProtocol implements EventDelivery.              *)
THEOREM DeliveryImplemented == Spec => ImplementsDelivery
<1>1. Init => Delivery!Init
  <2> SUFFICES ASSUME Init PROVE Delivery!Init
    OBVIOUS
  <2>1. Reported
    BY InitInv, UnderWayIs
  <2>2. Running = Initial
    BY DEF Init, Running, Pids
  <2>3. Handling = Delivery!Idle
    BY DEF Init, Handling, Handles, Delivery!Idle
  <2>4. \A p \in Pids : Report (p) = "none"
    BY EventFacts DEF Init, Report
  <2> QED
    BY <2>1, <2>2, <2>3, <2>4 DEF Delivery!Init, Reported
<1> QED
  BY <1>1, InitInv, NextInv, StepRefines, PTL DEF Spec, ImplementsDelivery, Delivery!Spec
=============================================================================
