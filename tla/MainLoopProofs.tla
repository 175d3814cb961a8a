--------------------------- MODULE MainLoopProofs ---------------------------
(***************************************************************************)
(* Theorems about MainLoop, for any number of clients and threads.         *)
(*                                                                         *)
(* The right to call global_wait() is a token: it is wait_event, or the    *)
(* wait thread is inside wait_thread_main(), or the engine thread has the  *)
(* event that came of it and will call RequestWait().  That it is never in *)
(* two places is why neither InternalError can be thrown.                  *)
(***************************************************************************)
EXTENDS MainLoop, FiniteSetTheorems, TLAPS

(* The types, in the parts that the actions disturb separately.             *)
FlagsOK ==
    /\ engine_event \in BOOLEAN /\ wait_event \in BOOLEAN /\ waiting \in BOOLEAN
    /\ abort_requested \in BOOLEAN /\ pulsed \in BOOLEAN
SlotsOK ==
    /\ current_command \in Users \cup {NoUser} /\ current_event \in Threads \cup {NoThread}
    /\ command \in Users \cup {NoUser} /\ event_engine \in Threads \cup {NoThread}
    /\ pid \in Threads \cup {NoThread}
ControlOK ==
    /\ epc \in {"wait", "event", "request", "command", "loop", "enter", "exited"}
    /\ wpc \in {"sleep", "woken", "again", "poll", "got", "lock", "reap", "exited"}
    /\ dpc \in {"none", "queued", "signal", "join", "done"}
ClientsOK ==
    /\ upc \in [Users -> {"idle", "gate", "lock", "result"}]
    /\ kind \in [Users -> {"access", "create"}] /\ executed \in [Users -> BOOLEAN]
TargetOK == tstate \in [Threads -> {"absent", "running", "event", "held", "stopped", "gone"}]

(* The engine thread has, or is about to get, an event.                     *)
EngineHasEvent == current_event # NoThread \/ epc \in {"event", "request"}

WaitToken ==
    /\ wait_event => wpc \in {"sleep", "exited"}
    /\ EngineHasEvent => ~wait_event /\ ~waiting /\ wpc \in {"sleep", "exited"}

(* Work is posted only to a waiting engine thread, which takes all of it.   *)
Posted ==
    /\ epc \in {"event", "request", "command", "enter"} =>
            current_event = NoThread /\ current_command = NoUser
    /\ epc = "loop" /\ ~abort_requested => current_event = NoThread /\ current_command = NoUser
    /\ epc = "wait" /\ (current_event # NoThread \/ current_command # NoUser) => pulsed
    /\ (event_engine # NoThread) <=> (epc = "event")
    /\ epc = "command" => command # NoUser
    /\ command # NoUser => epc \in {"event", "request", "command"}

(* Whose command it is waits for its result.                                *)
Waiting ==
    /\ command # NoUser => upc[command] = "result" /\ ~engine_event
    /\ current_command # NoUser => upc[current_command] = "result" /\ ~engine_event

Virgin == \A t \in Threads : tstate[t] = "absent"

(* Before the application has been started nothing happens in the wait      *)
(* thread, and nobody starts it twice.                                      *)
Starting ==
    /\ Virgin => /\ wpc = "sleep" /\ ~wait_event /\ ~waiting /\ ~EngineHasEvent
                 /\ event_engine = NoThread /\ dpc = "none"
    /\ \A u \in Users :
            kind[u] = "create" /\ (upc[u] \in {"gate", "lock"} \/ u \in {command, current_command})
                => Virgin /\ \A v \in Users \ {u} : upc[v] = "idle"

(* A reaped event is in the hands of one of the three.                      *)
Held ==
    /\ (pid # NoThread) <=> (wpc \in {"got", "lock"})
    /\ dpc \in {"signal", "join", "done"} => abort_requested
    /\ ~abort_requested =>
            \A t \in Threads : (tstate[t] = "held") <=> (t \in {pid, current_event, event_engine})

IInv ==
    /\ FlagsOK /\ SlotsOK /\ ControlOK /\ ClientsOK /\ TargetOK
    /\ WaitToken /\ Posted /\ Waiting /\ Starting /\ Held

LEMMA InitIInv == Init => IInv
BY MainLoopAssumption DEF Init, IInv, FlagsOK, SlotsOK, ControlOK, ClientsOK, TargetOK, WaitToken,
   EngineHasEvent, Posted, Waiting, Starting, Virgin, Held

LEMMA NextIInv == IInv /\ [Next]_vars => IInv'
<1> SUFFICES ASSUME IInv, [Next]_vars PROVE IInv'
  OBVIOUS
<1> USE MainLoopAssumption DEF IInv, FlagsOK, SlotsOK, ControlOK, ClientsOK, TargetOK, WaitToken,
    EngineHasEvent, Posted, Waiting, Starting, Virgin, Held, signals, posted, engine, clients
<1>1. ASSUME NEW u \in Users, UserStart (u) PROVE IInv'
  <2>1. FlagsOK' /\ SlotsOK' /\ ControlOK' /\ ClientsOK' /\ TargetOK'
    BY <1>1 DEF UserStart, Alive
  <2>2. WaitToken' /\ Posted'
    BY <1>1 DEF UserStart, Alive
  <2>3. Waiting'
    BY <1>1 DEF UserStart, Alive
  <2>4. Starting'
    BY <1>1 DEF UserStart, Alive
  <2>5. Held'
    BY <1>1 DEF UserStart, Alive
  <2> HIDE DEF FlagsOK, SlotsOK, ControlOK, ClientsOK, TargetOK, WaitToken, Posted, Waiting, Starting, Held
  <2> QED
    BY <2>1, <2>2, <2>3, <2>4, <2>5
<1>2. ASSUME NEW u \in Users, UserGate (u) PROVE IInv'
  <2>1. FlagsOK' /\ SlotsOK' /\ ControlOK' /\ ClientsOK' /\ TargetOK'
    BY <1>2 DEF UserGate
  <2>2. WaitToken' /\ Posted'
    BY <1>2 DEF UserGate
  <2>3. Waiting'
    BY <1>2 DEF UserGate
  <2>4. Starting'
    BY <1>2 DEF UserGate
  <2>5. Held'
    BY <1>2 DEF UserGate
  <2> HIDE DEF FlagsOK, SlotsOK, ControlOK, ClientsOK, TargetOK, WaitToken, Posted, Waiting, Starting, Held
  <2> QED
    BY <2>1, <2>2, <2>3, <2>4, <2>5
<1>3. ASSUME NEW u \in Users, UserTimeout (u) PROVE IInv'
  <2>1. FlagsOK' /\ SlotsOK' /\ ControlOK' /\ ClientsOK' /\ TargetOK'
    BY <1>3 DEF UserTimeout
  <2>2. WaitToken' /\ Posted'
    BY <1>3 DEF UserTimeout
  <2>3. Waiting'
    BY <1>3 DEF UserTimeout
  <2>4. Starting'
    BY <1>3 DEF UserTimeout
  <2>5. Held'
    BY <1>3 DEF UserTimeout
  <2> HIDE DEF FlagsOK, SlotsOK, ControlOK, ClientsOK, TargetOK, WaitToken, Posted, Waiting, Starting, Held
  <2> QED
    BY <2>1, <2>2, <2>3, <2>4, <2>5
<1>4. ASSUME NEW u \in Users, UserPost (u) PROVE IInv'
  <2>1. FlagsOK' /\ SlotsOK' /\ ControlOK' /\ ClientsOK' /\ TargetOK'
    BY <1>4 DEF UserPost, MonitorFree
  <2>2. WaitToken' /\ Posted'
    BY <1>4 DEF UserPost, MonitorFree
  <2>3. Waiting'
    BY <1>4 DEF UserPost, MonitorFree
  <2>4. Starting'
    BY <1>4 DEF UserPost, MonitorFree
  <2>5. Held'
    BY <1>4 DEF UserPost, MonitorFree
  <2> HIDE DEF FlagsOK, SlotsOK, ControlOK, ClientsOK, TargetOK, WaitToken, Posted, Waiting, Starting, Held
  <2> QED
    BY <2>1, <2>2, <2>3, <2>4, <2>5
<1>5. ASSUME NEW u \in Users, UserReturn (u) PROVE IInv'
  <2>1. FlagsOK' /\ SlotsOK' /\ ControlOK' /\ ClientsOK' /\ TargetOK'
    BY <1>5 DEF UserReturn
  <2>2. WaitToken' /\ Posted'
    BY <1>5 DEF UserReturn
  <2>3. Waiting'
    BY <1>5 DEF UserReturn
  <2>4. Starting'
    BY <1>5 DEF UserReturn
  <2>5. Held'
    BY <1>5 DEF UserReturn
  <2> HIDE DEF FlagsOK, SlotsOK, ControlOK, ClientsOK, TargetOK, WaitToken, Posted, Waiting, Starting, Held
  <2> QED
    BY <2>1, <2>2, <2>3, <2>4, <2>5
<1>6. ASSUME EngineWake PROVE IInv'
  <2>1. FlagsOK' /\ SlotsOK' /\ ControlOK' /\ ClientsOK' /\ TargetOK'
    BY <1>6 DEF EngineWake
  <2>2. WaitToken' /\ Posted'
    BY <1>6 DEF EngineWake
  <2>3. Waiting'
    BY <1>6 DEF EngineWake
  <2>4. Starting'
    BY <1>6 DEF EngineWake
  <2>5. Held'
    BY <1>6 DEF EngineWake
  <2> HIDE DEF FlagsOK, SlotsOK, ControlOK, ClientsOK, TargetOK, WaitToken, Posted, Waiting, Starting, Held
  <2> QED
    BY <2>1, <2>2, <2>3, <2>4, <2>5
<1>7. ASSUME ProcessEvent PROVE IInv'
  <2>1. FlagsOK' /\ SlotsOK' /\ ControlOK' /\ ClientsOK' /\ TargetOK'
    BY <1>7 DEF ProcessEvent
  <2>2. WaitToken' /\ Posted'
    BY <1>7 DEF ProcessEvent
  <2>3. Waiting'
    BY <1>7 DEF ProcessEvent
  <2>4. Starting'
    BY <1>7 DEF ProcessEvent
  <2>5. Held'
    BY <1>7 DEF ProcessEvent
  <2> HIDE DEF FlagsOK, SlotsOK, ControlOK, ClientsOK, TargetOK, WaitToken, Posted, Waiting, Starting, Held
  <2> QED
    BY <2>1, <2>2, <2>3, <2>4, <2>5
<1>8. ASSUME RequestWait PROVE IInv'
  <2>1. FlagsOK' /\ SlotsOK' /\ ControlOK' /\ ClientsOK' /\ TargetOK'
    BY <1>8 DEF RequestWait
  <2>2. WaitToken' /\ Posted'
    BY <1>8 DEF RequestWait
  <2>3. Waiting'
    BY <1>8 DEF RequestWait
  <2>4. Starting'
    BY <1>8 DEF RequestWait
  <2>5. Held'
    BY <1>8 DEF RequestWait
  <2> HIDE DEF FlagsOK, SlotsOK, ControlOK, ClientsOK, TargetOK, WaitToken, Posted, Waiting, Starting, Held
  <2> QED
    BY <2>1, <2>2, <2>3, <2>4, <2>5
<1>9. ASSUME RunCommand PROVE IInv'
  <2>1. FlagsOK' /\ SlotsOK' /\ ControlOK' /\ ClientsOK' /\ TargetOK'
    BY <1>9 DEF RunCommand
  <2>2. WaitToken' /\ Posted'
    BY <1>9 DEF RunCommand
  <2>3. Waiting'
    BY <1>9 DEF RunCommand
  <2>4. Starting'
    BY <1>9 DEF RunCommand
  <2>5. Held'
    BY <1>9 DEF RunCommand
  <2> HIDE DEF FlagsOK, SlotsOK, ControlOK, ClientsOK, TargetOK, WaitToken, Posted, Waiting, Starting, Held
  <2> QED
    BY <2>1, <2>2, <2>3, <2>4, <2>5
<1>10. ASSUME CreateProcess PROVE IInv'
  <2>1. FlagsOK' /\ SlotsOK' /\ ControlOK' /\ ClientsOK' /\ TargetOK'
    BY <1>10 DEF CreateProcess
  <2>2. WaitToken' /\ Posted'
    BY <1>10 DEF CreateProcess
  <2>3. Waiting'
    BY <1>10 DEF CreateProcess
  <2>4. Starting'
    BY <1>10 DEF CreateProcess
  <2>5. Held'
    BY <1>10 DEF CreateProcess
  <2> HIDE DEF FlagsOK, SlotsOK, ControlOK, ClientsOK, TargetOK, WaitToken, Posted, Waiting, Starting, Held
  <2> QED
    BY <2>1, <2>2, <2>3, <2>4, <2>5
<1>11. ASSUME EngineLoop PROVE IInv'
  <2>1. FlagsOK' /\ SlotsOK' /\ ControlOK' /\ ClientsOK' /\ TargetOK'
    BY <1>11 DEF EngineLoop
  <2>2. WaitToken' /\ Posted'
    BY <1>11 DEF EngineLoop
  <2>3. Waiting'
    BY <1>11 DEF EngineLoop
  <2>4. Starting'
    BY <1>11 DEF EngineLoop
  <2>5. Held'
    BY <1>11 DEF EngineLoop
  <2> HIDE DEF FlagsOK, SlotsOK, ControlOK, ClientsOK, TargetOK, WaitToken, Posted, Waiting, Starting, Held
  <2> QED
    BY <2>1, <2>2, <2>3, <2>4, <2>5
<1>12. ASSUME EngineEnterWait PROVE IInv'
  <2>1. FlagsOK' /\ SlotsOK' /\ ControlOK' /\ ClientsOK' /\ TargetOK'
    BY <1>12 DEF EngineEnterWait
  <2>2. WaitToken' /\ Posted'
    BY <1>12 DEF EngineEnterWait
  <2>3. Waiting'
    BY <1>12 DEF EngineEnterWait
  <2>4. Starting'
    BY <1>12 DEF EngineEnterWait
  <2>5. Held'
    BY <1>12 DEF EngineEnterWait
  <2> HIDE DEF FlagsOK, SlotsOK, ControlOK, ClientsOK, TargetOK, WaitToken, Posted, Waiting, Starting, Held
  <2> QED
    BY <2>1, <2>2, <2>3, <2>4, <2>5
<1>13. ASSUME WaitWake PROVE IInv'
  <2>1. FlagsOK' /\ SlotsOK' /\ ControlOK' /\ ClientsOK' /\ TargetOK'
    BY <1>13 DEF WaitWake
  <2>2. WaitToken' /\ Posted'
    BY <1>13 DEF WaitWake
  <2>3. Waiting'
    BY <1>13 DEF WaitWake
  <2>4. Starting'
    BY <1>13 DEF WaitWake
  <2>5. Held'
    BY <1>13 DEF WaitWake
  <2> HIDE DEF FlagsOK, SlotsOK, ControlOK, ClientsOK, TargetOK, WaitToken, Posted, Waiting, Starting, Held
  <2> QED
    BY <2>1, <2>2, <2>3, <2>4, <2>5
<1>14. ASSUME SetWaiting PROVE IInv'
  <2>1. FlagsOK' /\ SlotsOK' /\ ControlOK' /\ ClientsOK' /\ TargetOK'
    BY <1>14 DEF SetWaiting
  <2>2. WaitToken' /\ Posted'
    BY <1>14 DEF SetWaiting
  <2>3. Waiting'
    BY <1>14 DEF SetWaiting
  <2>4. Starting'
    BY <1>14 DEF SetWaiting
  <2>5. Held'
    BY <1>14 DEF SetWaiting
  <2> HIDE DEF FlagsOK, SlotsOK, ControlOK, ClientsOK, TargetOK, WaitToken, Posted, Waiting, Starting, Held
  <2> QED
    BY <2>1, <2>2, <2>3, <2>4, <2>5
<1>15. ASSUME WaitAgain PROVE IInv'
  <2>1. FlagsOK' /\ SlotsOK' /\ ControlOK' /\ ClientsOK' /\ TargetOK'
    BY <1>15 DEF WaitAgain
  <2>2. WaitToken' /\ Posted'
    BY <1>15 DEF WaitAgain
  <2>3. Waiting'
    BY <1>15 DEF WaitAgain
  <2>4. Starting'
    BY <1>15 DEF WaitAgain
  <2>5. Held'
    BY <1>15 DEF WaitAgain
  <2> HIDE DEF FlagsOK, SlotsOK, ControlOK, ClientsOK, TargetOK, WaitToken, Posted, Waiting, Starting, Held
  <2> QED
    BY <2>1, <2>2, <2>3, <2>4, <2>5
<1>16. ASSUME NEW t \in Threads, WaitEvent (t) PROVE IInv'
  <2>1. FlagsOK' /\ SlotsOK' /\ ControlOK' /\ ClientsOK' /\ TargetOK'
    BY <1>16 DEF WaitEvent
  <2>2. WaitToken' /\ Posted'
    BY <1>16 DEF WaitEvent
  <2>3. Waiting'
    BY <1>16 DEF WaitEvent
  <2>4. Starting'
    BY <1>16 DEF WaitEvent
  <2>5. Held'
    BY <1>16 DEF WaitEvent
  <2> HIDE DEF FlagsOK, SlotsOK, ControlOK, ClientsOK, TargetOK, WaitToken, Posted, Waiting, Starting, Held
  <2> QED
    BY <2>1, <2>2, <2>3, <2>4, <2>5
<1>17. ASSUME WaitNoChild PROVE IInv'
  <2>1. FlagsOK' /\ SlotsOK' /\ ControlOK' /\ ClientsOK' /\ TargetOK'
    BY <1>17 DEF WaitNoChild, Alive
  <2>2. WaitToken' /\ Posted'
    BY <1>17 DEF WaitNoChild, Alive
  <2>3. Waiting'
    BY <1>17 DEF WaitNoChild, Alive
  <2>4. Starting'
    BY <1>17 DEF WaitNoChild, Alive
  <2>5. Held'
    BY <1>17 DEF WaitNoChild, Alive
  <2> HIDE DEF FlagsOK, SlotsOK, ControlOK, ClientsOK, TargetOK, WaitToken, Posted, Waiting, Starting, Held
  <2> QED
    BY <2>1, <2>2, <2>3, <2>4, <2>5
<1>18. ASSUME WaitGate PROVE IInv'
  <2>1. FlagsOK' /\ SlotsOK' /\ ControlOK' /\ ClientsOK' /\ TargetOK'
    BY <1>18 DEF WaitGate
  <2>2. WaitToken' /\ Posted'
    BY <1>18 DEF WaitGate
  <2>3. Waiting'
    BY <1>18 DEF WaitGate
  <2>4. Starting'
    BY <1>18 DEF WaitGate
  <2>5. Held'
    BY <1>18 DEF WaitGate
  <2> HIDE DEF FlagsOK, SlotsOK, ControlOK, ClientsOK, TargetOK, WaitToken, Posted, Waiting, Starting, Held
  <2> QED
    BY <2>1, <2>2, <2>3, <2>4, <2>5
<1>19. ASSUME WaitPost PROVE IInv'
  <2>1. FlagsOK' /\ SlotsOK' /\ ControlOK' /\ ClientsOK' /\ TargetOK'
    BY <1>19 DEF WaitPost, MonitorFree
  <2>2. WaitToken' /\ Posted'
    BY <1>19 DEF WaitPost, MonitorFree
  <2>3. Waiting'
    BY <1>19 DEF WaitPost, MonitorFree
  <2>4. Starting'
    BY <1>19 DEF WaitPost, MonitorFree
  <2>5. Held'
    BY <1>19 DEF WaitPost, MonitorFree
  <2> HIDE DEF FlagsOK, SlotsOK, ControlOK, ClientsOK, TargetOK, WaitToken, Posted, Waiting, Starting, Held
  <2> QED
    BY <2>1, <2>2, <2>3, <2>4, <2>5
<1>20. ASSUME DisposeAbort PROVE IInv'
  <2>1. FlagsOK' /\ SlotsOK' /\ ControlOK' /\ ClientsOK' /\ TargetOK'
    BY <1>20 DEF DisposeAbort
  <2>2. WaitToken' /\ Posted'
    BY <1>20 DEF DisposeAbort
  <2>3. Waiting'
    BY <1>20 DEF DisposeAbort
  <2>4. Starting'
    BY <1>20 DEF DisposeAbort
  <2>5. Held'
    BY <1>20 DEF DisposeAbort
  <2> HIDE DEF FlagsOK, SlotsOK, ControlOK, ClientsOK, TargetOK, WaitToken, Posted, Waiting, Starting, Held
  <2> QED
    BY <2>1, <2>2, <2>3, <2>4, <2>5
<1>21. ASSUME DisposeSignal PROVE IInv'
  <2>1. FlagsOK' /\ SlotsOK' /\ ControlOK' /\ ClientsOK' /\ TargetOK'
    BY <1>21 DEF DisposeSignal, MonitorFree
  <2>2. WaitToken' /\ Posted'
    BY <1>21 DEF DisposeSignal, MonitorFree
  <2>3. Waiting'
    BY <1>21 DEF DisposeSignal, MonitorFree
  <2>4. Starting'
    BY <1>21 DEF DisposeSignal, MonitorFree
  <2>5. Held'
    BY <1>21 DEF DisposeSignal, MonitorFree
  <2> HIDE DEF FlagsOK, SlotsOK, ControlOK, ClientsOK, TargetOK, WaitToken, Posted, Waiting, Starting, Held
  <2> QED
    BY <2>1, <2>2, <2>3, <2>4, <2>5
<1>22. ASSUME DisposeJoin PROVE IInv'
  <2>1. FlagsOK' /\ SlotsOK' /\ ControlOK' /\ ClientsOK' /\ TargetOK'
    BY <1>22 DEF DisposeJoin
  <2>2. WaitToken' /\ Posted'
    BY <1>22 DEF DisposeJoin
  <2>3. Waiting'
    BY <1>22 DEF DisposeJoin
  <2>4. Starting'
    BY <1>22 DEF DisposeJoin
  <2>5. Held'
    BY <1>22 DEF DisposeJoin
  <2> HIDE DEF FlagsOK, SlotsOK, ControlOK, ClientsOK, TargetOK, WaitToken, Posted, Waiting, Starting, Held
  <2> QED
    BY <2>1, <2>2, <2>3, <2>4, <2>5
<1>23. ASSUME NEW t \in Threads, TargetEvent (t) PROVE IInv'
  <2>1. FlagsOK' /\ SlotsOK' /\ ControlOK' /\ ClientsOK' /\ TargetOK'
    BY <1>23 DEF TargetEvent
  <2>2. WaitToken' /\ Posted'
    BY <1>23 DEF TargetEvent
  <2>3. Waiting'
    BY <1>23 DEF TargetEvent
  <2>4. Starting'
    BY <1>23 DEF TargetEvent
  <2>5. Held'
    BY <1>23 DEF TargetEvent
  <2> HIDE DEF FlagsOK, SlotsOK, ControlOK, ClientsOK, TargetOK, WaitToken, Posted, Waiting, Starting, Held
  <2> QED
    BY <2>1, <2>2, <2>3, <2>4, <2>5
<1>24. CASE UNCHANGED vars
  BY <1>24 DEF vars
<1> HIDE DEF IInv
<1> QED
  BY <1>1, <1>2, <1>3, <1>4, <1>5, <1>6, <1>7, <1>8, <1>9, <1>10, <1>11, <1>12, <1>13, <1>14, <1>15, <1>16, <1>17, <1>18, <1>19, <1>20, <1>21, <1>22, <1>23, <1>24 DEF Next, UserThread, EngineThread, WaitThread,
     DisposeThread, Terminated

-----------------------------------------------------------------------------
LEMMA InvariantHolds == Spec => []IInv
<1>1. Init => IInv
  BY InitIInv
<1>2. IInv /\ [Next]_vars => IInv'
  BY NextIInv
<1> QED
  BY <1>1, <1>2, PTL DEF Spec

(* Type correctness of the main loop: in particular what global_wait()      *)
(* returns on failure is never taken for the thread of an event.            *)
THEOREM TypeCorrect == Spec => []TypeOK
<1>1. IInv => TypeOK
  BY DEF IInv, FlagsOK, SlotsOK, ControlOK, ClientsOK, TargetOK, TypeOK
<1> QED
  BY <1>1, InvariantHolds, PTL

(* Neither InternalError of the main loop can be thrown, however many       *)
(* clients post commands while events arrive: RequestWait() never finds the *)
(* wait thread waiting, wait_thread_main() never an unprocessed event.      *)
THEOREM MainLoopNeverThrows == Spec => []NoInternalError
<1>1. IInv => NoInternalError
  BY DEF IInv, ControlOK, NoInternalError
<1> QED
  BY <1>1, InvariantHolds, PTL

(* The engine thread never sleeps on a posted event or command.             *)
THEOREM SignalKept == Spec => []NoLostSignal
<1>1. IInv => NoLostSignal
  BY DEF IInv, Posted, NoLostSignal
<1> QED
  BY <1>1, InvariantHolds, PTL

(* Until Dispose() an event that waitpid() returned is in exactly one pair  *)
(* of hands, and nobody holds an event of any other thread.                 *)
THEOREM EventHasOneHolder == Spec => []EventHeldOnce
<1>1. IInv => EventHeldOnce
  <2> SUFFICES ASSUME IInv, ~abort_requested, NEW t \in Threads
               PROVE Cardinality (Holders (t)) = (IF tstate[t] = "held" THEN 1 ELSE 0)
    BY DEF EventHeldOnce
  <2> USE MainLoopAssumption DEF IInv
  <2>1. CASE tstate[t] # "held"
    <3>1. Holders (t) = {}
      BY <2>1 DEF Held, Holders
    <3> QED
      BY <2>1, <3>1, FS_EmptySet
  <2>2. CASE tstate[t] = "held"
    <3>1. \E x : Holders (t) = {x}
      <4>1. CASE pid = t
        <5>1. current_event # t /\ event_engine # t
          BY <4>1 DEF Held, WaitToken, EngineHasEvent, Posted
        <5>2. Holders (t) = {"wait thread"}
          BY <4>1, <5>1 DEF Holders
        <5> QED
          BY <5>2
      <4>2. CASE current_event = t
        <5>1. pid # t /\ event_engine # t
          BY <4>2 DEF Held, WaitToken, EngineHasEvent, Posted
        <5>2. Holders (t) = {"posted"}
          BY <4>2, <5>1 DEF Holders
        <5> QED
          BY <5>2
      <4>3. CASE event_engine = t
        <5>1. pid # t /\ current_event # t
          BY <4>3 DEF Held, WaitToken, EngineHasEvent, Posted
        <5>2. Holders (t) = {"engine"}
          BY <4>3, <5>1 DEF Holders
        <5> QED
          BY <5>2
      <4> QED
        BY <2>2, <4>1, <4>2, <4>3 DEF Held
    <3> QED
      BY <2>2, <3>1, FS_Singleton
  <2> QED
    BY <2>1, <2>2
<1> QED
  BY <1>1, InvariantHolds, PTL

-----------------------------------------------------------------------------
(* One client: whoever waits for a result that is not there has its command *)
(* in one of the two slots, and engine_event is reset.                      *)
Answered ==
    \A u \in Users : upc[u] = "result" /\ ~executed[u] =>
        ~engine_event /\ u \in {command, current_command}

LEMMA NextAnswered ==
    ASSUME \A u, v \in Users : u = v, IInv, Answered, [Next]_vars
    PROVE  Answered'
<1> USE MainLoopAssumption DEF Answered
<1>1. /\ upc \in [Users -> {"idle", "gate", "lock", "result"}] /\ executed \in [Users -> BOOLEAN]
      /\ command \in Users \cup {NoUser} /\ current_command \in Users \cup {NoUser}
  BY DEF IInv, ClientsOK, SlotsOK
<1>2. /\ epc \in {"event", "request", "command"} => current_command = NoUser
      /\ command # NoUser => epc \in {"event", "request", "command"}
      /\ epc = "command" => command # NoUser
  BY DEF IInv, Posted
<1>3. ASSUME NEW u \in Users, UserStart (u) PROVE Answered'
  BY <1>1, <1>3 DEF UserStart, signals, posted, engine
<1>4. ASSUME NEW u \in Users, UserGate (u) \/ UserTimeout (u) PROVE Answered'
  BY <1>1, <1>4 DEF UserGate, UserTimeout, signals, posted, engine
<1>5. ASSUME NEW u \in Users, UserPost (u) PROVE Answered'
  <2>1. ~engine_event' /\ current_command' = u /\ UNCHANGED executed
    BY <1>5 DEF UserPost
  <2> QED
    BY <2>1
<1>6. ASSUME NEW u \in Users, UserReturn (u) PROVE Answered'
  BY <1>1, <1>6 DEF UserReturn, signals, posted, engine
<1>7. CASE EngineWake
  <2>1. command = NoUser
    BY <1>2, <1>7 DEF EngineWake
  <2>2. /\ UNCHANGED <<engine_event, upc, executed>>
        /\ current_command \in {command', current_command'}
    BY <1>7 DEF EngineWake, clients, posted
  <2> QED
    BY <2>1, <2>2
<1>8. CASE ProcessEvent
  <2>1. /\ current_command = NoUser /\ engine_event' = (engine_event \/ command = NoUser)
        /\ UNCHANGED <<upc, executed, command, current_command>>
    BY <1>2, <1>8 DEF ProcessEvent, clients, posted
  <2> QED
    BY <2>1
<1>9. CASE RequestWait \/ EngineLoop \/ EngineEnterWait
  BY <1>9 DEF RequestWait, EngineLoop, EngineEnterWait, clients, posted, signals
<1>10. CASE RunCommand \/ CreateProcess
  <2>1. command \in Users /\ executed' = [executed EXCEPT ![command] = TRUE]
    BY <1>1, <1>2, <1>10 DEF RunCommand, CreateProcess
  <2>2. \A u \in Users : executed'[u]
    BY <1>1, <2>1
  <2> QED
    BY <2>2
<1>11. CASE WaitThread
  <2>1. /\ engine_event' \in {FALSE, engine_event}
        /\ UNCHANGED <<upc, executed, command, current_command>>
    BY <1>11 DEF WaitThread, WaitWake, SetWaiting, WaitAgain, WaitNoChild, WaitGate, WaitPost, WaitEvent,
                 clients, posted, signals, engine
  <2> QED
    BY <2>1
<1>12. CASE DisposeThread
  BY <1>12 DEF DisposeThread, DisposeAbort, DisposeSignal, DisposeJoin, clients, posted, signals, engine
<1>13. ASSUME NEW t \in Threads, TargetEvent (t) PROVE Answered'
  BY <1>13 DEF TargetEvent, clients, posted, signals, engine
<1>14. CASE UNCHANGED vars
  BY <1>14 DEF vars, clients, posted, signals, engine
<1> QED
  BY <1>3, <1>4, <1>5, <1>6, <1>7, <1>8, <1>9, <1>10, <1>11, <1>12, <1>13, <1>14
     DEF Next, UserThread, EngineThread, Terminated

(* With one client at a time, SendCommand() returns only after its command  *)
(* has run, however events, RequestWait() and Dispose() come in between.    *)
(* With two the property fails (the run LoopTwoClients).                    *)
THEOREM CommandRanCorrect ==
    ASSUME \A u, v \in Users : u = v
    PROVE  Spec => CommandRanBeforeReturn
<1>1. Init => Answered
  BY DEF Init, Answered
<1>2. IInv /\ Answered /\ [Next]_vars => Answered'
  BY NextAnswered
<1>3. Answered /\ [Next]_vars =>
        [\A u \in Users : upc[u] = "result" /\ upc'[u] = "idle" => executed[u]]_vars
  <2> SUFFICES ASSUME Answered, Next, NEW u \in Users, upc[u] = "result", upc'[u] = "idle"
               PROVE  executed[u]
    OBVIOUS
  <2>1. CASE UNCHANGED upc
    BY <2>1
  <2>2. ASSUME NEW v \in Users, UserStart (v) \/ UserGate (v) \/ UserTimeout (v) \/ UserPost (v)
        PROVE  executed[u]
    <3>1. v = u
      OBVIOUS
    <3> QED
      BY <2>2, <3>1 DEF UserStart, UserGate, UserTimeout, UserPost
  <2>3. ASSUME NEW v \in Users, UserReturn (v)
        PROVE  executed[u]
    BY <2>3 DEF UserReturn, Answered
  <2>4. CASE EngineThread
    BY <2>1, <2>4 DEF EngineThread, EngineWake, ProcessEvent, RequestWait, RunCommand, CreateProcess,
                      EngineLoop, EngineEnterWait, clients
  <2>5. CASE WaitThread \/ DisposeThread \/ (\E t \in Threads : TargetEvent (t)) \/ Terminated
    BY <2>1, <2>5 DEF WaitThread, WaitWake, SetWaiting, WaitAgain, WaitNoChild, WaitGate, WaitPost, WaitEvent,
                      DisposeThread, DisposeAbort, DisposeSignal, DisposeJoin, TargetEvent, Terminated, vars, clients
  <2> QED
    BY <2>2, <2>3, <2>4, <2>5 DEF Next, UserThread
<1> QED
  BY <1>1, <1>2, <1>3, InvariantHolds, PTL DEF Spec, CommandRanBeforeReturn
=============================================================================
