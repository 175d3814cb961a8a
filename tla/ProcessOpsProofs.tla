-------------------------- MODULE ProcessOpsProofs --------------------------
(***************************************************************************)
(* Proofs about the commands that operate on several threads and processes:*)
(* for any threads, processes, reports, models and commands; and, from     *)
(* StopsAndExits on, about the commands that run a whole process.          *)
(***************************************************************************)
EXTENDS ProcessRefinement, TLAPS

(* The target has created the thread, and the debugger knows of it.         *)
Born (t) == kstate[t] # "absent" /\ \A u \in Threads : child[u] # t

(* The result that the thread carries can no longer complete.               *)
Settled (t) == op[t] = Own \/ ~Fresh (op[t])

(* The thread whose call of OperationCompleted() is the innermost call; and *)
(* the one that a client is about to run.                                   *)
InHand (t) == calls # << >> /\ top.call \in {"complete", "completing"} /\ top.t = t
Asked (t) == command # NoEvent /\ command.t = t

-----------------------------------------------------------------------------
(* The inductive invariant.                                                 *)

Results == [model : {"process", "global"}, process : Processes, IsCompleted : BOOLEAN]
Indices == {Null} \cup DOMAIN results
Words == AllReports \cup {"none", "int"}

TargetTypes ==
    /\ kstate \in [Threads -> {"absent", "running", "stopped", "dead"}]
    /\ word \in [Threads -> Words]
    /\ sigstop \in [Threads -> BOOLEAN] /\ child \in [Threads -> Threads \cup {NoThread}]
    /\ held = NoEvent \/ held \in [t : Threads, w : Words \ {"none"}]

EngineTypes ==
    /\ busy \in BOOLEAN /\ from_wait \in BOOLEAN /\ hung \in BOOLEAN
    /\ pending_events \subseteq Threads
    /\ engine_stopped \in [Threads -> BOOLEAN] /\ thread_lock \in [Threads -> BOOLEAN]
    /\ command = NoEvent \/ command \in [t : Threads, w : Models]
    /\ ~busy => calls = << >>

ProcessTypes ==
    /\ results \in Seq (Results) /\ Len (results) <= MaxResults
    /\ op \in [Threads -> {Own} \cup Indices]
    /\ thread_hash \in [Processes -> SUBSET Threads]
    /\ \A p \in Processes : \A t \in thread_hash[p] : ProcessOf[t] = p
    /\ current_state \in [Processes -> {"single", "running", "stopping", "stopped", "exited"}]
    /\ current_operation \in [Processes -> Indices]
    /\ stopped_event \in [Processes -> BOOLEAN]
    /\ process_hash \subseteq Processes /\ global_event \in BOOLEAN
    /\ global_operation \in Indices

(* A thread has one event at a time, and has stopped for it; it is resumed  *)
(* only when it has none.                                                   *)
Events ==
    \A t \in Threads :
        /\ Event (t) \/ t \in pending_events => kstate[t] # "running" /\ kstate[t] # "absent"
        /\ word[t] # "none" => held.t # t
        /\ t \in pending_events => ~Event (t)
        /\ ~Quiet (t) => Born (t) /\ Alive (t) /\ ~engine_stopped[t] /\ ~thread_lock[t]
        /\ Asked (t) => Quiet (t) /\ Born (t) /\ ~engine_stopped[t] /\ ~thread_lock[t]

(* A new thread is somebody's child until its parent's event is handled.    *)
Children ==
    \A t \in Threads :
        /\ child[t] \in Threads <=> word[t] = "spawn" \/ (held.t = t /\ held.w = "spawn")
        /\ child[t] \in Threads =>
              /\ kstate[child[t]] = "stopped"
              /\ ProcessOf[child[t]] = ProcessOf[t] \/ MainOf[ProcessOf[child[t]]] = child[t]
              /\ \A u \in Threads : child[u] = child[t] => u = t
        /\ ~Born (t) => ~Alive (t) /\ engine_stopped[t] /\ ~thread_lock[t] /\ op[t] = Null

(* Before its main thread is known, there is nothing of a process.          *)
NewProcesses ==
    \A p \in Processes :
        /\ ~Born (MainOf[p]) =>
              /\ ~stopped_event[p] /\ thread_hash[p] = {} /\ p \notin process_hash
              /\ \A t \in Threads \ {MainOf[p]} : ProcessOf[t] = p => kstate[t] = "absent"
        /\ thread_hash[p] # {} => p \in process_hash
Owners == \A i \in DOMAIN results : Born (MainOf[results[i].process])

(* The calls of the engine thread.                                          *)
Ends == {"stop", "null", "exit"}
Frames ==
    [call : {"complete", "completing"}, t : Threads, w : Ends]
    \cup [call : {"host"}, p : Processes, t : Threads, w : Ends]
    \cup [call : {"global"}, t : Threads, w : Ends, todo : SUBSET Processes, snap : SUBSET Processes]
    \cup [call : {"suspend"}, p : Processes, t : Threads \cup {NoThread}, w : Ends,
          todo : SUBSET Threads, snap : SUBSET Threads]

FrameOK (f) ==
    /\ f.t # NoThread => Quiet (f.t) /\ Born (f.t)
    /\ f.call \notin {"complete", "completing"} /\ f.t # NoThread => Settled (f.t)
    /\ f.call = "complete" => ~Asked (f.t)
    /\ f.call \in {"host", "suspend"} => Born (MainOf[f.p])
    /\ f.call = "global" => \A p \in f.todo : Born (MainOf[p])
    /\ f.call = "suspend" =>
          /\ \A t \in f.snap : Born (t)
          /\ \A t \in f.snap \ (f.todo \cup Daemons) : Quiet (t) /\ (Settled (t) \/ InHand (t))

InSeq (s, f) == \E k \in DOMAIN s : s[k] = f
Calls ==
    /\ calls \in Seq (Frames)
    /\ \A f \in Frames : InSeq (calls, f) => FrameOK (f)
    /\ calls # << >> => \A f \in Frames : InSeq (Tail (calls), f) => f.call # "complete"

(* A thread that the engine takes for stopped does nothing, and nobody      *)
(* waits for it.                                                            *)
Stopped == \A t \in Threads : engine_stopped[t] => Settled (t) \/ InHand (t)

SignalledDone ==
    \A p \in Processes :
        /\ current_state[p] = "running" => current_operation[p] # Null
        /\ stopped_event[p] =>
              /\ current_state[p] # "running" /\ current_operation[p] = Null
              /\ \A t \in User (p) : Settled (t)

StoppedQuiet ==
    Daemons = {} => \A p \in Processes : current_state[p] = "stopped" => \A t \in thread_hash[p] : Quiet (t)

PInv ==
    /\ TargetTypes /\ EngineTypes /\ ProcessTypes /\ Events /\ Children /\ NewProcesses /\ Owners
    /\ Calls /\ Stopped /\ SignalledDone /\ StoppedQuiet

-----------------------------------------------------------------------------
(* Calls: what pushing and returning do to the frames.                      *)

LEMMA HeadFrame ==
    ASSUME NEW s \in Seq (Frames), s # << >>
    PROVE  /\ Head (s) \in Frames /\ InSeq (s, Head (s))
           /\ Tail (s) \in Seq (Frames)
           /\ \A f : InSeq (Tail (s), f) => InSeq (s, f)
           /\ \A f : InSeq (s, f) => f = Head (s) \/ InSeq (Tail (s), f)
  <1>1. /\ Head (s) \in Frames /\ 1 \in DOMAIN s /\ s[1] = Head (s)
        /\ Tail (s) \in Seq (Frames)
        /\ \A k \in DOMAIN Tail (s) : k + 1 \in DOMAIN s /\ Tail (s)[k] = s[k + 1]
    OBVIOUS
  <1>2. \A k \in DOMAIN s : k = 1 \/ (k - 1 \in DOMAIN Tail (s) /\ Tail (s)[k - 1] = s[k])
    OBVIOUS
  <1> QED  BY <1>1, <1>2 DEF InSeq

LEMMA Pushed ==
    ASSUME NEW s \in Seq (Frames), NEW f \in Frames
    PROVE  /\ <<f>> \o s \in Seq (Frames) /\ <<f>> \o s # << >> /\ Head (<<f>> \o s) = f
           /\ Tail (<<f>> \o s) = s
           /\ \A g : InSeq (<<f>> \o s, g) => g = f \/ InSeq (s, g)
  <1> DEFINE r == <<f>> \o s
  <1>1. <<f>> \in Seq (Frames) /\ Len (<<f>>) = 1 /\ <<f>>[1] = f
    OBVIOUS
  <1>2. /\ r \in Seq (Frames) /\ Len (r) = Len (s) + 1
        /\ DOMAIN r = 1 .. Len (s) + 1 /\ DOMAIN s = 1 .. Len (s) /\ Len (s) \in Nat
    BY <1>1
  <1>3. \A k \in 1 .. Len (s) + 1 : r[k] = IF k = 1 THEN f ELSE s[k - 1]
    BY <1>1, <1>2
  <1> HIDE DEF r
  <1>4. r # << >> /\ Head (r) = f
    BY <1>2, <1>3
  <1>7. Tail (r) = s
    <2>1. Tail (r) \in Seq (Frames) /\ Len (Tail (r)) = Len (s)
      BY <1>2, <1>4
    <2>2. \A k \in 1 .. Len (s) : Tail (r)[k] = r[k + 1] /\ r[k + 1] = s[k]
      BY <1>2, <1>3, <1>4
    <2> QED  BY <1>2, <2>1, <2>2
  <1>5. \A k \in 1 .. Len (s) + 1 : r[k] = f \/ (k - 1 \in DOMAIN s /\ r[k] = s[k - 1])
    BY <1>2, <1>3
  <1>6. \A g : InSeq (r, g) => g = f \/ InSeq (s, g)
    BY <1>2, <1>5 DEF InSeq
  <1> QED  BY <1>2, <1>4, <1>6, <1>7 DEF r

LEMMA Pushed2 ==
    ASSUME NEW s \in Seq (Frames), NEW f \in Frames, NEW g \in Frames
    PROVE  /\ <<f, g>> \o s \in Seq (Frames) /\ <<f, g>> \o s # << >> /\ Head (<<f, g>> \o s) = f
           /\ \A h : InSeq (Tail (<<f, g>> \o s), h) => h = g \/ InSeq (s, h)
           /\ \A h : InSeq (<<f, g>> \o s, h) => h = f \/ h = g \/ InSeq (s, h)
  <1> DEFINE r == <<f, g>> \o s
  <1>1. <<f, g>> \in Seq (Frames) /\ Len (<<f, g>>) = 2 /\ <<f, g>>[1] = f /\ <<f, g>>[2] = g
    OBVIOUS
  <1>2. /\ r \in Seq (Frames) /\ Len (r) = Len (s) + 2
        /\ DOMAIN r = 1 .. Len (s) + 2 /\ DOMAIN s = 1 .. Len (s) /\ Len (s) \in Nat
    BY <1>1
  <1>3. \A k \in 1 .. Len (s) + 2 : r[k] = IF k <= 2 THEN <<f, g>>[k] ELSE s[k - 2]
    BY <1>1, <1>2
  <1> HIDE DEF r
  <1>4. r # << >> /\ Head (r) = f
    BY <1>1, <1>2, <1>3
  <1>5. \A k \in 1 .. Len (s) + 2 : r[k] = f \/ r[k] = g \/ (k - 2 \in DOMAIN s /\ r[k] = s[k - 2])
    BY <1>1, <1>2, <1>3
  <1>6. \A h : InSeq (r, h) => h = f \/ h = g \/ InSeq (s, h)
    BY <1>2, <1>5 DEF InSeq
  <1>7. \A h : InSeq (Tail (r), h) => h = g \/ InSeq (s, h)
    <2>1. Tail (r) \in Seq (Frames) /\ DOMAIN Tail (r) = 1 .. Len (s) + 1
      BY <1>2, <1>4
    <2>2. \A k \in 1 .. Len (s) + 1 : Tail (r)[k] = r[k + 1]
      BY <1>2, <1>4
    <2>3. \A k \in 1 .. Len (s) + 1 : Tail (r)[k] = g \/ (k - 1 \in DOMAIN s /\ Tail (r)[k] = s[k - 1])
      BY <1>1, <1>2, <1>3, <2>2
    <2> QED  BY <2>1, <2>3 DEF InSeq
  <1> QED  BY <1>2, <1>4, <1>6, <1>7 DEF r

(* The kinds of frames.                                                     *)
LEMMA FrameKinds ==
    ASSUME NEW f \in Frames
    PROVE  /\ f.call \in {"complete", "completing", "host", "global", "suspend"}
           /\ f.w \in Ends /\ f.t \in Threads \cup {NoThread}
           /\ f.call # "suspend" => f.t \in Threads
           /\ f.call = "host" => f.p \in Processes
           /\ f.call = "global" => f.todo \in SUBSET Processes /\ f.snap \in SUBSET Processes
           /\ f.call = "suspend" =>
                 f.p \in Processes /\ f.todo \in SUBSET Threads /\ f.snap \in SUBSET Threads
  BY DEF Frames

LEMMA NewFrames ==
    ASSUME NEW t \in Threads, NEW w \in Ends, NEW p \in Processes
    PROVE  /\ Complete (t, w) \in Frames /\ Completing (t, w) \in Frames
           /\ HostCompleted (p, t, w) \in Frames
           /\ Complete (t, w).call = "complete" /\ Complete (t, w).t = t
           /\ Completing (t, w).call = "completing" /\ Completing (t, w).t = t
           /\ HostCompleted (p, t, w).call = "host" /\ HostCompleted (p, t, w).t = t
           /\ HostCompleted (p, t, w).p = p
  BY DEF Frames, Complete, Completing, HostCompleted

LEMMA NewGlobal ==
    ASSUME NEW t \in Threads, NEW w \in Ends, process_hash \subseteq Processes
    PROVE  /\ GlobalCompleted (t, w) \in Frames
           /\ GlobalCompleted (t, w).call = "global" /\ GlobalCompleted (t, w).t = t
           /\ GlobalCompleted (t, w).todo = process_hash
  BY DEF Frames, GlobalCompleted

LEMMA NewSuspend ==
    ASSUME NEW t \in Threads \cup {NoThread}, NEW w \in Ends, NEW p \in Processes,
           thread_hash[p] \subseteq Threads
    PROVE  /\ Suspend (p, t, w) \in Frames
           /\ Suspend (p, t, w).call = "suspend" /\ Suspend (p, t, w).t = t
           /\ Suspend (p, t, w).p = p
           /\ Suspend (p, t, w).todo = thread_hash[p] /\ Suspend (p, t, w).snap = thread_hash[p]
  BY DEF Frames, Suspend

LEMMA NextFrame ==
    ASSUME NEW f \in Frames, f.call \in {"global", "suspend"}, NEW x
    PROVE  LET g == [f EXCEPT !.todo = @ \ {x}]
           IN  /\ g \in Frames /\ g.call = f.call /\ g.t = f.t
               /\ f.call = "suspend" => g.p = f.p
               /\ g.todo = f.todo \ {x} /\ g.snap = f.snap
  BY DEF Frames

(* A frame stays as it is if quiet threads stay quiet and settled ones      *)
(* settled.                                                                 *)
LEMMA FrameKept ==
    ASSUME NEW f \in Frames, FrameOK (f),
           \A t \in Threads : Born (t) => Born (t)' /\ (Quiet (t) => Quiet (t)'),
           \A t \in Threads : Born (t) /\ Settled (t) => Settled (t)',
           \A t \in Threads : InHand (t) => Settled (t)' \/ InHand (t)',
           command' \in {command, NoEvent} \/ f.call # "complete"
    PROVE  FrameOK (f)'
  BY FrameKinds, ProcessOpsAssumption DEF FrameOK, Asked

(* What Calls' amounts to for each change of the stack.                     *)
LEMMA CallsPushed ==
    ASSUME NEW s \in Seq (Frames), NEW f \in Frames, calls' = <<f>> \o s,
           FrameOK (f)', \A g \in Frames : InSeq (s, g) => FrameOK (g)' /\ g.call # "complete"
    PROVE  Calls' /\ calls' # << >> /\ \A t : InHand (t)' <=> f.call \in {"complete", "completing"} /\ f.t = t
  <1>1. /\ calls' \in Seq (Frames) /\ calls' # << >> /\ Head (calls') = f /\ Tail (calls') = s
        /\ \A g : InSeq (calls', g) => g = f \/ InSeq (s, g)
    BY Pushed
  <1>2. \A g \in Frames : InSeq (calls', g) => FrameOK (g)'
    BY <1>1, Zenon
  <1>3. Calls'
    BY <1>1, <1>2, Zenon DEF Calls
  <1>4. \A t : InHand (t)' <=> f.call \in {"complete", "completing"} /\ f.t = t
    BY <1>1 DEF InHand, top
  <1> QED  BY <1>1, <1>3, <1>4

LEMMA CallsPushed2 ==
    ASSUME NEW s \in Seq (Frames), NEW f \in Frames, NEW g \in Frames, calls' = <<f, g>> \o s,
           FrameOK (f)', FrameOK (g)', g.call # "complete",
           \A h \in Frames : InSeq (s, h) => FrameOK (h)' /\ h.call # "complete"
    PROVE  Calls' /\ calls' # << >> /\ \A t : InHand (t)' <=> f.call \in {"complete", "completing"} /\ f.t = t
  <1>1. /\ calls' \in Seq (Frames) /\ calls' # << >> /\ Head (calls') = f
        /\ \A h : InSeq (calls', h) => h = f \/ h = g \/ InSeq (s, h)
        /\ \A h : InSeq (Tail (calls'), h) => h = g \/ InSeq (s, h)
    BY Pushed2
  <1>2. \A h \in Frames : InSeq (calls', h) => FrameOK (h)'
    BY <1>1, Zenon
  <1>3. Calls'
    BY <1>1, <1>2, Zenon DEF Calls
  <1>4. \A t : InHand (t)' <=> f.call \in {"complete", "completing"} /\ f.t = t
    BY <1>1 DEF InHand, top
  <1> QED  BY <1>1, <1>3, <1>4

LEMMA CallsPopped ==
    ASSUME Calls, calls # << >>, calls' = Tail (calls),
           \A g \in Frames : InSeq (Tail (calls), g) => FrameOK (g)'
    PROVE  Calls'
  <1>1. Tail (calls) \in Seq (Frames)
    BY HeadFrame DEF Calls
  <1>2. \A f \in Frames : calls' # << >> /\ InSeq (Tail (calls'), f) => f.call # "complete"
    BY <1>1, HeadFrame DEF Calls
  <1> QED  BY <1>1, <1>2, Zenon DEF Calls

LEMMA CallsSame ==
    ASSUME Calls, UNCHANGED calls, \A g \in Frames : InSeq (calls, g) => FrameOK (g)'
    PROVE  Calls' /\ \A t : InHand (t)' <=> InHand (t)
  <1>1. Calls'
    BY Zenon DEF Calls
  <1>2. \A t : InHand (t)' <=> InHand (t)
    BY DEF InHand, top
  <1> QED  BY <1>1, <1>2

LEMMA CallsEmpty ==
    ASSUME calls' = << >>
    PROVE  Calls' /\ \A t : ~InHand (t)'
  <1>1. << >> \in Seq (Frames) /\ DOMAIN (<< >>) = {}
    OBVIOUS
  <1>2. \A f : ~InSeq (<< >>, f)
    BY <1>1 DEF InSeq
  <1> QED  BY <1>1, <1>2 DEF Calls, InHand

LEMMA CallsTop ==
    ASSUME Calls, calls # << >>
    PROVE  /\ top \in Frames /\ FrameOK (top) /\ Tail (calls) \in Seq (Frames)
           /\ \A f \in Frames : InSeq (Tail (calls), f) =>
                 InSeq (calls, f) /\ FrameOK (f) /\ f.call # "complete"
           /\ \A f \in Frames : InSeq (calls, f) => f = top \/ f.call # "complete"
  <1>1. /\ top \in Frames /\ InSeq (calls, top) /\ Tail (calls) \in Seq (Frames)
        /\ \A f \in Frames : InSeq (Tail (calls), f) => InSeq (calls, f)
        /\ \A f \in Frames : InSeq (calls, f) => f = top \/ InSeq (Tail (calls), f)
    BY HeadFrame DEF Calls, top
  <1>2. FrameOK (top)
    BY <1>1, Zenon DEF Calls
  <1> QED  BY <1>1, <1>2 DEF Calls

-----------------------------------------------------------------------------
(* Steps that only the engine thread's control takes part in.               *)

LEMMA SameView ==
    ASSUME UNCHANGED <<kstate, word, child, held, pending_events>>
    PROVE  \A t : /\ Event (t)' <=> Event (t)
                  /\ Quiet (t)' <=> Quiet (t)
                  /\ Born (t)' <=> Born (t)
  BY DEF Event, Quiet, Born

LEMMA SameSettled ==
    ASSUME UNCHANGED <<op, results>>
    PROVE  \A t : Settled (t)' <=> Settled (t)
  BY DEF Settled, Fresh

LEMMA ControlStep ==
    ASSUME PInv,
           UNCHANGED <<kstate, word, child, held, pending_events, sse, thread_hash>>,
           UNCHANGED <<process_hash, results, command>>,
           sigstop' \in [Threads -> BOOLEAN],
           busy' \in BOOLEAN, from_wait' \in BOOLEAN, hung' \in BOOLEAN, ~busy' => calls' = << >>,
           global_event' \in BOOLEAN, global_operation' \in {Null, global_operation},
           current_state' \in [Processes -> {"single", "running", "stopping", "stopped", "exited"}],
           current_operation' \in [Processes -> Indices],
           stopped_event' \in [Processes -> BOOLEAN],
           \A p \in Processes : stopped_event'[p] => stopped_event[p] \/ Born (MainOf[p]),
           \A t \in Threads : ~InHand (t),
           Calls', SignalledDone', StoppedQuiet'
    PROVE  PInv'
  <1>1. \A t : /\ Event (t)' <=> Event (t)
               /\ Quiet (t)' <=> Quiet (t)
               /\ Born (t)' <=> Born (t)
    BY SameView
  <1>2. \A t : Settled (t)' <=> Settled (t)
    BY SameSettled DEF sse
  <1>3. TargetTypes'
    BY DEF PInv, TargetTypes
  <1>4. EngineTypes'
    BY DEF PInv, EngineTypes, sse
  <1>5. ProcessTypes'
    BY DEF PInv, ProcessTypes, sse, Indices
  <1>6. Events'
    BY <1>1 DEF PInv, Events, sse, Alive, Asked
  <1>7. Children'
    BY <1>1 DEF PInv, Children, sse, Alive
  <1>8. NewProcesses'
    BY <1>1 DEF PInv, NewProcesses
  <1>9. Owners'
    BY <1>1 DEF PInv, Owners
  <1>10. Stopped'
    BY <1>2 DEF PInv, Stopped, sse
  <1> QED
    BY <1>3, <1>4, <1>5, <1>6, <1>7, <1>8, <1>9, <1>10 DEF PInv

(* The frames that stay on the stack in such a step.                        *)
LEMMA ControlFrames ==
    ASSUME UNCHANGED <<kstate, word, child, held, pending_events, sse, results, command>>,
           \A t \in Threads : ~InHand (t)
    PROVE  \A f \in Frames : FrameOK (f) => FrameOK (f)'
  <1>1. \A t : (Quiet (t)' <=> Quiet (t)) /\ (Born (t)' <=> Born (t))
    BY SameView
  <1>2. \A t : Settled (t)' <=> Settled (t)
    BY SameSettled DEF sse
  <1> QED  BY <1>1, <1>2, FrameKept

LEMMA SameStates ==
    ASSUME PInv, UNCHANGED <<kstate, word, child, held, pending_events, sse, process, results>>
    PROVE  SignalledDone' /\ StoppedQuiet'
  <1>1. \A t : (Quiet (t)' <=> Quiet (t)) /\ (Born (t)' <=> Born (t))
    BY SameView
  <1>2. \A t : Settled (t)' <=> Settled (t)
    BY SameSettled DEF sse
  <1>3. SignalledDone'
    BY <1>2 DEF PInv, SignalledDone, process, User
  <1>4. StoppedQuiet'
    BY <1>1 DEF PInv, StoppedQuiet, process
  <1> QED  BY <1>3, <1>4

LEMMA NotInHand ==
    ASSUME calls # << >> => top.call \notin {"complete", "completing"}
    PROVE  \A t \in Threads : ~InHand (t)
  BY DEF InHand

LEMMA StoppingStates ==
    ASSUME PInv, UNCHANGED <<kstate, word, child, held, pending_events, sse, results>>,
           UNCHANGED <<thread_hash, current_operation, stopped_event>>, NEW p \in Processes,
           current_state' = [current_state EXCEPT ![p] = "stopping"]
    PROVE  /\ SignalledDone' /\ StoppedQuiet'
           /\ current_state' \in [Processes -> {"single", "running", "stopping", "stopped", "exited"}]
  <1>1. \A t : (Quiet (t)' <=> Quiet (t)) /\ (Born (t)' <=> Born (t))
    BY SameView
  <1>2. \A t : Settled (t)' <=> Settled (t)
    BY SameSettled DEF sse
  <1>3. /\ current_state' \in [Processes -> {"single", "running", "stopping", "stopped", "exited"}]
        /\ \A q \in Processes : current_state'[q] = IF q = p THEN "stopping" ELSE current_state[q]
    BY DEF PInv, ProcessTypes
  <1>4. SignalledDone'
    BY <1>2, <1>3 DEF PInv, SignalledDone, User
  <1>5. StoppedQuiet'
    BY <1>1, <1>3 DEF PInv, StoppedQuiet
  <1> QED  BY <1>3, <1>4, <1>5

LEMMA ControlTypes ==
    ASSUME PInv
    PROVE  /\ sigstop \in [Threads -> BOOLEAN]
           /\ busy \in BOOLEAN /\ from_wait \in BOOLEAN /\ hung \in BOOLEAN
           /\ current_state \in [Processes -> {"single", "running", "stopping", "stopped", "exited"}]
           /\ current_operation \in [Processes -> Indices]
           /\ stopped_event \in [Processes -> BOOLEAN] /\ global_event \in BOOLEAN
           /\ calls # << >> => busy
           /\ \A p \in Processes : thread_hash[p] \subseteq Threads
  BY DEF PInv, EngineTypes, ProcessTypes, TargetTypes

LEMMA OwnerThreads ==
    ASSUME PInv
    PROVE  \A i \in DOMAIN results :
              /\ results[i] \in Results /\ results[i].process \in Processes
              /\ MainOf[results[i].process] \in Threads
  <1>1. \A i \in DOMAIN results : results[i] \in Results
    BY DEF PInv, ProcessTypes
  <1>2. \A i \in DOMAIN results : results[i].process \in Processes
    BY <1>1 DEF Results
  <1> QED  BY <1>1, <1>2, ProcessOpsAssumption

LEMMA GlobalNextStep == PInv /\ GlobalNext => PInv'
  <1> SUFFICES ASSUME PInv, GlobalNext PROVE PInv'
    OBVIOUS
  <1>1. /\ calls # << >> /\ top.call = "global"
        /\ UNCHANGED <<kstate, word, sigstop, child, held, busy, from_wait, hung, pending_events>>
        /\ UNCHANGED <<sse, process, debugger, command, thread_hash, current_state>>
        /\ UNCHANGED <<current_operation, stopped_event, process_hash, global_operation>>
        /\ UNCHANGED <<global_event, results>>
    BY DEF GlobalNext, In, top, target, process, debugger
  <1>2. \A t \in Threads : ~InHand (t)
    BY <1>1, NotInHand
  <1>3. \A f \in Frames : FrameOK (f) => FrameOK (f)'
    BY <1>1, <1>2, ControlFrames
  <1>4. /\ top \in Frames /\ FrameOK (top) /\ Tail (calls) \in Seq (Frames)
        /\ \A f \in Frames : InSeq (Tail (calls), f) => FrameOK (f) /\ f.call # "complete"
    BY <1>1, CallsTop DEF PInv
  <1>5. Calls'
    <2>1. CASE calls' = << >>
      BY <2>1, CallsEmpty
    <2>2. ASSUME NEW p \in top.todo,
                 calls' = <<HostCompleted (p, top.t, top.w), [top EXCEPT !.todo = @ \ {p}]>> \o Tail (calls)
          PROVE  Calls'
      <3> DEFINE f == HostCompleted (p, top.t, top.w)
                 g == [top EXCEPT !.todo = @ \ {p}]
      <3>1. p \in Processes /\ top.t \in Threads /\ top.w \in Ends
        BY <1>1, <1>4, <2>2, FrameKinds
      <3>2. f \in Frames /\ f.call = "host" /\ f.t = top.t /\ f.p = p
        BY <3>1, NewFrames
      <3>3. g \in Frames /\ g.call = "global" /\ g.t = top.t /\ g.todo = top.todo \ {p}
        BY <1>1, <1>4, NextFrame
      <3> HIDE DEF f, g
      <3>4. FrameOK (f) /\ FrameOK (g)
        BY <1>1, <1>4, <2>2, <3>1, <3>2, <3>3 DEF FrameOK
      <3> QED  BY <1>3, <1>4, <2>2, <3>2, <3>3, <3>4, CallsPushed2 DEF f, g
    <2> QED  BY <2>1, <2>2 DEF GlobalNext, Throw
  <1>6. SignalledDone' /\ StoppedQuiet'
    BY <1>1, SameStates
  <1> QED  BY <1>1, <1>2, <1>5, <1>6, ControlTypes, ControlStep

LEMMA GlobalDoneStep == PInv /\ GlobalDone => PInv'
  <1> SUFFICES ASSUME PInv, GlobalDone PROVE PInv'
    OBVIOUS
  <1>1. /\ calls # << >> /\ top.call = "global" /\ calls' = Tail (calls)
        /\ UNCHANGED <<kstate, word, sigstop, child, held, busy, from_wait, hung, pending_events>>
        /\ UNCHANGED <<sse, process, command, thread_hash, current_state, current_operation>>
        /\ UNCHANGED <<stopped_event, process_hash, results>>
        /\ global_operation' = Null /\ global_event' = TRUE
    BY DEF GlobalDone, In, top, target, process, Return
  <1>2. \A t \in Threads : ~InHand (t)
    BY <1>1, NotInHand
  <1>3. \A f \in Frames : FrameOK (f) => FrameOK (f)'
    BY <1>1, <1>2, ControlFrames
  <1>4. \A f \in Frames : InSeq (Tail (calls), f) => FrameOK (f)
    BY <1>1, CallsTop DEF PInv
  <1>5. Calls'
    BY <1>1, <1>3, <1>4, CallsPopped DEF PInv
  <1>6. SignalledDone' /\ StoppedQuiet'
    BY <1>1, SameStates
  <1> QED  BY <1>1, <1>2, <1>5, <1>6, ControlTypes, ControlStep

LEMMA ProcessCompletedStep == PInv /\ ProcessCompleted => PInv'
  <1> SUFFICES ASSUME PInv, ProcessCompleted PROVE PInv'
    OBVIOUS
  <1>1. /\ calls # << >> /\ top.call = "host"
        /\ UNCHANGED <<kstate, word, sigstop, child, held, busy, from_wait, hung, pending_events>>
        /\ UNCHANGED <<sse, debugger, command, thread_hash, current_operation, stopped_event>>
        /\ UNCHANGED <<process_hash, global_operation, global_event, results>>
    BY DEF ProcessCompleted, In, top, target, debugger
  <1>2. \A t \in Threads : ~InHand (t)
    BY <1>1, NotInHand
  <1>3. \A f \in Frames : FrameOK (f) => FrameOK (f)'
    BY <1>1, <1>2, ControlFrames
  <1>4. /\ top \in Frames /\ FrameOK (top) /\ Tail (calls) \in Seq (Frames)
        /\ \A f \in Frames : InSeq (Tail (calls), f) => FrameOK (f) /\ f.call # "complete"
    BY <1>1, CallsTop DEF PInv
  <1>5. CASE UNCHANGED current_state /\ (Return \/ Throw)
    <2>1. Calls'
      <3>1. CASE Return
        BY <1>1, <1>3, <1>4, <3>1, CallsPopped DEF PInv, Return
      <3>2. CASE Throw
        BY <3>2, CallsEmpty DEF Throw
      <3> QED  BY <1>5, <3>1, <3>2
    <2>2. SignalledDone' /\ StoppedQuiet'
      BY <1>1, <1>5, SameStates DEF process
    <2> QED  BY <1>1, <1>2, <1>5, <2>1, <2>2, ControlTypes, ControlStep
  <1>6. CASE /\ current_state' = [current_state EXCEPT ![top.p] = "stopping"]
             /\ TailCall (Suspend (top.p, top.t, top.w))
    <2> DEFINE f == Suspend (top.p, top.t, top.w)
    <2>1. top.p \in Processes /\ top.t \in Threads /\ top.w \in Ends
      BY <1>1, <1>4, FrameKinds
    <2>2. /\ f \in Frames /\ f.call = "suspend" /\ f.t = top.t /\ f.p = top.p
          /\ f.todo = thread_hash[top.p] /\ f.snap = thread_hash[top.p]
      BY <2>1, ControlTypes, NewSuspend
    <2> HIDE DEF f
    <2>3. \A t \in thread_hash[top.p] : t \in Threads /\ ProcessOf[t] = top.p /\ Alive (t) /\ Born (t)
      BY <2>1 DEF PInv, ProcessTypes, Children, Alive
    <2>4. FrameOK (f)
      BY <1>1, <1>4, <2>1, <2>2, <2>3 DEF FrameOK
    <2>5. Calls'
      BY <1>3, <1>4, <1>6, <2>2, <2>4, CallsPushed DEF f, TailCall
    <2>6. /\ SignalledDone' /\ StoppedQuiet'
          /\ current_state' \in [Processes -> {"single", "running", "stopping", "stopped", "exited"}]
      BY <1>1, <1>6, <2>1, StoppingStates
    <2> QED  BY <1>1, <1>2, <2>5, <2>6, ControlTypes, ControlStep
  <1> QED  BY <1>5, <1>6 DEF ProcessCompleted

LEMMA AbortStep ==
    ASSUME PInv, NEW p \in Processes, Abort (p)
    PROVE  PInv'
  <1>1. /\ calls = << >> /\ MainOf[p] \in thread_hash[p] /\ busy' = TRUE
        /\ calls' = <<Suspend (p, NoThread, "null")>> \o calls
        /\ current_state' = [current_state EXCEPT ![p] = "stopping"]
        /\ UNCHANGED <<kstate, word, sigstop, child, held, from_wait, hung, pending_events>>
        /\ UNCHANGED <<sse, debugger, command, thread_hash, current_operation, stopped_event>>
        /\ UNCHANGED <<process_hash, global_operation, global_event, results>>
    BY DEF Abort, Call, target, debugger, PInv, EngineTypes
  <1>2. \A t \in Threads : ~InHand (t)
    BY <1>1, NotInHand
  <1>3. \A f \in Frames : FrameOK (f) => FrameOK (f)'
    BY <1>1, <1>2, ControlFrames
  <1> DEFINE f == Suspend (p, NoThread, "null")
  <1>4. /\ f \in Frames /\ f.call = "suspend" /\ f.t = NoThread /\ f.p = p
        /\ f.todo = thread_hash[p] /\ f.snap = thread_hash[p]
    <2>1. "null" \in Ends /\ NoThread \in Threads \cup {NoThread} /\ thread_hash[p] \subseteq Threads
      BY ControlTypes DEF Ends
    <2> QED  BY <2>1, NewSuspend
  <1> HIDE DEF f
  <1>5. \A t \in thread_hash[p] : t \in Threads /\ ProcessOf[t] = p /\ Alive (t) /\ Born (t)
    BY DEF PInv, ProcessTypes, Children, Alive
  <1>6. FrameOK (f)
    BY <1>1, <1>4, <1>5 DEF FrameOK
  <1>7. calls \in Seq (Frames) /\ \A g \in Frames : ~InSeq (calls, g)
    BY <1>1 DEF PInv, Calls, InSeq
  <1>8. Calls'
    BY <1>1, <1>3, <1>4, <1>6, <1>7, CallsPushed DEF f
  <1>9. /\ SignalledDone' /\ StoppedQuiet'
        /\ current_state' \in [Processes -> {"single", "running", "stopping", "stopped", "exited"}]
    BY <1>1, StoppingStates
  <1> QED  BY <1>1, <1>2, <1>8, <1>9, ControlTypes, ControlStep

(* LoopDone, Thread.Stop() and SuspendHangs change scalars only.            *)
LEMMA ScalarStep ==
    ASSUME PInv, UNCHANGED <<kstate, word, child, held, pending_events, sse, process, debugger>>,
           UNCHANGED <<calls, command>>, sigstop' \in [Threads -> BOOLEAN],
           busy' \in BOOLEAN, from_wait' \in BOOLEAN, hung' \in BOOLEAN, ~busy' => calls = << >>,
           \A t \in Threads : ~InHand (t)
    PROVE  PInv'
  <1>1. /\ UNCHANGED <<thread_hash, current_state, current_operation, stopped_event>>
        /\ UNCHANGED <<process_hash, global_operation, global_event, results>>
    BY DEF process, debugger
  <1>2. \A f \in Frames : FrameOK (f) => FrameOK (f)'
    BY <1>1, ControlFrames
  <1>3. Calls'
    BY <1>2, CallsSame DEF PInv, Calls
  <1>4. SignalledDone' /\ StoppedQuiet'
    BY <1>1, SameStates
  <1> QED  BY <1>1, <1>3, <1>4, ControlTypes, ControlStep

LEMMA LoopDoneStep == PInv /\ LoopDone => PInv'
  <1> SUFFICES ASSUME PInv, LoopDone PROVE PInv'
    OBVIOUS
  <1>1. \A t \in Threads : ~InHand (t)
    BY NotInHand DEF LoopDone
  <1> QED  BY <1>1, ControlTypes, ScalarStep DEF LoopDone, target

LEMMA StopStep ==
    ASSUME PInv, NEW t \in Threads, Interruptible, Stop (t)
    PROVE  PInv'
  <1>1. \A u \in Threads : ~InHand (u)
    BY NotInHand DEF Interruptible
  <1>2. sigstop' \in [Threads -> BOOLEAN]
    BY ControlTypes DEF Stop
  <1> QED  BY <1>1, <1>2, ControlTypes, ScalarStep DEF Stop, engine, sse

LEMMA SuspendHangsStep ==
    ASSUME PInv, NEW t \in Threads, SuspendHangs (t)
    PROVE  PInv'
  <1>1. \A u \in Threads : ~InHand (u)
    BY NotInHand DEF SuspendHangs, Suspending, In, top
  <1> QED  BY <1>1, ControlTypes, ScalarStep DEF SuspendHangs, target, Suspending, In

LEMMA SuspendThrowsStep == PInv /\ SuspendThrows => PInv'
  <1> SUFFICES ASSUME PInv, SuspendThrows PROVE PInv'
    OBVIOUS
  <1>1. /\ calls # << >> /\ top.call = "suspend" /\ calls' = << >>
        /\ UNCHANGED <<kstate, word, sigstop, child, held, busy, from_wait, hung, pending_events>>
        /\ UNCHANGED <<sse, process, debugger, command, thread_hash, current_state>>
        /\ UNCHANGED <<current_operation, stopped_event, process_hash, global_operation>>
        /\ UNCHANGED <<global_event, results>>
    BY DEF SuspendThrows, In, top, target, process, debugger, Throw
  <1>2. \A t \in Threads : ~InHand (t)
    BY <1>1, NotInHand
  <1>3. Calls'
    BY <1>1, CallsEmpty
  <1>4. SignalledDone' /\ StoppedQuiet'
    BY <1>1, SameStates
  <1> QED  BY <1>1, <1>2, <1>3, <1>4, ControlTypes, ControlStep

LEMMA SuspendSkipStep ==
    ASSUME PInv, NEW t \in Threads, SuspendSkip (t)
    PROVE  PInv'
  <1>1. /\ calls # << >> /\ top.call = "suspend" /\ t \in top.todo /\ Skipped (t)
        /\ calls' = <<Rest (t)>> \o Tail (calls)
        /\ UNCHANGED <<kstate, word, sigstop, child, held, busy, from_wait, hung, pending_events>>
        /\ UNCHANGED <<sse, process, debugger, command, thread_hash, current_state>>
        /\ UNCHANGED <<current_operation, stopped_event, process_hash, global_operation>>
        /\ UNCHANGED <<global_event, results>>
    BY DEF SuspendSkip, Suspending, In, top, target, process, debugger, TailCall
  <1>2. \A u \in Threads : ~InHand (u)
    BY <1>1, NotInHand
  <1>3. \A f \in Frames : FrameOK (f) => FrameOK (f)'
    BY <1>1, <1>2, ControlFrames
  <1>4. /\ top \in Frames /\ FrameOK (top) /\ Tail (calls) \in Seq (Frames)
        /\ \A f \in Frames : InSeq (Tail (calls), f) => FrameOK (f) /\ f.call # "complete"
    BY <1>1, CallsTop DEF PInv
  <1> DEFINE g == Rest (t)
  <1>5. /\ g \in Frames /\ g.call = "suspend" /\ g.t = top.t /\ g.p = top.p
        /\ g.todo = top.todo \ {t} /\ g.snap = top.snap
    BY <1>1, <1>4, NextFrame DEF Rest
  <1>6. t \notin Daemons => Quiet (t) /\ Settled (t)
    <2>1. CASE t = top.t
      BY <1>1, <1>4, <2>1, ProcessOpsAssumption DEF FrameOK
    <2>2. CASE engine_stopped[t]
      BY <1>2, <2>2 DEF PInv, Events, Stopped
    <2> QED  BY <1>1, <2>1, <2>2 DEF Skipped
  <1> HIDE DEF g
  <1>7. FrameOK (g)
    BY <1>1, <1>4, <1>5, <1>6 DEF FrameOK
  <1>8. Calls'
    BY <1>1, <1>3, <1>4, <1>5, <1>7, CallsPushed DEF g
  <1>9. SignalledDone' /\ StoppedQuiet'
    BY <1>1, SameStates
  <1> QED  BY <1>1, <1>2, <1>8, <1>9, ControlTypes, ControlStep

(* When the last thread has been examined, all are quiet and settled.       *)
LEMMA SuspendDoneStep == PInv /\ SuspendDone => PInv'
  <1> SUFFICES ASSUME PInv, SuspendDone PROVE PInv'
    OBVIOUS
  <1> DEFINE p == top.p
  <1>1. /\ calls # << >> /\ top.call = "suspend" /\ calls' = Tail (calls)
        /\ thread_hash[p] = top.snap /\ top.todo = {}
        /\ current_state' = [current_state EXCEPT ![p] = "stopped"]
        /\ current_operation' = [current_operation EXCEPT ![p] = Null]
        /\ stopped_event' = [stopped_event EXCEPT ![p] = TRUE]
        /\ UNCHANGED <<kstate, word, sigstop, child, held, busy, from_wait, hung, pending_events>>
        /\ UNCHANGED <<sse, debugger, command, thread_hash>>
        /\ UNCHANGED <<process_hash, global_operation, global_event, results>>
    BY DEF SuspendDone, In, top, target, debugger, Return
  <1>2. \A t \in Threads : ~InHand (t)
    BY <1>1, NotInHand
  <1>3. \A f \in Frames : FrameOK (f) => FrameOK (f)'
    BY <1>1, <1>2, ControlFrames
  <1>4. /\ top \in Frames /\ FrameOK (top) /\ Tail (calls) \in Seq (Frames)
        /\ \A f \in Frames : InSeq (Tail (calls), f) => FrameOK (f) /\ f.call # "complete"
    BY <1>1, CallsTop DEF PInv
  <1>5. p \in Processes /\ Born (MainOf[p]) /\ top.snap \subseteq Threads
    BY <1>1, <1>4, FrameKinds DEF FrameOK
  <1>6. \A t \in User (p) : Quiet (t) /\ Settled (t)
    BY <1>1, <1>2, <1>4, <1>5 DEF FrameOK, User
  <1>7. Calls'
    BY <1>1, <1>3, <1>4, CallsPopped DEF PInv
  <1> HIDE DEF p
  <1>8. /\ current_state' \in [Processes -> {"single", "running", "stopping", "stopped", "exited"}]
        /\ current_operation' \in [Processes -> Indices]
        /\ stopped_event' \in [Processes -> BOOLEAN]
        /\ \A q \in Processes :
              /\ current_state'[q] = IF q = p THEN "stopped" ELSE current_state[q]
              /\ current_operation'[q] = IF q = p THEN Null ELSE current_operation[q]
              /\ stopped_event'[q] = IF q = p THEN TRUE ELSE stopped_event[q]
    BY <1>1, <1>5, ControlTypes DEF Indices
  <1>9. \A t : (Quiet (t)' <=> Quiet (t)) /\ (Settled (t)' <=> Settled (t))
    BY <1>1, SameView, SameSettled DEF sse
  <1>10. SignalledDone'
    <2> SUFFICES ASSUME NEW q \in Processes
                 PROVE  /\ current_state'[q] = "running" => current_operation'[q] # Null
                        /\ stopped_event'[q] =>
                              /\ current_state'[q] # "running" /\ current_operation'[q] = Null
                              /\ \A t \in User (q) : Settled (t)
      BY <1>1, <1>9 DEF SignalledDone, User
    <2> QED  BY <1>6, <1>8 DEF PInv, SignalledDone
  <1>11. StoppedQuiet'
    BY <1>1, <1>6, <1>8, <1>9 DEF PInv, StoppedQuiet, User
  <1> QED  BY <1>1, <1>2, <1>5, <1>7, <1>8, <1>10, <1>11, ControlTypes, ControlStep

-----------------------------------------------------------------------------
(* The target and the wait thread.                                          *)

(* A thread that stops is as little quiet with its event as it was while it *)
(* ran, and a thread that is created is not known until its parent's event  *)
(* is handled.                                                              *)
LEMMA TargetStep ==
    ASSUME PInv, Interruptible, UNCHANGED <<engine, sse, process, debugger, command>>,
           TargetTypes', Events', Children',
           \A t \in Threads : (Quiet (t)' <=> Quiet (t)) /\ (Born (t)' <=> Born (t)),
           \A t \in Threads : kstate'[t] # kstate[t] /\ kstate[t] = "absent" =>
              t = MainOf[ProcessOf[t]] \/ Born (MainOf[ProcessOf[t]])
    PROVE  PInv'
  <1>1. \A t \in Threads : ~InHand (t)
    BY NotInHand DEF Interruptible
  <1>2. \A t : Settled (t)' <=> Settled (t)
    BY SameSettled DEF sse, debugger
  <1>3. \A f \in Frames : FrameOK (f) => FrameOK (f)'
    BY <1>1, <1>2, FrameKept
  <1>4. Calls'
    BY <1>3, CallsSame DEF PInv, Calls, engine
  <1>5. EngineTypes'
    BY DEF PInv, EngineTypes, engine, sse
  <1>6. ProcessTypes'
    BY DEF PInv, ProcessTypes, sse, process, debugger, Indices
  <1>7. NewProcesses'
    BY ProcessOpsAssumption DEF PInv, NewProcesses, process, debugger
  <1>8. Owners'
    BY OwnerThreads DEF PInv, Owners, debugger
  <1>9. Stopped'
    BY <1>1, <1>2 DEF PInv, Stopped, sse
  <1>10. SignalledDone'
    BY <1>2 DEF PInv, SignalledDone, process, User
  <1>11. StoppedQuiet'
    BY DEF PInv, StoppedQuiet, process, ProcessTypes
  <1> QED
    BY <1>4, <1>5, <1>6, <1>7, <1>8, <1>9, <1>10, <1>11 DEF PInv

(* A thread that stops, by itself or for a SIGSTOP.                         *)
LEMMA HaltedStep ==
    ASSUME PInv, Interruptible, UNCHANGED <<child, held, engine, sse, process, debugger, command>>,
           NEW t \in Threads, kstate[t] = "running", NEW k \in {"stopped", "dead"},
           NEW w \in Words \ {"none", "spawn"},
           kstate' = [kstate EXCEPT ![t] = k], word' = [word EXCEPT ![t] = w],
           sigstop' \in [Threads -> BOOLEAN]
    PROVE  PInv'
  <1>1. /\ kstate' \in [Threads -> {"absent", "running", "stopped", "dead"}]
        /\ word' \in [Threads -> Words] /\ kstate'[t] = k /\ word'[t] = w
        /\ \A u \in Threads \ {t} : kstate'[u] = kstate[u] /\ word'[u] = word[u]
    BY DEF PInv, TargetTypes
  <1>2. ~Quiet (t) /\ ~Event (t) /\ t \notin pending_events /\ Born (t) /\ word[t] = "none" /\ held.t # t
    BY DEF PInv, Events, Event, Quiet
  <1>3. UNCHANGED <<pending_events, engine_stopped, thread_lock, op, thread_hash>>
    BY DEF engine, sse, process
  <1>4. \A u \in Threads : /\ Quiet (u)' <=> Quiet (u)
                           /\ Born (u)' <=> Born (u)
                           /\ Event (u)' <=> Event (u) \/ u = t
    BY <1>1, <1>2, <1>3 DEF Quiet, Born, Event
  <1>5. TargetTypes'
    BY <1>1 DEF PInv, TargetTypes
  <1>6. Events'
    BY <1>1, <1>2, <1>3, <1>4 DEF PInv, Events, Alive, Asked
  <1>7. Children'
    <2>1. \A u \in Threads : child[u] # t
      BY <1>2 DEF Born
    <2>2. \A u \in Threads : word'[u] = "spawn" <=> word[u] = "spawn"
      BY <1>1, <1>2
    <2> QED  BY <1>1, <1>3, <1>4, <2>1, <2>2 DEF PInv, Children, Alive
  <1> QED  BY <1>1, <1>4, <1>5, <1>6, <1>7, TargetStep

LEMMA SpawnStep ==
    ASSUME PInv, Interruptible, UNCHANGED <<sigstop, held, engine, sse, process, debugger, command>>,
           NEW t \in Threads, NEW c \in Threads, Spawns (t, c), word' = [word EXCEPT ![t] = "spawn"]
    PROVE  PInv'
  <1>1. /\ kstate[t] = "running" /\ kstate[c] = "absent" /\ t # c
        /\ kstate' = [kstate EXCEPT ![t] = "stopped", ![c] = "stopped"]
        /\ child' = [child EXCEPT ![t] = c]
        /\ ProcessOf[c] = ProcessOf[t] \/ MainOf[ProcessOf[c]] = c
    BY DEF Spawns
  <1>2. /\ kstate' \in [Threads -> {"absent", "running", "stopped", "dead"}]
        /\ word' \in [Threads -> Words] /\ child' \in [Threads -> Threads \cup {NoThread}]
        /\ kstate'[t] = "stopped" /\ word'[t] = "spawn" /\ child'[t] = c /\ kstate'[c] = "stopped"
        /\ \A u \in Threads \ {t, c} : kstate'[u] = kstate[u]
        /\ \A u \in Threads \ {t} : word'[u] = word[u] /\ child'[u] = child[u]
    BY <1>1 DEF PInv, TargetTypes, Words, AllReports
  <1>3. /\ ~Quiet (t) /\ ~Event (t) /\ t \notin pending_events /\ Born (t)
        /\ word[t] = "none" /\ held.t # t
    BY <1>1 DEF PInv, Events, Event, Quiet
  <1>4. /\ Quiet (c) /\ ~Born (c) /\ ~Event (c) /\ c \notin pending_events
        /\ \A u \in Threads : child[u] # c
    <2>1. ~Born (c)
      BY <1>1 DEF Born
    <2>2. Quiet (c)
      BY <2>1 DEF PInv, Events
    <2>3. \A u \in Threads : child[u] # c
      BY <1>1 DEF PInv, Children
    <2> QED  BY <2>1, <2>2, <2>3 DEF Quiet
  <1>5. child[t] \notin Threads
    BY <1>3 DEF PInv, Children
  <1>6. UNCHANGED <<pending_events, engine_stopped, thread_lock, op, thread_hash>>
    BY DEF engine, sse, process
  <1>7. \A u \in Threads : Event (u)' <=> Event (u) \/ u = t
    BY <1>2, <1>3 DEF Event
  <1>8. \A u \in Threads : Quiet (u)' <=> Quiet (u)
    BY <1>2, <1>3, <1>4, <1>6, <1>7 DEF Quiet
  <1>9. \A u \in Threads : Born (u)' <=> Born (u)
    BY <1>2, <1>3, <1>4, <1>5 DEF Born
  <1>10. TargetTypes'
    BY <1>2 DEF PInv, TargetTypes
  <1>11. Events'
    BY <1>2, <1>3, <1>6, <1>7, <1>8, <1>9 DEF PInv, Events, Alive, Asked
  <1>12. Children'
    <2> SUFFICES ASSUME NEW u \in Threads
                 PROVE  /\ child'[u] \in Threads <=> word'[u] = "spawn" \/ (held.t = u /\ held.w = "spawn")
                        /\ child'[u] \in Threads =>
                              /\ kstate'[child'[u]] = "stopped"
                              /\ \/ ProcessOf[child'[u]] = ProcessOf[u]
                                 \/ MainOf[ProcessOf[child'[u]]] = child'[u]
                              /\ \A v \in Threads : child'[v] = child'[u] => v = u
                        /\ ~Born (u) => ~Alive (u) /\ engine_stopped[u] /\ ~thread_lock[u] /\ op[u] = Null
      BY <1>6, <1>9 DEF Children, Alive
    <2>1. CASE u = t
      BY <1>1, <1>2, <1>3, <1>4, <2>1 DEF PInv, Children
    <2>2. CASE u # t
      <3>1. child'[u] = child[u] /\ word'[u] = word[u]
        BY <1>2, <2>2
      <3>2. child[u] \in Threads => child[u] # t /\ child[u] # c /\ kstate[child[u]] = "stopped"
        BY <1>3, <1>4 DEF PInv, Children, Born
      <3>3. \A v \in Threads : child[u] \in Threads /\ child'[v] = child[u] => v = u
        BY <1>2, <3>2 DEF PInv, Children
      <3> QED  BY <1>2, <3>1, <3>2, <3>3 DEF PInv, Children
    <2> QED  BY <2>1, <2>2
  <1>13. c = MainOf[ProcessOf[c]] \/ Born (MainOf[ProcessOf[c]])
    <2> DEFINE p == ProcessOf[t]
    <2>1. p \in Processes
      BY ProcessOpsAssumption
    <2>2. ~Born (MainOf[p]) => kstate[t] = "absent" \/ t = MainOf[p]
      BY <2>1 DEF PInv, NewProcesses
    <2>3. Born (MainOf[p])
      <3>1. CASE t = MainOf[p]
        BY <1>3, <3>1 DEF Born
      <3> QED  BY <1>1, <2>2, <3>1
    <2> QED  BY <1>1, <2>3
  <1>14. \A u \in Threads : kstate'[u] # kstate[u] /\ kstate[u] = "absent" =>
            u = MainOf[ProcessOf[u]] \/ Born (MainOf[ProcessOf[u]])
    <2>1. \A u \in Threads : kstate'[u] # kstate[u] /\ kstate[u] = "absent" => u = c
      BY <1>1, <1>2
    <2> QED  BY <1>13, <2>1, Zenon
  <1> QED  BY <1>8, <1>9, <1>10, <1>11, <1>12, <1>14, TargetStep

LEMMA ReportStep ==
    ASSUME PInv, Interruptible, NEW t \in Threads, NEW w \in AllReports, Report (t, w)
    PROVE  PInv'
  <1>1. CASE w = "spawn"
    BY <1>1, SpawnStep DEF Report
  <1>2. CASE w # "spawn"
    <2>1. /\ kstate[t] = "running" /\ w \in Words \ {"none", "spawn"}
          /\ kstate' = [kstate EXCEPT ![t] = IF w = "exit" THEN "dead" ELSE "stopped"]
          /\ word' = [word EXCEPT ![t] = w]
          /\ UNCHANGED <<child, held, engine, sse, process, debugger, command, sigstop>>
      BY <1>2 DEF Report, Halts, Words, AllReports
    <2>2. PICK k \in {"stopped", "dead"} : kstate' = [kstate EXCEPT ![t] = k]
      BY <2>1
    <2> QED  BY <2>1, <2>2, ControlTypes, HaltedStep
  <1> QED  BY <1>1, <1>2

LEMMA DeliverSigstopStep ==
    ASSUME PInv, Interruptible, NEW t \in Threads, DeliverSigstop (t)
    PROVE  PInv'
  <1>1. "int" \in Words \ {"none", "spawn"} /\ "stopped" \in {"stopped", "dead"}
    BY DEF Words
  <1>2. sigstop' \in [Threads -> BOOLEAN]
    BY ControlTypes DEF DeliverSigstop
  <1> QED  BY <1>1, <1>2, HaltedStep DEF DeliverSigstop

LEMMA WaitReapStep ==
    ASSUME PInv, Interruptible, NEW t \in Threads, WaitReap (t)
    PROVE  PInv'
  <1>1. /\ held = NoEvent /\ word[t] # "none" /\ held' = [t |-> t, w |-> word[t]]
        /\ word' = [word EXCEPT ![t] = "none"]
        /\ UNCHANGED <<kstate, sigstop, child, engine, sse, process, debugger, command>>
    BY DEF WaitReap
  <1>2. /\ word' \in [Threads -> Words] /\ word'[t] = "none" /\ held'.t = t /\ held'.w = word[t]
        /\ \A u \in Threads \ {t} : word'[u] = word[u]
        /\ held' \in [t : Threads, w : Words \ {"none"}]
    BY <1>1 DEF PInv, TargetTypes, Words
  <1>3. \A u \in Threads : held.t # u
    BY <1>1, ProcessOpsAssumption DEF NoEvent
  <1>4. UNCHANGED <<pending_events, engine_stopped, thread_lock, op, thread_hash>>
    BY <1>1 DEF engine, sse, process
  <1>5. \A u \in Threads : /\ Event (u)' <=> Event (u)
                           /\ Quiet (u)' <=> Quiet (u)
                           /\ Born (u)' <=> Born (u)
    BY <1>1, <1>2, <1>3, <1>4 DEF Quiet, Born, Event
  <1>6. TargetTypes'
    BY <1>1, <1>2 DEF PInv, TargetTypes
  <1>7. Events'
    BY <1>1, <1>2, <1>4, <1>5 DEF PInv, Events, Alive, Asked
  <1>8. Children'
    BY <1>1, <1>2, <1>3, <1>4, <1>5 DEF PInv, Children, Alive
  <1> QED  BY <1>1, <1>5, <1>6, <1>7, <1>8, TargetStep

-----------------------------------------------------------------------------
(* A client has checked the thread.                                         *)
LEMMA BeginStepStep ==
    ASSUME PInv, Interruptible, NEW t \in Threads, NEW m \in Models, BeginStep (t, m)
    PROVE  PInv'
  <1>1. /\ Alive (t) /\ engine_stopped[t] /\ ~thread_lock[t]
        /\ engine_stopped' = [engine_stopped EXCEPT ![t] = FALSE]
        /\ command' = [t |-> t, w |-> m]
        /\ UNCHANGED <<kstate, word, sigstop, child, held, busy, from_wait, calls, hung>>
        /\ UNCHANGED <<pending_events, op, thread_lock, process, debugger>>
        /\ UNCHANGED <<thread_hash, current_state, current_operation, stopped_event>>
        /\ UNCHANGED <<process_hash, global_operation, global_event, results>>
    BY DEF BeginStep, target, engine, process, debugger
  <1>2. \A u \in Threads : ~InHand (u)
    BY NotInHand DEF Interruptible
  <1>3. \A u : /\ Event (u)' <=> Event (u)
               /\ Quiet (u)' <=> Quiet (u)
               /\ Born (u)' <=> Born (u)
    BY <1>1, SameView
  <1>4. \A u : Settled (u)' <=> Settled (u)
    BY <1>1, SameSettled
  <1>5. /\ engine_stopped' \in [Threads -> BOOLEAN] /\ ~engine_stopped'[t]
        /\ \A u \in Threads \ {t} : engine_stopped'[u] = engine_stopped[u]
        /\ command' \in [t : Threads, w : Models] /\ command'.t = t
    BY <1>1 DEF PInv, EngineTypes
  <1>6. Born (t) /\ Quiet (t)
    BY <1>1 DEF PInv, Events, Children
  <1>7. TargetTypes'
    BY <1>1 DEF PInv, TargetTypes
  <1>8. EngineTypes'
    BY <1>1, <1>5 DEF PInv, EngineTypes
  <1>9. ProcessTypes'
    BY <1>1 DEF PInv, ProcessTypes, Indices
  <1>10. Events'
    BY <1>1, <1>3, <1>5, <1>6 DEF PInv, Events, Alive, Asked
  <1>11. Children'
    BY <1>1, <1>3, <1>5, <1>6 DEF PInv, Children, Alive
  <1>12. NewProcesses'
    BY <1>1, <1>3 DEF PInv, NewProcesses
  <1>13. Owners'
    BY <1>1, <1>3 DEF PInv, Owners
  <1>14. Calls'
    <2>1. \A f \in Frames : FrameOK (f) /\ f.call # "complete" => FrameOK (f)'
      BY <1>2, <1>3, <1>4, FrameKept
    <2>2. \A f \in Frames : InSeq (calls, f) => f.call # "complete"
      <3>1. CASE calls = << >>
        BY <3>1 DEF InSeq
      <3>2. CASE calls # << >>
        BY <3>2, CallsTop DEF PInv, Interruptible
      <3> QED  BY <3>1, <3>2
    <2> QED  BY <1>1, <2>1, <2>2, CallsSame DEF PInv, Calls
  <1>15. Stopped'
    BY <1>2, <1>4, <1>5 DEF PInv, Stopped
  <1>16. SignalledDone'
    BY <1>1, <1>4 DEF PInv, SignalledDone, User
  <1>17. StoppedQuiet'
    BY <1>1, <1>3 DEF PInv, StoppedQuiet
  <1> QED
    BY <1>7, <1>8, <1>9, <1>10, <1>11, <1>12, <1>13, <1>14, <1>15, <1>16, <1>17 DEF PInv

-----------------------------------------------------------------------------
(* Completed(): the result is completed before anybody is suspended.        *)

LEMMA OperationCompletedStep == PInv /\ OperationCompleted => PInv'
  <1> SUFFICES ASSUME PInv, OperationCompleted PROVE PInv'
    OBVIOUS
  <1>a. calls # << >> /\ top.call = "complete"
    BY DEF OperationCompleted, In, top
  <1>2. /\ top \in Frames /\ FrameOK (top) /\ Tail (calls) \in Seq (Frames)
        /\ \A f \in Frames : InSeq (Tail (calls), f) => FrameOK (f) /\ f.call # "complete"
    BY <1>a, CallsTop DEF PInv
  <1>b. PICK t \in Threads, w \in Ends : t = top.t /\ w = top.w
    BY <1>a, <1>2, FrameKinds
  <1>c. PICK i : i = op[t]
    OBVIOUS
  <1> DEFINE g == Completing (t, w)
  <1>1. /\ calls # << >> /\ top.call = "complete"
        /\ engine_stopped' = [engine_stopped EXCEPT ![t] = TRUE]
        /\ UNCHANGED <<kstate, word, sigstop, child, held, busy, from_wait, hung, pending_events>>
        /\ UNCHANGED <<op, thread_lock, process, command>>
        /\ UNCHANGED <<thread_hash, current_state, current_operation, stopped_event>>
        /\ UNCHANGED <<process_hash, global_operation, global_event>>
    BY <1>a, <1>b DEF OperationCompleted, target, process
  <1>3. Quiet (t) /\ Born (t) /\ ~Asked (t) /\ \A u : InHand (u) => u = t
    BY <1>1, <1>2, <1>b, ProcessOpsAssumption DEF FrameOK, InHand
  <1>4. g \in Frames /\ g.call = "completing" /\ g.t = t
    BY <1>3, NewFrames, ProcessOpsAssumption
  <1>5. \A u : /\ Event (u)' <=> Event (u)
               /\ Quiet (u)' <=> Quiet (u)
               /\ Born (u)' <=> Born (u)
    BY <1>1, SameView
  <1>6. /\ engine_stopped' \in [Threads -> BOOLEAN] /\ engine_stopped'[t]
        /\ \A u \in Threads \ {t} : engine_stopped'[u] = engine_stopped[u]
    BY <1>1, <1>3 DEF PInv, EngineTypes
  <1>7. /\ results' \in Seq (Results) /\ DOMAIN results' = DOMAIN results /\ Len (results') = Len (results)
        /\ \A k \in DOMAIN results :
              /\ results'[k].process = results[k].process
              /\ results[k].IsCompleted => results'[k].IsCompleted
    <2>1. CASE UNCHANGED results
      BY <2>1 DEF PInv, ProcessTypes
    <2>2. CASE i \notin {Null, Own} /\ results' = [results EXCEPT ![i].IsCompleted = TRUE]
      <3>1. i \in DOMAIN results /\ results \in Seq (Results)
        BY <1>c, <2>2 DEF PInv, ProcessTypes, Indices
      <3>2. \A k \in DOMAIN results : results[k] \in Results
        BY <3>1
      <3>3. /\ DOMAIN results' = DOMAIN results
            /\ \A k \in DOMAIN results :
                  results'[k] = IF k = i THEN [results[k] EXCEPT !.IsCompleted = TRUE] ELSE results[k]
        BY <2>2, <3>1
      <3>4. \A k \in DOMAIN results :
               /\ results'[k] \in Results /\ results'[k].process = results[k].process
               /\ results[k].IsCompleted => results'[k].IsCompleted
        BY <3>2, <3>3 DEF Results
      <3>5. results' \in Seq (Results) /\ Len (results') = Len (results)
        <4>1. DOMAIN results = 1 .. Len (results) /\ Len (results) \in Nat
          BY <3>1
        <4>2. results' \in [1 .. Len (results) -> Results]
          BY <2>2, <3>3, <3>4, <4>1
        <4> QED  BY <4>1, <4>2
      <3> QED  BY <3>3, <3>4, <3>5
    <2> QED  BY <1>b, <1>c, <2>1, <2>2 DEF OperationCompleted
  <1>8. \A u \in Threads : Settled (u) => Settled (u)'
    BY <1>1, <1>7, ProcessOpsAssumption DEF PInv, ProcessTypes, Settled, Fresh, Indices, Own, Null
  <1>9. /\ Calls' /\ (Settled (t)' \/ InHand (t)')
    <2>1. ASSUME Settled (t)' \/ InHand (t)'
          PROVE  \A f \in Frames : FrameOK (f) => FrameOK (f)'
      BY <1>1, <1>3, <1>5, <1>8, <2>1, FrameKept
    <2>2. FrameOK (g)'
      BY <1>3, <1>4, <1>5 DEF FrameOK
    <2>3. CASE i = Null /\ Throw /\ UNCHANGED results
      <3>1. Settled (t)'
        BY <1>1, <1>c, <2>3 DEF Settled, Fresh, Null
      <3> QED  BY <2>3, <3>1, CallsEmpty DEF Throw
    <2>4. CASE calls' = <<g>> \o Tail (calls)
      <3>1. InHand (t)'
        BY <1>2, <1>4, <2>4, Pushed DEF InHand, top
      <3> QED  BY <1>2, <1>4, <2>1, <2>2, <2>4, <3>1, CallsPushed
    <2>5. CASE /\ i \notin {Null, Own}
               /\ results' = [results EXCEPT ![i].IsCompleted = TRUE]
               /\ calls' = <<IF results[i].model = "global"
                             THEN GlobalCompleted (t, w)
                             ELSE HostCompleted (results[i].process, t, w)>>
                                \o (<<g>> \o Tail (calls))
      <3>0. PICK h : h = IF results[i].model = "global" THEN GlobalCompleted (t, w)
                         ELSE HostCompleted (results[i].process, t, w)
        OBVIOUS
      <3>1. i \in DOMAIN results /\ results \in Seq (Results)
        BY <1>c, <2>5 DEF PInv, ProcessTypes, Indices
      <3>2. results'[i].IsCompleted
        <4>1. results[i] \in Results /\ results'[i] = [results[i] EXCEPT !.IsCompleted = TRUE]
          BY <2>5, <3>1
        <4> QED  BY <4>1 DEF Results
      <3>3. i # Own
        BY <2>5
      <3>4. Settled (t)'
        BY <1>1, <1>c, <3>2, <3>3 DEF Settled, Fresh
      <3>5. /\ h \in Frames /\ h.t = t /\ h.call \in {"global", "host"}
            /\ h.call = "host" => h.p = results[i].process
            /\ h.call = "global" => h.todo = process_hash
        <4>1. results[i].process \in Processes /\ process_hash \subseteq Processes
          BY <3>1, OwnerThreads DEF PInv, ProcessTypes
        <4>2. CASE results[i].model = "global"
          BY <1>3, <3>0, <4>1, <4>2, NewGlobal
        <4>3. CASE results[i].model # "global"
          BY <1>3, <3>0, <4>1, <4>3, NewFrames
        <4> QED  BY <4>2, <4>3
      <3>6. \A p \in process_hash : Born (MainOf[p])
        BY DEF PInv, NewProcesses, ProcessTypes
      <3>7. FrameOK (h)'
        BY <1>3, <1>5, <3>1, <3>4, <3>5, <3>6 DEF FrameOK, PInv, Owners
      <3>8. /\ <<g>> \o Tail (calls) \in Seq (Frames)
            /\ \A f \in Frames : InSeq (<<g>> \o Tail (calls), f) => FrameOK (f)' /\ f.call # "complete"
        <4>1. /\ <<g>> \o Tail (calls) \in Seq (Frames)
              /\ \A f : InSeq (<<g>> \o Tail (calls), f) => f = g \/ InSeq (Tail (calls), f)
          BY <1>2, <1>4, Pushed
        <4>2. \A f \in Frames : InSeq (Tail (calls), f) => FrameOK (f)' /\ f.call # "complete"
          BY <1>2, <2>1, <3>4
        <4> HIDE DEF g
        <4> QED  BY <1>4, <2>2, <4>1, <4>2
      <3>9. Calls'
        BY <2>5, <3>0, <3>5, <3>7, <3>8, CallsPushed
      <3> QED  BY <3>4, <3>9
    <2> QED  BY <1>b, <1>c, <2>3, <2>4, <2>5 DEF OperationCompleted
  <1> HIDE DEF g
  <1>10. TargetTypes'
    BY <1>1 DEF PInv, TargetTypes
  <1>11. EngineTypes'
    BY <1>1, <1>6 DEF PInv, EngineTypes
  <1>12. ProcessTypes'
    BY <1>1, <1>7 DEF PInv, ProcessTypes, Indices
  <1>13. Events'
    BY <1>1, <1>3, <1>5, <1>6 DEF PInv, Events, Alive, Asked
  <1>14. Children'
    BY <1>1, <1>3, <1>5, <1>6 DEF PInv, Children, Alive
  <1>15. NewProcesses'
    BY <1>1, <1>5 DEF PInv, NewProcesses
  <1>16. Owners'
    BY <1>5, <1>7 DEF PInv, Owners
  <1>17. Stopped'
    BY <1>3, <1>6, <1>8, <1>9 DEF PInv, Stopped
  <1>18. SignalledDone'
    BY <1>1, <1>8 DEF PInv, SignalledDone, User, ProcessTypes
  <1>19. StoppedQuiet'
    BY <1>1, <1>5 DEF PInv, StoppedQuiet
  <1> QED
    BY <1>9, <1>10, <1>11, <1>12, <1>13, <1>14, <1>15, <1>16, <1>17, <1>18, <1>19 DEF PInv

(* The end of OperationCompleted(): the thread carries nothing any more,    *)
(* and leaves thread_hash if it has exited.                                 *)
LEMMA OperationDoneStep == PInv /\ OperationDone => PInv'
  <1> SUFFICES ASSUME PInv, OperationDone PROVE PInv'
    OBVIOUS
  <1>a. calls # << >> /\ top.call = "completing" /\ calls' = Tail (calls)
    BY DEF OperationDone, In, top, Return
  <1>b. /\ top \in Frames /\ FrameOK (top) /\ Tail (calls) \in Seq (Frames)
        /\ \A f \in Frames : InSeq (Tail (calls), f) => FrameOK (f) /\ f.call # "complete"
    BY <1>a, CallsTop DEF PInv
  <1>c. PICK t \in Threads : t = top.t
    BY <1>a, <1>b, FrameKinds
  <1>d. PICK p \in Processes : p = ProcessOf[t]
    BY ProcessOpsAssumption
  <1>1. Quiet (t) /\ Born (t) /\ \A u : InHand (u) => u = t
    BY <1>a, <1>b, <1>c, ProcessOpsAssumption DEF FrameOK, InHand
  <1>2. /\ UNCHANGED <<kstate, word, sigstop, child, held, busy, from_wait, hung, pending_events>>
        /\ UNCHANGED <<engine_stopped, thread_lock, global_operation, global_event, results, command>>
        /\ op' = [op EXCEPT ![t] = Null]
    BY <1>c DEF OperationDone, target
  <1>3. PICK gone \in BOOLEAN :
           thread_hash' = [thread_hash EXCEPT ![p] = IF gone THEN @ \ {t} ELSE @]
    BY <1>c, <1>d DEF OperationDone
  <1>4. PICK completes \in BOOLEAN, last \in BOOLEAN :
           /\ completes => last
           /\ last => thread_hash'[p] = {}
           /\ current_state' = [current_state EXCEPT ![p] = IF completes THEN "exited" ELSE @]
           /\ current_operation' = [current_operation EXCEPT ![p] = IF completes THEN Null ELSE @]
           /\ stopped_event' = [stopped_event EXCEPT ![p] = @ \/ completes]
           /\ process_hash' = IF last THEN process_hash \ {p} ELSE process_hash
           /\ ~last => thread_hash'[p] # {} \/ thread_hash'[p] = thread_hash[p]
    <2> DEFINE l == top.w = "exit" /\ thread_hash[p] = {t}
               x == l /\ current_state[p] = "running"
    <2>1. /\ thread_hash' = [thread_hash EXCEPT ![p] = IF top.w = "exit" THEN @ \ {t} ELSE @]
          /\ current_state' = [current_state EXCEPT ![p] = IF x THEN "exited" ELSE @]
          /\ current_operation' = [current_operation EXCEPT ![p] = IF x THEN Null ELSE @]
          /\ stopped_event' = [stopped_event EXCEPT ![p] = @ \/ x]
          /\ process_hash' = IF l THEN process_hash \ {p} ELSE process_hash
      BY <1>c, <1>d DEF OperationDone
    <2>2. thread_hash'[p] = IF top.w = "exit" THEN thread_hash[p] \ {t} ELSE thread_hash[p]
      BY <2>1 DEF PInv, ProcessTypes
    <2>3. l \in BOOLEAN /\ x \in BOOLEAN /\ (x => l) /\ (l => thread_hash'[p] = {})
      BY <2>2
    <2>4. ~l => thread_hash'[p] # {} \/ thread_hash'[p] = thread_hash[p]
      BY <2>2
    <2> HIDE DEF l, x
    <2> QED  BY <2>1, <2>3, <2>4
  <1>5. /\ thread_hash' \in [Processes -> SUBSET Threads]
        /\ \A q \in Processes : thread_hash'[q] \subseteq thread_hash[q]
        /\ \A u \in Threads : u # t => (Alive (u)' <=> Alive (u))
        /\ \A q \in Processes \ {p} : thread_hash'[q] = thread_hash[q]
    <2>1. /\ thread_hash' \in [Processes -> SUBSET Threads]
          /\ \A q \in Processes \ {p} : thread_hash'[q] = thread_hash[q]
          /\ thread_hash'[p] = IF gone THEN thread_hash[p] \ {t} ELSE thread_hash[p]
      BY <1>3 DEF PInv, ProcessTypes
    <2>2. \A u \in Threads : u # t => (Alive (u)' <=> Alive (u))
      BY <2>1, ProcessOpsAssumption DEF Alive
    <2> QED  BY <2>1, <2>2
  <1>6. \A u : /\ Event (u)' <=> Event (u)
               /\ Quiet (u)' <=> Quiet (u)
               /\ Born (u)' <=> Born (u)
    BY <1>2, SameView
  <1>7. /\ op' \in [Threads -> {Own} \cup Indices] /\ op'[t] = Null
        /\ \A u \in Threads \ {t} : op'[u] = op[u]
    BY <1>2 DEF PInv, ProcessTypes, Indices
  <1>8. Settled (t)' /\ \A u \in Threads : Settled (u) => Settled (u)'
    BY <1>2, <1>7 DEF Settled, Fresh, Null
  <1>9. Calls'
    <2>1. \A f \in Frames : FrameOK (f) => FrameOK (f)'
      BY <1>1, <1>2, <1>6, <1>8, FrameKept
    <2> QED  BY <1>a, <1>b, <2>1, CallsPopped DEF PInv
  <1>10. /\ current_state' \in [Processes -> {"single", "running", "stopping", "stopped", "exited"}]
         /\ current_operation' \in [Processes -> Indices]
         /\ stopped_event' \in [Processes -> BOOLEAN]
         /\ \A q \in Processes \ {p} :
               /\ current_state'[q] = current_state[q] /\ current_operation'[q] = current_operation[q]
               /\ stopped_event'[q] = stopped_event[q]
         /\ completes => current_state'[p] = "exited" /\ current_operation'[p] = Null
         /\ ~completes => /\ current_state'[p] = current_state[p]
                          /\ current_operation'[p] = current_operation[p]
                          /\ stopped_event'[p] = stopped_event[p]
    BY <1>4, ControlTypes DEF Indices
  <1>11. TargetTypes'
    BY <1>2 DEF PInv, TargetTypes
  <1>12. EngineTypes'
    BY <1>2, <1>a, ControlTypes DEF PInv, EngineTypes
  <1>13. ProcessTypes'
    <2>1. process_hash' \subseteq Processes
      BY <1>4 DEF PInv, ProcessTypes
    <2>2. \A q \in Processes : \A u \in thread_hash'[q] : ProcessOf[u] = q
      BY <1>5 DEF PInv, ProcessTypes
    <2>3. Indices' = Indices
      BY <1>2 DEF Indices
    <2> QED  BY <1>2, <1>5, <1>7, <1>10, <2>1, <2>2, <2>3 DEF PInv, ProcessTypes
  <1>14. Events'
    BY <1>1, <1>2, <1>5, <1>6 DEF PInv, Events, Asked
  <1>15. Children'
    BY <1>1, <1>2, <1>5, <1>6, <1>7 DEF PInv, Children
  <1>16. NewProcesses'
    <2> SUFFICES ASSUME NEW q \in Processes
                 PROVE  /\ ~Born (MainOf[q]) =>
                              /\ ~stopped_event'[q] /\ thread_hash'[q] = {} /\ q \notin process_hash'
                              /\ \A u \in Threads \ {MainOf[q]} : ProcessOf[u] = q => kstate[u] = "absent"
                        /\ thread_hash'[q] # {} => q \in process_hash'
      BY <1>2, <1>6 DEF NewProcesses
    <2>1. CASE q = p
      <3>1. Born (MainOf[p])
        <4>1. ~Born (MainOf[p]) => kstate[t] = "absent" \/ t = MainOf[p]
          BY <1>d DEF PInv, NewProcesses
        <4>2. CASE t = MainOf[p]
          BY <1>1, <4>2 DEF Born
        <4>3. kstate[t] # "absent"
          BY <1>1 DEF Born
        <4> QED  BY <4>1, <4>2, <4>3
      <3> QED  BY <1>4, <1>5, <2>1, <3>1 DEF PInv, NewProcesses
    <2>2. CASE q # p
      BY <1>4, <1>5, <1>10, <2>2 DEF PInv, NewProcesses
    <2> QED  BY <2>1, <2>2
  <1>17. Owners'
    BY <1>2, <1>6 DEF PInv, Owners
  <1>18. Stopped'
    BY <1>1, <1>2, <1>8 DEF PInv, Stopped
  <1>19. SignalledDone'
    <2> SUFFICES ASSUME NEW q \in Processes
                 PROVE  /\ current_state'[q] = "running" => current_operation'[q] # Null
                        /\ stopped_event'[q] =>
                              /\ current_state'[q] # "running" /\ current_operation'[q] = Null
                              /\ \A u \in thread_hash'[q] \ Daemons : Settled (u)'
      BY DEF SignalledDone, User
    <2>1. CASE q = p /\ completes
      BY <1>4, <1>10, <2>1
    <2>2. CASE ~(q = p /\ completes)
      <3>1. /\ current_state'[q] = current_state[q] /\ current_operation'[q] = current_operation[q]
            /\ stopped_event'[q] = stopped_event[q]
        BY <1>10, <2>2
      <3> QED  BY <1>5, <1>8, <3>1 DEF PInv, SignalledDone, User, ProcessTypes
    <2> QED  BY <2>1, <2>2
  <1>20. StoppedQuiet'
    BY <1>5, <1>6, <1>10 DEF PInv, StoppedQuiet
  <1> QED
    BY <1>9, <1>11, <1>12, <1>13, <1>14, <1>15, <1>16, <1>17, <1>18, <1>19, <1>20 DEF PInv

-----------------------------------------------------------------------------
(* Handling an event.                                                       *)

(* The event of t, or what was set aside for it, is handled: t stays        *)
(* stopped or runs.                                                         *)
LEMMA HandledStep ==
    ASSUME PInv, \A u \in Threads : ~InHand (u), Calls', NEW t \in Threads, ~Quiet (t),
           kstate' \in [Threads -> {"absent", "running", "stopped", "dead"}], kstate'[t] # "absent",
           word' \in [Threads -> Words], word'[t] = "none",
           \A u \in Threads \ {t} : kstate'[u] = kstate[u] /\ word'[u] = word[u],
           (UNCHANGED held /\ held.t # t) \/ (held' = NoEvent /\ held.t \in {t, NoThread}),
           pending_events' = pending_events \ {t}, UNCHANGED child, child[t] \notin Threads,
           thread_lock' \in [Threads -> BOOLEAN], thread_lock'[t] => kstate'[t] # "running",
           \A u \in Threads \ {t} : thread_lock'[u] = thread_lock[u],
           UNCHANGED <<engine_stopped, op, process, debugger, command>>,
           sigstop' \in [Threads -> BOOLEAN],
           busy' \in BOOLEAN, from_wait' \in BOOLEAN, hung' \in BOOLEAN, ~busy' => calls' = << >>
    PROVE  PInv'
  <1>1. /\ UNCHANGED <<thread_hash, current_state, current_operation, stopped_event>>
        /\ UNCHANGED <<process_hash, global_operation, global_event, results>>
    BY DEF process, debugger
  <1>2. held'.t # t /\ \A u \in Threads \ {t} : held'.t = u <=> held.t = u
    BY ProcessOpsAssumption DEF NoEvent
  <1>3. /\ ~Event (t)' /\ t \notin pending_events'
        /\ \A u \in Threads \ {t} : /\ Event (u)' <=> Event (u)
                                    /\ u \in pending_events' <=> u \in pending_events
    BY <1>2 DEF Event
  <1>4. \A u \in Threads \ {t} : Quiet (u)' <=> Quiet (u)
    BY <1>3 DEF Quiet
  <1>5. Born (t) /\ Alive (t) /\ ~engine_stopped[t] /\ ~Asked (t)
    BY DEF PInv, Events
  <1>6. \A u \in Threads : Born (u)' <=> Born (u)
    BY <1>5 DEF Born
  <1>7. \A u : Settled (u)' <=> Settled (u)
    BY <1>1, SameSettled
  <1>8. TargetTypes'
    BY DEF PInv, TargetTypes
  <1>9. EngineTypes'
    BY DEF PInv, EngineTypes
  <1>10. ProcessTypes'
    BY <1>1 DEF PInv, ProcessTypes, Indices
  <1>11. Events'
    <2> SUFFICES ASSUME NEW u \in Threads
                 PROVE  /\ (Event (u) \/ u \in pending_events)' =>
                              kstate'[u] # "running" /\ kstate'[u] # "absent"
                        /\ word'[u] # "none" => held'.t # u
                        /\ u \in pending_events' => ~Event (u)'
                        /\ ~Quiet (u)' => Born (u) /\ Alive (u) /\ ~engine_stopped[u] /\ ~thread_lock'[u]
                        /\ Asked (u) => Quiet (u)' /\ Born (u) /\ ~engine_stopped[u] /\ ~thread_lock'[u]
      BY <1>1, <1>6 DEF Events, Alive, Asked
    <2>1. CASE u = t
      BY <1>3, <1>5, <2>1 DEF Quiet
    <2>2. CASE u # t
      BY <1>2, <1>3, <1>4, <2>2 DEF PInv, Events
    <2> QED  BY <2>1, <2>2
  <1>12. Children'
    <2> SUFFICES ASSUME NEW u \in Threads
                 PROVE  /\ child[u] \in Threads <=> word'[u] = "spawn" \/ (held'.t = u /\ held'.w = "spawn")
                        /\ child[u] \in Threads =>
                              /\ kstate'[child[u]] = "stopped"
                              /\ \/ ProcessOf[child[u]] = ProcessOf[u]
                                 \/ MainOf[ProcessOf[child[u]]] = child[u]
                              /\ \A v \in Threads : child[v] = child[u] => v = u
                        /\ ~Born (u) => ~Alive (u) /\ engine_stopped[u] /\ ~thread_lock'[u] /\ op[u] = Null
      BY <1>1, <1>6 DEF Children, Alive
    <2>1. CASE u = t
      BY <1>2, <1>5, <2>1
    <2>2. CASE u # t
      <3>1. held'.t = u /\ held'.w = "spawn" <=> held.t = u /\ held.w = "spawn"
        BY <2>2, ProcessOpsAssumption DEF NoEvent
      <3>2. child[u] # t
        BY <1>5 DEF Born
      <3> QED  BY <2>2, <3>1, <3>2 DEF PInv, Children
    <2> QED  BY <2>1, <2>2
  <1>13. NewProcesses'
    <2>1. \A u \in Threads : kstate[u] = "absent" => kstate'[u] = "absent"
      BY <1>5 DEF Born
    <2> QED  BY <1>1, <1>6, <2>1, ProcessOpsAssumption DEF PInv, NewProcesses
  <1>14. Owners'
    BY <1>1, <1>6, OwnerThreads DEF PInv, Owners
  <1>15. Stopped'
    BY <1>7 DEF PInv, Stopped
  <1>16. SignalledDone'
    BY <1>1, <1>7 DEF PInv, SignalledDone, User
  <1>17. StoppedQuiet'
    BY <1>1, <1>4, <1>5, ControlTypes DEF PInv, StoppedQuiet
  <1> QED
    BY <1>8, <1>9, <1>10, <1>11, <1>12, <1>13, <1>14, <1>15, <1>16, <1>17 DEF PInv

(* The frames under it.                                                     *)
LEMMA HandledFrames ==
    ASSUME PInv, \A u \in Threads : ~InHand (u), NEW t \in Threads, ~Quiet (t),
           kstate'[t] # "absent", word'[t] = "none",
           \A u \in Threads \ {t} : kstate'[u] = kstate[u] /\ word'[u] = word[u],
           (UNCHANGED held /\ held.t # t) \/ (held' = NoEvent /\ held.t \in {t, NoThread}),
           pending_events' = pending_events \ {t}, UNCHANGED <<child, op, results, command>>
    PROVE  /\ \A f \in Frames : FrameOK (f) => FrameOK (f)'
           /\ kstate'[t] # "running" => Quiet (t)'
           /\ Born (t)' /\ ~Asked (t)'
  <1>1. held'.t # t /\ \A u \in Threads \ {t} : held'.t = u <=> held.t = u
    BY ProcessOpsAssumption DEF NoEvent
  <1>2. \A u \in Threads : Quiet (u) => Quiet (u)'
    BY <1>1 DEF Quiet, Event
  <1>3. Born (t) /\ ~Asked (t)
    BY DEF PInv, Events
  <1>4. \A u \in Threads : Born (u) => Born (u)'
    BY <1>3 DEF Born
  <1>5. \A u : Settled (u)' <=> Settled (u)
    BY SameSettled
  <1>6. \A f \in Frames : FrameOK (f) => FrameOK (f)'
    BY <1>2, <1>4, <1>5, FrameKept
  <1>7. kstate'[t] # "running" => Quiet (t)'
    BY <1>1 DEF Quiet, Event
  <1>8. ~Asked (t)'
    BY <1>3 DEF Asked
  <1> QED  BY <1>3, <1>4, <1>6, <1>7, <1>8

LEMMA RestFrame ==
    ASSUME top \in Frames, top.call = "suspend", NEW t
    PROVE  /\ Rest (t) \in Frames /\ Rest (t).call = "suspend" /\ Rest (t).t = top.t
           /\ Rest (t).p = top.p /\ Rest (t).todo = top.todo \ {t} /\ Rest (t).snap = top.snap
  BY NextFrame DEF Rest

(* SuspendUserThreads() has interrupted t.                                  *)
LEMMA InterruptedStep ==
    ASSUME PInv, calls # << >>, top.call = "suspend", NEW t \in Threads, t \in top.todo, ~Quiet (t),
           t \notin pending_events, held.t # t, NEW f \in Frames,
           f.call \in {"complete", "completing"}, f.t = t,
           calls' = <<f, Rest (t)>> \o Tail (calls),
           kstate' \in [Threads -> {"absent", "running", "stopped", "dead"}],
           kstate'[t] \in {"stopped", "dead"}, word' \in [Threads -> Words], word'[t] = "none",
           \A u \in Threads \ {t} : kstate'[u] = kstate[u] /\ word'[u] = word[u],
           UNCHANGED <<held, pending_events, child>>, child[t] \notin Threads,
           thread_lock' \in [Threads -> BOOLEAN],
           \A u \in Threads \ {t} : thread_lock'[u] = thread_lock[u],
           UNCHANGED <<engine_stopped, op, process, debugger, command, busy, from_wait, hung>>,
           sigstop' \in [Threads -> BOOLEAN]
    PROVE  PInv'
  <1>1. \A u \in Threads : ~InHand (u)
    BY NotInHand
  <1>2. /\ pending_events' = pending_events \ {t}
        /\ kstate'[t] # "absent" /\ kstate'[t] # "running"
        /\ UNCHANGED <<child, op, results, command>>
    BY DEF debugger
  <1>a. (UNCHANGED held /\ held.t # t) \/ (held' = NoEvent /\ held.t \in {t, NoThread})
    OBVIOUS
  <1>3. /\ \A h \in Frames : FrameOK (h) => FrameOK (h)'
        /\ Quiet (t)' /\ Born (t)' /\ ~Asked (t)'
    BY <1>1, <1>2, <1>a, HandledFrames
  <1>4. /\ top \in Frames /\ FrameOK (top) /\ Tail (calls) \in Seq (Frames)
        /\ \A h \in Frames : InSeq (Tail (calls), h) => FrameOK (h) /\ h.call # "complete"
    BY CallsTop DEF PInv
  <1>5. PICK g \in Frames : /\ g = Rest (t) /\ g.call = "suspend" /\ g.t = top.t /\ g.p = top.p
                            /\ g.todo = top.todo \ {t} /\ g.snap = top.snap
    <2>1. /\ Rest (t) \in Frames /\ Rest (t).call = "suspend" /\ Rest (t).t = top.t
          /\ Rest (t).p = top.p /\ Rest (t).todo = top.todo \ {t} /\ Rest (t).snap = top.snap
      BY <1>4, RestFrame
    <2> QED  BY <2>1
  <1>6. InHand (t)'
    BY <1>4, <1>5, Pushed2 DEF InHand, top
  <1>7. PICK h \in Frames : h = top
    BY <1>4
  <1>8. FrameOK (h)'
    BY <1>3, <1>4, <1>7
  <1>9. FrameOK (g)'
    BY <1>3, <1>5, <1>6, <1>7, <1>8 DEF FrameOK
  <1>10. FrameOK (f)'
    BY <1>3 DEF FrameOK
  <1>11. Calls'
    BY <1>3, <1>4, <1>5, <1>9, <1>10, CallsPushed2
  <1> QED  BY <1>1, <1>2, <1>a, <1>11, HandledStep, ControlTypes

LEMMA InterruptedBy ==
    ASSUME PInv, NEW t \in Threads, NEW w, w # "spawn", SuspendEvent (t, w)
    PROVE  /\ \E f \in Frames : /\ f.call \in {"complete", "completing"} /\ f.t = t
                                /\ calls' = <<f, Rest (t)>> \o Tail (calls)
           /\ thread_lock' \in [Threads -> BOOLEAN]
           /\ \A u \in Threads \ {t} : thread_lock'[u] = thread_lock[u]
           /\ UNCHANGED <<engine_stopped, op, process, debugger>>
  <1>1. "null" \in Ends /\ "exit" \in Ends /\ thread_lock \in [Threads -> BOOLEAN]
    BY DEF Ends, PInv, EngineTypes
  <1>2. \A x \in Ends : /\ Complete (t, x) \in Frames /\ Completing (t, x) \in Frames
                        /\ Complete (t, x).call = "complete" /\ Complete (t, x).t = t
                        /\ Completing (t, x).call = "completing" /\ Completing (t, x).t = t
    BY NewFrames, ProcessOpsAssumption
  <1>3. CASE /\ calls' = <<Complete (t, "null"), Rest (t)>> \o Tail (calls)
             /\ thread_lock' = [thread_lock EXCEPT ![t] = (w = "unknown")]
             /\ UNCHANGED <<engine_stopped, op, process, debugger>>
    <2>1. thread_lock' \in [Threads -> BOOLEAN] /\ \A u \in Threads \ {t} : thread_lock'[u] = thread_lock[u]
      BY <1>1, <1>3
    <2> QED  BY <1>1, <1>2, <1>3, <2>1
  <1>4. CASE /\ w = "exit"
             /\ calls' = <<IF op[t] = Null THEN Completing (t, w) ELSE Complete (t, w), Rest (t)>>
                              \o Tail (calls)
             /\ UNCHANGED <<sse, process, debugger>>
    <2>1. CASE op[t] = Null
      BY <1>1, <1>2, <1>4, <2>1 DEF sse
    <2>2. CASE op[t] # Null
      BY <1>1, <1>2, <1>4, <2>2 DEF sse
    <2> QED  BY <2>1, <2>2
  <1> QED  BY <1>3, <1>4 DEF SuspendEvent

LEMMA SuspendingFacts ==
    ASSUME PInv, NEW t \in Threads, Suspending (t)
    PROVE  calls # << >> /\ top.call = "suspend" /\ t \in top.todo
  BY DEF Suspending, In, top

(* A thread that runs has no event, no child and nothing set aside.         *)
LEMMA RunningFacts ==
    ASSUME PInv, NEW t \in Threads, kstate[t] = "running"
    PROVE  /\ ~Quiet (t) /\ t \notin pending_events /\ held.t # t /\ word[t] = "none"
           /\ child[t] \notin Threads
  <1>1. ~Quiet (t) /\ t \notin pending_events /\ held.t # t /\ word[t] = "none"
    BY DEF PInv, Events, Event, Quiet
  <1> QED  BY <1>1 DEF PInv, Children

LEMMA SuspendSigstopStep ==
    ASSUME PInv, NEW t \in Threads, SuspendSigstop (t)
    PROVE  PInv'
  <1>1. /\ kstate[t] = "running" /\ Suspending (t) /\ SuspendEvent (t, "int")
        /\ kstate' = [kstate EXCEPT ![t] = "stopped"] /\ sigstop' = [sigstop EXCEPT ![t] = FALSE]
        /\ UNCHANGED <<word, child, held, busy, from_wait, hung, pending_events, command>>
    BY DEF SuspendSigstop
  <1>2. /\ ~Quiet (t) /\ t \notin pending_events /\ held.t # t /\ word[t] = "none"
        /\ child[t] \notin Threads
    BY <1>1, RunningFacts
  <1>3. calls # << >> /\ top.call = "suspend" /\ t \in top.todo
    BY <1>1, SuspendingFacts
  <1>4. PICK f \in Frames : /\ f.call \in {"complete", "completing"} /\ f.t = t
                            /\ calls' = <<f, Rest (t)>> \o Tail (calls)
    BY <1>1, InterruptedBy
  <1>5. /\ thread_lock' \in [Threads -> BOOLEAN]
        /\ \A u \in Threads \ {t} : thread_lock'[u] = thread_lock[u]
        /\ UNCHANGED <<engine_stopped, op, process, debugger>>
    BY <1>1, InterruptedBy
  <1>6. /\ kstate' \in [Threads -> {"absent", "running", "stopped", "dead"}]
        /\ kstate'[t] \in {"stopped", "dead"} /\ word' \in [Threads -> Words] /\ word'[t] = "none"
        /\ \A u \in Threads \ {t} : kstate'[u] = kstate[u] /\ word'[u] = word[u]
        /\ sigstop' \in [Threads -> BOOLEAN]
    BY <1>1, <1>2 DEF PInv, TargetTypes
  <1> QED  BY <1>1, <1>2, <1>3, <1>4, <1>5, <1>6, InterruptedStep

LEMMA SuspendOtherStep ==
    ASSUME PInv, NEW t \in Threads, NEW w \in AllReports, SuspendOther (t, w)
    PROVE  PInv'
  <1>1. /\ kstate[t] = "running" /\ Suspending (t) /\ SuspendEvent (t, w) /\ w # "spawn"
        /\ kstate' = [kstate EXCEPT ![t] = IF w = "exit" THEN "dead" ELSE "stopped"]
        /\ sigstop' = [sigstop EXCEPT ![t] = (w # "exit")]
        /\ UNCHANGED <<word, child, held, busy, from_wait, hung, pending_events, command>>
    BY DEF SuspendOther, Halts
  <1>2. /\ ~Quiet (t) /\ t \notin pending_events /\ held.t # t /\ word[t] = "none"
        /\ child[t] \notin Threads
    BY <1>1, RunningFacts
  <1>3. calls # << >> /\ top.call = "suspend" /\ t \in top.todo
    BY <1>1, SuspendingFacts
  <1>4. PICK f \in Frames : /\ f.call \in {"complete", "completing"} /\ f.t = t
                            /\ calls' = <<f, Rest (t)>> \o Tail (calls)
    BY <1>1, InterruptedBy
  <1>5. /\ thread_lock' \in [Threads -> BOOLEAN]
        /\ \A u \in Threads \ {t} : thread_lock'[u] = thread_lock[u]
        /\ UNCHANGED <<engine_stopped, op, process, debugger>>
    BY <1>1, InterruptedBy
  <1>6. /\ kstate' \in [Threads -> {"absent", "running", "stopped", "dead"}]
        /\ kstate'[t] \in {"stopped", "dead"} /\ word' \in [Threads -> Words] /\ word'[t] = "none"
        /\ \A u \in Threads \ {t} : kstate'[u] = kstate[u] /\ word'[u] = word[u]
        /\ sigstop' \in [Threads -> BOOLEAN]
    BY <1>1, <1>2 DEF PInv, TargetTypes
  <1> QED  BY <1>1, <1>2, <1>3, <1>4, <1>5, <1>6, InterruptedStep

LEMMA SuspendReapStep ==
    ASSUME PInv, NEW t \in Threads, SuspendReap (t), word[t] # "spawn"
    PROVE  PInv'
  <1>1. /\ Suspending (t) /\ SuspendEvent (t, word[t]) /\ word[t] # "none"
        /\ word' = [word EXCEPT ![t] = "none"] /\ child' = [child EXCEPT ![t] = NoThread]
        /\ kstate' = [c \in Threads |-> kstate[c]]
        /\ UNCHANGED <<sigstop, held, busy, from_wait, hung, pending_events, command>>
    BY DEF SuspendReap
  <1>2. /\ ~Quiet (t) /\ t \notin pending_events /\ held.t # t /\ kstate[t] \in {"stopped", "dead"}
    <2>1. Event (t)
      BY <1>1 DEF Event
    <2> QED  BY <1>1, <2>1 DEF PInv, Events, Quiet, TargetTypes
  <1>3. child[t] \notin Threads
    BY <1>2 DEF PInv, Children
  <1>4. UNCHANGED child
    BY <1>1, <1>3 DEF PInv, TargetTypes
  <1>5. calls # << >> /\ top.call = "suspend" /\ t \in top.todo
    BY <1>1, SuspendingFacts
  <1>6. PICK f \in Frames : /\ f.call \in {"complete", "completing"} /\ f.t = t
                            /\ calls' = <<f, Rest (t)>> \o Tail (calls)
    BY <1>1, InterruptedBy
  <1>7. /\ thread_lock' \in [Threads -> BOOLEAN]
        /\ \A u \in Threads \ {t} : thread_lock'[u] = thread_lock[u]
        /\ UNCHANGED <<engine_stopped, op, process, debugger>>
    BY <1>1, InterruptedBy
  <1>8. /\ kstate' \in [Threads -> {"absent", "running", "stopped", "dead"}]
        /\ kstate'[t] \in {"stopped", "dead"} /\ word' \in [Threads -> Words] /\ word'[t] = "none"
        /\ \A u \in Threads \ {t} : kstate'[u] = kstate[u] /\ word'[u] = word[u]
        /\ sigstop' \in [Threads -> BOOLEAN]
    BY <1>1, <1>2 DEF PInv, TargetTypes, Words
  <1> QED  BY <1>1, <1>2, <1>3, <1>4, <1>5, <1>6, <1>7, <1>8, InterruptedStep

-----------------------------------------------------------------------------
(* Events of the wait thread and pending events.                            *)

(* Nothing is on the stack: the handler throws, goes on with t, or starts   *)
(* to complete its operation.                                               *)
LEMMA DecidedStep ==
    ASSUME PInv, calls = << >>, NEW t \in Threads, ~Quiet (t), kstate[t] # "running",
           (UNCHANGED held /\ held.t # t) \/ (held' = NoEvent /\ held.t \in {t, NoThread}),
           word[t] = "none", pending_events' = pending_events \ {t}, child[t] \notin Threads,
           UNCHANGED <<word, child, sigstop, sse, process, debugger, command, hung>>,
           busy' = TRUE, from_wait' \in BOOLEAN,
           \/ UNCHANGED kstate /\ calls' = << >>
           \/ Go ({t}) /\ calls' = << >>
           \/ /\ UNCHANGED kstate
              /\ \E f \in Frames : /\ f.call \in {"complete", "completing"} /\ f.t = t
                                   /\ calls' = <<f>> \o calls
    PROVE  PInv'
  <1>1. \A u \in Threads : ~InHand (u)
    BY NotInHand
  <1>2. Born (t) /\ ~thread_lock[t]
    BY DEF PInv, Events
  <1>3. /\ kstate' \in [Threads -> {"absent", "running", "stopped", "dead"}]
        /\ kstate'[t] # "absent"
        /\ \A u \in Threads \ {t} : kstate'[u] = kstate[u]
    <2>1. kstate \in [Threads -> {"absent", "running", "stopped", "dead"}] /\ kstate[t] # "absent"
      BY <1>2 DEF PInv, TargetTypes, Born
    <2>2. CASE UNCHANGED kstate
      BY <2>1, <2>2
    <2>3. CASE Go ({t})
      BY <2>1, <2>3 DEF Go
    <2> QED  BY <2>2, <2>3
  <1>4. word' \in [Threads -> Words] /\ word'[t] = "none" /\ \A u \in Threads \ {t} : word'[u] = word[u]
    BY DEF PInv, TargetTypes
  <1>5. /\ thread_lock' \in [Threads -> BOOLEAN] /\ ~thread_lock'[t]
        /\ \A u \in Threads \ {t} : thread_lock'[u] = thread_lock[u]
        /\ UNCHANGED <<engine_stopped, op>> /\ UNCHANGED results
    BY <1>2 DEF PInv, EngineTypes, sse, debugger
  <1>6. Calls'
    <2>1. CASE calls' = << >>
      BY <2>1, CallsEmpty
    <2>2. CASE UNCHANGED kstate /\ \E f \in Frames : /\ f.call \in {"complete", "completing"} /\ f.t = t
                                                     /\ calls' = <<f>> \o calls
      <3>1. PICK f \in Frames : /\ f.call \in {"complete", "completing"} /\ f.t = t
                                /\ calls' = <<f>> \o calls
        BY <2>2
      <3>2. /\ \A h \in Frames : FrameOK (h) => FrameOK (h)'
            /\ Quiet (t)' /\ Born (t)' /\ ~Asked (t)'
        BY <1>1, <1>3, <1>4, <1>5, <2>2, HandledFrames
      <3>3. FrameOK (f)'
        BY <3>1, <3>2 DEF FrameOK
      <3>4. calls \in Seq (Frames) /\ \A h \in Frames : ~InSeq (calls, h)
        BY DEF PInv, Calls, InSeq
      <3> QED  BY <3>1, <3>3, <3>4, CallsPushed
    <2> QED  BY <2>1, <2>2
  <1>7. sigstop' \in [Threads -> BOOLEAN] /\ busy' \in BOOLEAN /\ hung' \in BOOLEAN
    BY ControlTypes
  <1> QED  BY <1>1, <1>3, <1>4, <1>5, <1>6, <1>7, HandledStep

LEMMA DecideCalls ==
    ASSUME calls = << >>, NEW t \in Threads, Decide (t)
    PROVE  \/ UNCHANGED kstate /\ calls' = << >>
           \/ Go ({t}) /\ calls' = << >>
           \/ /\ UNCHANGED kstate
              /\ \E f \in Frames : /\ f.call \in {"complete", "completing"} /\ f.t = t
                                   /\ calls' = <<f>> \o calls
  <1>1. /\ Complete (t, "stop") \in Frames /\ Complete (t, "stop").call = "complete"
        /\ Complete (t, "stop").t = t
    <2>1. "stop" \in Ends
      BY DEF Ends
    <2> QED  BY <2>1, NewFrames, ProcessOpsAssumption
  <1> QED  BY <1>1 DEF Decide, Throw, Call

LEMMA ProcessPendingStep ==
    ASSUME PInv, NEW t \in Threads, ProcessPending (t)
    PROVE  PInv'
  <1>1. /\ calls = << >> /\ t \in pending_events /\ busy /\ Decide (t)
        /\ pending_events' = pending_events \ {t}
        /\ UNCHANGED <<word, sigstop, child, held, busy, from_wait, hung, sse, process, debugger, command>>
    BY DEF ProcessPending
  <1>2. ~Quiet (t) /\ kstate[t] # "running" /\ held.t # t /\ word[t] = "none"
    BY <1>1 DEF PInv, Events, Event, Quiet
  <1>3. child[t] \notin Threads
    BY <1>2 DEF PInv, Children
  <1>4. busy' = TRUE /\ from_wait' \in BOOLEAN
    BY <1>1, ControlTypes
  <1> QED  BY <1>1, <1>2, <1>3, <1>4, DecideCalls, DecidedStep

(* The event of the wait thread.                                            *)
LEMMA ProcessEventStep ==
    ASSUME PInv, ProcessEvent, held.w # "spawn"
    PROVE  PInv'
  <1>1. /\ ~busy /\ held # NoEvent /\ busy' = TRUE /\ from_wait' = TRUE /\ held' = NoEvent
        /\ child' = [child EXCEPT ![held.t] = NoThread]
        /\ UNCHANGED <<word, sigstop, hung, pending_events, thread_lock, command>>
        /\ UNCHANGED <<engine_stopped, op, process, debugger>>
    BY DEF ProcessEvent
  <1>2. PICK t \in Threads : t = held.t
    BY <1>1 DEF PInv, TargetTypes
  <1>3. calls = << >>
    BY <1>1 DEF PInv, EngineTypes
  <1>4. ~Quiet (t) /\ kstate[t] # "running" /\ word[t] = "none" /\ t \notin pending_events
    BY <1>2 DEF PInv, Events, Event, Quiet
  <1>5. child[t] \notin Threads
    BY <1>2, <1>4 DEF PInv, Children
  <1>6. UNCHANGED child
    BY <1>1, <1>2, <1>5 DEF PInv, TargetTypes
  <1>7. /\ (UNCHANGED held /\ held.t # t) \/ (held' = NoEvent /\ held.t \in {t, NoThread})
        /\ pending_events' = pending_events \ {t}
        /\ UNCHANGED <<word, child, sigstop, sse, process, debugger, command, hung>>
        /\ busy' = TRUE /\ from_wait' \in BOOLEAN
    BY <1>1, <1>2, <1>4, <1>6 DEF sse
  <1>8. \A x \in Ends : /\ Complete (t, x) \in Frames /\ Completing (t, x) \in Frames
                        /\ Complete (t, x).call = "complete" /\ Complete (t, x).t = t
                        /\ Completing (t, x).call = "completing" /\ Completing (t, x).t = t
    BY NewFrames, ProcessOpsAssumption
  <1>9. \A f \in Frames : <<f>> \o calls = <<f>>
    BY <1>3
  <1>10. \/ UNCHANGED kstate /\ calls' = << >>
         \/ Go ({t}) /\ calls' = << >>
         \/ /\ UNCHANGED kstate
            /\ \E f \in Frames : /\ f.call \in {"complete", "completing"} /\ f.t = t
                                 /\ calls' = <<f>> \o calls
    <2>1. CASE Decide (t)
      BY <1>3, <2>1, DecideCalls
    <2>2. CASE UNCHANGED kstate /\ calls' = IF op[t] = Null THEN calls ELSE <<Complete (t, "stop")>>
      <3>1. CASE op[t] = Null
        BY <1>3, <2>2, <3>1
      <3>2. CASE op[t] # Null
        <4>1. "stop" \in Ends
          BY DEF Ends
        <4> QED  BY <1>8, <1>9, <2>2, <3>2, <4>1
      <3> QED  BY <3>1, <3>2
    <2>3. CASE /\ UNCHANGED kstate
               /\ calls' = <<IF op[t] = Null THEN Completing (t, "exit") ELSE Complete (t, "exit")>>
      <3>1. "exit" \in Ends
        BY DEF Ends
      <3>2. CASE op[t] = Null
        BY <1>8, <1>9, <2>3, <3>1, <3>2
      <3>3. CASE op[t] # Null
        BY <1>8, <1>9, <2>3, <3>1, <3>3
      <3> QED  BY <3>2, <3>3
    <2> QED  BY <1>2, <2>1, <2>2, <2>3 DEF ProcessEvent
  <1> QED  BY <1>3, <1>4, <1>5, <1>7, <1>10, DecidedStep

-----------------------------------------------------------------------------
(* New threads.                                                             *)

(* The event of t announces its child c.                                    *)
Announces (t, c) ==
    /\ word[t] = "spawn" \/ (held.t = t /\ held.w = "spawn")
    /\ c = child[t] /\ child' = [child EXCEPT ![t] = NoThread]
    /\ word' = [word EXCEPT ![t] = "none"]
    /\ (UNCHANGED held /\ held.t # t) \/ (held' = NoEvent /\ held.t \in {t, NoThread})
    /\ UNCHANGED <<sigstop, pending_events, thread_lock, command>>

(* The processes and threads that the engine knows.                         *)
Adopts (c) ==
    /\ thread_hash' = [thread_hash EXCEPT ![ProcessOf[c]] = @ \cup {c}]
    /\ process_hash' = process_hash \cup {ProcessOf[c]}
    /\ UNCHANGED <<stopped_event, global_operation, global_event>>

LEMMA AnnouncedFacts ==
    ASSUME PInv, NEW t \in Threads, NEW c, Announces (t, c)
    PROVE  /\ c \in Threads /\ c # t /\ ~Born (c) /\ Quiet (c) /\ kstate[c] = "stopped"
           /\ Born (t) /\ Alive (t) /\ ~Quiet (t) /\ ~engine_stopped[t] /\ ~thread_lock[t] /\ ~Asked (t)
           /\ t \notin pending_events /\ kstate[t] # "running" /\ kstate[t] # "absent"
           /\ ~Alive (c) /\ engine_stopped[c] /\ ~thread_lock[c] /\ op[c] = Null
           /\ ProcessOf[c] = ProcessOf[t] \/ MainOf[ProcessOf[c]] = c
           /\ \A u \in Threads : child[u] = c => u = t
  <1>1. /\ c \in Threads /\ kstate[c] = "stopped" /\ child[t] = c
        /\ ProcessOf[c] = ProcessOf[t] \/ MainOf[ProcessOf[c]] = c
        /\ \A u \in Threads : child[u] = c => u = t
    BY DEF PInv, Children, Announces
  <1>2. ~Born (c)
    BY <1>1 DEF Born
  <1>3. Quiet (c) /\ ~Alive (c) /\ engine_stopped[c] /\ ~thread_lock[c] /\ op[c] = Null
    BY <1>1, <1>2 DEF PInv, Events, Children
  <1>4. Event (t)
    BY DEF Announces, Event
  <1>5. /\ Born (t) /\ Alive (t) /\ ~Quiet (t) /\ ~engine_stopped[t] /\ ~thread_lock[t] /\ ~Asked (t)
        /\ t \notin pending_events /\ kstate[t] # "running" /\ kstate[t] # "absent"
    BY <1>4 DEF PInv, Events, Quiet
  <1> QED  BY <1>1, <1>2, <1>3, <1>5

(* What it does to the threads, if only t and c may be resumed.             *)
LEMMA AnnouncedView ==
    ASSUME PInv, NEW t \in Threads, NEW c, Announces (t, c),
           kstate' \in [Threads -> {"absent", "running", "stopped", "dead"}],
           \A u \in Threads \ {t, c} : kstate'[u] = kstate[u],
           kstate'[t] \in {kstate[t], "running"}, kstate'[c] \in {"stopped", "running"}
    PROVE  /\ TargetTypes'
           /\ word'[t] = "none" /\ held'.t # t /\ child'[t] = NoThread
           /\ \A u \in Threads \ {t} :
                 /\ word'[u] = word[u] /\ child'[u] = child[u]
                 /\ held'.t = u <=> held.t = u
                 /\ held'.t = u /\ held'.w = "spawn" <=> held.t = u /\ held.w = "spawn"
           /\ \A u \in Threads : Event (u)' <=> Event (u) /\ u # t
           /\ \A u \in Threads \ {t, c} : Quiet (u)' <=> Quiet (u)
           /\ Quiet (t)' <=> kstate'[t] # "running"
           /\ Quiet (c)' <=> kstate'[c] # "running"
           /\ \A u \in Threads : Born (u)' <=> Born (u) \/ u = c
           /\ \A u : Asked (u)' <=> Asked (u)
  <1>1. /\ c \in Threads /\ c # t /\ ~Born (c) /\ Quiet (c) /\ kstate[c] = "stopped"
        /\ Born (t) /\ t \notin pending_events /\ kstate[t] # "absent"
        /\ \A u \in Threads : child[u] = c => u = t
    BY AnnouncedFacts
  <1>2. /\ word' \in [Threads -> Words] /\ word'[t] = "none"
        /\ child' \in [Threads -> Threads \cup {NoThread}] /\ child'[t] = NoThread
        /\ \A u \in Threads \ {t} : word'[u] = word[u] /\ child'[u] = child[u]
    BY DEF Announces, PInv, TargetTypes, Words
  <1>3. /\ held'.t # t
        /\ \A u \in Threads \ {t} : /\ held'.t = u <=> held.t = u
                                    /\ held'.t = u /\ held'.w = "spawn" <=> held.t = u /\ held.w = "spawn"
    BY ProcessOpsAssumption DEF Announces, NoEvent
  <1>4. TargetTypes'
    BY <1>2 DEF PInv, TargetTypes, Announces
  <1>5. \A u \in Threads : Event (u)' <=> Event (u) /\ u # t
    BY <1>2, <1>3 DEF Event
  <1>6. UNCHANGED pending_events
    BY DEF Announces
  <1>7. /\ \A u \in Threads \ {t, c} : Quiet (u)' <=> Quiet (u)
        /\ Quiet (t)' <=> kstate'[t] # "running"
        /\ Quiet (c)' <=> kstate'[c] # "running"
    BY <1>1, <1>5, <1>6 DEF Quiet
  <1>8. \A u \in Threads : Born (u)' <=> Born (u) \/ u = c
    <2> SUFFICES ASSUME NEW u \in Threads PROVE Born (u)' <=> Born (u) \/ u = c
      OBVIOUS
    <2>1. kstate'[u] = "absent" <=> kstate[u] = "absent"
      BY <1>1
    <2>2. CASE u = c
      <3>1. \A v \in Threads : child'[v] # c
        BY <1>1, <1>2, ProcessOpsAssumption
      <3> QED  BY <1>1, <2>1, <2>2, <3>1 DEF Born
    <2>3. CASE u # c
      <3>1. child[t] = c
        BY DEF Announces
      <3>2. (\A v \in Threads : child'[v] # u) <=> (\A v \in Threads : child[v] # u)
        BY <1>2, <2>3, <3>1, ProcessOpsAssumption
      <3> QED  BY <2>1, <2>3, <3>2 DEF Born
    <2> QED  BY <2>2, <2>3
  <1>9. \A u : Asked (u)' <=> Asked (u)
    BY DEF Announces, Asked
  <1> QED  BY <1>2, <1>3, <1>4, <1>5, <1>7, <1>8, <1>9

(* What it does to the results: a fork may add one, of the new process.     *)
Extends (p) ==
    /\ results' \in Seq (Results) /\ Len (results') <= MaxResults
    /\ DOMAIN results \subseteq DOMAIN results'
    /\ \A i \in DOMAIN results : results'[i] = results[i]
    /\ \A i \in DOMAIN results' \ DOMAIN results : results'[i].process = p

LEMMA ExtendedSettled ==
    ASSUME PInv, NEW p, Extends (p), NEW u \in Threads, op'[u] = op[u]
    PROVE  Settled (u)' <=> Settled (u)
  <1>1. op[u] \in {Own, Null} \cup DOMAIN results
    BY DEF PInv, ProcessTypes, Indices
  <1> QED  BY <1>1 DEF Settled, Fresh, Extends

(* CHILD_CREATED_THREAD and CHILD_FORKED: the new thread runs with the      *)
(* operation of the process, or with a result of its own.                   *)
Joins (t, c, q, x) ==
    /\ Adopts (c) /\ Extends (q)
    /\ x \in {Own} \cup Indices' /\ op' = [op EXCEPT ![c] = x]
    /\ current_state' \in [Processes -> {"single", "running", "stopping", "stopped", "exited"}]
    /\ current_operation' \in [Processes -> Indices']
    /\ \A p \in Processes : p # q \/ q = ProcessOf[t] =>
          current_state'[p] = current_state[p] /\ current_operation'[p] = current_operation[p]
    /\ current_state'[q] = "running" => current_operation'[q] # Null
    /\ q = ProcessOf[t] /\ stopped_event[q] => x \in {Own, Null}

(* The engine runs them, or leaves them as they are.                        *)
Wakes (t, c, b) ==
    /\ kstate' \in [Threads -> {"absent", "running", "stopped", "dead"}]
    /\ \A u \in Threads \ {t, c} : kstate'[u] = kstate[u]
    /\ kstate'[t] \in {kstate[t], "running"} /\ kstate'[c] \in {"stopped", "running"}
    /\ engine_stopped' = [engine_stopped EXCEPT ![c] = b] /\ (kstate'[c] = "running" => ~b)

LEMMA AdoptedStep ==
    ASSUME PInv, \A u \in Threads : ~InHand (u), Calls',
           NEW t \in Threads, NEW c, Announces (t, c), NEW q, q = ProcessOf[c],
           NEW b \in BOOLEAN, Wakes (t, c, b), NEW x, Joins (t, c, q, x), b => x = Null,
           q # ProcessOf[t] /\ kstate'[c] = "running" => current_state'[q] # "stopped",
           busy' \in BOOLEAN, from_wait' \in BOOLEAN, hung' \in BOOLEAN, ~busy' => calls' = << >>
    PROVE  PInv'
  <1> /\ kstate' \in [Threads -> {"absent", "running", "stopped", "dead"}]
      /\ \A u \in Threads \ {t, c} : kstate'[u] = kstate[u]
      /\ kstate'[t] \in {kstate[t], "running"} /\ kstate'[c] \in {"stopped", "running"}
      /\ engine_stopped' = [engine_stopped EXCEPT ![c] = b] /\ (kstate'[c] = "running" => ~b)
    BY DEF Wakes
  <1> /\ Adopts (c) /\ Extends (q)
      /\ x \in {Own} \cup Indices' /\ op' = [op EXCEPT ![c] = x]
      /\ current_state' \in [Processes -> {"single", "running", "stopping", "stopped", "exited"}]
      /\ current_operation' \in [Processes -> Indices']
      /\ \A p \in Processes : p # q \/ q = ProcessOf[t] =>
            current_state'[p] = current_state[p] /\ current_operation'[p] = current_operation[p]
      /\ current_state'[q] = "running" => current_operation'[q] # Null
      /\ q = ProcessOf[t] /\ stopped_event[q] => x \in {Own, Null}
    BY DEF Joins
  <1>1. /\ c \in Threads /\ c # t /\ ~Born (c) /\ Quiet (c) /\ kstate[c] = "stopped"
        /\ Born (t) /\ Alive (t) /\ ~Quiet (t) /\ ~engine_stopped[t] /\ ~thread_lock[t] /\ ~Asked (t)
        /\ t \notin pending_events /\ kstate[t] # "running" /\ kstate[t] # "absent"
        /\ ~Alive (c) /\ engine_stopped[c] /\ ~thread_lock[c] /\ op[c] = Null
        /\ ProcessOf[c] = ProcessOf[t] \/ MainOf[ProcessOf[c]] = c
        /\ \A u \in Threads : child[u] = c => u = t
    BY AnnouncedFacts
  <1>2. /\ TargetTypes'
        /\ word'[t] = "none" /\ held'.t # t /\ child'[t] = NoThread
        /\ \A u \in Threads \ {t} :
              /\ word'[u] = word[u] /\ child'[u] = child[u]
              /\ held'.t = u <=> held.t = u
              /\ held'.t = u /\ held'.w = "spawn" <=> held.t = u /\ held.w = "spawn"
        /\ \A u \in Threads : Event (u)' <=> Event (u) /\ u # t
        /\ \A u \in Threads \ {t, c} : Quiet (u)' <=> Quiet (u)
        /\ Quiet (t)' <=> kstate'[t] # "running"
        /\ Quiet (c)' <=> kstate'[c] # "running"
        /\ \A u \in Threads : Born (u)' <=> Born (u) \/ u = c
        /\ \A u : Asked (u)' <=> Asked (u)
    BY AnnouncedView
  <1>3. q \in Processes /\ UNCHANGED <<sigstop, pending_events, thread_lock, command>>
    BY <1>1, ProcessOpsAssumption DEF Announces
  <1>4. /\ engine_stopped' \in [Threads -> BOOLEAN] /\ engine_stopped'[c] = b
        /\ \A u \in Threads \ {c} : engine_stopped'[u] = engine_stopped[u]
    BY <1>1 DEF PInv, EngineTypes
  <1>5. op' \in [Threads -> {Own} \cup Indices'] /\ op'[c] = x /\ \A u \in Threads \ {c} : op'[u] = op[u]
    <2>1. Indices \subseteq Indices'
      BY DEF Extends, Indices
    <2> QED  BY <1>1, <2>1 DEF PInv, ProcessTypes
  <1>6. /\ thread_hash' \in [Processes -> SUBSET Threads]
        /\ thread_hash'[q] = thread_hash[q] \cup {c}
        /\ \A p \in Processes \ {q} : thread_hash'[p] = thread_hash[p]
        /\ process_hash' = process_hash \cup {q}
        /\ UNCHANGED <<stopped_event, global_operation, global_event>>
    BY <1>1, <1>3 DEF Adopts, PInv, ProcessTypes
  <1>7. \A u \in Threads : Alive (u)' <=> Alive (u) \/ u = c
    BY <1>3, <1>6, ProcessOpsAssumption DEF Alive
  <1>8. \A u \in Threads \ {c} : Settled (u)' <=> Settled (u)
    BY <1>5, ExtendedSettled
  <1>9. x \in {Own, Null} => Settled (c)'
    BY <1>5 DEF Settled, Fresh
  <1>10. q # ProcessOf[t] => thread_hash[q] = {} /\ ~stopped_event[q]
    <2>1. q # ProcessOf[t] => MainOf[q] = c
      BY <1>1
    <2>2. q # ProcessOf[t] => ~Born (MainOf[q])
      BY <1>1, <2>1, Zenon
    <2> QED  BY <1>3, <2>2 DEF PInv, NewProcesses
  <1>11. EngineTypes'
    BY <1>3, <1>4 DEF PInv, EngineTypes
  <1>12. ProcessTypes'
    <2>1. Indices \subseteq Indices'
      BY DEF Extends, Indices
    <2>2. process_hash' \subseteq Processes /\ global_event' \in BOOLEAN
          /\ stopped_event' \in [Processes -> BOOLEAN]
      BY <1>3, <1>6 DEF PInv, ProcessTypes
    <2>3. global_operation' \in Indices'
      BY <1>6, <2>1 DEF PInv, ProcessTypes
    <2>4. \A p \in Processes : \A u \in thread_hash'[p] : ProcessOf[u] = p
      BY <1>6 DEF PInv, ProcessTypes
    <2> QED  BY <1>5, <1>6, <2>2, <2>3, <2>4 DEF ProcessTypes, Extends
  <1>13. Events'
    <2> SUFFICES ASSUME NEW u \in Threads
                 PROVE  /\ (Event (u) \/ u \in pending_events)' =>
                              kstate'[u] # "running" /\ kstate'[u] # "absent"
                        /\ word'[u] # "none" => held'.t # u
                        /\ u \in pending_events' => ~Event (u)'
                        /\ ~Quiet (u)' => Born (u)' /\ Alive (u)' /\ ~engine_stopped'[u] /\ ~thread_lock'[u]
                        /\ Asked (u)' => Quiet (u)' /\ Born (u)' /\ ~engine_stopped'[u] /\ ~thread_lock'[u]
      BY DEF Events
    <2>1. CASE u = t
      BY <1>1, <1>2, <1>3, <1>4, <1>7, <2>1
    <2>2. CASE u = c
      <3>1. ~Event (c) /\ c \notin pending_events /\ ~Asked (c)
        BY <1>1 DEF Quiet, PInv, Events
      <3>2. word'[c] = "none"
        BY <1>1, <1>2, <3>1 DEF Event
      <3> QED  BY <1>1, <1>2, <1>3, <1>4, <1>7, <2>2, <3>1, <3>2
    <2>3. CASE u # t /\ u # c
      <3>1. /\ Quiet (u)' <=> Quiet (u)
            /\ Event (u)' <=> Event (u)
            /\ Born (u)' <=> Born (u)
            /\ Alive (u)' <=> Alive (u)
            /\ Asked (u)' <=> Asked (u)
            /\ u \in pending_events' <=> u \in pending_events
            /\ word'[u] = word[u] /\ (held'.t = u <=> held.t = u) /\ kstate'[u] = kstate[u]
            /\ engine_stopped'[u] = engine_stopped[u] /\ thread_lock'[u] = thread_lock[u]
        BY <1>2, <1>3, <1>4, <1>7, <2>3
      <3> QED  BY <3>1 DEF PInv, Events
    <2> QED  BY <2>1, <2>2, <2>3
  <1>14. Children'
    <2> SUFFICES ASSUME NEW u \in Threads
                 PROVE  /\ child'[u] \in Threads <=> word'[u] = "spawn" \/ (held'.t = u /\ held'.w = "spawn")
                        /\ child'[u] \in Threads =>
                              /\ kstate'[child'[u]] = "stopped"
                              /\ \/ ProcessOf[child'[u]] = ProcessOf[u]
                                 \/ MainOf[ProcessOf[child'[u]]] = child'[u]
                              /\ \A v \in Threads : child'[v] = child'[u] => v = u
                        /\ ~Born (u)' => ~Alive (u)' /\ engine_stopped'[u] /\ ~thread_lock'[u] /\ op'[u] = Null
      BY DEF Children
    <2>1. CASE u = t
      BY <1>1, <1>2, <2>1, ProcessOpsAssumption
    <2>2. CASE u # t
      <3>1. child'[u] = child[u] /\ word'[u] = word[u]
        BY <1>2, <2>2
      <3>2. child[u] # t /\ child[u] # c
        BY <1>1, <2>2 DEF Born
      <3>3. child'[u] \in Threads => kstate'[child[u]] = "stopped"
        BY <3>1, <3>2 DEF PInv, Children
      <3>4. child'[u] \in Threads => \A v \in Threads : child'[v] = child'[u] => v = u
        BY <1>2, <3>1, ProcessOpsAssumption DEF PInv, Children
      <3>5. ~Born (u)' => ~Alive (u)' /\ engine_stopped'[u] /\ ~thread_lock'[u] /\ op'[u] = Null
        BY <1>1, <1>2, <1>3, <1>4, <1>5, <1>7 DEF PInv, Children
      <3> QED  BY <1>2, <2>2, <3>1, <3>3, <3>4, <3>5 DEF PInv, Children
    <2> QED  BY <2>1, <2>2
  <1>15. NewProcesses'
    <2> SUFFICES ASSUME NEW p \in Processes
                 PROVE  /\ ~Born (MainOf[p])' =>
                              /\ ~stopped_event'[p] /\ thread_hash'[p] = {} /\ p \notin process_hash'
                              /\ \A u \in Threads \ {MainOf[p]} : ProcessOf[u] = p => kstate'[u] = "absent"
                        /\ thread_hash'[p] # {} => p \in process_hash'
      BY DEF NewProcesses
    <2>1. CASE p = q
      <3>1. Born (MainOf[q])
            \/ MainOf[q] = c
        <4>1. CASE ProcessOf[t] = q
          <5>1. ~Born (MainOf[q]) => kstate[t] = "absent" \/ t = MainOf[q]
            BY <1>3, <4>1 DEF PInv, NewProcesses
          <5>2. CASE t = MainOf[q]
            BY <1>1, <5>2, Zenon
          <5> QED  BY <1>1, <5>1, <5>2
        <4>2. CASE ProcessOf[t] # q
          BY <1>1, <4>2
        <4> QED  BY <4>1, <4>2
      <3>2. Born (MainOf[q])'
        BY <1>2, <1>3, <3>1, ProcessOpsAssumption
      <3> QED  BY <1>6, <2>1, <3>2
    <2>2. CASE p # q
      <3>1. thread_hash'[p] = thread_hash[p] /\ (p \in process_hash' <=> p \in process_hash)
            /\ stopped_event'[p] = stopped_event[p]
        BY <1>6, <2>2
      <3>2. Born (MainOf[p]) => Born (MainOf[p])'
        BY <1>2, ProcessOpsAssumption
      <3>3. \A u \in Threads : kstate[u] = "absent" => kstate'[u] = "absent"
        BY <1>1
      <3> QED  BY <3>1, <3>2, <3>3 DEF PInv, NewProcesses
    <2> QED  BY <2>1, <2>2
  <1>16. Born (MainOf[q])'
    <2>1. q \in process_hash'
      BY <1>6
    <2> QED  BY <1>3, <1>15, <2>1, ProcessOpsAssumption DEF NewProcesses
  <1>17. Owners'
    <2> SUFFICES ASSUME NEW i \in DOMAIN results' PROVE Born (MainOf[results[i].process])'
      BY DEF Owners
    <2>1. CASE i \in DOMAIN results
      <3>1. results'[i] = results[i] /\ MainOf[results[i].process] \in Threads
        BY <2>1, OwnerThreads DEF Extends
      <3>2. PICK m \in Threads : m = MainOf[results[i].process]
        BY <3>1
      <3>3. Born (m)
        BY <2>1, <3>2 DEF PInv, Owners
      <3>4. Born (m)'
        BY <1>2, <3>3
      <3> QED  BY <3>1, <3>2, <3>4 DEF Born
    <2>2. CASE i \notin DOMAIN results
      <3>1. results'[i].process = q
        BY <2>2 DEF Extends
      <3> QED  BY <1>16, <3>1 DEF Born
    <2> QED  BY <2>1, <2>2
  <1>18. Stopped'
    BY <1>4, <1>8, <1>9 DEF PInv, Stopped
  <1>19. SignalledDone'
    <2> SUFFICES ASSUME NEW p \in Processes
                 PROVE  /\ current_state'[p] = "running" => current_operation'[p] # Null
                        /\ stopped_event[p] =>
                              /\ current_state'[p] # "running" /\ current_operation'[p] = Null
                              /\ \A u \in thread_hash'[p] \ Daemons : Settled (u)'
      BY <1>6 DEF SignalledDone, User
    <2>1. CASE p # q \/ q = ProcessOf[t]
      <3>1. current_state'[p] = current_state[p] /\ current_operation'[p] = current_operation[p]
        BY <2>1
      <3>2. stopped_event[p] => \A u \in thread_hash[p] \ Daemons : u # c => Settled (u)'
        BY <1>8, ControlTypes DEF PInv, SignalledDone, User
      <3>3. stopped_event[p] => \A u \in thread_hash'[p] \ Daemons : Settled (u)'
        <4>1. CASE p # q
          <5>1. c \notin thread_hash[p]
            BY <4>1 DEF PInv, ProcessTypes
          <5> QED  BY <1>6, <3>2, <4>1, <5>1
        <4>2. CASE p = q /\ q = ProcessOf[t]
          BY <1>6, <1>9, <3>2, <4>2
        <4> QED  BY <2>1, <4>1, <4>2
      <3> QED  BY <3>1, <3>3 DEF PInv, SignalledDone
    <2>2. CASE p = q /\ q # ProcessOf[t]
      BY <1>10, <2>2
    <2> QED  BY <2>1, <2>2
  <1>20. StoppedQuiet'
    <2> SUFFICES ASSUME Daemons = {}, NEW p \in Processes, current_state'[p] = "stopped",
                        NEW u \in thread_hash'[p]
                 PROVE  Quiet (u)'
      BY DEF StoppedQuiet
    <2>1. CASE p # q \/ q = ProcessOf[t]
      <3>1. current_state[p] = "stopped"
        BY <2>1
      <3>2. \A v \in thread_hash[p] : Quiet (v)
        BY <3>1 DEF PInv, StoppedQuiet
      <3>3. p # ProcessOf[t]
        BY <1>1, <3>2 DEF Alive
      <3>4. p # q /\ u \in thread_hash[p] /\ u \in Threads
        BY <1>6, <2>1, <3>3, ControlTypes
      <3>5. u # t /\ u # c
        BY <1>1, <3>2, <3>4 DEF PInv, ProcessTypes
      <3> QED  BY <1>2, <3>2, <3>4, <3>5
    <2>2. CASE p = q /\ q # ProcessOf[t]
      BY <1>2, <1>6, <1>10, <2>2
    <2> QED  BY <2>1, <2>2
  <1> QED
    BY <1>2, <1>11, <1>12, <1>13, <1>14, <1>15, <1>17, <1>18, <1>19, <1>20 DEF PInv

LEMMA SameResults ==
    ASSUME PInv, UNCHANGED results, NEW p
    PROVE  Extends (p) /\ Indices' = Indices
  BY DEF Extends, Indices, PInv, ProcessTypes

LEMMA NewResults ==
    ASSUME PInv, NEW p \in Processes, NEW m \in {"process", "global"}, NEW i, i = Len (results) + 1,
           i <= MaxResults, results' = Append (results, NewResult (m, p))
    PROVE  Extends (p) /\ Indices \subseteq Indices' /\ i \in Indices' /\ i # Null
  <1>1. results \in Seq (Results) /\ NewResult (m, p) \in Results /\ NewResult (m, p).process = p
    BY DEF PInv, ProcessTypes, NewResult, Results
  <1> DEFINE r == NewResult (m, p)
  <1> HIDE DEF r
  <1>2. r \in Results /\ r.process = p /\ results' = Append (results, r)
    BY <1>1 DEF r
  <1>3. /\ Len (results) \in Nat /\ DOMAIN results = 1 .. Len (results)
        /\ results' \in Seq (Results) /\ Len (results') = Len (results) + 1
        /\ DOMAIN results' = 1 .. Len (results) + 1
    BY <1>1, <1>2
  <1>4. /\ \A k \in DOMAIN results : results'[k] = results[k]
        /\ results'[i] = r
    BY <1>1, <1>2, <1>3
  <1>5. DOMAIN results \subseteq DOMAIN results' /\ i \in DOMAIN results' /\ i # Null
    BY <1>3 DEF Null
  <1>6. \A k \in DOMAIN results' \ DOMAIN results : k = i
    BY <1>3
  <1> QED  BY <1>2, <1>3, <1>4, <1>5, <1>6 DEF Extends, Indices

LEMMA CreatedJoins ==
    ASSUME PInv, NEW t \in Threads, NEW c, Announces (t, c), ThreadCreated (t, c)
    PROVE  /\ engine_stopped' = [engine_stopped EXCEPT ![c] = FALSE] /\ ProcessOf[c] = ProcessOf[t]
           /\ \E x : Joins (t, c, ProcessOf[c], x)
  <1>1. /\ ProcessOf[c] = ProcessOf[t] /\ engine_stopped' = [engine_stopped EXCEPT ![c] = FALSE]
        /\ thread_hash' = [thread_hash EXCEPT ![ProcessOf[c]] = @ \cup {c}]
        /\ op' = [op EXCEPT ![c] = CloneResult (ProcessOf[c])]
        /\ UNCHANGED <<current_state, current_operation, stopped_event>>
        /\ UNCHANGED <<process_hash, global_operation, global_event, results>>
    BY DEF ThreadCreated, debugger
  <1>2. PICK q \in Processes : q = ProcessOf[c]
    BY <1>1, ProcessOpsAssumption
  <1>3. q \in process_hash
    BY <1>1, <1>2, AnnouncedFacts DEF PInv, NewProcesses, Alive
  <1>4. Adopts (c)
    BY <1>1, <1>2, <1>3 DEF Adopts
  <1>5. Extends (q) /\ Indices' = Indices
    BY <1>1, SameResults
  <1>6. PICK x : x = CloneResult (q)
    OBVIOUS
  <1>7. x \in {Own} \cup Indices' /\ (stopped_event[q] => x \in {Own, Null})
    BY <1>5, <1>6 DEF CloneResult, PInv, ProcessTypes, SignalledDone
  <1>8. /\ current_state' \in [Processes -> {"single", "running", "stopping", "stopped", "exited"}]
        /\ current_operation' \in [Processes -> Indices']
        /\ current_state'[q] = "running" => current_operation'[q] # Null
    BY <1>1, <1>5 DEF PInv, ProcessTypes, SignalledDone
  <1>9. Joins (t, c, q, x)
    BY <1>1, <1>2, <1>4, <1>5, <1>6, <1>7, <1>8 DEF Joins
  <1> QED  BY <1>1, <1>2, <1>9

LEMMA ForkedAlone ==
    ASSUME PInv, NEW t \in Threads, NEW c, Announces (t, c), NEW q \in Processes, q = ProcessOf[c],
           q # ProcessOf[t], thread_hash' = [thread_hash EXCEPT ![q] = {c}],
           process_hash' = process_hash \cup {q},
           UNCHANGED <<stopped_event, global_operation, global_event>>
    PROVE  Adopts (c)
  <1>1. MainOf[q] = c /\ ~Born (c)
    BY AnnouncedFacts
  <1>2. ~Born (MainOf[q])
    BY <1>1
  <1>3. thread_hash[q] = {}
    BY <1>2 DEF PInv, NewProcesses
  <1> QED  BY <1>3 DEF Adopts, PInv, ProcessTypes

LEMMA ForkedJoins ==
    ASSUME PInv, NEW t \in Threads, NEW c, Announces (t, c), ChildForked (t, c)
    PROVE  /\ engine_stopped' = [engine_stopped EXCEPT ![c] = FALSE] /\ ProcessOf[c] # ProcessOf[t]
           /\ \E x : Joins (t, c, ProcessOf[c], x)
           /\ current_state'[ProcessOf[c]] # "stopped"
  <1>1. PICK p \in Processes, q \in Processes : p = ProcessOf[t] /\ q = ProcessOf[c]
    BY AnnouncedFacts, ProcessOpsAssumption
  <1>2. PICK single \in BOOLEAN : single <=> current_state[p] = "single"
    OBVIOUS
  <1>3. PICK global \in BOOLEAN :
           global <=> ~single /\ results[current_operation[p]].model = "global"
    OBVIOUS
  <1>4. PICK i : i = IF global THEN current_operation[p] ELSE Len (results) + 1
    OBVIOUS
  <1>5. /\ p # q /\ current_state[p] \in {"single", "running"} /\ (single \/ i <= MaxResults)
        /\ process_hash' = process_hash \cup {q}
        /\ thread_hash' = [thread_hash EXCEPT ![q] = {c}]
        /\ current_state' = [current_state EXCEPT ![q] = current_state[p]]
        /\ current_operation' = [current_operation EXCEPT ![q] = IF single THEN Null ELSE i]
        /\ results' = IF single \/ global THEN results ELSE Append (results, NewResult ("process", q))
        /\ engine_stopped' = [engine_stopped EXCEPT ![c] = FALSE]
        /\ op' = [op EXCEPT ![c] = IF single THEN Own ELSE i]
        /\ UNCHANGED <<stopped_event, global_operation, global_event>>
    BY <1>1, <1>2, <1>3, <1>4 DEF ChildForked
  <1>6. Adopts (c)
    BY <1>1, <1>5, ForkedAlone
  <1>7. /\ Extends (q) /\ Indices \subseteq Indices'
        /\ ~single => i \in Indices' /\ i # Null
    <2>1. CASE single \/ global
      <3>1. Extends (q) /\ Indices' = Indices
        BY <1>5, <2>1, SameResults
      <3>2. ~single => current_operation[p] \in Indices /\ current_operation[p] # Null
        BY <1>2, <1>5 DEF PInv, ProcessTypes, SignalledDone
      <3> QED  BY <1>4, <2>1, <3>1, <3>2
    <2>2. CASE ~single /\ ~global
      BY <1>4, <1>5, <2>2, NewResults
    <2> QED  BY <2>1, <2>2
  <1>8. PICK x : x = IF single THEN Own ELSE i
    OBVIOUS
  <1>9. /\ current_state' \in [Processes -> {"single", "running", "stopping", "stopped", "exited"}]
        /\ current_state'[q] = current_state[p]
        /\ \A r \in Processes \ {q} : current_state'[r] = current_state[r]
    BY <1>5, ControlTypes
  <1>10. /\ current_operation' \in [Processes -> Indices']
         /\ current_operation'[q] = IF single THEN Null ELSE i
         /\ \A r \in Processes \ {q} : current_operation'[r] = current_operation[r]
    <2>1. Null \in Indices'
      BY DEF Indices
    <2> QED  BY <1>5, <1>7, <2>1, ControlTypes
  <1>11. current_state'[q] = "running" => current_operation'[q] # Null
    BY <1>2, <1>7, <1>9, <1>10
  <1>12. Joins (t, c, q, x)
    BY <1>1, <1>5, <1>6, <1>7, <1>8, <1>9, <1>10, <1>11 DEF Joins
  <1>13. current_state'[q] # "stopped"
    BY <1>5, <1>9
  <1> QED  BY <1>1, <1>5, <1>12, <1>13

LEMMA FailedJoins ==
    ASSUME PInv, NEW t \in Threads, NEW c, Announces (t, c), ForkFails (t, c)
    PROVE  engine_stopped' = [engine_stopped EXCEPT ![c] = TRUE] /\ Joins (t, c, ProcessOf[c], Null)
  <1>1. PICK q \in Processes : q = ProcessOf[c]
    BY AnnouncedFacts, ProcessOpsAssumption
  <1>2. /\ q # ProcessOf[t] /\ process_hash' = process_hash \cup {q}
        /\ thread_hash' = [thread_hash EXCEPT ![q] = {c}]
        /\ UNCHANGED <<engine_stopped, op, current_state, current_operation, stopped_event>>
        /\ UNCHANGED <<results, global_operation, global_event>>
    BY <1>1 DEF ForkFails
  <1>3. Adopts (c)
    BY <1>1, <1>2, ForkedAlone
  <1>4. Extends (q) /\ Indices' = Indices
    BY <1>2, SameResults
  <1>5. c \in Threads /\ engine_stopped[c] /\ op[c] = Null
    BY AnnouncedFacts
  <1>6. engine_stopped' = [engine_stopped EXCEPT ![c] = TRUE] /\ op' = [op EXCEPT ![c] = Null]
    BY <1>2, <1>5 DEF PInv, EngineTypes, ProcessTypes
  <1>7. Null \in {Own} \cup Indices'
    BY DEF Indices
  <1>8. Joins (t, c, q, Null)
    BY <1>1, <1>2, <1>3, <1>4, <1>6, <1>7 DEF Joins, PInv, ProcessTypes, SignalledDone
  <1> QED  BY <1>1, <1>6, <1>8

LEMMA SpawnedStep ==
    ASSUME PInv, ProcessEvent, held.w = "spawn"
    PROVE  PInv'
  <1>1. /\ ~busy /\ held # NoEvent /\ busy' = TRUE /\ from_wait' = TRUE /\ held' = NoEvent
        /\ child' = [child EXCEPT ![held.t] = NoThread]
        /\ UNCHANGED <<word, sigstop, hung, pending_events, thread_lock, command, calls>>
    BY DEF ProcessEvent
  <1>2. PICK t \in Threads : t = held.t
    BY <1>1 DEF PInv, TargetTypes
  <1>3. PICK c : c = child[t]
    OBVIOUS
  <1>4. calls' = << >> /\ calls = << >>
    BY <1>1 DEF PInv, EngineTypes
  <1>5. Calls' /\ \A u \in Threads : ~InHand (u)
    BY <1>4, CallsEmpty, NotInHand
  <1>6. word[t] = "none"
    BY <1>2 DEF PInv, Events
  <1>7. word' = [word EXCEPT ![t] = "none"]
    BY <1>1, <1>6 DEF PInv, TargetTypes
  <1>8. Announces (t, c)
    BY <1>1, <1>2, <1>3, <1>7 DEF Announces
  <1>9. c \in Threads /\ c # t /\ kstate[c] = "stopped" /\ kstate[t] # "running" /\ engine_stopped[c]
    BY <1>8, AnnouncedFacts
  <1>10. busy' \in BOOLEAN /\ from_wait' \in BOOLEAN /\ hung' \in BOOLEAN /\ (~busy' => calls' = << >>)
    BY <1>1, ControlTypes
  <1>11. kstate \in [Threads -> {"absent", "running", "stopped", "dead"}]
    BY DEF PInv, TargetTypes
  <1>12. PICK q : q = ProcessOf[c]
    OBVIOUS
  <1>13. ASSUME engine_stopped' = [engine_stopped EXCEPT ![c] = FALSE], Go ({t, c})
         PROVE  Wakes (t, c, FALSE)
    <2>1. /\ kstate' \in [Threads -> {"absent", "running", "stopped", "dead"}]
          /\ \A u \in Threads \ {t, c} : kstate'[u] = kstate[u]
          /\ kstate'[t] \in {kstate[t], "running"} /\ kstate'[c] \in {"stopped", "running"}
      BY <1>9, <1>11, <1>13 DEF Go
    <2> QED  BY <1>13, <2>1 DEF Wakes
  <1>14. CASE ThreadCreated (t, c) /\ Go ({t, c})
    <2>1. /\ engine_stopped' = [engine_stopped EXCEPT ![c] = FALSE] /\ q = ProcessOf[t]
          /\ \E x : Joins (t, c, q, x)
      BY <1>8, <1>12, <1>14, CreatedJoins
    <2>2. PICK x : Joins (t, c, q, x)
      BY <2>1
    <2>3. Wakes (t, c, FALSE)
      BY <1>13, <1>14, <2>1
    <2> QED  BY <1>5, <1>8, <1>10, <1>12, <2>1, <2>2, <2>3, AdoptedStep
  <1>15. CASE ChildForked (t, c) /\ Go ({t, c})
    <2>1. /\ engine_stopped' = [engine_stopped EXCEPT ![c] = FALSE] /\ current_state'[q] # "stopped"
          /\ \E x : Joins (t, c, q, x)
      BY <1>8, <1>12, <1>15, ForkedJoins
    <2>2. PICK x : Joins (t, c, q, x)
      BY <2>1
    <2>3. Wakes (t, c, FALSE)
      BY <1>13, <1>15, <2>1
    <2> QED  BY <1>5, <1>8, <1>10, <1>12, <2>1, <2>2, <2>3, AdoptedStep
  <1>16. CASE ForkFails (t, c) /\ UNCHANGED kstate
    <2>1. engine_stopped' = [engine_stopped EXCEPT ![c] = TRUE] /\ Joins (t, c, q, Null)
      BY <1>8, <1>12, <1>16, FailedJoins
    <2>2. Wakes (t, c, TRUE)
      BY <1>9, <1>11, <1>16, <2>1 DEF Wakes
    <2>3. kstate'[c] # "running"
      BY <1>9, <1>16
    <2> QED  BY <1>5, <1>8, <1>10, <1>12, <2>1, <2>2, <2>3, AdoptedStep
  <1> QED  BY <1>2, <1>3, <1>14, <1>15, <1>16 DEF ProcessEvent

(* SuspendUserThreads() meets the event: it interrupts t, and c runs.       *)
LEMMA SpawnedFrames ==
    ASSUME PInv, calls # << >>, top.call = "suspend", NEW t \in Threads, NEW c, t \in top.todo,
           Announces (t, c), NEW b, Wakes (t, c, b), kstate'[t] = kstate[t],
           NEW q, NEW x, Joins (t, c, q, x),
           calls' = <<Complete (t, "null"), Rest (t)>> \o Tail (calls)
    PROVE  Calls'
  <1>1. /\ c \in Threads /\ c # t /\ ~Born (c) /\ Born (t) /\ ~Asked (t) /\ ~Quiet (t)
        /\ kstate[t] # "running"
    BY AnnouncedFacts
  <1>2. /\ kstate' \in [Threads -> {"absent", "running", "stopped", "dead"}]
        /\ \A u \in Threads \ {t, c} : kstate'[u] = kstate[u]
        /\ kstate'[t] \in {kstate[t], "running"} /\ kstate'[c] \in {"stopped", "running"}
    BY DEF Wakes
  <1>3. /\ \A u \in Threads \ {t, c} : Quiet (u)' <=> Quiet (u)
        /\ Quiet (t)' <=> kstate'[t] # "running"
        /\ \A u \in Threads : Born (u)' <=> Born (u) \/ u = c
        /\ \A u : Asked (u)' <=> Asked (u)
    BY <1>2, AnnouncedView
  <1>4. Quiet (t)' /\ Born (t)' /\ ~Asked (t)'
    BY <1>1, <1>3
  <1>5. \A u \in Threads \ {c} : op'[u] = op[u]
    BY DEF Joins, PInv, ProcessTypes
  <1>6. Extends (q) /\ UNCHANGED command
    BY DEF Joins, Announces
  <1>7. \A u \in Threads : Born (u) => Born (u)' /\ (Quiet (u) => Quiet (u)')
    BY <1>1, <1>3
  <1>8. \A u \in Threads : Born (u) /\ Settled (u) => Settled (u)'
    BY <1>1, <1>5, <1>6, ExtendedSettled
  <1>9. \A u \in Threads : ~InHand (u)
    BY NotInHand
  <1>10. \A f \in Frames : FrameOK (f) => FrameOK (f)'
    BY <1>6, <1>7, <1>8, <1>9, FrameKept
  <1>11. /\ top \in Frames /\ FrameOK (top) /\ Tail (calls) \in Seq (Frames)
         /\ \A h \in Frames : InSeq (Tail (calls), h) => FrameOK (h) /\ h.call # "complete"
    BY CallsTop DEF PInv
  <1>12. PICK g \in Frames : /\ g = Rest (t) /\ g.call = "suspend" /\ g.t = top.t /\ g.p = top.p
                             /\ g.todo = top.todo \ {t} /\ g.snap = top.snap
    <2>1. /\ Rest (t) \in Frames /\ Rest (t).call = "suspend" /\ Rest (t).t = top.t
          /\ Rest (t).p = top.p /\ Rest (t).todo = top.todo \ {t} /\ Rest (t).snap = top.snap
      BY <1>11, RestFrame
    <2> QED  BY <2>1
  <1>13. PICK f \in Frames : f = Complete (t, "null") /\ f.call = "complete" /\ f.t = t
    <2>1. "null" \in Ends
      BY DEF Ends
    <2> QED  BY <2>1, NewFrames, ProcessOpsAssumption
  <1>14. InHand (t)'
    BY <1>11, <1>12, <1>13, Pushed2 DEF InHand, top
  <1>15. PICK h \in Frames : h = top
    BY <1>11
  <1>16. FrameOK (h)'
    BY <1>10, <1>11, <1>15
  <1>17. FrameOK (g)'
    BY <1>4, <1>12, <1>14, <1>15, <1>16 DEF FrameOK
  <1>18. FrameOK (f)'
    BY <1>4, <1>13 DEF FrameOK
  <1> QED  BY <1>10, <1>11, <1>12, <1>13, <1>17, <1>18, CallsPushed2

LEMMA SuspendSpawnStep ==
    ASSUME PInv, NEW t \in Threads, SuspendReap (t), word[t] = "spawn"
    PROVE  PInv'
  <1>1. PICK c : c = child[t]
    OBVIOUS
  <1>2. /\ Suspending (t) /\ word' = [word EXCEPT ![t] = "none"]
        /\ kstate' = [u \in Threads |-> IF u = c /\ ~engine_stopped'[u] THEN "running" ELSE kstate[u]]
        /\ child' = [child EXCEPT ![t] = NoThread]
        /\ UNCHANGED <<sigstop, held, busy, from_wait, hung, pending_events, command, thread_lock>>
    BY <1>1 DEF SuspendReap, SuspendEvent
  <1>3. calls # << >> /\ top.call = "suspend" /\ t \in top.todo
    BY <1>2, SuspendingFacts
  <1>4. \A u \in Threads : ~InHand (u)
    BY <1>3, NotInHand
  <1>5. held.t # t
    BY DEF PInv, Events
  <1>6. Announces (t, c)
    BY <1>1, <1>2, <1>5 DEF Announces
  <1>7. c \in Threads /\ c # t /\ kstate[c] = "stopped" /\ kstate[t] # "running" /\ engine_stopped[c]
    BY <1>6, AnnouncedFacts
  <1>8. busy' \in BOOLEAN /\ from_wait' \in BOOLEAN /\ hung' \in BOOLEAN /\ (~busy' => calls' = << >>)
    BY <1>2, <1>3, ControlTypes
  <1>9. kstate \in [Threads -> {"absent", "running", "stopped", "dead"}]
    BY DEF PInv, TargetTypes
  <1>10. PICK q : q = ProcessOf[c]
    OBVIOUS
  <1>11. ASSUME NEW b \in BOOLEAN, engine_stopped' = [engine_stopped EXCEPT ![c] = b]
         PROVE  Wakes (t, c, b) /\ kstate'[t] = kstate[t] /\ (kstate'[c] = "running" => ~b)
    <2>1. engine_stopped'[c] = b
      BY <1>7, <1>11 DEF PInv, EngineTypes
    <2>2. /\ kstate' \in [Threads -> {"absent", "running", "stopped", "dead"}]
          /\ \A u \in Threads \ {t, c} : kstate'[u] = kstate[u]
          /\ kstate'[t] = kstate[t] /\ kstate'[c] \in {"stopped", "running"}
          /\ kstate'[c] = "running" => ~b
      BY <1>2, <1>7, <1>9, <2>1
    <2> QED  BY <1>11, <2>2 DEF Wakes
  <1>12. CASE ThreadCreated (t, c) /\ calls' = <<Complete (t, "null"), Rest (t)>> \o Tail (calls)
    <2>1. /\ engine_stopped' = [engine_stopped EXCEPT ![c] = FALSE] /\ q = ProcessOf[t]
          /\ \E x : Joins (t, c, q, x)
      BY <1>6, <1>10, <1>12, CreatedJoins
    <2>2. PICK x : Joins (t, c, q, x)
      BY <2>1
    <2>3. Wakes (t, c, FALSE) /\ kstate'[t] = kstate[t]
      BY <1>11, <2>1
    <2>4. Calls'
      BY <1>3, <1>6, <1>12, <2>2, <2>3, SpawnedFrames
    <2> QED  BY <1>4, <1>6, <1>8, <1>10, <2>1, <2>2, <2>3, <2>4, AdoptedStep
  <1>13. CASE ChildForked (t, c) /\ calls' = <<Complete (t, "null"), Rest (t)>> \o Tail (calls)
    <2>1. /\ engine_stopped' = [engine_stopped EXCEPT ![c] = FALSE] /\ current_state'[q] # "stopped"
          /\ \E x : Joins (t, c, q, x)
      BY <1>6, <1>10, <1>13, ForkedJoins
    <2>2. PICK x : Joins (t, c, q, x)
      BY <2>1
    <2>3. Wakes (t, c, FALSE) /\ kstate'[t] = kstate[t]
      BY <1>11, <2>1
    <2>4. Calls'
      BY <1>3, <1>6, <1>13, <2>2, <2>3, SpawnedFrames
    <2> QED  BY <1>4, <1>6, <1>8, <1>10, <2>1, <2>2, <2>3, <2>4, AdoptedStep
  <1>14. CASE ForkFails (t, c) /\ Throw
    <2>1. engine_stopped' = [engine_stopped EXCEPT ![c] = TRUE] /\ Joins (t, c, q, Null)
      BY <1>6, <1>10, <1>14, FailedJoins
    <2>2. Wakes (t, c, TRUE) /\ kstate'[c] # "running"
      BY <1>11, <2>1
    <2>3. Calls'
      BY <1>14, CallsEmpty DEF Throw
    <2> QED  BY <1>4, <1>6, <1>8, <1>10, <2>1, <2>2, <2>3, AdoptedStep
  <1> QED  BY <1>1, <1>12, <1>13, <1>14 DEF SuspendReap, SuspendEvent

-----------------------------------------------------------------------------
(* Commands.                                                                *)

(* ResumeUserThreads (R), and the thread t of the command if it is started. *)
Resumes (t, R, started) ==
    /\ Asked (t) /\ started \subseteq {t}
    /\ R \subseteq Threads \ {t} /\ \A u \in R \cup started : Alive (u)

LEMMA ResumedFacts ==
    ASSUME PInv, NEW t \in Threads, NEW R, NEW started, Resumes (t, R, started), NEW i, Resumed (R, started, i),
           i \in {Own} \cup Indices', Indices \subseteq Indices'
    PROVE  /\ kstate' \in [Threads -> {"absent", "running", "stopped", "dead"}]
           /\ pending_events' \subseteq Threads
           /\ engine_stopped' \in [Threads -> BOOLEAN] /\ thread_lock' \in [Threads -> BOOLEAN]
           /\ op' \in [Threads -> {Own} \cup Indices']
           /\ \A u \in Threads \ (R \cup started) :
                 /\ kstate'[u] = kstate[u] /\ (u \in pending_events' <=> u \in pending_events)
                 /\ engine_stopped'[u] = engine_stopped[u] /\ thread_lock'[u] = thread_lock[u]
                 /\ op'[u] = op[u]
           /\ \A u \in R \cup started :
                 /\ ~engine_stopped'[u] /\ ~thread_lock'[u] /\ op'[u] \in {i, op[u]}
                 /\ Quiet (u) \/ kstate'[u] = kstate[u]
                 /\ kstate'[u] \in {kstate[u], "running"} /\ (kstate[u] = "absent" => kstate'[u] = "absent")
                 /\ u \in pending_events' /\ u \notin pending_events => Quiet (u) /\ kstate'[u] = kstate[u]
                 /\ u \in pending_events => u \in pending_events'
  <1> DEFINE kept == {u \in R : thread_lock[u]}
             runs == {u \in R : engine_stopped[u] /\ ~thread_lock[u]}
  <1>1. /\ pending_events' = pending_events \cup kept
        /\ thread_lock' = [u \in Threads |-> thread_lock[u] /\ u \notin kept]
        /\ engine_stopped' = [u \in Threads |-> engine_stopped[u] /\ u \notin kept \cup runs]
        /\ op' = [u \in Threads |-> IF u \in kept THEN i
                                    ELSE IF u \in runs \cup started THEN Push (u, i) ELSE op[u]]
        /\ kstate' = [u \in Threads |->
                        IF u \in runs \cup started /\ kstate[u] = "stopped" THEN "running" ELSE kstate[u]]
    BY Zenon DEF Resumed, Go
  <1>2. /\ started \subseteq {t} /\ R \subseteq Threads /\ t \notin R
        /\ Quiet (t) /\ ~engine_stopped[t] /\ ~thread_lock[t]
    BY DEF Resumes, PInv, Events
  <1>3. /\ kept \subseteq R /\ runs \subseteq R /\ kept \cap runs = {}
        /\ \A u \in R : u \in kept <=> thread_lock[u]
        /\ \A u \in R : u \in runs <=> engine_stopped[u] /\ ~thread_lock[u]
    OBVIOUS
  <1> HIDE DEF kept, runs
  <1>4. \A u \in kept \cup runs : Quiet (u)
    BY <1>2, <1>3 DEF PInv, Events
  <1>5. /\ kstate \in [Threads -> {"absent", "running", "stopped", "dead"}] /\ pending_events \subseteq Threads
        /\ engine_stopped \in [Threads -> BOOLEAN] /\ thread_lock \in [Threads -> BOOLEAN]
        /\ op \in [Threads -> {Own} \cup Indices]
    BY DEF PInv, TargetTypes, EngineTypes, ProcessTypes
  <1>6. kstate' \in [Threads -> {"absent", "running", "stopped", "dead"}]
    BY <1>1, <1>5
  <1>7. /\ pending_events' \subseteq Threads
        /\ engine_stopped' \in [Threads -> BOOLEAN] /\ thread_lock' \in [Threads -> BOOLEAN]
    BY <1>1, <1>2, <1>3, <1>5
  <1>8. op' \in [Threads -> {Own} \cup Indices']
    BY <1>1, <1>5 DEF Push
  <1>9. \A u \in Threads \ (R \cup started) :
           /\ kstate'[u] = kstate[u] /\ (u \in pending_events' <=> u \in pending_events)
           /\ engine_stopped'[u] = engine_stopped[u] /\ thread_lock'[u] = thread_lock[u]
           /\ op'[u] = op[u]
    BY <1>1, <1>3, <1>5
  <1>10. ASSUME NEW u \in R \cup started
         PROVE  /\ ~engine_stopped'[u] /\ ~thread_lock'[u] /\ op'[u] \in {i, op[u]}
                /\ Quiet (u) \/ kstate'[u] = kstate[u]
                /\ kstate'[u] \in {kstate[u], "running"} /\ (kstate[u] = "absent" => kstate'[u] = "absent")
                /\ u \in pending_events' /\ u \notin pending_events => Quiet (u) /\ kstate'[u] = kstate[u]
                /\ u \in pending_events => u \in pending_events'
    <2>1. u \in Threads
      BY <1>2, <1>10
    <2>2. ~engine_stopped'[u] /\ ~thread_lock'[u] /\ op'[u] \in {i, op[u]}
      BY <1>1, <1>2, <1>3, <1>5, <2>1 DEF Push
    <2>3. Quiet (u) \/ kstate'[u] = kstate[u]
      BY <1>1, <1>2, <1>4, <2>1
    <2>4. kstate'[u] \in {kstate[u], "running"} /\ (kstate[u] = "absent" => kstate'[u] = "absent")
      BY <1>1, <2>1
    <2>5. u \in pending_events' /\ u \notin pending_events => Quiet (u) /\ kstate'[u] = kstate[u]
      BY <1>1, <1>2, <1>3, <1>4, <2>1
    <2> QED  BY <1>1, <2>2, <2>3, <2>4, <2>5
  <1> QED  BY <1>6, <1>7, <1>8, <1>9, <1>10

(* The processes P of the command.                                          *)
Begins (P, i) ==
    \/ Starts (P, i) /\ i \in Indices' \ {Null}
    \/ /\ i = Own /\ current_state' = Sets (current_state, P, "single")
       /\ UNCHANGED <<current_operation, stopped_event>>

LEMMA BeginsFacts ==
    ASSUME PInv, NEW P \in SUBSET Processes, NEW i, Begins (P, i), Indices \subseteq Indices'
    PROVE  /\ i \in {Own} \cup Indices'
           /\ current_state' \in [Processes -> {"single", "running", "stopping", "stopped", "exited"}]
           /\ current_operation' \in [Processes -> Indices'] /\ stopped_event' \in [Processes -> BOOLEAN]
           /\ \A p \in Processes \ P : /\ current_state'[p] = current_state[p]
                                       /\ current_operation'[p] = current_operation[p]
                                       /\ stopped_event'[p] = stopped_event[p]
           /\ \A p \in P : /\ current_state'[p] # "stopped"
                           /\ current_state'[p] = "running" => current_operation'[p] # Null
                           /\ stopped_event'[p] => /\ i = Own /\ stopped_event[p] /\ current_state'[p] = "single"
                                                   /\ current_operation'[p] = current_operation[p]
  <1>1. CASE Starts (P, i) /\ i \in Indices' \ {Null}
    BY <1>1, ControlTypes DEF Starts, Sets
  <1>2. CASE /\ i = Own /\ current_state' = Sets (current_state, P, "single")
             /\ UNCHANGED <<current_operation, stopped_event>>
    BY <1>2, ControlTypes DEF Sets
  <1> QED  BY <1>1, <1>2 DEF Begins

LEMMA ResumedStep ==
    ASSUME PInv, calls = << >>, busy' = TRUE, command' = NoEvent,
           UNCHANGED <<word, sigstop, child, held, from_wait, calls, hung, thread_hash, process_hash>>,
           NEW t \in Threads, NEW R, NEW started, Resumes (t, R, started),
           NEW i, Resumed (R, started, i),
           NEW P \in SUBSET Processes, Begins (P, i), \A u \in R \cup started : ProcessOf[u] \in P,
           NEW q \in Processes, Extends (q), Born (MainOf[q]),
           global_operation' \in Indices', global_event' \in BOOLEAN
    PROVE  PInv'
  <1>1. Indices \subseteq Indices'
    BY DEF Extends, Indices
  <1>2. /\ i \in {Own} \cup Indices'
        /\ current_state' \in [Processes -> {"single", "running", "stopping", "stopped", "exited"}]
        /\ current_operation' \in [Processes -> Indices'] /\ stopped_event' \in [Processes -> BOOLEAN]
        /\ \A p \in Processes \ P : /\ current_state'[p] = current_state[p]
                                    /\ current_operation'[p] = current_operation[p]
                                    /\ stopped_event'[p] = stopped_event[p]
        /\ \A p \in P : /\ current_state'[p] # "stopped"
                        /\ current_state'[p] = "running" => current_operation'[p] # Null
                        /\ stopped_event'[p] => /\ i = Own /\ stopped_event[p] /\ current_state'[p] = "single"
                                                /\ current_operation'[p] = current_operation[p]
    BY <1>1, BeginsFacts
  <1>3. /\ kstate' \in [Threads -> {"absent", "running", "stopped", "dead"}]
        /\ pending_events' \subseteq Threads
        /\ engine_stopped' \in [Threads -> BOOLEAN] /\ thread_lock' \in [Threads -> BOOLEAN]
        /\ op' \in [Threads -> {Own} \cup Indices']
        /\ \A u \in Threads \ (R \cup started) :
              /\ kstate'[u] = kstate[u] /\ (u \in pending_events' <=> u \in pending_events)
              /\ engine_stopped'[u] = engine_stopped[u] /\ thread_lock'[u] = thread_lock[u]
              /\ op'[u] = op[u]
        /\ \A u \in R \cup started :
              /\ ~engine_stopped'[u] /\ ~thread_lock'[u] /\ op'[u] \in {i, op[u]}
              /\ Quiet (u) \/ kstate'[u] = kstate[u]
              /\ kstate'[u] \in {kstate[u], "running"} /\ (kstate[u] = "absent" => kstate'[u] = "absent")
              /\ u \in pending_events' /\ u \notin pending_events => Quiet (u) /\ kstate'[u] = kstate[u]
              /\ u \in pending_events => u \in pending_events'
    BY <1>1, <1>2, ResumedFacts
  <1>4. \A u \in R \cup started : u \in Threads /\ Alive (u) /\ Born (u)
    <2>1. \A u \in R \cup started : u \in Threads /\ Alive (u)
      BY DEF Resumes
    <2> QED  BY <2>1 DEF PInv, Children
  <1>5. \A u \in Threads : Born (u)' <=> Born (u)
    <2>1. \A u \in Threads : kstate'[u] = "absent" <=> kstate[u] = "absent"
      BY <1>3
    <2> QED  BY <2>1 DEF Born
  <1>6. \A u \in Threads : (Event (u)' <=> Event (u)) /\ (Alive (u)' <=> Alive (u)) /\ ~Asked (u)'
    BY DEF Event, Alive, Asked
  <1>7. \A u \in Threads \ (R \cup started) : Quiet (u)' <=> Quiet (u)
    BY <1>3, <1>6 DEF Quiet
  <1>8. \A u \in Threads \ (R \cup started) : Settled (u)' <=> Settled (u)
    BY <1>3, ExtendedSettled
  <1>9. \A u \in Threads : ~InHand (u)
    BY NotInHand
  <1>10. Calls'
    BY CallsEmpty
  <1>11. TargetTypes'
    BY <1>3 DEF PInv, TargetTypes
  <1>12. EngineTypes'
    BY <1>3 DEF PInv, EngineTypes
  <1>13. ProcessTypes'
    BY <1>2, <1>3 DEF PInv, ProcessTypes, Extends
  <1>14. Events'
    <2> SUFFICES ASSUME NEW u \in Threads
                 PROVE  /\ (Event (u) \/ u \in pending_events)' =>
                              kstate'[u] # "running" /\ kstate'[u] # "absent"
                        /\ word[u] # "none" => held.t # u
                        /\ u \in pending_events' => ~Event (u)'
                        /\ ~Quiet (u)' => Born (u) /\ Alive (u) /\ ~engine_stopped'[u] /\ ~thread_lock'[u]
      BY <1>5, <1>6 DEF Events
    <2>1. word[u] # "none" => held.t # u
      BY DEF PInv, Events
    <2>2. CASE u \notin R \cup started
      <3>1. /\ Event (u) \/ u \in pending_events => kstate[u] # "running" /\ kstate[u] # "absent"
            /\ u \in pending_events => ~Event (u)
            /\ ~Quiet (u) => Born (u) /\ Alive (u) /\ ~engine_stopped[u] /\ ~thread_lock[u]
        BY DEF PInv, Events
      <3> QED  BY <1>3, <1>6, <1>7, <2>1, <2>2, <3>1
    <2>3. CASE u \in R \cup started
      <3>1. Event (u) \/ u \in pending_events => kstate'[u] = kstate[u]
        BY <1>3, <2>3 DEF Quiet
      <3>2. kstate[u] # "absent"
        BY <1>4, <2>3 DEF Born
      <3>3. Event (u) \/ u \in pending_events => kstate[u] # "running"
        BY DEF PInv, Events
      <3>4. u \in pending_events' /\ u \notin pending_events =>
               ~Event (u) /\ kstate'[u] # "running" /\ kstate'[u] = kstate[u]
        BY <1>3, <2>3 DEF Quiet
      <3>5. u \in pending_events => ~Event (u)
        BY DEF PInv, Events
      <3>6. u \in pending_events' => ~Event (u)'
        BY <1>6, <3>4, <3>5
      <3>7. (Event (u) \/ u \in pending_events)' => kstate'[u] # "running" /\ kstate'[u] # "absent"
        BY <1>6, <3>1, <3>2, <3>3, <3>4
      <3> QED  BY <1>3, <1>4, <2>1, <2>3, <3>6, <3>7
    <2> QED  BY <2>2, <2>3
  <1>15. Children'
    <2> SUFFICES ASSUME NEW u \in Threads
                 PROVE  /\ child[u] \in Threads <=> word[u] = "spawn" \/ (held.t = u /\ held.w = "spawn")
                        /\ child[u] \in Threads =>
                              /\ kstate'[child[u]] = "stopped"
                              /\ \/ ProcessOf[child[u]] = ProcessOf[u]
                                 \/ MainOf[ProcessOf[child[u]]] = child[u]
                              /\ \A v \in Threads : child[v] = child[u] => v = u
                        /\ ~Born (u) => ~Alive (u) /\ engine_stopped'[u] /\ ~thread_lock'[u] /\ op'[u] = Null
      BY <1>5, <1>6 DEF Children
    <2>1. child[u] \in Threads => kstate'[child[u]] = "stopped"
      <3>1. child[u] \notin R \cup started
        BY <1>4 DEF Born
      <3> QED  BY <1>3, <3>1 DEF PInv, Children
    <2>2. ~Born (u) => ~Alive (u) /\ engine_stopped'[u] /\ ~thread_lock'[u] /\ op'[u] = Null
      BY <1>3, <1>4 DEF PInv, Children
    <2> QED  BY <2>1, <2>2 DEF PInv, Children
  <1>16. NewProcesses'
    <2>1. \A p \in Processes : stopped_event'[p] => stopped_event[p]
      BY <1>2
    <2>2. \A u \in Threads : kstate[u] = "absent" => kstate'[u] = "absent"
      BY <1>3
    <2> QED  BY <1>5, <2>1, <2>2, ProcessOpsAssumption DEF PInv, NewProcesses
  <1>17. Owners'
    <2> SUFFICES ASSUME NEW j \in DOMAIN results' PROVE Born (MainOf[results[j].process])'
      BY DEF Owners
    <2>1. CASE j \in DOMAIN results
      <3>1. results'[j] = results[j] /\ MainOf[results[j].process] \in Threads
        BY <2>1, OwnerThreads DEF Extends
      <3>2. PICK m \in Threads : m = MainOf[results[j].process]
        BY <3>1
      <3>3. Born (m)
        BY <2>1, <3>2 DEF PInv, Owners
      <3>4. Born (m)'
        BY <1>5, <3>3
      <3> QED  BY <3>1, <3>2, <3>4 DEF Born
    <2>2. CASE j \notin DOMAIN results
      <3>1. results'[j].process = q
        BY <2>2 DEF Extends
      <3>2. PICK m \in Threads : m = MainOf[q]
        BY ProcessOpsAssumption
      <3>3. Born (m)'
        BY <1>5, <3>2
      <3> QED  BY <3>1, <3>2, <3>3 DEF Born
    <2> QED  BY <2>1, <2>2
  <1>18. Stopped'
    BY <1>3, <1>8, <1>9 DEF PInv, Stopped
  <1>19. SignalledDone'
    <2> SUFFICES ASSUME NEW p \in Processes
                 PROVE  /\ current_state'[p] = "running" => current_operation'[p] # Null
                        /\ stopped_event'[p] =>
                              /\ current_state'[p] # "running" /\ current_operation'[p] = Null
                              /\ \A u \in thread_hash[p] \ Daemons : Settled (u)'
      BY DEF SignalledDone, User
    <2>1. CASE p \notin P
      <3>1. \A u \in thread_hash[p] : u \in Threads \ (R \cup started)
        BY <2>1 DEF PInv, ProcessTypes
      <3> QED  BY <1>2, <1>8, <2>1, <3>1 DEF PInv, SignalledDone, User
    <2>2. CASE p \in P
      <3>1. stopped_event'[p] => \A u \in thread_hash[p] \ Daemons : Settled (u) /\ u \in Threads
        BY <1>2, <2>2, ControlTypes DEF PInv, SignalledDone, User
      <3>2. i = Own => \A u \in R \cup started : Settled (u) => Settled (u)'
        <4> SUFFICES ASSUME i = Own, NEW u \in R \cup started, Settled (u) PROVE Settled (u)'
          OBVIOUS
        <4>1. op'[u] = Own \/ op'[u] = op[u]
          BY <1>3
        <4>2. op'[u] = op[u] => Settled (u)'
          BY <1>4, ExtendedSettled
        <4>3. op'[u] = Own => Settled (u)'
          BY DEF Settled
        <4> QED  BY <4>1, <4>2, <4>3
      <3>3. stopped_event'[p] => \A u \in thread_hash[p] \ Daemons : Settled (u)'
        BY <1>2, <1>8, <2>2, <3>1, <3>2
      <3>4. stopped_event'[p] => current_state'[p] # "running" /\ current_operation'[p] = Null
        BY <1>2, <2>2 DEF PInv, SignalledDone
      <3> QED  BY <1>2, <2>2, <3>3, <3>4
    <2> QED  BY <2>1, <2>2
  <1>20. StoppedQuiet'
    <2> SUFFICES ASSUME Daemons = {}, NEW p \in Processes, current_state'[p] = "stopped",
                        NEW u \in thread_hash[p]
                 PROVE  Quiet (u)'
      BY DEF StoppedQuiet
    <2>1. p \notin P /\ current_state[p] = "stopped"
      BY <1>2
    <2>2. u \in Threads \ (R \cup started)
      BY <2>1 DEF PInv, ProcessTypes
    <2> QED  BY <1>7, <2>1, <2>2 DEF PInv, StoppedQuiet
  <1> QED
    BY <1>10, <1>11, <1>12, <1>13, <1>14, <1>15, <1>16, <1>17, <1>18, <1>19, <1>20 DEF PInv

LEMMA AskedFacts ==
    ASSUME PInv, command # NoEvent
    PROVE  /\ command.t \in Threads /\ Asked (command.t) /\ ProcessOf[command.t] \in Processes
           /\ Born (MainOf[ProcessOf[command.t]])
  <1>1. PICK t \in Threads : t = command.t
    BY DEF PInv, EngineTypes
  <1>2. PICK p \in Processes : p = ProcessOf[t]
    BY ProcessOpsAssumption
  <1>3. Asked (t) /\ Born (t)
    BY <1>1 DEF Asked, PInv, Events
  <1>4. t # MainOf[p] => kstate[t] = "absent" \/ Born (MainOf[p])
    BY <1>2 DEF PInv, NewProcesses
  <1>5. Born (MainOf[p])
    <2>1. CASE t = MainOf[p]
      BY <1>3, <2>1, Zenon
    <2>2. CASE t # MainOf[p]
      <3>1. kstate[t] # "absent"
        BY <1>3 DEF Born
      <3> QED  BY <1>4, <2>2, <3>1
    <2> QED  BY <2>1, <2>2
  <1> QED  BY <1>1, <1>2, <1>3, <1>5

LEMMA OthersFacts ==
    ASSUME PInv, NEW t \in Threads, NEW P \in SUBSET Processes
    PROVE  /\ Others (P, t) \subseteq Threads \ {t}
           /\ \A u \in Others (P, t) : Alive (u) /\ ProcessOf[u] \in P
           /\ \A R \in Resumable (P, t) : R \subseteq Threads \ {t} /\ \A u \in R : Alive (u) /\ ProcessOf[u] \in P
  <1>1. \A p \in P : \A u \in thread_hash[p] : u \in Threads /\ ProcessOf[u] = p
    BY ControlTypes DEF PInv, ProcessTypes
  <1>2. \A u \in Others (P, t) : u # t /\ \E p \in P : u \in thread_hash[p]
    BY DEF Others
  <1>3. \A u \in Others (P, t) : u \in Threads \ {t} /\ Alive (u) /\ ProcessOf[u] \in P
    <2> SUFFICES ASSUME NEW u \in Others (P, t)
                 PROVE  u \in Threads \ {t} /\ Alive (u) /\ ProcessOf[u] \in P
      OBVIOUS
    <2>1. PICK p \in P : u \in thread_hash[p]
      BY <1>2
    <2> QED  BY <1>1, <1>2, <2>1 DEF Alive
  <1>4. \A R \in Resumable (P, t) : R \subseteq Others (P, t)
    BY DEF Resumable
  <1> QED  BY <1>3, <1>4

LEMMA StepStep == PInv /\ Step => PInv'
  <1> SUFFICES ASSUME PInv, Step PROVE PInv'
    OBVIOUS
  <1>1. /\ ~busy /\ command # NoEvent /\ busy' = TRUE /\ command' = NoEvent
        /\ UNCHANGED <<word, sigstop, child, held, from_wait, calls, hung, thread_hash, process_hash>>
    BY DEF Step
  <1>2. PICK t \in Threads : t = command.t
    BY <1>1, AskedFacts
  <1>a. PICK m : m = command.w
    OBVIOUS
  <1>3. PICK q \in Processes : q = ProcessOf[t]
    BY ProcessOpsAssumption
  <1>4. Asked (t) /\ Born (MainOf[q])
    BY <1>1, <1>2, <1>3, AskedFacts
  <1>5. calls = << >>
    BY <1>1 DEF PInv, EngineTypes
  <1>6. /\ kstate \in [Threads -> {"absent", "running", "stopped", "dead"}]
        /\ engine_stopped \in [Threads -> BOOLEAN] /\ thread_lock \in [Threads -> BOOLEAN]
        /\ op \in [Threads -> {Own} \cup Indices]
        /\ global_operation \in Indices /\ global_event \in BOOLEAN
    BY DEF PInv, TargetTypes, EngineTypes, ProcessTypes
  <1>7. CASE StartRefused (t, m)
    <2>1. /\ UNCHANGED <<kstate, pending_events, engine_stopped, op, thread_lock, current_state>>
          /\ UNCHANGED <<current_operation, stopped_event, results, global_operation, global_event>>
      BY <1>7 DEF StartRefused, sse
    <2>2. Extends (q) /\ Indices' = Indices
      BY <2>1, SameResults
    <2>3. Resumes (t, {}, {})
      BY <1>4 DEF Resumes
    <2>4. Resumed ({}, {}, Own)
      BY <1>6, <2>1 DEF Resumed, Go
    <2>5. Begins ({}, Own)
      BY <2>1, ControlTypes DEF Begins, Sets
    <2>6. global_operation' \in Indices' /\ global_event' \in BOOLEAN
      BY <1>6, <2>1, <2>2
    <2> QED  BY <1>1, <1>3, <1>4, <1>5, <2>2, <2>3, <2>4, <2>5, <2>6, ResumedStep
  <1>8. CASE Alive (t) /\ StartSingle (t, m)
    <2>a. PICK O \in Resumable ({q}, t) : Resumed (IF m = "resume" THEN O ELSE {}, {t}, Own)
      BY <1>3, <1>8 DEF StartSingle
    <2>1. PICK R : R = IF m = "resume" THEN O ELSE {}
      OBVIOUS
    <2>2. /\ current_state' = Sets (current_state, {q}, "single") /\ Resumed (R, {t}, Own)
          /\ UNCHANGED <<current_operation, stopped_event, global_operation, global_event, results>>
      BY <1>3, <1>8, <2>a, <2>1 DEF StartSingle
    <2>3. Extends (q) /\ Indices' = Indices
      BY <2>2, SameResults
    <2>4. {q} \in SUBSET Processes
      OBVIOUS
    <2>5. R \subseteq Threads \ {t} /\ \A u \in R : Alive (u) /\ ProcessOf[u] \in {q}
      BY <2>1, <2>4, OthersFacts
    <2>6. Resumes (t, R, {t}) /\ \A u \in R \cup {t} : ProcessOf[u] \in {q}
      BY <1>3, <1>4, <1>8, <2>5 DEF Resumes
    <2>7. Begins ({q}, Own)
      BY <2>2 DEF Begins
    <2>8. global_operation' \in Indices' /\ global_event' \in BOOLEAN
      BY <1>6, <2>2, <2>3
    <2> QED  BY <1>1, <1>4, <1>5, <2>2, <2>3, <2>4, <2>6, <2>7, <2>8, ResumedStep
  <1>9. CASE Alive (t) /\ StartProcess (t, m)
    <2>1. PICK i : i = Len (results) + 1
      OBVIOUS
    <2>2. /\ i <= MaxResults /\ results' = Append (results, NewResult ("process", q))
          /\ Starts ({q}, i) /\ \E O \in Resumable ({q}, t) : Resumed (O, {t}, i)
          /\ UNCHANGED <<global_operation, global_event>>
      BY <1>3, <1>9, <2>1 DEF StartProcess
    <2>3. Extends (q) /\ Indices \subseteq Indices' /\ i \in Indices' /\ i # Null
      BY <2>1, <2>2, NewResults
    <2>4. {q} \in SUBSET Processes
      OBVIOUS
    <2>5. PICK R \in Resumable ({q}, t) : Resumed (R, {t}, i)
      BY <2>2
    <2>6. R \subseteq Threads \ {t} /\ \A u \in R : Alive (u) /\ ProcessOf[u] \in {q}
      BY <2>4, <2>5, OthersFacts
    <2>7. Resumes (t, R, {t}) /\ \A u \in R \cup {t} : ProcessOf[u] \in {q}
      BY <1>3, <1>4, <1>9, <2>6 DEF Resumes
    <2>8. Begins ({q}, i)
      BY <2>2, <2>3 DEF Begins
    <2>9. global_operation' \in Indices' /\ global_event' \in BOOLEAN
      BY <1>6, <2>2, <2>3
    <2> QED  BY <1>1, <1>4, <1>5, <2>2, <2>3, <2>4, <2>5, <2>7, <2>8, <2>9, ResumedStep
  <1>10. CASE Alive (t) /\ StartGlobal (t, m)
    <2>1. PICK i : i = Len (results) + 1
      OBVIOUS
    <2>2. PICK ok \in BOOLEAN : ok <=> \A p \in process_hash : Startable (p)
      OBVIOUS
    <2>3. /\ i <= MaxResults /\ results' = Append (results, NewResult ("global", q))
          /\ global_operation' = i /\ global_event' = FALSE
      BY <1>3, <1>10, <2>1 DEF StartGlobal
    <2>4. PICK P \in SUBSET {p \in process_hash : Startable (p)} :
             /\ ok => P = process_hash
             /\ Starts (P, i) /\ \E O \in Resumable (P, t) : Resumed (O, IF ok THEN {t} ELSE {}, i)
      BY <1>10, <2>1, <2>2 DEF StartGlobal
    <2>5. Extends (q) /\ Indices \subseteq Indices' /\ i \in Indices' /\ i # Null
      BY <2>1, <2>3, NewResults
    <2>6. P \in SUBSET Processes /\ (ok => q \in P)
      <3>1. q \in process_hash
        BY <1>3, <1>10 DEF PInv, NewProcesses, Alive
      <3> QED  BY <2>4, <3>1 DEF PInv, ProcessTypes
    <2>a. PICK R \in Resumable (P, t) : Resumed (R, IF ok THEN {t} ELSE {}, i)
      BY <2>4
    <2>7. PICK started : started = IF ok THEN {t} ELSE {}
      OBVIOUS
    <2>8. R \subseteq Threads \ {t} /\ \A u \in R : Alive (u) /\ ProcessOf[u] \in P
      BY <2>6, <2>7, OthersFacts
    <2>9. Resumes (t, R, started) /\ \A u \in R \cup started : ProcessOf[u] \in P
      BY <1>3, <1>4, <1>10, <2>6, <2>7, <2>8 DEF Resumes
    <2>10. Begins (P, i)
      BY <2>4, <2>5 DEF Begins
    <2>11. global_operation' \in Indices' /\ global_event' \in BOOLEAN
      BY <2>3, <2>5
    <2> QED  BY <1>1, <1>4, <1>5, <2>a, <2>5, <2>6, <2>7, <2>9, <2>10, <2>11, ResumedStep
  <1> QED  BY <1>2, <1>a, <1>7, <1>8, <1>9, <1>10 DEF Step

-----------------------------------------------------------------------------
(* The invariant.                                                           *)

LEMMA InitStep == Init => PInv
  <1> SUFFICES ASSUME Init PROVE PInv
    OBVIOUS
  <1>1. /\ First \in Processes /\ MainOf[First] \in Live /\ Live \subseteq Threads
        /\ \A t \in Live : ProcessOf[t] = First
    <2>1. (CHOOSE t \in Live : TRUE) \in Live
      BY ProcessOpsAssumption
    <2> QED  BY <2>1, ProcessOpsAssumption DEF First
  <1>2. /\ kstate = [t \in Threads |-> IF t \in Live THEN "stopped" ELSE "absent"]
        /\ word = [t \in Threads |-> "none"] /\ sigstop = [t \in Threads |-> FALSE]
        /\ child = [t \in Threads |-> NoThread] /\ held = NoEvent /\ held.t = NoThread
        /\ busy = FALSE /\ from_wait = FALSE /\ calls = << >> /\ hung = FALSE /\ pending_events = {}
        /\ engine_stopped = [t \in Threads |-> TRUE] /\ op = [t \in Threads |-> Null]
        /\ thread_lock = [t \in Threads |-> FALSE]
    BY DEF Init, NoEvent
  <1>3. /\ thread_hash = [p \in Processes |-> IF p = First THEN Live ELSE {}]
        /\ current_state = [p \in Processes |-> "stopped"]
        /\ current_operation = [p \in Processes |-> Null]
        /\ stopped_event = [p \in Processes |-> p = First]
        /\ process_hash = {First} /\ global_operation = Null /\ global_event = FALSE
        /\ results = << >> /\ command = NoEvent
    BY DEF Init
  <1>4. \A t \in Threads : Quiet (t) /\ ~Asked (t) /\ (Born (t) <=> t \in Live)
    BY <1>2, <1>3, ProcessOpsAssumption DEF Quiet, Event, Asked, Born
  <1>5. \A t \in Threads : Settled (t) /\ (Alive (t) <=> t \in Live)
    BY <1>1, <1>2, <1>3, ProcessOpsAssumption DEF Settled, Fresh, Alive
  <1>6. TargetTypes
    BY <1>2 DEF TargetTypes, Words
  <1>7. EngineTypes
    BY <1>2, <1>3 DEF EngineTypes
  <1>8. ProcessTypes
    <2>1. results \in Seq (Results) /\ Len (results) = 0 /\ 0 <= MaxResults
      BY <1>3, ProcessOpsAssumption
    <2> QED  BY <1>1, <1>2, <1>3, <2>1 DEF ProcessTypes, Indices
  <1>9. Events
    BY <1>2, <1>4, ProcessOpsAssumption DEF Events, Event
  <1>10. Children
    BY <1>2, <1>4, <1>5, ProcessOpsAssumption DEF Children
  <1>11. NewProcesses
    <2> SUFFICES ASSUME NEW p \in Processes
                 PROVE  /\ ~Born (MainOf[p]) =>
                              /\ ~stopped_event[p] /\ thread_hash[p] = {} /\ p \notin process_hash
                              /\ \A t \in Threads \ {MainOf[p]} : ProcessOf[t] = p => kstate[t] = "absent"
                        /\ thread_hash[p] # {} => p \in process_hash
      BY DEF NewProcesses
    <2>1. CASE p = First
      BY <1>1, <1>3, <1>4, <2>1
    <2>2. CASE p # First
      BY <1>1, <1>2, <1>3, <2>2
    <2> QED  BY <2>1, <2>2
  <1>12. Owners
    BY <1>3 DEF Owners
  <1>13. Calls
    <2>1. << >> \in Seq (Frames) /\ DOMAIN (<< >>) = {}
      OBVIOUS
    <2> QED  BY <1>2, <2>1 DEF Calls, InSeq
  <1>14. Stopped
    BY <1>5 DEF Stopped
  <1>15. SignalledDone
    <2>1. \A p \in Processes : User (p) \subseteq Threads
      BY <1>1, <1>3 DEF User
    <2> QED  BY <1>3, <1>5, <2>1 DEF SignalledDone
  <1>16. StoppedQuiet
    BY <1>1, <1>3, <1>4 DEF StoppedQuiet
  <1> QED
    BY <1>6, <1>7, <1>8, <1>9, <1>10, <1>11, <1>12, <1>13, <1>14, <1>15, <1>16 DEF PInv

LEMMA SuspendUserThreadsStep == PInv /\ SuspendUserThreads => PInv'
  <1> SUFFICES ASSUME PInv, SuspendUserThreads PROVE PInv'
    OBVIOUS
  <1>1. CASE SuspendThrows \/ SuspendDone
    BY <1>1, SuspendThrowsStep, SuspendDoneStep
  <1>2. ASSUME NEW t \in Threads, SuspendSkip (t) \/ SuspendHangs (t) \/ SuspendSigstop (t)
        PROVE  PInv'
    BY <1>2, SuspendSkipStep, SuspendHangsStep, SuspendSigstopStep
  <1>3. ASSUME NEW t \in Threads, SuspendReap (t)
        PROVE  PInv'
    BY <1>3, SuspendReapStep, SuspendSpawnStep
  <1>4. ASSUME NEW t \in Threads, NEW w \in AllReports, SuspendOther (t, w)
        PROVE  PInv'
    BY <1>4, SuspendOtherStep
  <1> QED  BY <1>1, <1>2, <1>3, <1>4 DEF SuspendUserThreads

LEMMA EngineStep == PInv /\ Engine => PInv'
  <1> SUFFICES ASSUME PInv, Engine PROVE PInv'
    OBVIOUS
  <1>1. CASE OperationCompleted \/ OperationDone \/ ProcessCompleted
    BY <1>1, OperationCompletedStep, OperationDoneStep, ProcessCompletedStep
  <1>2. CASE GlobalNext \/ GlobalDone \/ SuspendUserThreads \/ LoopDone
    BY <1>2, GlobalNextStep, GlobalDoneStep, SuspendUserThreadsStep, LoopDoneStep
  <1>3. CASE ProcessEvent
    BY <1>3, ProcessEventStep, SpawnedStep
  <1>4. ASSUME NEW t \in Threads, ProcessPending (t)
        PROVE  PInv'
    BY <1>4, ProcessPendingStep
  <1> QED  BY <1>1, <1>2, <1>3, <1>4 DEF Engine

LEMMA OutsideStep == PInv /\ Interruptible /\ (Target \/ Client) => PInv'
  <1> SUFFICES ASSUME PInv, Interruptible, Target \/ Client PROVE PInv'
    OBVIOUS
  <1>1. ASSUME NEW t \in Threads, DeliverSigstop (t) \/ WaitReap (t)
        PROVE  PInv'
    BY <1>1, DeliverSigstopStep, WaitReapStep
  <1>2. ASSUME NEW t \in Threads, NEW w \in AllReports, Report (t, w)
        PROVE  PInv'
    BY <1>2, ReportStep
  <1>3. ASSUME NEW t \in Threads, Stop (t)
        PROVE  PInv'
    BY <1>3, StopStep
  <1>4. ASSUME NEW t \in Threads, NEW m \in Models, BeginStep (t, m)
        PROVE  PInv'
    BY <1>4, BeginStepStep
  <1>5. ASSUME NEW p \in Processes, Abort (p)
        PROVE  PInv'
    BY <1>5, AbortStep
  <1> QED  BY <1>1, <1>2, <1>3, <1>4, <1>5 DEF Target, Client

LEMMA StutterStep == PInv /\ UNCHANGED vars => PInv'
  <1> SUFFICES ASSUME PInv, UNCHANGED vars PROVE PInv'
    OBVIOUS
  <1>1. /\ UNCHANGED <<kstate, word, sigstop, child, held, busy, from_wait, calls, hung, pending_events>>
        /\ UNCHANGED <<engine_stopped, op, thread_lock, thread_hash, current_state, current_operation>>
        /\ UNCHANGED <<stopped_event, process_hash, global_operation, global_event, results, command>>
    BY DEF vars, target, engine, sse, process, debugger
  <1>2. \A t : /\ Event (t)' <=> Event (t)
               /\ Quiet (t)' <=> Quiet (t)
               /\ Born (t)' <=> Born (t)
    BY <1>1, SameView
  <1>3. \A t : /\ Settled (t)' <=> Settled (t)
               /\ InHand (t)' <=> InHand (t)
               /\ Asked (t)' <=> Asked (t)
               /\ Alive (t)' <=> Alive (t)
    BY <1>1 DEF Settled, Fresh, InHand, top, Asked, Alive
  <1>4. TargetTypes' /\ EngineTypes' /\ ProcessTypes'
    BY <1>1 DEF PInv, TargetTypes, EngineTypes, ProcessTypes, Indices
  <1>5. Events' /\ Children' /\ NewProcesses' /\ Owners'
    BY <1>1, <1>2, <1>3 DEF PInv, Events, Children, NewProcesses, Owners
  <1>6. \A f : FrameOK (f)' <=> FrameOK (f)
    BY <1>2, <1>3 DEF FrameOK
  <1>7. Calls'
    BY <1>1, <1>6, Zenon DEF PInv, Calls
  <1>8. Stopped' /\ SignalledDone' /\ StoppedQuiet'
    BY <1>1, <1>2, <1>3 DEF PInv, Stopped, SignalledDone, StoppedQuiet, User
  <1> QED  BY <1>4, <1>5, <1>7, <1>8 DEF PInv

LEMMA NextStep == PInv /\ [Next]_vars => PInv'
  BY EngineStep, StepStep, OutsideStep, StutterStep DEF Next

(* Whatever the threads of the target and the clients do while the engine   *)
(* thread is in a handler: a thread has at most one event that nobody has   *)
(* handled, it has stopped for it, and the engine does not take it for      *)
(* stopped; a new thread is unknown until its parent's event is handled;    *)
(* and every call on the engine thread's stack still finds the threads that *)
(* it has dealt with as it left them.                                       *)
THEOREM OperationsInvariant == Spec => []PInv
  <1>1. Init => PInv
    BY InitStep
  <1>2. PInv /\ [Next]_vars => PInv'
    BY NextStep
  <1> QED  BY <1>1, <1>2, PTL DEF Spec

(* The state of the engines, processes and of the debugger has its type.    *)
THEOREM OperationTypes == Spec => []TypeOK
  <1>1. PInv => TypeOK
    <2> SUFFICES ASSUME PInv PROVE TypeOK
      OBVIOUS
    <2>1. held = NoEvent \/ (held.t \in Threads /\ held.w \in AllReports \cup {"int"})
      BY DEF PInv, TargetTypes, Words
    <2>2. command = NoEvent \/ (command.t \in Threads /\ command.w \in Models)
      BY DEF PInv, EngineTypes
    <2> QED  BY <2>1, <2>2 DEF PInv, TargetTypes, EngineTypes, ProcessTypes, TypeOK, Words, Indices
  <1> QED  BY <1>1, OperationsInvariant, PTL

(* A process whose stopped_event is set has no operation and is not         *)
(* running, and none of its user threads carries a result that could still  *)
(* complete, however the suspending of its threads was interleaved with     *)
(* their events, forks, exits, aborts and with exceptions on the way.       *)
THEOREM SignalledAlwaysDone == Spec => []SignalledIsDone
  <1>1. PInv => SignalledIsDone
    BY DEF PInv, SignalledDone, SignalledIsDone, Settled
  <1> QED  BY <1>1, OperationsInvariant, PTL

(* Without daemon threads, a process in ProcessState.Stopped has no thread  *)
(* that runs.  With them it may: SuspendUserThreads() lets a daemon run,    *)
(* and the user thread that the daemon creates later is started.            *)
THEOREM StoppedAlwaysQuiet ==
    ASSUME Daemons = {}
    PROVE  Spec => []StoppedIsQuiet
  <1>1. PInv => StoppedIsQuiet
    BY DEF PInv, StoppedQuiet, StoppedIsQuiet, Quiet, User, ProcessTypes
  <1> QED  BY <1>1, OperationsInvariant, PTL

-----------------------------------------------------------------------------
(* Threads that stop and exit, commands that run the whole process: the     *)
(* phases of a command, and the calls that take it from one to the next.    *)

StopsAndExits ==
    /\ Reports \subseteq {"stop", "exit"} /\ Models \subseteq {"process", "global"}
    /\ Commands \subseteq {"stop"} /\ Parkable = {}
OnlyStops == StopsAndExits /\ "exit" \notin Reports

Known == thread_hash[First]
operation == current_operation[First]

(* A thread exits once, when it has run; one that has exited never stops.   *)
ExitOrStop (t) ==
    /\ word[t] \in {"none", "stop", "int", "exit"} /\ (held.t = t => held.w \in {"stop", "int", "exit"})
    /\ word[t] = "exit" \/ (held.t = t /\ held.w = "exit") => kstate[t] = "dead"
    /\ word[t] \in {"stop", "int"} \/ (held.t = t /\ held.w # "exit") => kstate[t] = "stopped"
    /\ t \in Live => kstate[t] # "absent"
    /\ kstate[t] = "dead" => "exit" \in Reports

(* What no such step changes; and the wait thread rests during a handler.   *)
Calm ==
    /\ \A t \in Threads : ExitOrStop (t) /\ ~thread_lock[t] /\ op[t] # Own
    /\ calls # << >> => held = NoEvent /\ from_wait
    /\ pending_events = {} /\ ~hung
    /\ Known \subseteq Live /\ ("exit" \notin Reports => Known = Live)
    /\ \A p \in Processes \ {First} : thread_hash[p] = {}
    /\ process_hash = IF Known = {} THEN {} ELSE {First}
    /\ \A i \in DOMAIN results : results[i].process = First
    /\ command # NoEvent => command.t \in Live

(* Threads that have not stopped yet for the engine, and those that have.   *)
Carrying (T) == \A t \in T : ~Quiet (t) /\ op[t] = operation
Released (t) == engine_stopped[t] \/ Asked (t)
Idle (T) == \A t \in T : Quiet (t) /\ kstate[t] = "stopped" /\ op[t] = Null /\ Released (t)

IsOpen == operation # Null /\ ~results[operation].IsCompleted
IsClosed == operation # Null /\ results[operation].IsCompleted
GlobalKnown == global_operation # Null => operation # Null /\ results[operation].model = "global"

(* A call about a thread that has stopped, or else has exited; and the      *)
(* stack below the thread t that has completed the operation.               *)
Frame (s, name) ==
    /\ s # << >> /\ Head (s).call = name /\ Head (s).t \in Known
    /\ kstate[Head (s).t] = IF Head (s).w = "exit" THEN "dead" ELSE "stopped"
Base (s, t) == Frame (s, "completing") /\ Head (s).t = t /\ Tail (s) = << >>
Globally (s, t) ==
    /\ Frame (s, "global") /\ Head (s).t = t /\ ~Exited (t, Head (s).w) /\ Head (s).snap = {First}
    /\ Base (Tail (s), t)
Under (s, t) ==
    \/ Base (s, t) /\ global_operation = Null
    \/ Globally (s, t) /\ Head (s).todo = {}
Suspends (s) ==
    /\ Frame (s, "suspend") /\ Head (s).p = First
    /\ Head (s).snap = Known /\ Head (s).todo \subseteq Known
    /\ Under (Tail (s), Head (s).t)

(* The phases.                                                              *)
AllRun ==
    /\ calls = << >> /\ current_state[First] = "running"
    /\ IsOpen /\ GlobalKnown /\ Carrying (Known)
OneStops ==
    /\ current_state[First] = "running"
    /\ \/ Frame (calls, "complete") /\ op[top.t] = operation
       \/ Frame (calls, "completing") /\ top.w = "exit"
    /\ Tail (calls) = << >>
    /\ IsOpen /\ GlobalKnown /\ Carrying (Known \ {top.t})
IsTold ==
    /\ current_state[First] = "running" /\ IsClosed
    /\ calls # << >> /\ top.t \in Known /\ Released (top.t) /\ Carrying (Known \ {top.t})
    /\ \/ Globally (calls, top.t) /\ top.todo = {First}
       \/ Frame (calls, "host") /\ top.p = First /\ ~Exited (top.t, top.w) /\ Under (Tail (calls), top.t)
Stopping ==
    /\ current_state[First] = "stopping" /\ IsClosed
    /\ Suspends (calls) /\ Released (top.t)
    /\ Carrying (top.todo \ {top.t}) /\ Idle (Known \ (top.todo \cup {top.t}))
OtherStops ==
    /\ current_state[First] = "stopping" /\ IsClosed
    /\ calls # << >> /\ Frame (calls, top.call) /\ Suspends (Tail (calls))
    /\ LET f == Head (Tail (calls))
       IN  /\ Released (f.t) /\ top.t \in Known \ (f.todo \cup {f.t})
           /\ Carrying (f.todo \ {f.t}) /\ Idle (Known \ (f.todo \cup {f.t, top.t}))
    /\ \/ top.call = "complete" /\ op[top.t] = operation
       \/ top.call = "completing" /\ Released (top.t)
Ending ==
    /\ current_state[First] = "stopped"
    /\ calls # << >> /\ top.t \in Known /\ Released (top.t) /\ Idle (Known \ {top.t})
    /\ Under (calls, top.t)
AllStopped ==
    /\ calls = << >> /\ current_state[First] = "stopped"
    /\ global_operation = Null /\ Idle (Known)

(* An exit changed thread_hash during its enumeration: the process is left  *)
(* in Stopping, and nobody can complete anything.                           *)
LeftStopping ==
    /\ "exit" \in Reports /\ current_state[First] = "stopping"
    /\ \A t \in Known : ~Fresh (op[t])
    /\ \/ calls = << >>
       \/ calls # << >> /\ top.call = "suspend" /\ top.p = First /\ top.snap # Known
       \/ (Frame (calls, "complete") \/ Frame (calls, "completing")) /\ Tail (calls) = << >>
Gone == calls = << >> /\ current_state[First] = "exited" /\ Known = {}

Phases ==
    \/ AllRun \/ OneStops \/ IsTold \/ Stopping \/ OtherStops \/ Ending \/ AllStopped
    \/ LeftStopping \/ Gone
SInv == Calm /\ Phases

-----------------------------------------------------------------------------
(* Facts about this invariant.                                              *)

LEMMA FirstFacts ==
    /\ First \in Processes /\ Live \subseteq Threads /\ Live # {} /\ Live \cap Daemons = {}
    /\ \A t \in Live : ProcessOf[t] = First
    /\ NoThread \notin Threads
  <1>1. (CHOOSE t \in Live : TRUE) \in Live
    BY ProcessOpsAssumption
  <1> QED  BY <1>1, ProcessOpsAssumption DEF First

LEMMA TwoPushed ==
    ASSUME NEW s \in Seq (Frames), NEW f \in Frames, NEW g \in Frames
    PROVE  /\ <<f, g>> \o s # << >> /\ Head (<<f, g>> \o s) = f
           /\ Tail (<<f, g>> \o s) # << >> /\ Head (Tail (<<f, g>> \o s)) = g
           /\ Tail (Tail (<<f, g>> \o s)) = s
  <1> DEFINE r == <<f, g>> \o s
             q == <<g>> \o s
  <1>1. /\ q \in Seq (Frames) /\ q # << >> /\ Head (q) = g /\ Tail (q) = s
    BY Pushed
  <1>2. /\ <<f>> \o q \in Seq (Frames) /\ <<f>> \o q # << >> /\ Head (<<f>> \o q) = f
        /\ Tail (<<f>> \o q) = q
    BY <1>1, Pushed
  <1>3. r = <<f>> \o q
    <2>1. <<f, g>> \in Seq (Frames) /\ Len (<<f, g>>) = 2 /\ <<f, g>>[1] = f /\ <<f, g>>[2] = g
      OBVIOUS
    <2>2. <<f>> \in Seq (Frames) /\ Len (<<f>>) = 1 /\ <<f>>[1] = f
      OBVIOUS
    <2>3. <<g>> \in Seq (Frames) /\ Len (<<g>>) = 1 /\ <<g>>[1] = g
      OBVIOUS
    <2>4. /\ r \in Seq (Frames) /\ Len (r) = Len (s) + 2 /\ Len (s) \in Nat
          /\ \A k \in 1 .. Len (s) + 2 : r[k] = IF k <= 2 THEN <<f, g>>[k] ELSE s[k - 2]
      BY <2>1
    <2>5. /\ q \in Seq (Frames) /\ Len (q) = Len (s) + 1
          /\ \A k \in 1 .. Len (s) + 1 : q[k] = IF k = 1 THEN g ELSE s[k - 1]
      BY <2>3
    <2> DEFINE v == <<f>> \o q
    <2> HIDE DEF r, q
    <2>6. /\ v \in Seq (Frames) /\ Len (v) = Len (s) + 2
          /\ \A k \in 1 .. Len (s) + 2 : v[k] = IF k = 1 THEN f ELSE q[k - 1]
      BY <2>2, <2>4, <2>5
    <2> HIDE DEF v
    <2>7. \A k \in 1 .. Len (s) + 2 : r[k] = v[k]
      <3> SUFFICES ASSUME NEW k \in 1 .. Len (s) + 2 PROVE r[k] = v[k]
        OBVIOUS
      <3>1. CASE k = 1
        BY <2>1, <2>4, <2>6, <3>1
      <3>2. CASE k = 2
        <4>1. r[k] = g
          BY <2>1, <2>4, <3>2
        <4>2. v[k] = q[1] /\ q[1] = g
          BY <2>4, <2>5, <2>6, <3>2
        <4> QED  BY <4>1, <4>2
      <3>3. CASE k > 2
        <4>1. r[k] = s[k - 2]
          BY <2>4, <3>3
        <4>2. PICK j \in 1 .. Len (s) + 1 : j = k - 1 /\ j # 1 /\ j - 1 = k - 2
          BY <2>4, <3>3
        <4>3. q[j] = s[j - 1]
          BY <2>5, <4>2
        <4>4. v[k] = q[j]
          BY <2>4, <2>6, <3>3, <4>2
        <4> QED  BY <4>1, <4>2, <4>3, <4>4
      <3> QED  BY <2>4, <3>1, <3>2, <3>3
    <2> QED  BY <2>4, <2>6, <2>7 DEF v
  <1> HIDE DEF r, q
  <1> QED  BY <1>1, <1>2, <1>3 DEF r

(* What a step that leaves the thread t alone keeps.                        *)
LEMMA SameShapes ==
    ASSUME UNCHANGED <<global_operation, thread_hash>>, NEW t, kstate'[t] = kstate[t]
    PROVE  /\ \A s, n : Head (s).t = t => (Frame (s, n)' <=> Frame (s, n))
           /\ \A s : Base (s, t)' <=> Base (s, t)
           /\ \A s : Globally (s, t)' <=> Globally (s, t)
           /\ \A s : Under (s, t)' <=> Under (s, t)
           /\ \A s : Head (s).t = t => (Suspends (s)' <=> Suspends (s))
  <1>1. UNCHANGED Known
    BY DEF Known
  <1>2. \A s, n : Head (s).t = t => (Frame (s, n)' <=> Frame (s, n))
    BY <1>1 DEF Frame
  <1>3. \A s : Base (s, t)' <=> Base (s, t)
    BY <1>2 DEF Base
  <1>4. \A s : Globally (s, t)' <=> Globally (s, t)
    BY <1>2, <1>3 DEF Globally
  <1>5. \A s : Under (s, t)' <=> Under (s, t)
    BY <1>3, <1>4 DEF Under
  <1>6. \A s : Head (s).t = t => (Suspends (s)' <=> Suspends (s))
    BY <1>1, <1>2, <1>5 DEF Suspends
  <1> QED  BY <1>2, <1>3, <1>4, <1>5, <1>6

(* The threads of the first process that are alive are the known ones; one  *)
(* that is not quiet is neither stopped for the engine nor asked for.       *)
LEMMA LiveFacts ==
    ASSUME PInv, Calm, NEW t \in Threads
    PROVE  /\ Alive (t) <=> t \in Known
           /\ ~Quiet (t) => t \in Known /\ ~engine_stopped[t] /\ ~Asked (t) /\ ~Released (t)
  <1>1. Alive (t) <=> t \in Known
    BY FirstFacts, ProcessOpsAssumption DEF Alive, Calm, Known
  <1> QED  BY <1>1 DEF PInv, Events, Released

LEMMA KnownFacts ==
    ASSUME Calm
    PROVE  Known \subseteq Live /\ Known \subseteq Threads /\ Known \cap Daemons = {}
  BY FirstFacts DEF Calm

(* Which phase it is, by what the engine thread does.                       *)
LEMMA PhaseOf ==
    ASSUME Phases
    PROVE  /\ calls = << >> => AllRun \/ AllStopped \/ LeftStopping \/ Gone
           /\ In ("complete") => OneStops \/ OtherStops \/ LeftStopping
           /\ In ("completing") => OneStops \/ OtherStops \/ Ending \/ LeftStopping
           /\ In ("host") => IsTold
           /\ In ("global") => IsTold \/ Ending
           /\ In ("suspend") => Stopping \/ LeftStopping
  BY DEF Phases, AllRun, OneStops, IsTold, Stopping, OtherStops, Ending, AllStopped, LeftStopping, Gone,
         Frame, Base, Globally, Under, Suspends, In, top

(* Steps of the engine thread's control leave the threads as they are.      *)
LEMMA SamePhase ==
    ASSUME UNCHANGED <<kstate, word, held, pending_events, op, engine_stopped, command,
                       current_operation, results>>
    PROVE  /\ \A t : (Quiet (t)' <=> Quiet (t)) /\ (Released (t)' <=> Released (t))
           /\ \A T : (Carrying (T)' <=> Carrying (T)) /\ (Idle (T)' <=> Idle (T))
           /\ IsClosed' <=> IsClosed
  <1>1. \A t : (Quiet (t)' <=> Quiet (t)) /\ (Released (t)' <=> Released (t))
    BY DEF Quiet, Event, Released, Asked
  <1>2. \A T : (Carrying (T)' <=> Carrying (T)) /\ (Idle (T)' <=> Idle (T))
    BY <1>1 DEF Carrying, Idle, operation
  <1> QED  BY <1>1, <1>2 DEF IsClosed, operation

LEMMA CalmKept ==
    ASSUME Calm, calls # << >>,
           UNCHANGED <<kstate, word, held, from_wait, hung, pending_events, thread_lock, thread_hash,
                       process_hash, command>>,
           \A t \in Threads : op'[t] # Own,
           \A i \in DOMAIN results' : results'[i].process = First
    PROVE  Calm'
  BY DEF Calm, ExitOrStop, Known

LEMMA StackTop ==
    ASSUME PInv, calls # << >>
    PROVE  top \in Frames /\ FrameOK (top) /\ Tail (calls) \in Seq (Frames)
  BY CallsTop DEF PInv

LEMMA SuspendedQuiet ==
    ASSUME PInv, Tail (calls) # << >>, NEW f, f = Head (Tail (calls)), f.call = "suspend", f.t \in Threads
    PROVE  Settled (f.t) /\ Quiet (f.t)
  <1>1. calls # << >> /\ Tail (calls) \in Seq (Frames)
    BY DEF PInv, Calls
  <1>2. f \in Frames /\ InSeq (Tail (calls), f)
    BY <1>1, HeadFrame
  <1>3. FrameOK (f)
    BY <1>1, <1>2, CallsTop DEF PInv
  <1> QED  BY <1>3, FirstFacts DEF FrameOK

LEMMA GlobalNextPhase ==
    ASSUME PInv, SInv, GlobalNext
    PROVE  SInv'
  <1>1. /\ In ("global") /\ calls # << >> /\ top.call = "global" /\ (IsTold \/ Ending)
        /\ UNCHANGED <<kstate, word, held, from_wait, hung, pending_events, engine_stopped, op>>
        /\ UNCHANGED <<thread_lock, thread_hash, current_state, current_operation>>
        /\ UNCHANGED <<process_hash, global_operation, results, command>>
    BY PhaseOf DEF GlobalNext, SInv, In, top, target, sse, process, debugger
  <1>2. top \in Frames /\ Tail (calls) \in Seq (Frames)
    BY <1>1, StackTop
  <1>3. Globally (calls, top.t) /\ top.t \in Known /\ UNCHANGED Known
    BY <1>1 DEF IsTold, Ending, Under, Base, Frame, top, Known
  <1>4. process_hash = top.snap
    BY <1>3 DEF Globally, SInv, Calm, top
  <1>5. PICK p \in top.todo :
            calls' = <<HostCompleted (p, top.t, top.w), [top EXCEPT !.todo = @ \ {p}]>> \o Tail (calls)
    BY <1>4 DEF GlobalNext
  <1>6. IsTold /\ top.todo = {First} /\ p = First
    BY <1>1, <1>5 DEF IsTold, Ending, Under, Base, Frame, top
  <1>7. PICK g : g = [top EXCEPT !.todo = @ \ {p}]
    OBVIOUS
  <1>8. PICK h : h = HostCompleted (First, top.t, top.w)
    OBVIOUS
  <1>9. /\ g \in Frames /\ g.call = "global" /\ g.t = top.t /\ g.w = top.w
        /\ g.todo = {} /\ g.snap = {First}
    BY <1>1, <1>2, <1>3, <1>6, <1>7 DEF Frames, Globally, top
  <1>10. /\ h \in Frames /\ h.call = "host" /\ h.t = top.t /\ h.w = top.w /\ h.p = First
    BY <1>1, <1>2, <1>8, FirstFacts, FrameKinds DEF HostCompleted, Frames
  <1>11. calls' = <<h, g>> \o Tail (calls)
    BY <1>5, <1>6, <1>7, <1>8
  <1>12. /\ calls' # << >> /\ Head (calls') = h /\ Tail (calls') # << >>
         /\ Head (Tail (calls')) = g /\ Tail (Tail (calls')) = Tail (calls)
    BY <1>2, <1>9, <1>10, <1>11, TwoPushed
  <1>13. Under (Tail (calls), top.t)'
    BY <1>1, <1>3, <1>9, <1>10, <1>12 DEF Under, Globally, Frame, Base, top, Known
  <1>14. Frame (calls, "host")' /\ top'.p = First /\ ~Exited (top.t, top.w)'
    BY <1>1, <1>3, <1>10, <1>12 DEF Globally, Frame, Known, top, Exited
  <1>15. Carrying (Known \ {top.t})' /\ Released (top.t)' /\ IsClosed'
    BY <1>1, <1>3, <1>6, <1>10, <1>12, SamePhase DEF IsTold, top, Carrying, Released, Asked
  <1>16. IsTold'
    BY <1>1, <1>3, <1>6, <1>10, <1>12, <1>13, <1>14, <1>15 DEF IsTold, top
  <1>17. Calm'
    BY <1>1, CalmKept DEF SInv, Calm
  <1> QED  BY <1>16, <1>17 DEF SInv, Phases

LEMMA GlobalDonePhase ==
    ASSUME PInv, SInv, GlobalDone
    PROVE  SInv'
  <1>1. /\ In ("global") /\ calls # << >> /\ top.call = "global" /\ (IsTold \/ Ending)
        /\ top.todo = {} /\ calls' = Tail (calls) /\ global_operation' = Null
        /\ UNCHANGED <<kstate, word, held, from_wait, hung, pending_events, engine_stopped, op>>
        /\ UNCHANGED <<thread_lock, thread_hash, current_state, current_operation>>
        /\ UNCHANGED <<process_hash, results, command>>
    BY PhaseOf DEF GlobalDone, SInv, In, top, target, sse, process, debugger, Return
  <1>2. Ending /\ Globally (calls, top.t) /\ UNCHANGED Known
    BY <1>1 DEF IsTold, Ending, Under, Base, Frame, top, Known
  <1>3. Base (Tail (calls), top.t)
    BY <1>2 DEF Globally
  <1>4. calls' # << >> /\ Head (calls').t = top.t /\ Base (calls, top.t)'
    BY <1>1, <1>2, <1>3 DEF Base, Frame, top, Known
  <1>5. Under (calls, top.t)'
    BY <1>1, <1>4 DEF Under
  <1>6. Released (top.t)' /\ Idle (Known \ {top.t})'
    BY <1>1, <1>2, <1>4, SamePhase DEF Ending, top, Idle, Released, Asked
  <1>7. Ending'
    BY <1>1, <1>2, <1>4, <1>5, <1>6 DEF Ending, top
  <1>8. Calm'
    BY <1>1, CalmKept DEF SInv, Calm
  <1> QED  BY <1>7, <1>8 DEF SInv, Phases

LEMMA ProcessCompletedPhase ==
    ASSUME PInv, SInv, ProcessCompleted
    PROVE  SInv'
  <1>1. /\ In ("host") /\ calls # << >> /\ top.call = "host" /\ IsTold
        /\ UNCHANGED <<kstate, word, held, from_wait, hung, pending_events, engine_stopped, op>>
        /\ UNCHANGED <<thread_lock, thread_hash, current_operation>>
        /\ UNCHANGED <<process_hash, global_operation, results, command>>
    BY PhaseOf DEF ProcessCompleted, SInv, In, top, target, sse, process, debugger
  <1>2. top \in Frames /\ Tail (calls) \in Seq (Frames)
    BY <1>1, StackTop
  <1>3. /\ top.p = First /\ ~Exited (top.t, top.w) /\ Under (Tail (calls), top.t)
        /\ current_state[First] = "running" /\ top.t \in Known /\ Frame (calls, "host")
    BY <1>1 DEF IsTold, Globally, Frame, top
  <1>4. /\ current_state' = [current_state EXCEPT ![First] = "stopping"]
        /\ calls' = <<Suspend (First, top.t, top.w)>> \o Tail (calls)
    BY <1>3 DEF ProcessCompleted, TailCall, Exited, StopOnExit
  <1>5. PICK f : f = Suspend (First, top.t, top.w)
    OBVIOUS
  <1>6. Known \subseteq Threads /\ top.w \in Ends /\ UNCHANGED Known
    BY <1>1, <1>2, KnownFacts, FrameKinds DEF SInv, Known, Frames
  <1>7. /\ f \in Frames /\ f.call = "suspend" /\ f.t = top.t /\ f.w = top.w /\ f.p = First
        /\ f.todo = Known /\ f.snap = Known
    BY <1>3, <1>5, <1>6, FirstFacts DEF Suspend, Frames, Known
  <1>8. calls' # << >> /\ Head (calls') = f /\ Tail (calls') = Tail (calls)
    BY <1>2, <1>4, <1>5, <1>7, Pushed
  <1>9. Under (Tail (calls), top.t)'
    BY <1>1, <1>3, <1>6, <1>7, <1>8 DEF Under, Globally, Base, Frame, top
  <1>10. Suspends (calls)'
    BY <1>1, <1>3, <1>6, <1>7, <1>8, <1>9 DEF Suspends, Frame, top
  <1>11. Carrying (Known \ {top.t})' /\ Released (top.t)' /\ IsClosed'
    BY <1>1, <1>6, <1>7, <1>8, SamePhase DEF IsTold, top, Carrying, Released, Asked
  <1>12. Known \ (Known \cup {top.t}) = {}
    OBVIOUS
  <1>13. Idle (Known \ (top.todo \cup {top.t}))'
    BY <1>6, <1>7, <1>8 DEF Idle, top
  <1>14. current_state'[First] = "stopping"
    BY <1>4, FirstFacts, ControlTypes
  <1>15. Stopping'
    BY <1>6, <1>7, <1>8, <1>10, <1>11, <1>13, <1>14 DEF Stopping, top
  <1>16. Calm'
    BY <1>1, CalmKept DEF SInv, Calm
  <1> QED  BY <1>15, <1>16 DEF SInv, Phases

LEMMA OperationCompletedPhase ==
    ASSUME PInv, SInv, OperationCompleted
    PROVE  SInv'
  <1>1. /\ In ("complete") /\ calls # << >> /\ top.call = "complete" /\ (OneStops \/ OtherStops \/ LeftStopping)
        /\ engine_stopped' = [engine_stopped EXCEPT ![top.t] = TRUE]
        /\ UNCHANGED <<kstate, word, held, from_wait, hung, pending_events, op>>
        /\ UNCHANGED <<thread_lock, thread_hash, current_state, current_operation>>
        /\ UNCHANGED <<process_hash, global_operation, command>>
    BY PhaseOf DEF OperationCompleted, SInv, In, top, target, process
  <1>2. top \in Frames /\ Tail (calls) \in Seq (Frames) /\ Known \subseteq Threads /\ UNCHANGED Known
    BY <1>1, StackTop, KnownFacts DEF SInv, Known
  <1>3. Frame (calls, "complete") /\ top.t \in Known /\ top.t \in Threads /\ top.w \in Ends
    BY <1>1, <1>2, FrameKinds DEF OneStops, OtherStops, LeftStopping, Frame, top
  <1>4. PICK t \in Threads : t = top.t
    BY <1>3
  <1>5. PICK w \in Ends : w = top.w
    BY <1>3
  <1>6. PICK i : i = op[t]
    OBVIOUS
  <1>7. /\ i # Own /\ t \in Known /\ kstate[t] = IF w = "exit" THEN "dead" ELSE "stopped"
        /\ OneStops \/ OtherStops => i = operation /\ i # Null
    BY <1>1, <1>3, <1>4, <1>5, <1>6 DEF OneStops, OtherStops, IsOpen, IsClosed, SInv, Calm, Frame, top
  <1>8. /\ \A u \in Threads : engine_stopped'[u] = (engine_stopped[u] \/ u = t)
        /\ engine_stopped' \in [Threads -> BOOLEAN]
    BY <1>1, <1>4 DEF PInv, EngineTypes
  <1>9. /\ \A u \in Threads : (Quiet (u)' <=> Quiet (u)) /\ (Released (u) => Released (u)')
        /\ Released (t)'
    BY <1>1, <1>4, <1>8 DEF Quiet, Event, Released, Asked
  <1>10. \A T \in SUBSET Threads : (Carrying (T) => Carrying (T)') /\ (Idle (T) => Idle (T)')
    BY <1>1, <1>9 DEF Carrying, Idle, operation
  <1>11. PICK b : b = Completing (t, w)
    OBVIOUS
  <1>12. b \in Frames /\ b.call = "completing" /\ b.t = t /\ b.w = w
    BY <1>11 DEF Frames, Completing
  <1>13. op \in [Threads -> {Own} \cup Indices] /\ results \in Seq (Results)
    BY DEF PInv, ProcessTypes
  <1>14. CASE (OneStops \/ OtherStops \/ LeftStopping) /\ (~Fresh (i) \/ Exited (t, w)) /\ i # Null
    <2>1. UNCHANGED results /\ calls' = <<b>> \o Tail (calls)
      BY <1>4, <1>5, <1>6, <1>7, <1>11, <1>14 DEF OperationCompleted, Throw
    <2>2. calls' # << >> /\ Head (calls') = b /\ Tail (calls') = Tail (calls)
      BY <1>2, <1>12, <2>1, Pushed
    <2>3. Frame (calls, "completing")'
      BY <1>1, <1>2, <1>7, <1>12, <2>2 DEF Frame
    <2>4. Calm'
      BY <1>1, <2>1, CalmKept DEF SInv, Calm
    <2>5. ASSUME OneStops PROVE OneStops'
      <3>1. /\ Tail (calls) = << >> /\ IsOpen /\ GlobalKnown /\ Carrying (Known \ {t})
            /\ current_state[First] = "running"
        BY <1>4, <2>5 DEF OneStops, top
      <3>2. Exited (t, w)
        BY <1>7, <1>14, <2>5, <3>1 DEF Fresh, IsOpen
      <3>3. Carrying (Known \ {t})'
        BY <1>2, <1>10, <3>1
      <3>4. IsOpen' /\ GlobalKnown'
        BY <1>1, <2>1, <3>1 DEF IsOpen, GlobalKnown, operation
      <3> QED  BY <1>1, <1>2, <1>12, <2>2, <2>3, <3>1, <3>2, <3>3, <3>4 DEF OneStops, top, Exited
    <2>6. ASSUME OtherStops PROVE OtherStops'
      <3>1. PICK f : f = Head (Tail (calls))
        OBVIOUS
      <3>2. /\ current_state[First] = "stopping" /\ Suspends (Tail (calls)) /\ f.t \in Known
            /\ f.todo \subseteq Known /\ IsClosed
            /\ Released (f.t) /\ t \in Known \ (f.todo \cup {f.t})
            /\ Carrying (f.todo \ {f.t}) /\ Idle (Known \ (f.todo \cup {f.t, t}))
        BY <1>4, <2>6, <3>1 DEF OtherStops, Suspends, Frame, top
      <3>3. Suspends (Tail (calls))' /\ IsClosed'
        BY <1>1, <1>2, <2>1, <2>2, <3>2
           DEF Suspends, Under, Globally, Base, Frame, IsClosed, operation
      <3>4. Carrying (f.todo \ {f.t})' /\ Idle (Known \ (f.todo \cup {f.t, t}))'
        BY <1>2, <1>10, <3>2
      <3>5. Released (f.t)'
        BY <1>2, <1>9, <3>2
      <3> QED  BY <1>1, <1>2, <1>9, <1>12, <2>2, <2>3, <3>1, <3>2, <3>3, <3>4, <3>5 DEF OtherStops, top
    <2>7. ASSUME LeftStopping PROVE LeftStopping'
      <3>1. /\ "exit" \in Reports /\ current_state[First] = "stopping"
            /\ \A u \in Known : ~Fresh (op[u])
            /\ Tail (calls) = << >>
        BY <1>1, <2>7 DEF LeftStopping
      <3>2. (\A u \in Known : ~Fresh (op[u]))'
        BY <1>1, <1>2, <2>1, <3>1 DEF Fresh
      <3> QED  BY <1>1, <2>2, <2>3, <3>1, <3>2 DEF LeftStopping
    <2> QED  BY <1>14, <2>4, <2>5, <2>6, <2>7 DEF SInv, Phases
  <1>15. CASE LeftStopping /\ i = Null
    <2>1. UNCHANGED results /\ calls' = << >>
      BY <1>4, <1>6, <1>15 DEF OperationCompleted, Throw
    <2>2. /\ "exit" \in Reports /\ current_state[First] = "stopping"
          /\ \A u \in Known : ~Fresh (op[u])
      BY <1>15 DEF LeftStopping
    <2>3. (\A u \in Known : ~Fresh (op[u]))'
      BY <1>1, <1>2, <2>1, <2>2 DEF Fresh
    <2>4. LeftStopping'
      BY <1>1, <2>1, <2>2, <2>3 DEF LeftStopping
    <2>5. Calm'
      BY <1>1, <2>1, CalmKept DEF SInv, Calm
    <2> QED  BY <2>4, <2>5 DEF SInv, Phases
  <1>16. CASE OneStops /\ Fresh (i) /\ ~Exited (t, w) /\ i # Null
    <2>1. /\ IsOpen /\ GlobalKnown /\ Tail (calls) = << >> /\ Carrying (Known \ {t})
          /\ current_state[First] = "running" /\ i = operation
      BY <1>4, <1>7, <1>16 DEF OneStops, top
    <2>2. /\ results' = [results EXCEPT ![i].IsCompleted = TRUE]
          /\ calls' = <<IF results[i].model = "global" THEN GlobalCompleted (t, w)
                        ELSE HostCompleted (results[i].process, t, w)>>
                      \o (<<Completing (t, w)>> \o Tail (calls))
      BY <1>4, <1>5, <1>6, <1>7, <1>16 DEF OperationCompleted
    <2>3. i \in DOMAIN results /\ \A k \in DOMAIN results : results[k] \in Results
      <3>1. op[t] \in {Own} \cup Indices
        BY <1>7, <1>13
      <3>2. i \in DOMAIN results
        BY <1>6, <1>7, <1>16, <3>1 DEF Indices
      <3>3. \A k \in DOMAIN results : results[k] \in Results
        BY <1>13
      <3> QED  BY <3>2, <3>3
    <2>4. /\ DOMAIN results' = DOMAIN results /\ results'[i].IsCompleted
          /\ \A k \in DOMAIN results : results'[k].process = results[k].process
      <3>1. /\ DOMAIN results' = DOMAIN results
            /\ \A k \in DOMAIN results :
                  results'[k] = IF k = i THEN [results[k] EXCEPT !.IsCompleted = TRUE] ELSE results[k]
        BY <2>2, <2>3
      <3> QED  BY <2>3, <3>1 DEF Results
    <2>5. IsClosed' /\ operation' = operation /\ results[i].process = First
      BY <1>1, <1>16, <2>1, <2>3, <2>4 DEF IsClosed, operation, SInv, Calm
    <2>6. PICK f : f = IF results[i].model = "global" THEN GlobalCompleted (t, w)
                       ELSE HostCompleted (First, t, w)
      OBVIOUS
    <2>7. process_hash = {First} /\ First \in Processes
      BY <1>7, FirstFacts DEF SInv, Calm
    <2>8. /\ f \in Frames /\ f.t = t /\ f.w = w
          /\ results[i].model = "global" => f.call = "global" /\ f.todo = {First} /\ f.snap = {First}
          /\ results[i].model # "global" => f.call = "host" /\ f.p = First
      BY <2>6, <2>7 DEF Frames, GlobalCompleted, HostCompleted
    <2>9. PICK s \in Seq (Frames) : s = <<b>> \o Tail (calls) /\ s # << >> /\ Head (s) = b /\ Tail (s) = << >>
      BY <1>2, <1>12, <2>1, Pushed
    <2>10. calls' = <<f>> \o s
      BY <1>11, <2>2, <2>5, <2>6, <2>9
    <2>11. calls' # << >> /\ Head (calls') = f /\ Tail (calls') = s
      BY <2>8, <2>9, <2>10, Pushed
    <2>12. Base (s, t)'
      BY <1>1, <1>2, <1>7, <1>12, <2>9 DEF Base, Frame
    <2>13. results[i].model # "global" => global_operation = Null
      BY <2>1 DEF GlobalKnown
    <2>14. CASE results[i].model = "global"
      <3>1. Globally (calls, top.t)' /\ (top.todo = {First})'
        BY <1>1, <1>2, <1>7, <1>16, <2>8, <2>11, <2>12, <2>14 DEF Globally, Frame, top, Exited
      <3> QED  BY <1>1, <1>2, <1>7, <1>9, <1>10, <2>1, <2>5, <2>8, <2>11, <2>14, <3>1, CalmKept, <2>4, ZenonT (30)
               DEF IsTold, top, SInv, Phases, Calm
    <2>15. CASE results[i].model # "global"
      <3>1. Frame (calls, "host")' /\ (top.p = First)' /\ ~Exited (top.t, top.w)' /\ Under (Tail (calls), top.t)'
        BY <1>1, <1>2, <1>7, <1>16, <2>8, <2>11, <2>12, <2>13, <2>15 DEF Frame, Under, top, Exited
      <3> QED  BY <1>1, <1>2, <1>7, <1>9, <1>10, <2>1, <2>5, <2>8, <2>11, <2>15, <3>1, CalmKept, <2>4
               DEF IsTold, top, SInv, Phases, Calm
    <2> QED  BY <2>14, <2>15
  <1>17. OtherStops \/ LeftStopping => ~Fresh (i)
    BY <1>6, <1>7 DEF OtherStops, IsClosed, LeftStopping, Fresh
  <1> QED  BY <1>1, <1>7, <1>14, <1>15, <1>16, <1>17

(* The thread that exits leaves the process.                                *)
LEMMA OperationDonePhase ==
    ASSUME PInv, SInv, OperationDone
    PROVE  SInv'
  <1>1. /\ In ("completing") /\ calls # << >> /\ top.call = "completing"
        /\ OneStops \/ OtherStops \/ Ending \/ LeftStopping
        /\ calls' = Tail (calls) /\ op' = [op EXCEPT ![top.t] = Null]
        /\ UNCHANGED <<kstate, word, held, from_wait, hung, pending_events, engine_stopped>>
        /\ UNCHANGED <<thread_lock, global_operation, results, command>>
    BY PhaseOf DEF OperationDone, SInv, In, top, target, Return
  <1>2. Frame (calls, "completing") /\ top.t \in Known
    BY <1>1 DEF OneStops, OtherStops, Ending, LeftStopping, Under, Globally, Base, Frame, top
  <1>3. PICK t \in Threads : t = top.t
    BY <1>2, KnownFacts DEF SInv
  <1>4. PICK w : w = top.w
    OBVIOUS
  <1>5. /\ t \in Known /\ ProcessOf[t] = First /\ Quiet (t)
        /\ kstate[t] = IF w = "exit" THEN "dead" ELSE "stopped"
    BY <1>1, <1>2, <1>3, <1>4, FirstFacts, KnownFacts, StackTop DEF FrameOK, SInv, Frame, top
  <1>6. PICK last, completes : /\ last = (w = "exit" /\ Known = {t})
                               /\ completes = (last /\ current_state[First] = "running")
    OBVIOUS
  <1>7. /\ Known' = IF w = "exit" THEN Known \ {t} ELSE Known
        /\ \A p \in Processes \ {First} : thread_hash'[p] = thread_hash[p]
        /\ current_state'[First] = IF completes THEN "exited" ELSE current_state[First]
        /\ operation' = IF completes THEN Null ELSE operation
        /\ process_hash' = IF last THEN process_hash \ {First} ELSE process_hash
    <2>1. /\ thread_hash' = [thread_hash EXCEPT ![First] = IF w = "exit" THEN @ \ {t} ELSE @]
          /\ current_state' = [current_state EXCEPT ![First] = IF completes THEN "exited" ELSE @]
          /\ current_operation' = [current_operation EXCEPT ![First] = IF completes THEN Null ELSE @]
          /\ process_hash' = IF last THEN process_hash \ {First} ELSE process_hash
      BY <1>3, <1>4, <1>5, <1>6, Zenon DEF OperationDone, Known
    <2>2. thread_hash \in [Processes -> SUBSET Threads]
      BY DEF PInv, ProcessTypes
    <2> QED  BY <2>1, <2>2, FirstFacts, ControlTypes DEF Known, operation
  <1>8. /\ op'[t] = Null /\ \A u \in Threads : u # t => op'[u] = op[u]
        /\ \A u \in Threads : op'[u] # Own
    <2>1. op \in [Threads -> {Own} \cup Indices] /\ \A u \in Threads : op[u] # Own
      BY DEF PInv, ProcessTypes, SInv, Calm
    <2>2. Null # Own
      BY ProcessOpsAssumption DEF Null, Own
    <2> QED  BY <1>1, <1>3, <2>1, <2>2
  <1>9. \A u \in Threads : (Quiet (u)' <=> Quiet (u)) /\ (Released (u)' <=> Released (u))
    BY <1>1 DEF Quiet, Event, Released, Asked
  <1>10. Known \subseteq Threads /\ Known \subseteq Live
    BY KnownFacts DEF SInv
  <1>11. \A T \in SUBSET (Threads \ {t}) :
            (operation' = operation /\ Carrying (T) => Carrying (T)') /\ (Idle (T) => Idle (T)')
    BY <1>1, <1>8, <1>9 DEF Carrying, Idle
  <1>12. w = "exit" => "exit" \in Reports
    BY <1>5, <1>3 DEF SInv, Calm, ExitOrStop
  <1>13. Calm'
    <2>1. /\ Known' \subseteq Live /\ ("exit" \notin Reports => Known' = Live)
          /\ \A p \in Processes \ {First} : thread_hash'[p] = {}
      BY <1>7, <1>10, <1>12 DEF SInv, Calm
    <2>2. process_hash' = IF Known' = {} THEN {} ELSE {First}
      BY <1>5, <1>6, <1>7 DEF SInv, Calm
    <2>3. \A u \in Threads : ExitOrStop (u)' /\ ~thread_lock'[u]
      BY <1>1 DEF SInv, Calm, ExitOrStop
    <2> QED  BY <1>1, <1>8, <2>1, <2>2, <2>3 DEF SInv, Calm
  <1>14. ASSUME OneStops PROVE SInv'
    <2>1. /\ Tail (calls) = << >> /\ IsOpen /\ GlobalKnown /\ Carrying (Known \ {t}) /\ w = "exit"
          /\ current_state[First] = "running"
      BY <1>1, <1>3, <1>4, <1>14 DEF OneStops, Frame, top
    <2>2. CASE Known = {t}
      <3>1. Gone'
        BY <1>1, <1>6, <1>7, <2>1, <2>2 DEF Gone
      <3> QED  BY <1>13, <3>1 DEF SInv, Phases
    <2>3. CASE Known # {t}
      <3>1. operation' = operation /\ Known' = Known \ {t} /\ current_state'[First] = "running"
        BY <1>6, <1>7, <2>1, <2>3
      <3>2. Carrying (Known)'
        BY <1>10, <1>11, <2>1, <3>1
      <3>3. IsOpen' /\ GlobalKnown'
        BY <1>1, <2>1, <3>1 DEF IsOpen, GlobalKnown
      <3>4. AllRun'
        BY <1>1, <2>1, <3>1, <3>2, <3>3 DEF AllRun
      <3> QED  BY <1>13, <3>4 DEF SInv, Phases
    <2> QED  BY <2>2, <2>3
  <1>15. ASSUME OtherStops PROVE SInv'
    <2>1. PICK f : f = Head (Tail (calls))
      OBVIOUS
    <2>2. /\ current_state[First] = "stopping" /\ Suspends (Tail (calls)) /\ IsClosed /\ f.t \in Known
          /\ Tail (calls) # << >> /\ f.todo \subseteq Known /\ f.snap = Known
          /\ f.call = "suspend" /\ f.p = First
          /\ Released (f.t) /\ Released (t) /\ t \in Known \ (f.todo \cup {f.t})
          /\ Carrying (f.todo \ {f.t}) /\ Idle (Known \ (f.todo \cup {f.t, t}))
      BY <1>1, <1>3, <1>15, <2>1 DEF OtherStops, Suspends, Frame, top
    <2>3. ~completes /\ operation' = operation /\ current_state'[First] = "stopping" /\ IsClosed'
      BY <1>1, <1>6, <1>7, <2>2 DEF IsClosed
    <2>4. CASE w # "exit"
      <3>1. UNCHANGED Known
        BY <1>7, <2>4
      <3>2. Carrying (f.todo \ {f.t})' /\ Idle (Known \ (f.todo \cup {f.t, t}))'
        BY <1>10, <1>11, <2>2, <2>3, <3>1
      <3>3. Quiet (t)' /\ kstate'[t] = "stopped" /\ op'[t] = Null /\ Released (t)'
        BY <1>1, <1>5, <1>8, <1>9, <2>2, <2>4
      <3>4. Idle (Known \ (f.todo \cup {f.t}))'
        BY <3>2, <3>3 DEF Idle
      <3>5. Suspends (calls)'
        BY <1>1, <2>2, <3>1 DEF Suspends, Under, Globally, Base, Frame
      <3>6. Released (f.t)'
        BY <1>9, <1>10, <2>2
      <3>7. Stopping'
        BY <1>1, <2>1, <2>2, <2>3, <3>2, <3>4, <3>5, <3>6 DEF Stopping, top
      <3> QED  BY <1>13, <3>7 DEF SInv, Phases
    <2>5. CASE w = "exit"
      <3>1. \A u \in Known : ~Fresh (op[u]) \/ u = t
        <4> SUFFICES ASSUME NEW u \in Known, u # t, Fresh (op[u]) PROVE FALSE
          OBVIOUS
        <4>1. op[u] = operation \/ op[u] = Null \/ u = f.t
          BY <2>2 DEF Carrying, Idle
        <4>2. u = f.t
          BY <1>10, <2>2, <4>1 DEF IsClosed, Fresh, SInv, Calm
        <4>3. Settled (u)
          BY <1>10, <2>1, <2>2, <4>2, SuspendedQuiet
        <4> QED  BY <1>10, <4>3 DEF Settled, Fresh, SInv, Calm
      <3>2. (\A u \in Known : ~Fresh (op[u]))'
        BY <1>1, <1>7, <1>8, <1>10, <2>5, <3>1 DEF Fresh
      <3>3. Known' # f.snap
        BY <1>5, <1>7, <2>2, <2>5
      <3>4. LeftStopping'
        BY <1>1, <1>12, <2>1, <2>2, <2>3, <2>5, <3>2, <3>3 DEF LeftStopping, top
      <3> QED  BY <1>13, <3>4 DEF SInv, Phases
    <2> QED  BY <2>4, <2>5
  <1>16. ASSUME Ending PROVE SInv'
    <2>1. /\ global_operation = Null /\ Tail (calls) = << >> /\ Released (t)
          /\ current_state[First] = "stopped" /\ Idle (Known \ {t})
      BY <1>1, <1>3, <1>16 DEF Ending, Under, Globally, Base, Frame, top
    <2>2. Idle (Known \ {t})'
      <3>1. Idle (Known \ {t}) => \A T : T = Known \ {t} => Idle (T)'
        BY <1>10, <1>11
      <3>2. PICK T : T = Known \ {t}
        OBVIOUS
      <3>3. Idle (T)' /\ (Known \ {t})' = T
        BY <1>7, <2>1, <3>1, <3>2
      <3> QED  BY <3>3 DEF Idle
    <2>3. w # "exit" => Quiet (t)' /\ kstate'[t] = "stopped" /\ op'[t] = Null /\ Released (t)'
      BY <1>1, <1>5, <1>8, <1>9, <2>1
    <2>4. w = "exit" => Known' = (Known \ {t})'
      BY <1>7
    <2>5. Idle (Known)'
      BY <2>2, <2>3, <2>4 DEF Idle
    <2>6. AllStopped'
      BY <1>1, <1>6, <1>7, <2>1, <2>5 DEF AllStopped
    <2> QED  BY <1>13, <2>6 DEF SInv, Phases
  <1>17. ASSUME LeftStopping PROVE SInv'
    <2>1. /\ "exit" \in Reports /\ current_state[First] = "stopping" /\ Tail (calls) = << >>
          /\ \A u \in Known : ~Fresh (op[u])
      BY <1>1, <1>17 DEF LeftStopping
    <2>2. current_state'[First] = "stopping"
      BY <1>6, <1>7, <2>1
    <2>3. (\A u \in Known : ~Fresh (op[u]))'
      <3>1. Known' \subseteq Known /\ ~Fresh (Null)
        BY <1>7, ProcessOpsAssumption DEF Fresh, Null, Own
      <3> QED  BY <1>1, <1>8, <1>10, <2>1, <3>1 DEF Fresh
    <2>4. LeftStopping'
      BY <1>1, <2>1, <2>2, <2>3 DEF LeftStopping
    <2> QED  BY <1>13, <2>4 DEF SInv, Phases
  <1> QED  BY <1>1, <1>14, <1>15, <1>16, <1>17

-----------------------------------------------------------------------------
(* Suspending the other threads.                                            *)

(* A change of thread_hash ends it; otherwise each thread that has not been *)
(* visited runs, or has an event that can be reaped.                        *)
LEMMA SuspendFacts ==
    ASSUME PInv, SInv, In ("suspend")
    PROVE  /\ calls # << >> /\ top \in Frames /\ Tail (calls) \in Seq (Frames)
           /\ top.call = "suspend" /\ top.p = First
           /\ thread_hash[top.p] # top.snap => LeftStopping
           /\ thread_hash[top.p] = top.snap =>
                 /\ Stopping /\ top.t \in Known
                 /\ top.snap = Known /\ top.todo \subseteq Known
                 /\ \A u \in top.todo \ {top.t} :
                       /\ u \in Threads /\ ~Skipped (u) /\ op[u] = operation
                       /\ kstate[u] = "running" \/ word[u] # "none"
  <1>1. (Stopping \/ LeftStopping) /\ calls # << >> /\ top.call = "suspend"
    BY PhaseOf DEF SInv, In, top
  <1>2. top \in Frames /\ Tail (calls) \in Seq (Frames)
    BY <1>1, StackTop
  <1>3. /\ top.p = First
        /\ Stopping => top.t \in Known /\ top.snap = Known /\ top.todo \subseteq Known
        /\ LeftStopping => top.snap # Known
    BY <1>1 DEF Stopping, LeftStopping, Suspends, Frame, top
  <1>4. thread_hash[top.p] = Known
    BY <1>3 DEF Known
  <1>5. held = NoEvent /\ pending_events = {}
    BY <1>1 DEF SInv, Calm
  <1>6. ASSUME Stopping, NEW u \in top.todo \ {top.t}
        PROVE  /\ u \in Threads /\ ~Skipped (u) /\ op[u] = operation
               /\ kstate[u] = "running" \/ word[u] # "none"
    <2>1. u \in Known /\ u \in Threads /\ u \notin Daemons /\ ~Quiet (u) /\ op[u] = operation
      BY <1>3, <1>6, KnownFacts DEF Stopping, Carrying, SInv
    <2>2. ~engine_stopped[u]
      BY <2>1, LiveFacts DEF SInv
    <2>3. held.t # u
      BY <1>5, <2>1, FirstFacts DEF NoEvent
    <2> QED  BY <1>5, <1>6, <2>1, <2>2, <2>3 DEF Skipped, Quiet, Event
  <1> QED  BY <1>1, <1>2, <1>3, <1>4, <1>6

(* It throws only when the enumeration finds the hash table changed.        *)
LEMMA SuspendThrown ==
    ASSUME PInv, SInv, SuspendThrows
    PROVE  LeftStopping /\ calls # << >>
  <1>1. In ("suspend")
    BY DEF SuspendThrows
  <1>2. ASSUME thread_hash[top.p] = top.snap PROVE FALSE
    <2>1. PICK t \in top.todo : /\ ~Skipped (t)
                                /\ thread_lock[t] \/ (kstate[t] = "dead" /\ word[t] = "none")
      BY <1>2 DEF SuspendThrows
    <2>2. t \in Threads /\ (kstate[t] = "running" \/ word[t] # "none")
      BY <1>1, <1>2, <2>1, SuspendFacts DEF Skipped
    <2> QED  BY <2>1, <2>2 DEF SInv, Calm
  <1> QED  BY <1>1, <1>2, SuspendFacts

LEMMA SuspendThrowsPhase ==
    ASSUME PInv, SInv, SuspendThrows
    PROVE  SInv'
  <1>1. /\ In ("suspend") /\ calls' = << >>
        /\ UNCHANGED <<kstate, word, held, from_wait, hung, pending_events, engine_stopped, op>>
        /\ UNCHANGED <<thread_lock, thread_hash, current_state, current_operation>>
        /\ UNCHANGED <<process_hash, global_operation, results, command>>
    BY DEF SuspendThrows, Throw, target, sse, process, debugger
  <1>2. LeftStopping /\ calls # << >>
    BY SuspendThrown
  <1>3. (\A u \in Known : ~Fresh (op[u]))'
    BY <1>1, <1>2 DEF LeftStopping, Known, Fresh
  <1>4. LeftStopping'
    BY <1>1, <1>2, <1>3 DEF LeftStopping
  <1>5. Calm'
    BY <1>1, <1>2, CalmKept DEF SInv, Calm
  <1> QED  BY <1>4, <1>5 DEF SInv, Phases

LEMMA NoHang ==
    ASSUME PInv, SInv
    PROVE  \A t \in Threads : ~SuspendHangs (t)
  <1> SUFFICES ASSUME NEW t \in Threads, SuspendHangs (t) PROVE FALSE
    OBVIOUS
  <1>1. /\ In ("suspend") /\ thread_hash[top.p] = top.snap /\ t \in top.todo /\ t # top.t
        /\ kstate[t] = "stopped" /\ word[t] = "none"
    BY DEF SuspendHangs, Suspending, Skipped
  <1> QED  BY <1>1, SuspendFacts

LEMMA SuspendSkipPhase ==
    ASSUME PInv, SInv, NEW t \in Threads, SuspendSkip (t)
    PROVE  SInv'
  <1>1. /\ In ("suspend") /\ thread_hash[top.p] = top.snap /\ t \in top.todo /\ Skipped (t)
        /\ calls' = <<Rest (t)>> \o Tail (calls)
        /\ UNCHANGED <<kstate, word, held, from_wait, hung, pending_events, engine_stopped, op>>
        /\ UNCHANGED <<thread_lock, thread_hash, current_state, current_operation>>
        /\ UNCHANGED <<process_hash, global_operation, results, command>>
    BY DEF SuspendSkip, Suspending, TailCall, target, sse, process, debugger
  <1>2. /\ Stopping /\ calls # << >> /\ top \in Frames /\ Tail (calls) \in Seq (Frames)
        /\ top.call = "suspend" /\ UNCHANGED Known
    BY <1>1, SuspendFacts DEF Known
  <1>3. t = top.t
    BY <1>1, SuspendFacts
  <1>4. PICK g : g = Rest (t)
    OBVIOUS
  <1>5. /\ g \in Frames /\ g.call = "suspend" /\ g.t = top.t /\ g.w = top.w /\ g.p = top.p
        /\ g.todo = top.todo \ {t} /\ g.snap = top.snap
    BY <1>2, <1>4 DEF Frames, Rest
  <1>6. calls' # << >> /\ Head (calls') = g /\ Tail (calls') = Tail (calls)
    BY <1>1, <1>2, <1>4, <1>5, Pushed
  <1>7. Suspends (calls)'
    BY <1>1, <1>2, <1>5, <1>6, ZenonT (30) DEF Stopping, Suspends, Under, Globally, Base, Frame, top
  <1>8. g.todo \ {g.t} = top.todo \ {top.t} /\ Known \ (g.todo \cup {g.t}) = Known \ (top.todo \cup {top.t})
    BY <1>1, <1>3, <1>5
  <1>9. Carrying (g.todo \ {g.t})' /\ Idle (Known \ (g.todo \cup {g.t}))' /\ Released (g.t)' /\ IsClosed'
    <2>1. PICK T : T = Known \ (g.todo \cup {g.t})
      OBVIOUS
    <2>2. Carrying (g.todo \ {g.t}) /\ Idle (T) /\ Released (g.t) /\ IsClosed
      BY <1>2, <1>5, <1>8, <2>1 DEF Stopping
    <2>3. (Known \ (g.todo \cup {g.t}))' = T
      BY <1>2, <2>1
    <2> QED  BY <1>1, <2>2, <2>3, SamePhase DEF Idle
  <1>10. Stopping'
    BY <1>1, <1>2, <1>6, <1>7, <1>9 DEF Stopping, top
  <1>11. Calm'
    BY <1>1, <1>2, CalmKept DEF SInv, Calm
  <1> QED  BY <1>10, <1>11 DEF SInv, Phases

(* The thread has stopped or exited: its operation completes.               *)
Interrupts (t, w) ==
    /\ Suspending (t) /\ ~Skipped (t) /\ SuspendEvent (t, w)
    /\ kstate'[t] = (IF w = "exit" THEN "dead" ELSE "stopped") /\ word'[t] = "none"
    /\ w = "exit" => "exit" \in Reports
    /\ \A u \in Threads \ {t} : kstate'[u] = kstate[u] /\ word'[u] = word[u]
    /\ UNCHANGED <<held, from_wait, hung, pending_events, command>>

LEMMA InterruptedPhase ==
    ASSUME PInv, SInv, NEW t \in Threads, NEW w \in {"stop", "int", "exit"}, Interrupts (t, w)
    PROVE  SInv'
  <1>1. In ("suspend") /\ thread_hash[top.p] = top.snap /\ t \in top.todo /\ t # top.t
    BY DEF Interrupts, Suspending, Skipped
  <1>2. /\ Stopping /\ calls # << >> /\ top \in Frames /\ Tail (calls) \in Seq (Frames)
        /\ top.call = "suspend" /\ top.todo \subseteq Known /\ op[t] = operation
        /\ Known \subseteq Threads
    BY <1>1, SuspendFacts, KnownFacts DEF SInv
  <1>3. PICK v : v = IF w = "exit" THEN "exit" ELSE "null"
    OBVIOUS
  <1>4. /\ calls' = <<Complete (t, v), Rest (t)>> \o Tail (calls)
        /\ \A u \in Threads : thread_lock'[u] => thread_lock[u]
        /\ UNCHANGED <<engine_stopped, op, thread_hash, current_state, current_operation>>
        /\ UNCHANGED <<process_hash, global_operation, results>>
    <2>1. op[t] # Null
      BY <1>2 DEF Stopping, IsClosed
    <2>2. CASE w = "exit"
      BY <1>3, <2>1, <2>2 DEF Interrupts, SuspendEvent, sse, process, debugger
    <2>3. CASE w # "exit"
      <3>1. /\ calls' = <<Complete (t, "null"), Rest (t)>> \o Tail (calls)
            /\ thread_lock' = [thread_lock EXCEPT ![t] = FALSE]
            /\ UNCHANGED <<engine_stopped, op, process, debugger>>
        BY <2>3 DEF Interrupts, SuspendEvent
      <3>2. thread_lock \in [Threads -> BOOLEAN]
        BY DEF PInv, EngineTypes
      <3> QED  BY <1>3, <2>3, <3>1, <3>2 DEF process, debugger
    <2> QED  BY <2>2, <2>3
  <1>5. PICK g : g = Rest (t)
    OBVIOUS
  <1>6. /\ g \in Frames /\ g.call = "suspend" /\ g.t = top.t /\ g.w = top.w /\ g.p = top.p
        /\ g.todo = top.todo \ {t} /\ g.snap = top.snap
    BY <1>2, <1>5 DEF Frames, Rest
  <1>7. PICK f : f = Complete (t, v)
    OBVIOUS
  <1>8. f \in Frames /\ f.call = "complete" /\ f.t = t /\ f.w = v
    BY <1>3, <1>7 DEF Frames, Complete, Ends
  <1>9. calls' = <<f, g>> \o Tail (calls)
    BY <1>4, <1>5, <1>7
  <1>10. /\ calls' # << >> /\ Head (calls') = f /\ Tail (calls') # << >>
         /\ Head (Tail (calls')) = g /\ Tail (Tail (calls')) = Tail (calls)
    BY <1>2, <1>6, <1>8, <1>9, TwoPushed
  <1>11. /\ Frame (calls, "suspend") /\ top.p = First /\ top.t \in Known /\ top.snap = Known
         /\ Under (Tail (calls), top.t) /\ UNCHANGED Known /\ kstate'[top.t] = kstate[top.t]
    BY <1>1, <1>2, <1>4 DEF Stopping, Suspends, Frame, top, Interrupts, Known
  <1>12. Suspends (Tail (calls))'
    <2>1. Frame (Tail (calls), "suspend")'
      BY <1>6, <1>10, <1>11 DEF Frame, top
    <2> QED  BY <1>2, <1>4, <1>6, <1>10, <1>11, <2>1, ZenonT (30) DEF Suspends, Under, Globally, Base, Frame
  <1>13. \A u \in Threads \ {t} : /\ Quiet (u)' <=> Quiet (u)
                                  /\ Released (u)' <=> Released (u)
                                  /\ kstate'[u] = kstate[u]
    BY <1>4 DEF Interrupts, Quiet, Event, Released, Asked
  <1>14. \A T \in SUBSET (Threads \ {t}) : (Carrying (T) => Carrying (T)') /\ (Idle (T) => Idle (T)')
    BY <1>4, <1>13 DEF Carrying, Idle, operation
  <1>15. /\ Carrying (top.todo \ {top.t}) /\ Idle (Known \ (top.todo \cup {top.t}))
         /\ Released (top.t) /\ IsClosed /\ current_state[First] = "stopping"
    BY <1>2 DEF Stopping, Suspends, top
  <1>16. Carrying (g.todo \ {g.t})
    BY <1>6, <1>15 DEF Carrying
  <1>17. Known \ (g.todo \cup {g.t, t}) = Known \ (top.todo \cup {top.t})
    BY <1>1, <1>6
  <1>18. /\ g.todo \ {g.t} \in SUBSET (Threads \ {t})
         /\ Known \ (g.todo \cup {g.t, t}) \in SUBSET (Threads \ {t})
    BY <1>2, <1>6
  <1>19. Carrying (g.todo \ {g.t})' /\ Idle (Known \ (g.todo \cup {g.t, t}))'
    <2>1. PICK T : T = Known \ (g.todo \cup {g.t, t})
      OBVIOUS
    <2>2. Carrying (g.todo \ {g.t})' /\ Idle (T)'
      BY <1>14, <1>15, <1>16, <1>17, <1>18, <2>1
    <2>3. (Known \ (g.todo \cup {g.t, t}))' = T
      BY <1>11, <2>1
    <2> QED  BY <2>2, <2>3 DEF Idle
  <1>20. Released (g.t)' /\ IsClosed' /\ t \in Known' \ (g.todo \cup {g.t}) /\ op'[t] = operation'
    BY <1>1, <1>2, <1>4, <1>6, <1>11, <1>13, <1>15 DEF IsClosed, operation
  <1>21. Frame (calls, "complete")'
    BY <1>1, <1>2, <1>3, <1>8, <1>10, <1>11 DEF Frame, Interrupts
  <1>22. OtherStops'
    BY <1>4, <1>8, <1>10, <1>12, <1>15, <1>19, <1>20, <1>21 DEF OtherStops, top
  <1>23. Calm'
    <2>1. held = NoEvent /\ t \in Threads /\ t \in Known /\ Known \subseteq Live
      BY <1>1, <1>2 DEF SInv, Calm
    <2>2. ExitOrStop (t)'
      BY <2>1, FirstFacts DEF ExitOrStop, Interrupts, NoEvent
    <2>3. \A u \in Threads \ {t} : ExitOrStop (u)'
      BY DEF ExitOrStop, Interrupts, SInv, Calm
    <2>4. \A u \in Threads : ExitOrStop (u)' /\ ~thread_lock'[u] /\ op'[u] # Own
      BY <1>4, <2>2, <2>3 DEF SInv, Calm
    <2> QED  BY <1>2, <1>4, <1>11, <2>4 DEF Interrupts, SInv, Calm
  <1> QED  BY <1>22, <1>23 DEF SInv, Phases

LEMMA InterruptedHow ==
    ASSUME StopsAndExits, PInv, SInv, NEW t \in Threads,
           SuspendReap (t) \/ SuspendSigstop (t) \/ \E w \in AllReports : SuspendOther (t, w)
    PROVE  \E w \in {"stop", "int", "exit"} : Interrupts (t, w)
  <1>1. kstate \in [Threads -> {"absent", "running", "stopped", "dead"}] /\ word \in [Threads -> Words]
    BY DEF PInv, TargetTypes
  <1>2. CASE SuspendReap (t)
    <2>1. /\ Suspending (t) /\ ~Skipped (t) /\ word[t] # "none" /\ SuspendEvent (t, word[t])
          /\ word' = [word EXCEPT ![t] = "none"]
          /\ UNCHANGED <<held, from_wait, hung, pending_events, command>>
      BY <1>2 DEF SuspendReap
    <2>2. /\ word[t] \in {"stop", "int", "exit"}
          /\ kstate[t] = IF word[t] = "exit" THEN "dead" ELSE "stopped"
          /\ word[t] = "exit" => "exit" \in Reports
      BY <2>1 DEF SInv, Calm, ExitOrStop
    <2>3. kstate' = [c \in Threads |-> kstate[c]]
      BY <1>2, <2>2 DEF SuspendReap
    <2> QED  BY <1>1, <2>1, <2>2, <2>3 DEF Interrupts
  <1>3. CASE SuspendSigstop (t)
    <2>1. /\ Suspending (t) /\ ~Skipped (t) /\ kstate[t] = "running" /\ SuspendEvent (t, "int")
          /\ kstate' = [kstate EXCEPT ![t] = "stopped"]
          /\ UNCHANGED <<word, held, from_wait, hung, pending_events, command>>
      BY <1>3 DEF SuspendSigstop
    <2>2. word[t] = "none"
      BY <2>1, RunningFacts
    <2> QED  BY <1>1, <2>1, <2>2 DEF Interrupts
  <1>4. CASE \E w \in AllReports : SuspendOther (t, w)
    <2>1. PICK w \in AllReports : SuspendOther (t, w)
      BY <1>4
    <2>2. w \in {"stop", "exit"} /\ w \in Reports
      BY <2>1 DEF SuspendOther, Halts, StopsAndExits
    <2>3. /\ Suspending (t) /\ ~Skipped (t) /\ kstate[t] = "running" /\ SuspendEvent (t, w)
          /\ kstate' = [kstate EXCEPT ![t] = IF w = "exit" THEN "dead" ELSE "stopped"]
          /\ UNCHANGED <<word, held, from_wait, hung, pending_events, command>>
      BY <2>1, <2>2 DEF SuspendOther, Halts
    <2>4. word[t] = "none"
      BY <2>3, RunningFacts
    <2> QED  BY <1>1, <2>2, <2>3, <2>4 DEF Interrupts
  <1> QED  BY <1>2, <1>3, <1>4

LEMMA SuspendDonePhase ==
    ASSUME PInv, SInv, SuspendDone
    PROVE  SInv'
  <1>1. /\ In ("suspend") /\ thread_hash[top.p] = top.snap /\ top.todo = {} /\ calls' = Tail (calls)
        /\ UNCHANGED <<kstate, word, held, from_wait, hung, pending_events, engine_stopped, op>>
        /\ UNCHANGED <<thread_lock, thread_hash>>
        /\ UNCHANGED <<process_hash, global_operation, results, command>>
    BY DEF SuspendDone, Return, target, sse, debugger
  <1>2. Stopping /\ calls # << >> /\ top.p = First /\ top.t \in Known /\ UNCHANGED Known
    BY <1>1, SuspendFacts DEF Known
  <1>3. current_state'[First] = "stopped"
    BY <1>2, FirstFacts, ControlTypes DEF SuspendDone
  <1>4. PICK t : t = top.t
    OBVIOUS
  <1>5. /\ Under (Tail (calls), t) /\ Released (t) /\ Idle (Known \ (top.todo \cup {t})) /\ t \in Known
    BY <1>2, <1>4 DEF Stopping, Suspends, top
  <1>6. Known \ (top.todo \cup {t}) = Known \ {t}
    BY <1>1
  <1>7. \A u : (Quiet (u)' <=> Quiet (u)) /\ (Released (u)' <=> Released (u))
    BY <1>1 DEF Quiet, Event, Released, Asked
  <1>8. Idle (Known \ {t})' /\ Released (t)'
    BY <1>1, <1>2, <1>5, <1>6, <1>7 DEF Idle
  <1>9. Under (calls, t)' /\ calls' # << >> /\ Head (calls').t = t
    BY <1>1, <1>2, <1>5 DEF Under, Globally, Base, Frame
  <1>10. Ending'
    BY <1>2, <1>3, <1>5, <1>8, <1>9 DEF Ending, top
  <1>11. Calm'
    BY <1>1, <1>2, CalmKept DEF SInv, Calm
  <1> QED  BY <1>10, <1>11 DEF SInv, Phases

-----------------------------------------------------------------------------
(* Events of the wait thread, and the threads of the target.                *)

LEMMA PhasesKept ==
    ASSUME PInv, Calm, Phases,
           UNCHANGED <<calls, current_state, current_operation, results, global_operation, op, thread_hash>>,
           \A t \in Threads : Quiet (t)' <=> Quiet (t),
           \A t \in Threads : Quiet (t) => kstate'[t] = kstate[t],
           \A t \in Threads : Released (t) => Released (t)'
    PROVE  Phases'
  <1>1. \A T \in SUBSET Threads : (Carrying (T) => Carrying (T)') /\ (Idle (T) => Idle (T)')
    BY DEF Carrying, Idle, operation
  <1>2. /\ IsClosed' <=> IsClosed
        /\ IsOpen' <=> IsOpen
        /\ GlobalKnown' <=> GlobalKnown
    BY DEF IsClosed, IsOpen, GlobalKnown, operation
  <1>3. UNCHANGED <<operation, top, Known>>
    BY DEF operation, top, Known
  <1>4. Known \subseteq Threads
    BY KnownFacts
  <1>5. /\ \A T : Carrying (Known \ T) => \A S : S = Known \ T => Carrying (S)'
        /\ \A T : Idle (Known \ T) => \A S : S = Known \ T => Idle (S)'
    BY <1>1, <1>4
  <1>6. calls # << >> => (top.t \in Threads => kstate'[top.t] = kstate[top.t])
    BY StackTop, FirstFacts DEF FrameOK
  <1>7. PICK t : t = top.t
    OBVIOUS
  <1>8. PICK R : R = Known \ {t}
    OBVIOUS
  <1>9. R \in SUBSET Threads /\ R = Known' \ {t}
    BY <1>3, <1>4, <1>8
  <1>10. AllRun => AllRun'
    <2> SUFFICES ASSUME AllRun PROVE AllRun'
      OBVIOUS
    <2>1. PICK K : K = Known
      OBVIOUS
    <2>2. Carrying (K)' /\ K = Known'
      BY <1>1, <1>3, <1>4, <2>1 DEF AllRun
    <2> QED  BY <1>2, <2>2 DEF AllRun, Carrying
  <1>11. OneStops => OneStops'
    <2> SUFFICES ASSUME OneStops PROVE OneStops'
      OBVIOUS
    <2>1. t \in Known /\ calls # << >> /\ Carrying (R)
      BY <1>7, <1>8 DEF OneStops, Frame, top
    <2>2. Carrying (R)' /\ kstate'[t] = kstate[t]
      BY <1>1, <1>4, <1>6, <1>7, <1>9, <2>1
    <2>3. Carrying (Known \ {top.t})'
      BY <1>3, <1>7, <1>9, <2>2 DEF Carrying
    <2> QED  BY <1>2, <1>3, <1>7, <2>2, <2>3 DEF OneStops, Frame, top
  <1>12. IsTold => IsTold'
    <2> SUFFICES ASSUME IsTold PROVE IsTold'
      OBVIOUS
    <2>1. t \in Known /\ calls # << >> /\ Carrying (R) /\ Released (t)
      BY <1>7, <1>8 DEF IsTold
    <2>2. Carrying (R)' /\ kstate'[t] = kstate[t] /\ Released (t)'
      BY <1>1, <1>4, <1>6, <1>7, <1>9, <2>1
    <2>3. Carrying (Known \ {top.t})' /\ Released (top.t)'
      BY <1>3, <1>7, <1>9, <2>2 DEF Carrying, Released, Asked
    <2>4. Globally (calls, top.t) => Globally (calls, top.t)'
      BY <1>3, <1>7, <2>2 DEF Globally, Base, Frame, top
    <2>5. Frame (calls, "host") /\ Under (Tail (calls), top.t) =>
            Frame (calls, "host")' /\ Under (Tail (calls), top.t)'
      BY <1>3, <1>7, <2>2 DEF Under, Globally, Base, Frame, top
    <2> QED  BY <1>2, <1>3, <2>1, <2>3, <2>4, <2>5, <1>7 DEF IsTold, Exited
  <1>13. Stopping => Stopping'
    <2> SUFFICES ASSUME Stopping PROVE Stopping'
      OBVIOUS
    <2>1. PICK T, S : T = top.todo \ {t} /\ S = Known \ (top.todo \cup {t})
      OBVIOUS
    <2>2. /\ t \in Known /\ calls # << >> /\ top.todo \subseteq Known /\ Suspends (calls)
          /\ Carrying (T) /\ Idle (S) /\ Released (t)
      BY <1>7, <2>1 DEF Stopping, Suspends, Frame, top
    <2>3. Carrying (T)' /\ Idle (S)' /\ kstate'[t] = kstate[t] /\ Released (t)'
      BY <1>1, <1>4, <1>6, <1>7, <2>1, <2>2
    <2>4. T = top'.todo \ {t} /\ S = Known' \ (top'.todo \cup {t}) /\ top'.t = t
      BY <1>3, <1>7, <2>1
    <2>5. Suspends (calls)'
      BY <1>3, <1>7, <2>2, <2>3 DEF Suspends, Under, Globally, Base, Frame, top
    <2> QED  BY <1>2, <2>3, <2>4, <2>5 DEF Stopping, Carrying, Idle, Released, Asked
  <1>14. OtherStops => OtherStops'
    <2> SUFFICES ASSUME OtherStops PROVE OtherStops'
      OBVIOUS
    <2>1. PICK f : f = Head (Tail (calls))
      OBVIOUS
    <2>2. PICK T, S : T = f.todo \ {f.t} /\ S = Known \ (f.todo \cup {f.t, t})
      OBVIOUS
    <2>3. /\ f.t \in Known /\ f.todo \subseteq Known /\ t \in Known \ (f.todo \cup {f.t})
          /\ Carrying (T) /\ Idle (S) /\ Tail (calls) # << >> /\ f.call = "suspend"
          /\ Released (f.t) /\ (top.call = "completing" => Released (t)) /\ calls # << >>
          /\ Suspends (Tail (calls)) /\ Frame (calls, top.call)
      BY <1>7, <2>1, <2>2 DEF OtherStops, Suspends, Frame
    <2>4. /\ Carrying (T)' /\ Idle (S)' /\ kstate'[t] = kstate[t]
          /\ Released (f.t)' /\ (top.call = "completing" => Released (t)')
      BY <1>1, <1>4, <1>6, <1>7, <2>2, <2>3
    <2>5. kstate'[f.t] = kstate[f.t]
      BY <1>4, <2>1, <2>3, SuspendedQuiet
    <2>6. Suspends (Tail (calls))'
      BY <1>3, <2>1, <2>3, <2>5 DEF Suspends, Under, Globally, Base, Frame
    <2>7. Frame (calls, top.call)'
      BY <1>3, <1>7, <2>3, <2>4 DEF Frame, top
    <2>8. T = f.todo \ {f.t} /\ S = Known' \ (f.todo \cup {f.t, t}) /\ top'.t = t /\ f = Head (Tail (calls'))
      BY <1>3, <1>7, <2>1, <2>2
    <2>9. \/ top'.call = "complete" /\ op'[top'.t] = operation'
          \/ top'.call = "completing" /\ Released (top.t)'
      BY <1>3, <1>7, <2>4 DEF OtherStops, Released, Asked
    <2>10. /\ Carrying (f.todo \ {f.t})' /\ Idle (Known \ (f.todo \cup {f.t, top.t}))'
           /\ Released (f.t)' /\ top'.t \in Known' \ (f.todo \cup {f.t})
      BY <1>3, <1>7, <2>2, <2>3, <2>4 DEF Carrying, Idle
    <2> QED  BY <1>2, <2>1, <2>3, <2>6, <2>7, <2>8, <2>9, <2>10, <1>3 DEF OtherStops
  <1>15. Ending => Ending'
    <2> SUFFICES ASSUME Ending PROVE Ending'
      OBVIOUS
    <2>1. t \in Known /\ calls # << >> /\ Idle (R) /\ Released (t) /\ Under (calls, t)
      BY <1>7, <1>8 DEF Ending
    <2>2. Idle (R)' /\ kstate'[t] = kstate[t] /\ Released (t)'
      BY <1>1, <1>4, <1>6, <1>7, <1>9, <2>1
    <2>3. Idle (Known \ {top.t})' /\ Released (top.t)'
      BY <1>3, <1>7, <1>9, <2>2 DEF Idle, Released, Asked
    <2>4. Under (calls, top.t)'
      BY <1>3, <1>7, <2>1, <2>2 DEF Under, Globally, Base, Frame
    <2> QED  BY <1>3, <1>7, <2>1, <2>3, <2>4 DEF Ending
  <1>16. AllStopped => AllStopped'
    <2> SUFFICES ASSUME AllStopped PROVE AllStopped'
      OBVIOUS
    <2>1. PICK K : K = Known
      OBVIOUS
    <2>2. Idle (K)' /\ K = Known'
      BY <1>1, <1>3, <1>4, <2>1 DEF AllStopped
    <2> QED  BY <2>2 DEF AllStopped, Idle
  <1>17. LeftStopping => LeftStopping'
    <2> SUFFICES ASSUME LeftStopping PROVE LeftStopping'
      OBVIOUS
    <2>1. (\A u \in Known : ~Fresh (op[u]))'
      BY <1>3 DEF LeftStopping, Fresh
    <2>2. Frame (calls, "complete") \/ Frame (calls, "completing") =>
            Frame (calls, "complete")' \/ Frame (calls, "completing")'
      BY <1>3, <1>4, <1>6 DEF Frame, top
    <2> QED  BY <1>3, <2>1, <2>2 DEF LeftStopping
  <1>18. Gone => Gone'
    BY <1>3 DEF Gone
  <1> QED  BY <1>10, <1>11, <1>12, <1>13, <1>14, <1>15, <1>16, <1>17, <1>18 DEF Phases

LEMMA TargetFacts ==
    ASSUME StopsAndExits, PInv, SInv, Target
    PROVE  /\ UNCHANGED <<calls, current_state, current_operation, results, global_operation, op>>
           /\ UNCHANGED <<engine_stopped, command, stopped_event, global_event, thread_hash>>
           /\ \A u \in Threads : /\ Quiet (u)' <=> Quiet (u)
                                 /\ Quiet (u) => kstate'[u] = kstate[u]
           /\ Calm'
  <1>1. PICK t \in Threads : \/ DeliverSigstop (t) \/ WaitReap (t)
                             \/ \E w \in AllReports : Report (t, w)
    BY DEF Target
  <1>2. /\ kstate \in [Threads -> {"absent", "running", "stopped", "dead"}] /\ word \in [Threads -> Words]
    BY DEF PInv, TargetTypes
  <1>3. /\ UNCHANGED <<calls, current_state, current_operation, results, global_operation, op>>
        /\ UNCHANGED <<from_wait, hung, pending_events, engine_stopped, thread_lock, thread_hash>>
        /\ UNCHANGED <<process_hash, command, stopped_event, global_event>>
    BY <1>1 DEF DeliverSigstop, WaitReap, Report, engine, sse, process, debugger
  <1>4. ASSUME \A u \in Threads : ExitOrStop (u)', calls # << >> => held' = NoEvent
        PROVE  Calm'
    BY <1>3, <1>4 DEF SInv, Calm, Known
  <1>5. CASE WaitReap (t)
    <2>1. /\ held = NoEvent /\ ~from_wait /\ word[t] # "none" /\ UNCHANGED kstate
          /\ held' = [t |-> t, w |-> word[t]] /\ word' = [word EXCEPT ![t] = "none"]
      BY <1>5 DEF WaitReap
    <2>2. calls = << >> /\ ExitOrStop (t)
      BY <2>1 DEF SInv, Calm
    <2>3. \A u \in Threads : Quiet (u)' <=> Quiet (u)
      BY <1>2, <1>3, <2>1, FirstFacts DEF Quiet, Event, NoEvent
    <2>4. ASSUME NEW u \in Threads PROVE ExitOrStop (u)'
      <3>1. CASE u = t
        BY <1>2, <2>1, <2>2, <3>1 DEF ExitOrStop
      <3>2. CASE u # t
        BY <1>2, <2>1, <3>2 DEF ExitOrStop, SInv, Calm
      <3> QED  BY <3>1, <3>2
    <2> QED  BY <1>3, <1>4, <2>1, <2>2, <2>3, <2>4
  <1>6. CASE DeliverSigstop (t) \/ \E w \in AllReports : Report (t, w)
    <2>1. \E w \in {"stop", "int", "exit"} :
             /\ kstate[t] = "running" /\ UNCHANGED held /\ (w = "exit" => "exit" \in Reports)
             /\ kstate' = [kstate EXCEPT ![t] = IF w = "exit" THEN "dead" ELSE "stopped"]
             /\ word' = [word EXCEPT ![t] = w]
      <3>1. CASE DeliverSigstop (t)
        BY <3>1 DEF DeliverSigstop
      <3>2. CASE \E w \in AllReports : Report (t, w)
        <4>1. PICK w \in AllReports : Report (t, w)
          BY <3>2
        <4>2. w \in {"stop", "exit"} /\ w \in Reports
          BY <4>1 DEF Report, Halts, Spawns, StopsAndExits
        <4> QED  BY <4>1, <4>2 DEF Report, Halts
      <3> QED  BY <1>6, <3>1, <3>2
    <2>2. PICK w \in {"stop", "int", "exit"} :
             /\ kstate[t] = "running" /\ UNCHANGED held /\ (w = "exit" => "exit" \in Reports)
             /\ kstate' = [kstate EXCEPT ![t] = IF w = "exit" THEN "dead" ELSE "stopped"]
             /\ word' = [word EXCEPT ![t] = w]
      BY <2>1
    <2>3. \A u \in Threads : (Quiet (u)' <=> Quiet (u)) /\ (Quiet (u) => kstate'[u] = kstate[u])
      <3>1. ~Quiet (t) /\ ~Quiet (t)'
        BY <1>2, <2>2 DEF Quiet, Event
      <3>2. \A u \in Threads \ {t} : (Quiet (u)' <=> Quiet (u)) /\ kstate'[u] = kstate[u]
        BY <1>2, <1>3, <2>2 DEF Quiet, Event
      <3> QED  BY <3>1, <3>2
    <2>4. held.t # t
      BY <2>2, RunningFacts
    <2>5. ASSUME NEW u \in Threads PROVE ExitOrStop (u)'
      <3>1. CASE u = t
        BY <1>2, <2>2, <2>4, <3>1 DEF ExitOrStop
      <3>2. CASE u # t
        BY <1>2, <2>2, <3>2 DEF ExitOrStop, SInv, Calm
      <3> QED  BY <3>1, <3>2
    <2>6. calls # << >> => held' = NoEvent
      BY <2>2 DEF SInv, Calm
    <2> QED  BY <1>3, <1>4, <2>3, <2>5, <2>6
  <1> QED  BY <1>1, <1>5, <1>6

LEMMA TargetPhase ==
    ASSUME StopsAndExits, PInv, SInv, Target
    PROVE  SInv'
  <1>1. \A t \in Threads : Released (t) => Released (t)'
    BY TargetFacts DEF Released, Asked
  <1>2. /\ UNCHANGED <<calls, current_state, current_operation, results, global_operation, op, thread_hash>>
        /\ \A t \in Threads : Quiet (t)' <=> Quiet (t)
        /\ \A t \in Threads : Quiet (t) => kstate'[t] = kstate[t]
    BY TargetFacts
  <1>3. Phases'
    BY <1>1, <1>2, PhasesKept DEF SInv
  <1> QED  BY <1>3, TargetFacts DEF SInv

(* Steps that touch neither the threads nor what the engine thread does.    *)
LEMMA Unmoved ==
    ASSUME PInv, SInv,
           UNCHANGED <<calls, current_state, current_operation, results, global_operation, op, thread_hash>>,
           UNCHANGED <<kstate, word, held, from_wait, hung, pending_events, engine_stopped, thread_lock>>,
           UNCHANGED <<process_hash, command>>
    PROVE  SInv'
  <1>1. \A t : (Quiet (t)' <=> Quiet (t)) /\ (Released (t)' <=> Released (t))
    BY DEF Quiet, Event, Released, Asked
  <1>2. Phases'
    BY <1>1, PhasesKept DEF SInv
  <1>3. \A t \in Threads : ExitOrStop (t)'
    BY DEF SInv, Calm, ExitOrStop
  <1>4. Calm'
    BY <1>3 DEF SInv, Calm, Known
  <1> QED  BY <1>2, <1>4 DEF SInv

LEMMA ClientPhase ==
    ASSUME StopsAndExits, PInv, SInv, Client
    PROVE  SInv'
  <1>1. CASE \E t \in Threads : Stop (t)
    <2>1. UNCHANGED <<kstate, word, child, held, engine, sse, process, debugger, command>>
      BY <1>1 DEF Stop
    <2> QED  BY <2>1, Unmoved DEF engine, sse, process, debugger
  <1>2. CASE \E t \in Threads : \E m \in Models : BeginStep (t, m)
    <2>1. PICK t \in Threads, m \in Models : BeginStep (t, m)
      BY <1>2
    <2>2. /\ command = NoEvent /\ Alive (t)
          /\ engine_stopped' = [engine_stopped EXCEPT ![t] = FALSE]
          /\ command' = [t |-> t, w |-> m]
          /\ UNCHANGED <<calls, current_state, current_operation, results, global_operation, op>>
          /\ UNCHANGED <<from_wait, hung, pending_events, thread_lock, thread_hash>>
          /\ UNCHANGED <<kstate, word, held, process_hash>>
      BY <2>1 DEF BeginStep, target, engine, process, debugger
    <2>3. t \in Live
      BY <2>2, LiveFacts, KnownFacts DEF SInv
    <2>4. \A u : Quiet (u)' <=> Quiet (u)
      BY <2>2 DEF Quiet, Event
    <2>5. \A u \in Threads : Released (u) => Released (u)'
      <3>1. command' # NoEvent /\ command'.t = t
        BY <2>2, FirstFacts DEF NoEvent
      <3>2. engine_stopped \in [Threads -> BOOLEAN]
        BY DEF PInv, EngineTypes
      <3> QED  BY <2>2, <3>1, <3>2 DEF Released, Asked
    <2>6. Phases'
      BY <2>2, <2>4, <2>5, PhasesKept DEF SInv
    <2>7. \A u \in Threads : ExitOrStop (u)'
      BY <2>2 DEF SInv, Calm, ExitOrStop
    <2>8. Calm'
      BY <2>2, <2>3, <2>7 DEF SInv, Calm, Known
    <2> QED  BY <2>6, <2>8 DEF SInv
  <1>3. ~\E p \in Processes : Abort (p)
    BY DEF Abort, StopsAndExits
  <1> QED  BY <1>1, <1>2, <1>3 DEF Client

(* The event of a thread that ran: it goes on, its operation completes, or  *)
(* there is none.                                                           *)
Handles (t, w) ==
    /\ held.t = t /\ held.w = w /\ ~Quiet (t) /\ word[t] = "none"
    /\ kstate[t] = IF w = "exit" THEN "dead" ELSE "stopped"
    /\ from_wait' = TRUE /\ held' = NoEvent
    /\ UNCHANGED <<word, hung, pending_events, thread_lock, command, engine_stopped, op>>
    /\ UNCHANGED <<thread_hash, current_state, current_operation, stopped_event>>
    /\ UNCHANGED <<process_hash, global_operation, global_event, results>>
    /\ \/ UNCHANGED kstate /\ op[t] # Null /\ calls' = <<Complete (t, IF w = "exit" THEN w ELSE "stop")>>
       \/ UNCHANGED kstate /\ op[t] = Null /\ w = "exit" /\ calls' = <<Completing (t, w)>>
       \/ UNCHANGED kstate /\ op[t] = Null /\ calls' = << >>
       \/ Go ({t}) /\ w # "exit" /\ op[t] # Null /\ UNCHANGED calls

LEMMA EventHandled ==
    ASSUME PInv, SInv, ProcessEvent
    PROVE  /\ AllRun \/ LeftStopping
           /\ calls = << >>
           /\ \E t \in Known, w \in {"stop", "int", "exit"} : Handles (t, w)
  <1>1. ~busy /\ held # NoEvent /\ calls = << >>
    BY DEF ProcessEvent, PInv, EngineTypes
  <1>2. held.t \in Threads
    BY <1>1 DEF PInv, TargetTypes
  <1>3. PICK t \in Threads : \E w : t = held.t /\ w = held.w
    BY <1>2
  <1>4. PICK w : t = held.t /\ w = held.w
    BY <1>3
  <1>5. ~Quiet (t) /\ t \in Known /\ word[t] = "none"
    BY <1>4, LiveFacts DEF Quiet, Event, PInv, Events, SInv
  <1>6. /\ w \in {"stop", "int", "exit"}
        /\ kstate[t] = IF w = "exit" THEN "dead" ELSE "stopped"
    BY <1>4 DEF SInv, Calm, ExitOrStop
  <1>7. AllRun \/ LeftStopping
    BY <1>1, <1>5, PhaseOf DEF SInv, AllStopped, Idle, Gone
  <1>8. Handles (t, w)
    <2>1. /\ from_wait' = TRUE /\ held' = NoEvent
          /\ UNCHANGED <<word, hung, pending_events, thread_lock, command, engine_stopped, op>>
          /\ UNCHANGED <<process, debugger>>
          /\ \/ w = "stop" /\ Decide (t)
             \/ /\ w = "int" /\ UNCHANGED kstate
                /\ calls' = IF op[t] = Null THEN calls ELSE <<Complete (t, "stop")>>
             \/ /\ w = "exit" /\ UNCHANGED kstate
                /\ calls' = <<IF op[t] = Null THEN Completing (t, "exit") ELSE Complete (t, "exit")>>
      BY <1>4, <1>6 DEF ProcessEvent
    <2>2. PICK f : f = Complete (t, "stop")
      OBVIOUS
    <2>3. f \in Frames
      BY <2>2 DEF Complete, Frames, Ends
    <2>4. <<f>> \o << >> = <<f>>
      BY <2>3
    <2>5. \/ UNCHANGED kstate /\ op[t] # Null /\ calls' = <<Complete (t, IF w = "exit" THEN w ELSE "stop")>>
          \/ UNCHANGED kstate /\ op[t] = Null /\ w = "exit" /\ calls' = <<Completing (t, w)>>
          \/ UNCHANGED kstate /\ op[t] = Null /\ calls' = << >>
          \/ Go ({t}) /\ w # "exit" /\ op[t] # Null /\ UNCHANGED calls
      BY <1>1, <2>1, <2>2, <2>4 DEF Decide, Call, Throw
    <2> QED  BY <1>4, <1>5, <1>6, <2>1, <2>5 DEF Handles, process, debugger
  <1> QED  BY <1>1, <1>5, <1>6, <1>7, <1>8

LEMMA ProcessEventPhase ==
    ASSUME PInv, SInv, ProcessEvent
    PROVE  SInv'
  <1>1. PICK t \in Known, w \in {"stop", "int", "exit"} : Handles (t, w)
    BY EventHandled
  <1>2. t \in Threads /\ Known \subseteq Threads /\ UNCHANGED Known
    BY <1>1, KnownFacts DEF SInv, Handles, Known
  <1>3. PICK v \in Ends : v = IF w = "exit" THEN w ELSE "stop"
    BY DEF Ends
  <1>4. /\ held.t = t /\ word[t] = "none" /\ calls = << >> /\ held' = NoEvent
        /\ kstate[t] = IF v = "exit" THEN "dead" ELSE "stopped"
        /\ UNCHANGED <<word, pending_events, op, current_state, current_operation, results>>
        /\ UNCHANGED <<global_operation>>
    BY <1>1, <1>3, EventHandled DEF Handles
  <1>5. kstate \in [Threads -> {"absent", "running", "stopped", "dead"}]
    BY DEF PInv, TargetTypes
  <1>6. /\ \A u \in Threads \ {t} : kstate'[u] = kstate[u]
        /\ kstate'[t] = kstate[t] \/ (kstate'[t] = "running" /\ v # "exit" /\ op[t] # Null /\ UNCHANGED calls)
    BY <1>1, <1>2, <1>3, <1>4, <1>5 DEF Handles, Go
  <1>7. Calm'
    <2>1. \A u \in Threads : ExitOrStop (u)'
      <3> SUFFICES ASSUME NEW u \in Threads PROVE ExitOrStop (u)'
        OBVIOUS
      <3>1. ExitOrStop (u) /\ held'.t # u
        BY <1>4, FirstFacts DEF SInv, Calm, NoEvent
      <3>2. CASE u = t
        BY <1>4, <1>6, <3>1, <3>2 DEF ExitOrStop
      <3>3. CASE u # t
        BY <1>4, <1>6, <3>1, <3>3 DEF ExitOrStop
      <3> QED  BY <3>2, <3>3
    <2> QED  BY <1>1, <1>2, <2>1 DEF Handles, SInv, Calm, Known
  <1>8. \A u \in Threads \ {t} : Quiet (u)' <=> Quiet (u)
    BY <1>4, <1>6, FirstFacts DEF Quiet, Event, NoEvent
  <1>9. CASE calls' = << >> /\ LeftStopping
    <2>1. (\A u \in Known : ~Fresh (op[u]))'
      BY <1>2, <1>4, <1>9 DEF LeftStopping, Fresh
    <2> QED  BY <1>4, <1>7, <1>9, <2>1 DEF LeftStopping, SInv, Phases
  <1>10. CASE AllRun
    <2>1. op[t] = operation /\ op[t] # Null
      BY <1>10 DEF AllRun, Carrying, IsOpen
    <2>2. PICK R : R = Known \ {t}
      OBVIOUS
    <2>3. Carrying (R)'
      BY <1>2, <1>4, <1>8, <1>10, <2>2 DEF AllRun, Carrying, operation
    <2>4. IsOpen' /\ GlobalKnown' /\ operation' = operation
      BY <1>4, <1>10 DEF AllRun, IsOpen, GlobalKnown, operation
    <2>5. CASE Go ({t}) /\ UNCHANGED calls /\ w # "exit"
      <3>1. kstate'[t] = "running"
        BY <1>2, <1>3, <1>4, <2>5 DEF Go
      <3>2. ~Quiet (t)' /\ op'[t] = operation'
        BY <1>4, <2>1, <2>4, <3>1 DEF Quiet
      <3>3. Carrying (Known)'
        BY <1>2, <2>2, <2>3, <3>2 DEF Carrying
      <3>4. AllRun'
        BY <1>4, <1>10, <2>4, <2>5, <3>3 DEF AllRun
      <3> QED  BY <1>7, <3>4 DEF SInv, Phases
    <2>6. CASE UNCHANGED kstate /\ calls' = <<Complete (t, v)>>
      <3>1. PICK f : f = Complete (t, v)
        OBVIOUS
      <3>2. f \in Frames /\ f.call = "complete" /\ f.t = t /\ f.w = v
        BY <1>2, <3>1 DEF Complete, Frames
      <3>3. calls' # << >> /\ Head (calls') = f /\ Tail (calls') = << >>
        BY <2>6, <3>1, <3>2
      <3>4. Frame (calls, "complete")' /\ top'.t = t
        BY <1>2, <1>4, <2>6, <3>2, <3>3 DEF Frame, top
      <3>5. Carrying (Known \ {top.t})'
        BY <1>2, <2>2, <2>3, <3>4 DEF Carrying
      <3>6. OneStops'
        BY <1>4, <1>10, <2>1, <2>4, <3>3, <3>4, <3>5 DEF OneStops, AllRun
      <3> QED  BY <1>7, <3>6 DEF SInv, Phases
    <2> QED  BY <1>1, <1>3, <2>1, <2>5, <2>6 DEF Handles
  <1>11. CASE /\ LeftStopping /\ UNCHANGED kstate
              /\ \/ calls' = <<Complete (t, v)>>
                 \/ v = "exit" /\ calls' = <<Completing (t, v)>>
    <2>1. PICK f \in {Complete (t, v), Completing (t, v)} : calls' = <<f>>
      BY <1>11
    <2>2. f \in Frames /\ f.t = t /\ f.w = v /\ f.call \in {"complete", "completing"}
      BY <1>2 DEF Complete, Completing, Frames
    <2>3. calls' # << >> /\ Tail (calls') = << >> /\ f = Head (calls')
      BY <2>1, <2>2
    <2>4. Frame (calls, "complete")' \/ Frame (calls, "completing")'
      BY <1>2, <1>4, <1>11, <2>2, <2>3 DEF Frame
    <2>5. (\A u \in Known : ~Fresh (op[u]))'
      BY <1>2, <1>4, <1>11 DEF LeftStopping, Fresh
    <2>6. LeftStopping'
      BY <1>4, <1>11, <2>3, <2>4, <2>5 DEF LeftStopping
    <2> QED  BY <1>7, <2>6 DEF SInv, Phases
  <1>12. \/ UNCHANGED kstate /\ calls' = <<Complete (t, v)>>
         \/ UNCHANGED kstate /\ v = "exit" /\ calls' = <<Completing (t, v)>>
         \/ calls' = << >>
    BY <1>1, <1>3, <1>4 DEF Handles
  <1> QED  BY <1>9, <1>10, <1>11, <1>12, EventHandled

LEMMA LoopDonePhase ==
    ASSUME PInv, SInv, LoopDone
    PROVE  SInv'
  <1>1. /\ calls = << >> /\ UNCHANGED <<target, held, calls, hung, pending_events, sse>>
        /\ UNCHANGED <<process, debugger, command>>
    BY DEF LoopDone
  <1>2. /\ UNCHANGED <<calls, current_state, current_operation, results, global_operation, op, thread_hash>>
        /\ UNCHANGED <<hung, pending_events, engine_stopped, thread_lock>>
        /\ UNCHANGED <<kstate, word, held, process_hash, command>>
    BY <1>1 DEF target, sse, process, debugger
  <1>3. \A t : (Quiet (t)' <=> Quiet (t)) /\ (Released (t)' <=> Released (t))
    BY <1>2 DEF Quiet, Event, Released, Asked
  <1>4. Phases'
    BY <1>2, <1>3, PhasesKept DEF SInv
  <1>5. \A t \in Threads : ExitOrStop (t)'
    BY <1>2 DEF SInv, Calm, ExitOrStop
  <1>6. Calm'
    BY <1>1, <1>2, <1>5 DEF SInv, Calm, Known
  <1> QED  BY <1>4, <1>6 DEF SInv

LEMMA EnginePhase ==
    ASSUME StopsAndExits, PInv, SInv, Engine
    PROVE  SInv'
  <1>1. \A t \in Threads : ~ProcessPending (t)
    BY DEF ProcessPending, SInv, Calm
  <1>2. CASE SuspendUserThreads
    <2>1. ASSUME NEW t \in Threads,
                 SuspendReap (t) \/ SuspendSigstop (t) \/ \E w \in AllReports : SuspendOther (t, w)
          PROVE  SInv'
      BY <2>1, InterruptedHow, InterruptedPhase
    <2> QED
      BY <1>2, <2>1, NoHang, SuspendThrowsPhase, SuspendDonePhase, SuspendSkipPhase
         DEF SuspendUserThreads
  <1> QED
    BY <1>1, <1>2, OperationCompletedPhase, OperationDonePhase, ProcessCompletedPhase, GlobalNextPhase,
       GlobalDonePhase, ProcessEventPhase, LoopDonePhase DEF Engine

-----------------------------------------------------------------------------
(* A command starts: all threads have stopped, and all of them run again.   *)

(* All threads of the process start with the result i.                      *)
Starting (t, m, i) ==
    /\ AllStopped /\ i = Len (results) + 1 /\ i <= MaxResults
    /\ results' = Append (results, NewResult (m, First))
    /\ Starts ({First}, i) /\ Resumed (Known \ {t}, {t}, i)
    /\ IF m = "global" THEN global_operation' = i /\ global_event' = FALSE
       ELSE UNCHANGED <<global_operation, global_event>>
    /\ command' = NoEvent
    /\ UNCHANGED <<word, held, from_wait, calls, hung, thread_hash, process_hash>>
    /\ \A u \in Known \ {t} : ~Asked (u)

LEMMA StartsPhase ==
    ASSUME PInv, SInv, NEW t \in Known, NEW m \in {"process", "global"}, NEW i, Starting (t, m, i)
    PROVE  SInv'
  <1>1. PICK K, R : K = Known /\ R = K \ {t}
    OBVIOUS
  <1>2. /\ AllStopped /\ i = Len (results) + 1 /\ i <= MaxResults
        /\ results' = Append (results, NewResult (m, First))
        /\ Starts ({First}, i) /\ Resumed (R, {t}, i)
        /\ global_operation' = (IF m = "global" THEN i ELSE global_operation)
        /\ command' = NoEvent
        /\ UNCHANGED <<word, held, from_wait, calls, hung, thread_hash, process_hash>>
        /\ \A u \in K \ {t} : ~Asked (u)
    BY <1>1 DEF Starting
  <1>3. K \subseteq Threads /\ t \in K /\ K = Known /\ K = Known'
    BY <1>1, <1>2, KnownFacts DEF Known, SInv
  <1>4. /\ calls = << >> /\ global_operation = Null /\ current_state[First] = "stopped"
        /\ \A u \in K : Quiet (u) /\ kstate[u] = "stopped" /\ op[u] = Null /\ Released (u)
    BY <1>1, <1>2 DEF AllStopped, Idle
  <1>5. \A u \in R : engine_stopped[u] /\ ~thread_lock[u]
    BY <1>1, <1>2, <1>3, <1>4 DEF Released, SInv, Calm
  <1>6. /\ pending_events' = pending_events
        /\ thread_lock' = [u \in Threads |-> thread_lock[u]]
        /\ op' = [u \in Threads |-> IF u \in K THEN Push (u, i) ELSE op[u]]
        /\ kstate' = [u \in Threads |->
                        IF u \in K /\ kstate[u] = "stopped" THEN "running" ELSE kstate[u]]
    <2>1. R \cup {t} = K
      BY <1>1, <1>3
    <2>2. PICK kept, runs : /\ kept = {u \in R : thread_lock[u]}
                            /\ runs = {u \in R : engine_stopped[u] /\ ~thread_lock[u]}
      OBVIOUS
    <2>3. /\ pending_events' = pending_events \cup kept
          /\ thread_lock' = [u \in Threads |-> thread_lock[u] /\ u \notin kept]
          /\ op' = [u \in Threads |-> IF u \in kept THEN i
                                      ELSE IF u \in runs \cup {t} THEN Push (u, i) ELSE op[u]]
          /\ Go (runs \cup {t})
      BY <1>2, <2>2, Zenon DEF Resumed
    <2>4. kept = {} /\ runs \cup {t} = K
      BY <1>5, <2>1, <2>2
    <2>5. kstate' = [u \in Threads |->
                        IF u \in K /\ kstate[u] = "stopped" THEN "running" ELSE kstate[u]]
      BY <2>3, <2>4 DEF Go
    <2>6. thread_lock' = [u \in Threads |-> thread_lock[u]] /\ pending_events' = pending_events
      <3>1. \A u : u \notin kept
        BY <2>4
      <3>2. thread_lock \in [Threads -> BOOLEAN]
        BY DEF PInv, EngineTypes
      <3> QED  BY <2>3, <3>1, <3>2
    <2>7. op' = [u \in Threads |-> IF u \in K THEN Push (u, i) ELSE op[u]]
      BY <2>3, <2>4
    <2> QED  BY <2>5, <2>6, <2>7
  <1>7. /\ \A u \in K : kstate'[u] = "running" /\ op'[u] = i
        /\ \A u \in Threads \ K : kstate'[u] = kstate[u] /\ op'[u] = op[u]
    BY <1>3, <1>4, <1>6 DEF Push
  <1>8. current_state'[First] = "running" /\ operation' = i
    BY <1>2, FirstFacts DEF Starts, Sets, operation
  <1>9. results \in Seq (Results) /\ NewResult (m, First) \in Results
    BY FirstFacts DEF PInv, ProcessTypes, NewResult, Results
  <1>10. /\ results'[i] = NewResult (m, First) /\ DOMAIN results' = DOMAIN results \cup {i}
         /\ \A k \in DOMAIN results : results'[k] = results[k]
         /\ i \in Nat /\ i # Null
    BY <1>2, <1>9 DEF Null
  <1>11. results'[i].process = First /\ results'[i].model = m /\ ~results'[i].IsCompleted
    BY <1>10 DEF NewResult
  <1>12. IsOpen' /\ GlobalKnown'
    BY <1>2, <1>4, <1>8, <1>10, <1>11 DEF IsOpen, GlobalKnown, operation
  <1>13. Carrying (Known)'
    BY <1>3, <1>7, <1>8 DEF Carrying, Quiet
  <1>14. AllRun'
    BY <1>2, <1>4, <1>8, <1>12, <1>13 DEF AllRun
  <1>15. ASSUME NEW u \in Threads PROVE ExitOrStop (u)' /\ ~thread_lock'[u] /\ op'[u] # Own
    <2>1. ExitOrStop (u) /\ ~thread_lock[u] /\ op[u] # Own
      BY DEF SInv, Calm
    <2>2. i # Own
      BY <1>2, <1>10, ProcessOpsAssumption DEF Own
    <2>3. CASE u \in K
      <3>1. word[u] = "none" /\ held.t # u
        BY <1>4, <2>3 DEF Quiet, Event
      <3> QED  BY <1>2, <1>6, <1>7, <2>1, <2>2, <2>3, <3>1 DEF ExitOrStop
    <2>4. CASE u \notin K
      BY <1>2, <1>6, <1>7, <2>1, <2>4 DEF ExitOrStop
    <2> QED  BY <2>3, <2>4
  <1>16. \A k \in DOMAIN results' : results'[k].process = First
    BY <1>10, <1>11 DEF SInv, Calm
  <1>17. Calm'
    BY <1>2, <1>3, <1>4, <1>6, <1>15, <1>16 DEF SInv, Calm, Known
  <1> QED  BY <1>14, <1>17 DEF SInv, Phases

(* Where the user clears no AutoRun flag, all others are resumed.           *)
LEMMA AllResumed ==
    ASSUME StopsAndExits, NEW P, NEW t
    PROVE  Resumable (P, t) = {Others (P, t)}
  <1>1. SUBSET Parkable = {{}}
    BY DEF StopsAndExits
  <1>2. Others (P, t) \ {} = Others (P, t)
    OBVIOUS
  <1> QED  BY <1>1, <1>2 DEF Resumable

(* A command for a thread that has exited meanwhile, or for a process that  *)
(* is left in Stopping, starts nothing.                                     *)
LEMMA StepStarts ==
    ASSUME StopsAndExits, PInv, SInv, Step
    PROVE  \/ \E t \in Known, m \in {"process", "global"} : \E i : Starting (t, m, i)
           \/ /\ command.t \in Known => LeftStopping
              /\ calls = << >> /\ StartRefused (command.t, command.w)
           \/ LeftStopping /\ calls = << >> /\ StartGlobal (command.t, "global") /\ command.t \in Known
  <1>1. /\ ~busy /\ command # NoEvent /\ command' = NoEvent /\ calls = << >>
        /\ UNCHANGED <<word, held, from_wait, calls, hung, thread_hash, process_hash>>
    BY DEF Step, PInv, EngineTypes
  <1>2. PICK t \in Live : t = command.t
    BY <1>1 DEF SInv, Calm
  <1>3. PICK m \in {"process", "global"} : m = command.w
    BY <1>1 DEF StopsAndExits, PInv, EngineTypes
  <1>4. /\ t \in Threads /\ Asked (t) /\ Quiet (t) /\ ProcessOf[t] = First /\ (Alive (t) <=> t \in Known)
        /\ \A u \in Threads \ {t} : ~Asked (u)
    BY <1>1, <1>2, FirstFacts, LiveFacts DEF Asked, PInv, Events, SInv
  <1>5. CASE t \notin Known
    BY <1>1, <1>2, <1>3, <1>4, <1>5 DEF Step
  <1>6. CASE t \in Known /\ LeftStopping
    <2>1. StartRefused (t, m) \/ StartSingle (t, m) \/ StartProcess (t, m) \/ StartGlobal (t, m)
      BY <1>2, <1>3 DEF Step
    <2>2. ~StartSingle (t, m) /\ ~StartProcess (t, m)
      BY <1>4, <1>6 DEF StartSingle, StartProcess, Startable, LeftStopping
    <2>3. StartGlobal (t, m) => m = "global"
      BY DEF StartGlobal
    <2>4. CASE StartRefused (t, m)
      BY <1>1, <1>2, <1>3, <1>6, <2>4
    <2>5. CASE StartGlobal (t, "global")
      BY <1>1, <1>2, <1>6, <2>5
    <2> QED  BY <2>1, <2>2, <2>3, <2>4, <2>5
  <1>7. CASE t \in Known /\ ~LeftStopping
    <2>1. AllStopped
      BY <1>1, <1>4, <1>7, PhaseOf DEF SInv, AllRun, Carrying, Gone
    <2>2. /\ global_operation = Null /\ Startable (First) /\ process_hash = {First}
      BY <1>7, <2>1 DEF AllStopped, Startable, SInv, Calm
    <2>3. ~StartRefused (t, m)
      BY <1>4, <1>7, <2>2 DEF StartRefused
    <2>4. StartProcess (t, m) \/ StartGlobal (t, m)
      BY <1>2, <1>3, <2>3 DEF Step, StartSingle
    <2>5. PICK i, R : i = Len (results) + 1 /\ R = Known \ {t}
      OBVIOUS
    <2>6. Resumable ({First}, t) = {R}
      <3>1. UNION {thread_hash[p] : p \in {First}} = Known
        BY DEF Known
      <3>2. Others ({First}, t) = R
        BY <2>5, <3>1, KnownFacts DEF Others, SInv
      <3> QED  BY <3>2, AllResumed
    <2>7. \A u \in Known \ {t} : ~Asked (u)
      BY <1>4, KnownFacts DEF SInv
    <2>8. CASE StartProcess (t, m)
      <3>1. /\ m = "process" /\ i <= MaxResults
            /\ results' = Append (results, NewResult (m, First))
            /\ Starts ({First}, i) /\ Resumed (R, {t}, i) /\ UNCHANGED <<global_operation, global_event>>
        BY <1>4, <2>5, <2>6, <2>8 DEF StartProcess
      <3> QED  BY <1>1, <1>7, <2>1, <2>5, <2>7, <3>1 DEF Starting
    <2>9. CASE StartGlobal (t, m)
      <3>1. /\ m = "global" /\ i <= MaxResults
            /\ results' = Append (results, NewResult (m, First)) /\ global_operation' = i
            /\ global_event' = FALSE
        BY <1>4, <2>5, <2>9 DEF StartGlobal
      <3>2. \A p \in process_hash : Startable (p)
        BY <2>2
      <3>3. Starts (process_hash, i) /\ \E O \in Resumable (process_hash, t) : Resumed (O, {t}, i)
        BY <2>5, <2>9, <3>2 DEF StartGlobal
      <3>4. Starts ({First}, i) /\ Resumed (R, {t}, i)
        BY <2>2, <2>6, <3>3
      <3> QED  BY <1>1, <1>7, <2>1, <2>5, <2>7, <3>1, <3>4 DEF Starting
    <2> QED  BY <2>4, <2>8, <2>9
  <1> QED  BY <1>5, <1>6, <1>7

LEMMA StepPhase ==
    ASSUME StopsAndExits, PInv, SInv, Step
    PROVE  SInv'
  <1>1. /\ command # NoEvent /\ command' = NoEvent
        /\ UNCHANGED <<word, held, from_wait, calls, hung, thread_hash, process_hash>>
    BY DEF Step
  <1>2. PICK t \in Live : t = command.t
    BY <1>1 DEF SInv, Calm
  <1>3. /\ t \in Threads /\ Asked (t) /\ ProcessOf[t] = First
        /\ \A u \in Threads \ {t} : ~Asked (u)
    BY <1>1, <1>2, FirstFacts DEF Asked
  <1>4. CASE /\ t \in Known => LeftStopping
             /\ calls = << >> /\ StartRefused (t, command.w)
    <2>1. /\ UNCHANGED <<kstate, pending_events, sse, current_state, current_operation, results>>
          /\ UNCHANGED <<global_operation>>
      BY <1>4 DEF StartRefused
    <2>2. UNCHANGED <<engine_stopped, op, thread_lock, operation, Known>>
      BY <1>1, <2>1 DEF sse, operation, Known
    <2>3. \A u \in Threads : Quiet (u)' <=> Quiet (u)
      BY <1>1, <2>1 DEF Quiet, Event
    <2>4. t \notin Known => \A u \in Known : Released (u) => Released (u)'
      BY <1>3, <2>2, KnownFacts DEF Released, Asked, SInv
    <2>5. Calm'
      <3>1. \A u \in Threads : ExitOrStop (u)'
        BY <1>1, <2>1 DEF SInv, Calm, ExitOrStop
      <3> QED  BY <1>1, <2>1, <2>2, <3>1 DEF SInv, Calm
    <2>6. CASE AllRun
      <3>1. Carrying (Known)'
        BY <2>2, <2>3, <2>6, KnownFacts DEF AllRun, Carrying, SInv
      <3>2. AllRun'
        BY <1>1, <2>1, <2>2, <2>6, <3>1 DEF AllRun, IsOpen, GlobalKnown
      <3> QED  BY <2>5, <3>2 DEF SInv, Phases
    <2>7. CASE AllStopped /\ t \notin Known
      <3>1. Idle (Known)'
        BY <2>1, <2>2, <2>3, <2>4, <2>7, KnownFacts DEF AllStopped, Idle, SInv
      <3>2. AllStopped'
        BY <1>1, <2>1, <2>7, <3>1 DEF AllStopped
      <3> QED  BY <2>5, <3>2 DEF SInv, Phases
    <2>8. CASE LeftStopping
      <3>1. (\A u \in Known : ~Fresh (op[u]))'
        BY <2>1, <2>2, <2>8 DEF LeftStopping, Fresh
      <3>2. LeftStopping'
        BY <1>1, <1>4, <2>1, <2>2, <2>8, <3>1 DEF LeftStopping
      <3> QED  BY <2>5, <3>2 DEF SInv, Phases
    <2>9. CASE Gone
      <3>1. Gone'
        BY <1>1, <2>1, <2>2, <2>9 DEF Gone
      <3> QED  BY <2>5, <3>1 DEF SInv, Phases
    <2> QED  BY <1>4, <2>6, <2>7, <2>8, <2>9, PhaseOf DEF SInv
  <1>5. CASE LeftStopping /\ calls = << >> /\ StartGlobal (t, "global") /\ t \in Known
    <2>1. PICK i : i = Len (results) + 1
      OBVIOUS
    <2>2. process_hash = {First} /\ ~Startable (First)
      BY <1>5 DEF SInv, Calm, LeftStopping, Startable
    <2>3. {p \in process_hash : Startable (p)} = {} /\ ~(\A p \in process_hash : Startable (p))
      BY <2>2
    <2>4. /\ results' = Append (results, NewResult ("global", First)) /\ i <= MaxResults
          /\ Starts ({}, i) /\ Resumed (Others ({}, t), {}, i)
      <3>1. Resumable ({}, t) = {Others ({}, t)}
        BY AllResumed
      <3> QED  BY <1>3, <1>5, <2>1, <2>3, <3>1 DEF StartGlobal
    <2>5. current_state' = [p \in Processes |-> current_state[p]]
      BY <2>4 DEF Starts, Sets
    <2>6. Others ({}, t) = {}
      BY DEF Others
    <2>7. /\ pending_events' = pending_events
          /\ thread_lock' = [u \in Threads |-> thread_lock[u]]
          /\ op' = [u \in Threads |-> op[u]]
          /\ kstate' = [u \in Threads |-> kstate[u]]
      <3>1. PICK kept, runs : /\ kept = {u \in Others ({}, t) : thread_lock[u]}
                              /\ runs = {u \in Others ({}, t) : engine_stopped[u] /\ ~thread_lock[u]}
        OBVIOUS
      <3>2. /\ pending_events' = pending_events \cup kept
            /\ thread_lock' = [u \in Threads |-> thread_lock[u] /\ u \notin kept]
            /\ op' = [u \in Threads |-> IF u \in kept THEN i
                                        ELSE IF u \in runs \cup {} THEN Push (u, i) ELSE op[u]]
            /\ Go (runs \cup {})
        BY <2>4, <3>1, Zenon DEF Resumed
      <3>3. kept = {} /\ runs \cup {} = {}
        BY <2>6, <3>1
      <3>4. kstate' = [u \in Threads |-> kstate[u]]
        BY <3>2, <3>3 DEF Go
      <3>5. thread_lock' = [u \in Threads |-> thread_lock[u]] /\ pending_events' = pending_events
        <4>1. \A u : u \notin kept
          BY <3>3
        <4>2. thread_lock \in [Threads -> BOOLEAN]
          BY DEF PInv, EngineTypes
        <4> QED  BY <3>2, <4>1, <4>2
      <3>6. op' = [u \in Threads |-> op[u]]
        BY <3>2, <3>3
      <3> QED  BY <3>4, <3>5, <3>6
    <2>8. UNCHANGED <<kstate, op, thread_lock, current_state, Known>>
      BY <1>1, <2>5, <2>7 DEF PInv, TargetTypes, EngineTypes, ProcessTypes, Known
    <2>9. results \in Seq (Results) /\ NewResult ("global", First) \in Results
      BY FirstFacts DEF PInv, ProcessTypes, NewResult, Results
    <2>10. /\ \A k \in DOMAIN results : k \in DOMAIN results' /\ results'[k] = results[k]
           /\ \A k \in DOMAIN results' : k \in DOMAIN results \/ results'[k] = NewResult ("global", First)
      BY <2>4, <2>9
    <2>11. \A u \in Known : op[u] \in {Own} \cup Indices
      BY KnownFacts DEF PInv, ProcessTypes, SInv
    <2>12. (\A u \in Known : ~Fresh (op[u]))'
      BY <1>5, <2>8, <2>10, <2>11 DEF LeftStopping, Fresh, Indices
    <2>13. LeftStopping'
      BY <1>1, <1>5, <2>8, <2>12 DEF LeftStopping
    <2>14. \A k \in DOMAIN results' : results'[k].process = First
      BY <2>10 DEF SInv, Calm, NewResult
    <2>15. \A u \in Threads : ExitOrStop (u)'
      BY <1>1, <2>8 DEF SInv, Calm, ExitOrStop
    <2>16. Calm'
      BY <1>1, <2>7, <2>8, <2>14, <2>15 DEF SInv, Calm
    <2> QED  BY <2>13, <2>16 DEF SInv, Phases
  <1> QED  BY <1>2, <1>4, <1>5, StepStarts, StartsPhase

-----------------------------------------------------------------------------
(* The phases are an invariant, and what follows.                           *)

LEMMA InitPhase == Init => SInv
  <1> SUFFICES ASSUME Init PROVE SInv
    OBVIOUS
  <1>1. Known = Live /\ \A p \in Processes \ {First} : thread_hash[p] = {}
    BY FirstFacts DEF Init, Known
  <1>2. \A t \in Live : Quiet (t) /\ kstate[t] = "stopped" /\ op[t] = Null /\ Released (t)
    BY FirstFacts DEF Init, Quiet, Event, NoEvent, Released
  <1>3. AllStopped
    BY <1>1, <1>2, FirstFacts DEF Init, AllStopped, Idle
  <1>4. Null # Own /\ DOMAIN << >> = {}
    BY ProcessOpsAssumption DEF Null, Own
  <1>5. \A t \in Threads : ExitOrStop (t) /\ ~thread_lock[t] /\ op[t] # Own
    BY <1>4, FirstFacts DEF Init, ExitOrStop, NoEvent
  <1>6. Calm
    BY <1>1, <1>4, <1>5, FirstFacts DEF Init, Calm
  <1> QED  BY <1>3, <1>6 DEF SInv, Phases

LEMMA NextPhase ==
    ASSUME StopsAndExits
    PROVE  PInv /\ SInv /\ [Next]_vars => SInv'
  <1> SUFFICES ASSUME PInv, SInv, [Next]_vars PROVE SInv'
    OBVIOUS
  <1>1. CASE UNCHANGED vars
    BY <1>1, Unmoved DEF vars, target, engine, sse, process, debugger
  <1> QED  BY <1>1, EnginePhase, StepPhase, TargetPhase, ClientPhase DEF Next

(* Every state is in one of the phases: all threads stopped, all running,   *)
(* or one of them has stopped or exited and the engine thread is on its way *)
(* through the others; or an exit has ended that, or there are none.        *)
THEOREM CommandPhases ==
    ASSUME StopsAndExits
    PROVE  Spec => []SInv
  <1>1. Init => SInv
    BY InitPhase
  <1>2. PInv /\ SInv /\ [Next]_vars => SInv'
    BY NextPhase
  <1> QED  BY <1>1, <1>2, OperationsInvariant, PTL DEF Spec

(* No thread is waited for that is stopped already, and whose status has    *)
(* been reaped: SuspendUserThread() of the engine always returns.           *)
THEOREM NeverHungCorrect ==
    ASSUME StopsAndExits
    PROVE  Spec => []NeverHung
  <1>1. SInv => NeverHung
    BY DEF SInv, Calm, NeverHung
  <1> QED  BY <1>1, CommandPhases, PTL

(* No handler leaves the process in ProcessState.Stopping, if no thread     *)
(* exits: the threads are suspended to the last one.                        *)
THEOREM NeverLeftStopping ==
    ASSUME OnlyStops
    PROVE  Spec => []NotLeftStopping
  <1>1. PInv /\ SInv => NotLeftStopping
    <2> SUFFICES ASSUME PInv, SInv, ~busy PROVE \A p \in process_hash : current_state[p] # "stopping"
      BY DEF NotLeftStopping
    <2>1. AllRun \/ AllStopped \/ Gone
      BY PhaseOf DEF PInv, EngineTypes, SInv, LeftStopping, OnlyStops
    <2> QED  BY <2>1 DEF AllRun, AllStopped, Gone, SInv, Calm
  <1> QED  BY <1>1, CommandPhases, OperationsInvariant, PTL DEF OnlyStops

(* Whichever thread of a running process stops, it stops the process: all   *)
(* that run carry its operation, and between two handlers it is open.       *)
THEOREM AnyThreadStopsIt ==
    ASSUME StopsAndExits
    PROVE  Spec => []AnyThreadStops
  <1>1. PInv /\ SInv => AnyThreadStops
    <2> SUFFICES ASSUME PInv, SInv, current_state[First] = "running",
                        NEW t \in Known, kstate[t] = "running"
                 PROVE  op[t] = operation /\ (~busy => Fresh (op[t]))
      BY FirstFacts DEF AnyThreadStops, SInv, Calm, operation, Known
    <2>1. ~Quiet (t)
      BY DEF Quiet
    <2>2. /\ AllRun \/ OneStops \/ IsTold
          /\ ~busy => AllRun
      BY PhaseOf DEF SInv, Phases, PInv, EngineTypes, AllStopped, Stopping, OtherStops, Ending, LeftStopping, Gone
    <2>3. OneStops \/ IsTold => calls # << >> /\ t # top.t /\ Carrying (Known \ {top.t})
      <3>1. OneStops \/ IsTold => calls # << >> /\ Carrying (Known \ {top.t}) /\ top.t \in Known
        BY DEF OneStops, IsTold, Frame, top
      <3>2. calls # << >> => FrameOK (top)
        BY StackTop
      <3> QED  BY <2>1, <3>1, <3>2, FirstFacts, KnownFacts DEF FrameOK, SInv
    <2>4. op[t] = operation
      BY <2>2, <2>3 DEF AllRun, Carrying
    <2>5. AllRun => Fresh (op[t])
      BY <2>4 DEF AllRun, IsOpen, Fresh
    <2> QED  BY <2>2, <2>4, <2>5
  <1> QED  BY <1>1, CommandPhases, OperationsInvariant, PTL

(* Between two handlers, the operation of a running process is carried by   *)
(* a thread that can still complete it.                                     *)
THEOREM OperationCarried ==
    ASSUME StopsAndExits
    PROVE  Spec => []Carried
  <1>1. PInv /\ SInv => Carried
    <2> SUFFICES ASSUME PInv, SInv, ~busy, current_state[First] = "running", First \in process_hash
                 PROVE  \E t \in Known : op[t] = operation /\ Fresh (op[t])
      BY FirstFacts DEF Carried, SInv, Calm, operation, Known
    <2>1. AllRun
      BY PhaseOf DEF SInv, PInv, EngineTypes, AllStopped, LeftStopping, Gone
    <2>2. PICK t \in Known : TRUE
      BY DEF SInv, Calm
    <2>3. op[t] = operation /\ Fresh (op[t])
      BY <2>1 DEF AllRun, Carrying, IsOpen, Fresh
    <2> QED  BY <2>3
  <1> QED  BY <1>1, CommandPhases, OperationsInvariant, PTL

-----------------------------------------------------------------------------
(* The results: only the last command may be open, its model says which     *)
(* operations it set, and when the threads have stopped it is signalled.    *)
Commanded ==
    /\ operation # Null =>
          /\ operation = Len (results)
          /\ global_operation # Null <=> results[operation].model = "global"
    /\ \A i \in DOMAIN results : ~results[i].IsCompleted => i = operation
    /\ current_state[First] = "stopped" =>
          /\ stopped_event[First]
          /\ global_operation = Null => LastTold

-----------------------------------------------------------------------------
(* What a client is promised.                                               *)

(* While no thread exits, the first process keeps all its threads.          *)
LEMMA NoneExits ==
    ASSUME OnlyStops, PInv, SInv
    PROVE  /\ StopsAndExits /\ "exit" \notin Reports /\ Known = Live /\ ~LeftStopping /\ ~Gone
           /\ \A t \in Live : kstate[t] # "dead"
           /\ \A s, name : Frame (s, name) => Head (s).t \in Live /\ Head (s).w # "exit"
           /\ OneStops => Frame (calls, "complete") /\ op[top.t] = operation
  <1>1. StopsAndExits /\ "exit" \notin Reports /\ Known = Live
    BY DEF OnlyStops, SInv, Calm
  <1>2. ~LeftStopping /\ ~Gone
    BY <1>1, FirstFacts DEF LeftStopping, Gone
  <1>3. \A t \in Live : kstate[t] # "dead"
    BY <1>1, FirstFacts DEF SInv, Calm, ExitOrStop
  <1>4. \A s, name : Frame (s, name) => Head (s).t \in Live /\ Head (s).w # "exit"
    BY <1>1, <1>3 DEF Frame
  <1>5. OneStops => Frame (calls, "complete") /\ op[top.t] = operation
    BY <1>4 DEF OneStops, top
  <1> QED  BY <1>1, <1>2, <1>3, <1>4, <1>5

(* What is left of ProcessCommand's variables in each phase.                *)
LEMMA PhaseView ==
    ASSUME OnlyStops, PInv, SInv
    PROVE  /\ AllRun => ActiveThreads = Live
           /\ OneStops \/ IsTold => ActiveThreads = Live \ {top.t} /\ top.t \in Live
           /\ Stopping => ActiveThreads = top.todo \ {top.t}
           /\ Ending \/ AllStopped => ActiveThreads = {}
  <1>1. ActiveThreads \subseteq Live
    BY NoneExits, LiveFacts DEF ActiveThreads, SInv
  <1>2. calls # << >> => FrameOK (top)
    BY StackTop
  <1>3. OneStops \/ IsTold \/ Ending => calls # << >> /\ top.t \in Live
    BY NoneExits DEF OneStops, IsTold, Ending, Frame, top
  <1>4. OneStops \/ IsTold \/ Ending => Quiet (top.t)
    BY <1>2, <1>3, FirstFacts DEF FrameOK
  <1>5. AllRun => ActiveThreads = Live
    BY <1>1, NoneExits, FirstFacts DEF AllRun, Carrying, ActiveThreads
  <1>6. OneStops \/ IsTold => ActiveThreads = Live \ {top.t}
    <2> SUFFICES ASSUME OneStops \/ IsTold PROVE ActiveThreads = Live \ {top.t}
      OBVIOUS
    <2>1. Carrying (Live \ {top.t})
      BY NoneExits DEF OneStops, IsTold
    <2> QED  BY <1>1, <1>4, <2>1, FirstFacts DEF Carrying, ActiveThreads
  <1>7. Stopping => ActiveThreads = top.todo \ {top.t}
    <2> SUFFICES ASSUME Stopping PROVE ActiveThreads = top.todo \ {top.t}
      OBVIOUS
    <2>1. /\ Carrying (top.todo \ {top.t}) /\ Idle (Live \ (top.todo \cup {top.t}))
          /\ top.todo \subseteq Live /\ top.t \in Live /\ calls # << >>
      BY NoneExits DEF Stopping, Suspends, Frame, top
    <2>2. Quiet (top.t)
      BY <1>2, <2>1, FirstFacts DEF FrameOK
    <2> QED  BY <1>1, <2>1, <2>2, FirstFacts DEF Carrying, Idle, ActiveThreads
  <1>8. Ending \/ AllStopped => ActiveThreads = {}
    <2>1. AllStopped => ActiveThreads = {}
      BY <1>1, NoneExits DEF AllStopped, Idle, ActiveThreads
    <2>2. ASSUME Ending PROVE ActiveThreads = {}
      <3>1. Idle (Live \ {top.t})
        BY <2>2, NoneExits DEF Ending
      <3> QED  BY <1>1, <1>4, <2>2, <3>1 DEF Idle, ActiveThreads
    <2> QED  BY <2>1, <2>2
  <1> QED  BY <1>3, <1>5, <1>6, <1>7, <1>8

(* The commands that are open.                                              *)
LEMMA OpenView ==
    ASSUME PInv, Commanded
    PROVE  /\ operation \in Indices /\ DOMAIN results = 1 .. Len (results) /\ Len (results) \in Nat
           /\ IsOpen => OpenCommands = {operation} /\ operation = Len (results)
           /\ ~IsOpen => OpenCommands = {}
           /\ stopped_event[First] => operation = Null
  <1>1. operation \in Indices /\ results \in Seq (Results)
    BY FirstFacts DEF PInv, ProcessTypes, operation
  <1>2. DOMAIN results = 1 .. Len (results) /\ Len (results) \in Nat
    BY <1>1
  <1>3. stopped_event[First] => operation = Null
    BY FirstFacts DEF PInv, SignalledDone, operation
  <1>4. \A i \in OpenCommands : i = operation /\ i \in DOMAIN results /\ ~results[i].IsCompleted
    BY DEF OpenCommands, Commanded
  <1>5. \A i \in DOMAIN results : i # Null
    BY <1>2 DEF Null
  <1>6. IsOpen => operation \in OpenCommands
    BY <1>1, <1>2 DEF IsOpen, OpenCommands, Indices
  <1>7. ~IsOpen => OpenCommands = {}
    BY <1>4, <1>5 DEF IsOpen
  <1>8. IsOpen => OpenCommands = {operation} /\ operation = Len (results)
    BY <1>4, <1>6 DEF IsOpen, Commanded
  <1> QED  BY <1>1, <1>2, <1>3, <1>7, <1>8

(* Steps that a client cannot tell.                                         *)
Unseen == UNCHANGED <<results, stopped_event, global_event, global_operation, current_operation>>

LEMMA UnseenStep ==
    ASSUME Unseen
    PROVE  /\ UNCHANGED <<Len (results), OpenCommands, LastTold>>
           /\ Commanded /\ (current_state'[First] = "stopped" => current_state[First] = "stopped") => Commanded'
  <1>1. UNCHANGED <<Len (results), OpenCommands>>
    BY DEF Unseen, OpenCommands
  <1>2. UNCHANGED LastTold
    BY DEF Unseen, LastTold, Signalled
  <1>3. UNCHANGED operation
    BY DEF Unseen, operation
  <1> QED  BY <1>1, <1>2, <1>3 DEF Unseen, Commanded

LEMMA SameActive ==
    ASSUME \A t \in Threads : Quiet (t)' <=> Quiet (t)
    PROVE  UNCHANGED ActiveThreads
  BY DEF ActiveThreads

(* One step: what it keeps, and what it is to the client.                   *)
Promised == Commanded' /\ (Promise!Next \/ UNCHANGED Promise!vars)

LEMMA ControlPromised ==
    ASSUME Commanded, Unseen, \A t \in Threads : Quiet (t)' <=> Quiet (t),
           current_state'[First] = "stopped" => current_state[First] = "stopped"
    PROVE  Promised
  <1>1. UNCHANGED ActiveThreads
    BY SameActive
  <1> QED  BY <1>1, UnseenStep DEF Promised, Promise!vars

LEMMA SameQuiet ==
    ASSUME UNCHANGED <<kstate, word, held, pending_events>>
    PROVE  \A t \in Threads : Quiet (t)' <=> Quiet (t)
  BY DEF Quiet, Event

LEMMA ControlSteps ==
    ASSUME OnlyStops, PInv, SInv, Commanded,
           \/ OperationDone \/ ProcessCompleted \/ GlobalNext \/ LoopDone
           \/ \E t \in Threads : SuspendSkip (t)
    PROVE  Promised
  <1>1. CASE OperationDone
    <2>1. /\ In ("completing") /\ (OtherStops \/ Ending)
          /\ UNCHANGED <<kstate, word, held, pending_events, global_operation, global_event, results>>
      BY <1>1, PhaseOf, NoneExits DEF OperationDone, SInv, target, In, OneStops, Frame
    <2>2. top.t \in Live /\ top.w # "exit"
      BY <2>1, NoneExits DEF OtherStops, Ending, Under, Globally, Base, In, top
    <2>3. PICK p \in Processes : p = ProcessOf[top.t]
      BY <2>2, FirstFacts
    <2>4. /\ current_state' = [current_state EXCEPT ![p] = @]
          /\ current_operation' = [current_operation EXCEPT ![p] = @]
          /\ stopped_event' = [stopped_event EXCEPT ![p] = @ \/ FALSE]
      BY <1>1, <2>2, <2>3, Zenon DEF OperationDone
    <2>5. UNCHANGED <<current_state, current_operation, stopped_event>>
      BY <2>4 DEF PInv, ProcessTypes
    <2> QED  BY <2>1, <2>5, SameQuiet, ControlPromised DEF Unseen
  <1>2. CASE ProcessCompleted
    <2>1. UNCHANGED <<target, held, pending_events, current_operation, stopped_event, debugger>>
      BY <1>2 DEF ProcessCompleted
    <2>2. UNCHANGED current_state \/ current_state' = [current_state EXCEPT ![top.p] = "stopping"]
      BY <1>2 DEF ProcessCompleted
    <2>3. current_state'[First] = "stopped" => current_state[First] = "stopped"
      BY <2>2, FirstFacts DEF PInv, ProcessTypes
    <2> QED  BY <2>1, <2>3, SameQuiet, ControlPromised DEF Unseen, target, debugger
  <1>3. CASE GlobalNext \/ LoopDone \/ \E t \in Threads : SuspendSkip (t)
    <2>1. UNCHANGED <<target, held, pending_events, process, debugger>>
      BY <1>3 DEF GlobalNext, LoopDone, SuspendSkip
    <2> QED  BY <2>1, SameQuiet, ControlPromised DEF Unseen, target, process, debugger
  <1> QED  BY <1>1, <1>2, <1>3

(* The last command is told when no thread is active.                       *)
LEMMA TellPromised ==
    ASSUME Commanded', OpenCommands = {}, ActiveThreads = {},
           UNCHANGED <<Len (results), OpenCommands, ActiveThreads>>,
           LastTold' \/ UNCHANGED LastTold
    PROVE  Promised
  <1>1. CASE UNCHANGED LastTold
    BY <1>1 DEF Promised, Promise!vars
  <1>2. CASE LastTold' /\ ~LastTold
    <2>1. LastTold' = TRUE
      BY <1>2 DEF LastTold
    <2>2. Promise!Tell
      BY <1>2, <2>1 DEF Promise!Tell
    <2> QED  BY <2>2 DEF Promised, Promise!Next
  <1>3. CASE LastTold' /\ LastTold
    BY <1>3 DEF Promised, Promise!vars, LastTold
  <1> QED  BY <1>1, <1>2, <1>3

LEMMA GlobalDonePromised ==
    ASSUME OnlyStops, PInv, SInv, Commanded, GlobalDone
    PROVE  Promised
  <1>1. /\ In ("global") /\ (IsTold \/ Ending) /\ top.todo = {} /\ calls # << >>
        /\ global_operation' = Null /\ global_event' = TRUE
        /\ UNCHANGED <<kstate, word, held, pending_events, results, stopped_event>>
        /\ UNCHANGED <<current_state, current_operation>>
    BY PhaseOf DEF GlobalDone, SInv, In, target, process
  <1>2. Ending
    BY <1>1 DEF IsTold, Frame, In, top
  <1>3. current_state[First] = "stopped" /\ stopped_event[First] /\ operation = Null
    BY <1>2, OpenView DEF Ending, Commanded
  <1>4. ActiveThreads = {} /\ OpenCommands = {}
    BY <1>2, <1>3, PhaseView, OpenView DEF IsOpen
  <1>5. UNCHANGED <<Len (results), OpenCommands, ActiveThreads>>
    BY <1>1, SameQuiet, SameActive DEF OpenCommands
  <1>6. LastTold'
    <2>1. results # << >> => Len (results) \in DOMAIN results
      BY OpenView DEF PInv, ProcessTypes
    <2>2. results # << >> => results[Len (results)].process = First
      BY <2>1 DEF SInv, Calm
    <2> QED  BY <1>1, <1>3, <2>1, <2>2 DEF LastTold, Signalled
  <1>7. Commanded'
    BY <1>1, <1>3, <1>6 DEF Commanded, operation
  <1> QED  BY <1>4, <1>5, <1>6, <1>7, TellPromised

LEMMA SuspendDonePromised ==
    ASSUME OnlyStops, PInv, SInv, Commanded, SuspendDone
    PROVE  Promised
  <1>1. /\ In ("suspend") /\ top.todo = {}
        /\ UNCHANGED <<kstate, word, held, pending_events, results, global_operation, global_event>>
    BY DEF SuspendDone, target, debugger
  <1>2. Stopping /\ top.p = First
    BY <1>1, SuspendFacts DEF SuspendDone
  <1>3. stopped_event'[First] /\ current_operation'[First] = Null
    BY <1>2, FirstFacts DEF SuspendDone, PInv, ProcessTypes
  <1>4. IsClosed /\ operation = Len (results) /\ operation # Null
    BY <1>2 DEF Stopping, IsClosed, Commanded
  <1>5. ActiveThreads = {} /\ OpenCommands = {}
    BY <1>1, <1>2, <1>4, PhaseView, OpenView DEF IsOpen, IsClosed
  <1>6. UNCHANGED <<Len (results), OpenCommands, ActiveThreads>>
    BY <1>1, SameQuiet, SameActive DEF OpenCommands
  <1>7. operation \in DOMAIN results /\ results[operation].process = First
    BY <1>4, OpenView DEF Indices, SInv, Calm
  <1>8. CASE results[operation].model = "global"
    <2>1. UNCHANGED LastTold
      BY <1>1, <1>4, <1>7, <1>8 DEF LastTold, Signalled
    <2>2. global_operation # Null
      BY <1>4, <1>8 DEF Commanded
    <2>3. Commanded'
      BY <1>1, <1>3, <1>5, <2>2 DEF Commanded, operation, OpenCommands
    <2> QED  BY <1>5, <1>6, <2>1, <2>3, TellPromised
  <1>9. CASE results[operation].model # "global"
    <2>1. LastTold'
      BY <1>1, <1>3, <1>4, <1>7, <1>9 DEF LastTold, Signalled
    <2>2. Commanded'
      BY <1>1, <1>3, <1>5, <2>1 DEF Commanded, operation, OpenCommands
    <2> QED  BY <1>5, <1>6, <2>1, <2>2, TellPromised
  <1> QED  BY <1>8, <1>9

LEMMA InterruptedPromised ==
    ASSUME OnlyStops, PInv, SInv, Commanded, NEW t \in Threads, NEW w \in {"stop", "int"}, Interrupts (t, w)
    PROVE  Promised
  <1>1. /\ In ("suspend") /\ t \in top.todo /\ t # top.t
        /\ kstate'[t] = "stopped" /\ word'[t] = "none"
        /\ \A u \in Threads \ {t} : kstate'[u] = kstate[u] /\ word'[u] = word[u]
        /\ UNCHANGED <<held, pending_events>> /\ UNCHANGED <<process, debugger>>
    BY DEF Interrupts, Suspending, Skipped, SuspendEvent
  <1>2. Stopping /\ IsClosed /\ current_state[First] = "stopping" /\ held = NoEvent /\ pending_events = {}
    BY <1>1, SuspendFacts, NoneExits DEF Stopping, SInv, Calm, Interrupts, Suspending
  <1>3. t \in ActiveThreads /\ OpenCommands = {} /\ t \in Live
    BY <1>1, <1>2, NoneExits, PhaseView, OpenView DEF Stopping, Suspends, IsOpen, IsClosed, top
  <1>4. Quiet (t)' /\ \A u \in Threads \ {t} : Quiet (u)' <=> Quiet (u)
    BY <1>1, <1>2, FirstFacts DEF Quiet, Event, NoEvent
  <1>5. ActiveThreads' = ActiveThreads \ {t}
    BY <1>4 DEF ActiveThreads
  <1>6. /\ UNCHANGED <<Len (results), OpenCommands, LastTold>> /\ Commanded'
    BY <1>1, <1>2, UnseenStep DEF Unseen, process, debugger
  <1>7. Promise!OtherStops (t)
    BY <1>3, <1>5, <1>6 DEF Promise!OtherStops
  <1> QED  BY <1>3, <1>6, <1>7 DEF Promised, Promise!Next

(* The operation completes for the first thread that stops, and only then.  *)
LEMMA OperationCompletedPromised ==
    ASSUME OnlyStops, PInv, SInv, Commanded, OperationCompleted
    PROVE  Promised
  <1>1. /\ In ("complete") /\ calls # << >> /\ (OneStops \/ OtherStops)
        /\ UNCHANGED <<kstate, word, held, pending_events, global_operation, global_event>>
        /\ UNCHANGED <<current_state, current_operation, stopped_event>>
    BY PhaseOf, NoneExits DEF OperationCompleted, SInv, In, target, process
  <1>2. op[top.t] = operation /\ operation # Null /\ operation # Own /\ ~Exited (top.t, top.w)
    BY <1>1, NoneExits, FirstFacts DEF OneStops, OtherStops, Frame, IsOpen, IsClosed, In, top, SInv, Calm, Exited
  <1>3. operation \in DOMAIN results
    BY <1>2, OpenView DEF Indices
  <1>4. \A t \in Threads : Quiet (t)' <=> Quiet (t)
    BY <1>1, SameQuiet
  <1>5. CASE OtherStops
    <2>1. ~Fresh (operation)
      BY <1>2, <1>5 DEF OtherStops, IsClosed, Fresh
    <2>2. UNCHANGED results
      BY <1>2, <2>1 DEF OperationCompleted
    <2> QED  BY <1>1, <1>4, <2>2, ControlPromised DEF Unseen
  <1>6. CASE OneStops
    <2>1. Fresh (operation) /\ IsOpen
      BY <1>2, <1>6 DEF OneStops, IsOpen, Fresh
    <2>2. results' = [results EXCEPT ![operation].IsCompleted = TRUE]
      BY <1>2, <2>1 DEF OperationCompleted
    <2>3. results \in Seq (Results) /\ \A k \in DOMAIN results : results[k] \in Results
      BY DEF PInv, ProcessTypes
    <2>4. /\ DOMAIN results' = DOMAIN results /\ results'[operation].IsCompleted
          /\ Len (results') = Len (results)
          /\ \A k \in DOMAIN results : /\ results'[k].process = results[k].process
                                       /\ results'[k].model = results[k].model
                                       /\ results'[k].IsCompleted <=> results[k].IsCompleted \/ k = operation
      <3>1. /\ DOMAIN results' = DOMAIN results
            /\ \A k \in DOMAIN results :
                  results'[k] = IF k = operation THEN [results[k] EXCEPT !.IsCompleted = TRUE]
                                ELSE results[k]
        BY <1>3, <2>2, <2>3
      <3>2. Len (results') = Len (results)
        <4>1. [results[operation] EXCEPT !.IsCompleted = TRUE] \in Results
          BY <1>3, <2>3 DEF Results
        <4>2. results' = [results EXCEPT ![operation] = [results[operation] EXCEPT !.IsCompleted = TRUE]]
          BY <2>2
        <4> QED  BY <1>3, <2>3, <4>1, <4>2
      <3> QED  BY <1>3, <2>3, <3>1, <3>2 DEF Results
    <2>5. OpenCommands # {} /\ OpenCommands' = {}
      BY <1>3, <2>1, <2>4, OpenView DEF OpenCommands
    <2>6. UNCHANGED LastTold /\ LastTold \in BOOLEAN
      <3>1. Len (results) \in DOMAIN results
        BY <1>3, <2>1, OpenView
      <3>2. results # << >> /\ results' # << >>
        BY <1>3, <2>4
      <3> QED  BY <1>1, <2>4, <3>1, <3>2 DEF LastTold, Signalled
    <2>7. UNCHANGED ActiveThreads /\ ActiveThreads # Live
      BY <1>4, <1>6, SameActive, PhaseView
    <2>8. Promise!Complete
      BY <2>4, <2>5, <2>6, <2>7 DEF Promise!Complete
    <2>9. current_state[First] = "running"
      BY <1>6 DEF OneStops
    <2>10. Commanded'
      BY <1>1, <1>3, <2>4, <2>9 DEF Commanded, operation
    <2> QED  BY <2>8, <2>10 DEF Promised, Promise!Next
  <1> QED  BY <1>1, <1>5, <1>6

LEMMA ProcessEventPromised ==
    ASSUME OnlyStops, PInv, SInv, Commanded, ProcessEvent
    PROVE  Promised
  <1>1. PICK t \in Live : \E w \in {"stop", "int"} : Handles (t, w)
    BY EventHandled, NoneExits, ZenonT (30) DEF Handles
  <1>2. AllRun /\ t \in Threads /\ current_state[First] = "running"
    BY EventHandled, NoneExits, FirstFacts DEF AllRun
  <1>3. /\ held.t = t /\ kstate[t] = "stopped" /\ held' = NoEvent
        /\ UNCHANGED <<word, pending_events>> /\ UNCHANGED current_state /\ Unseen
    BY <1>1 DEF Handles, Unseen
  <1>4. kstate \in [Threads -> {"absent", "running", "stopped", "dead"}]
    BY DEF PInv, TargetTypes
  <1>5. UNCHANGED kstate \/ Go ({t})
    BY <1>1 DEF Handles
  <1>6. /\ \A u \in Threads \ {t} : kstate'[u] = kstate[u]
        /\ kstate'[t] = "running" \/ UNCHANGED kstate
    BY <1>2, <1>3, <1>4, <1>5 DEF Go
  <1>7. \A u \in Threads \ {t} : Quiet (u)' <=> Quiet (u)
    BY <1>3, <1>6, FirstFacts DEF Quiet, Event, NoEvent
  <1>8. ~Quiet (t)
    BY <1>3 DEF Quiet, Event
  <1>9. word[t] = "none" /\ t \notin pending_events
    BY <1>1, <1>2 DEF Handles, SInv, Calm
  <1>10. CASE kstate'[t] = "running"
    <2>1. \A u \in Threads : Quiet (u)' <=> Quiet (u)
      BY <1>7, <1>8, <1>10 DEF Quiet
    <2> QED  BY <1>2, <1>3, <2>1, ControlPromised
  <1>11. CASE UNCHANGED kstate
    <2>1. Quiet (t)'
      BY <1>2, <1>3, <1>9, <1>11, FirstFacts DEF Quiet, Event, NoEvent
    <2>2. ActiveThreads' = ActiveThreads \ {t}
      BY <1>7, <2>1 DEF ActiveThreads
    <2>3. ActiveThreads = Live /\ OpenCommands # {}
      BY <1>2, PhaseView, OpenView DEF AllRun
    <2>4. UNCHANGED <<Len (results), OpenCommands, LastTold>> /\ Commanded'
      BY <1>2, <1>3, UnseenStep
    <2>5. Promise!FirstStops (t)
      BY <2>2, <2>3, <2>4 DEF Promise!FirstStops
    <2> QED  BY <2>4, <2>5 DEF Promised, Promise!Next
  <1> QED  BY <1>6, <1>10, <1>11

LEMMA StepPromised ==
    ASSUME OnlyStops, PInv, SInv, SInv', Commanded, Step
    PROVE  Promised
  <1>1. PICK t \in Live, m \in {"process", "global"} : \E i : Starting (t, m, i)
    BY StepStarts, NoneExits DEF SInv, Calm, Step
  <1>2. PICK i : Starting (t, m, i)
    BY <1>1
  <1>3. /\ AllStopped /\ i = Len (results) + 1
        /\ results' = Append (results, NewResult (m, First)) /\ Starts ({First}, i)
        /\ IF m = "global" THEN global_operation' = i /\ global_event' = FALSE
           ELSE UNCHANGED <<global_operation, global_event>>
        /\ UNCHANGED calls
    BY <1>2 DEF Starting
  <1>4. /\ current_state[First] = "stopped" /\ global_operation = Null /\ calls = << >>
        /\ LastTold /\ stopped_event[First] /\ operation = Null
    BY <1>3, OpenView DEF AllStopped, Commanded
  <1>5. ActiveThreads = {} /\ OpenCommands = {}
    BY <1>3, <1>4, PhaseView, OpenView DEF IsOpen
  <1>6. current_state'[First] = "running" /\ operation' = i /\ ~stopped_event'[First]
    BY <1>3, FirstFacts DEF Starts, Sets, operation
  <1>7. results \in Seq (Results) /\ NewResult (m, First) \in Results
    BY FirstFacts DEF PInv, ProcessTypes, NewResult, Results
  <1>8. /\ results'[i] = NewResult (m, First) /\ DOMAIN results' = DOMAIN results \cup {i}
        /\ \A k \in DOMAIN results : results'[k] = results[k]
        /\ i \in Nat /\ i # Null /\ Len (results') = i /\ i \notin DOMAIN results /\ results' # << >>
    BY <1>3, <1>7 DEF Null
  <1>9. results'[i].process = First /\ results'[i].model = m /\ ~results'[i].IsCompleted
    BY <1>8 DEF NewResult
  <1>10. OpenCommands' = {i}
    BY <1>5, <1>8, <1>9 DEF OpenCommands
  <1>11. AllRun'
    BY <1>3, <1>4, <1>6 DEF SInv, Phases, AllRun, AllStopped, OneStops, IsTold, Stopping, OtherStops,
       Ending, Frame, LeftStopping, Gone
  <1>12. ActiveThreads' = Live
    <2>1. ASSUME NEW u \in Threads \ Live PROVE Quiet (u)'
      <3>1. Quiet (u)
        BY LiveFacts, NoneExits DEF SInv
      <3>2. kstate'[u] = kstate[u] /\ (u \in pending_events' => u \in pending_events)
        BY <1>2, NoneExits DEF Starting, Resumed, Go
      <3> QED  BY <1>2, <3>1, <3>2 DEF Starting, Quiet, Event
    <2>2. UNCHANGED Known
      BY <1>2 DEF Starting, Known
    <2> QED  BY <1>11, <2>1, <2>2, NoneExits, FirstFacts DEF AllRun, Carrying, ActiveThreads
  <1>13. LastTold' = FALSE /\ LastTold = TRUE
    BY <1>3, <1>4, <1>6, <1>8, <1>9 DEF LastTold, Signalled
  <1>14. Promise!Start
    BY <1>3, <1>5, <1>8, <1>10, <1>12, <1>13 DEF Promise!Start
  <1>15. Commanded'
    <2>1. global_operation' # Null <=> m = "global"
      BY <1>3, <1>4, <1>8
    <2>2. \A k \in DOMAIN results' : ~results'[k].IsCompleted => k = i
      BY <1>5, <1>8 DEF OpenCommands
    <2> QED  BY <1>6, <1>8, <1>9, <2>1, <2>2 DEF Commanded
  <1> QED  BY <1>14, <1>15 DEF Promised, Promise!Next

LEMMA OutsidePromised ==
    ASSUME OnlyStops, PInv, SInv, Commanded, Target \/ Client \/ UNCHANGED vars
    PROVE  Promised
  <1>1. CASE Target
    <2>1. /\ \A t \in Threads : Quiet (t)' <=> Quiet (t)
          /\ UNCHANGED <<current_state, current_operation, results, global_operation>>
          /\ UNCHANGED <<stopped_event, global_event>>
      BY <1>1, TargetFacts, NoneExits
    <2> QED  BY <2>1, ControlPromised DEF Unseen
  <1>2. CASE Client \/ UNCHANGED vars
    <2>1. ~\E p \in Processes : Abort (p)
      BY NoneExits DEF Abort, StopsAndExits
    <2>2. /\ UNCHANGED <<kstate, word, held, pending_events>>
          /\ UNCHANGED <<current_state, current_operation, results, global_operation>>
          /\ UNCHANGED <<stopped_event, global_event>>
      BY <1>2, <2>1 DEF Client, Stop, BeginStep, vars, target, engine, process, debugger
    <2> QED  BY <2>2, SameQuiet, ControlPromised DEF Unseen
  <1> QED  BY <1>1, <1>2

LEMMA EnginePromised ==
    ASSUME OnlyStops, PInv, SInv, Commanded, Engine
    PROVE  Promised
  <1>1. \A t \in Threads : ~ProcessPending (t)
    BY DEF ProcessPending, SInv, Calm
  <1>2. CASE SuspendUserThreads
    <2>1. ASSUME NEW t \in Threads,
                 SuspendReap (t) \/ SuspendSigstop (t) \/ \E w \in AllReports : SuspendOther (t, w)
          PROVE  Promised
      BY <2>1, InterruptedHow, InterruptedPromised, NoneExits DEF Interrupts
    <2>2. ~SuspendThrows
      BY SuspendThrown, NoneExits
    <2> QED  BY <1>2, <2>1, <2>2, NoHang, SuspendDonePromised, ControlSteps DEF SuspendUserThreads
  <1> QED
    BY <1>1, <1>2, OperationCompletedPromised, GlobalDonePromised, ProcessEventPromised, ControlSteps
    DEF Engine

LEMMA NextPromised ==
    ASSUME OnlyStops
    PROVE  PInv /\ SInv /\ Commanded /\ [Next]_vars => Promised
  <1> SUFFICES ASSUME PInv, SInv, Commanded, [Next]_vars PROVE Promised
    OBVIOUS
  <1>1. CASE Step
    BY <1>1, NextPhase, StepPromised DEF OnlyStops
  <1> QED  BY <1>1, EnginePromised, OutsidePromised DEF Next

LEMMA InitPromised == Init => Commanded /\ Promise!Init
  <1> SUFFICES ASSUME Init PROVE Commanded /\ Promise!Init
    OBVIOUS
  <1>1. results = << >> /\ operation = Null /\ stopped_event[First]
    BY FirstFacts DEF Init, operation
  <1>2. DOMAIN results = {} /\ Len (results) = 0
    BY <1>1
  <1>3. LastTold = TRUE
    BY <1>1 DEF LastTold
  <1>4. \A t \in Threads : Quiet (t)
    BY FirstFacts DEF Init, Quiet, Event, NoEvent
  <1>5. ActiveThreads = {} /\ OpenCommands = {}
    BY <1>4, <1>2 DEF ActiveThreads, OpenCommands
  <1> QED  BY <1>1, <1>3, <1>2, <1>5 DEF Commanded, Promise!Init

(* To a client, a command on the whole process or on the whole debugger is  *)
(* what ProcessCommand says: for the first thread that stops it completes,  *)
(* once; the others stop, none is started meanwhile; then its event is set. *)
THEOREM CommandImplemented ==
    ASSUME OnlyStops
    PROVE  Spec => ImplementsCommand
  <1>1. Init => Commanded /\ Promise!Init
    BY InitPromised
  <1>2. PInv /\ SInv /\ Commanded /\ [Next]_vars => Commanded' /\ [Promise!Next]_(Promise!vars)
    BY NextPromised DEF Promised
  <1>3. Spec => []SInv
    BY CommandPhases DEF OnlyStops
  <1> QED
    BY <1>1, <1>2, <1>3, OperationsInvariant, PTL DEF Spec, ImplementsCommand, Promise!Spec
=============================================================================
