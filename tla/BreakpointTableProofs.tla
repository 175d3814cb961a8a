------------------------ MODULE BreakpointTableProofs ------------------------
(***************************************************************************)
(* Theorems about BreakpointTable, for any addresses, threads, handles,    *)
(* debug registers, slots and ids.                                         *)
(*                                                                         *)
(* Code and table (IInv): an address has an enabled breakpoint exactly if  *)
(* its code is a trap, and the instruction saved for it is the program's   *)
(* (CellInv); the new process of a fork has no thread until its tables are *)
(* copied (ForkInv).                                                       *)
(*                                                                         *)
(* References (CountInv): an id is given out once and stands for one       *)
(* address of a process (IdInv); the id of a debug register is in no table *)
(* and has one user (Hardware); and every other id has a reference for     *)
(* each of its users (Counts).                                             *)
(***************************************************************************)
EXTENDS BreakpointTable, FiniteSetTheorems, TLAPS

(* One address of a process: the saved instruction is the program's, and    *)
(* the code is patched exactly if the breakpoint is enabled, unless there   *)
(* was no slot for it.                                                      *)
Cell (p, a) ==
    /\ bpm[p][a].enabled => bpm[p][a].saved_insn = "insn"
    /\ ~bpm[p][a].enabled => mem[p][a] = "insn"
    /\ bpm[p][a].enabled => mem[p][a] = "trap" \/ (HasRuntime ("parent") /\ ~SlotFree)

CellInv == \A p \in Procs, a \in Addresses : InStep (p) => Cell (p, a)

(* The process that a fork makes has no thread until it is followed, and    *)
(* OperationInitAfterFork is its first operation.                           *)
ForkInv ==
    /\ fork \in {"none", "forked", "detached"} => run[ChildThread] = "none"
    /\ run[ChildThread] \notin {"fork", "locked_fork", "detach"}
    /\ \A t \in AllThreads : run[t] = "init" => t = ChildThread /\ fork = "init"

IInv == TypeOK /\ CellInv /\ ForkInv /\ LetGoClean

(* Proc is the process of a thread.                                         *)
LEMMA ProcType ==
    /\ \A t \in AllThreads : Proc (t) \in Procs
    /\ \A t \in Threads : Proc (t) = "parent" /\ t \in AllThreads
    /\ Proc (ChildThread) = "child" /\ ChildThread \in AllThreads
BY BreakpointAssumption DEF Proc, Procs, AllThreads

(* Tables are functions of two arguments: an entry or a row is replaced.    *)
LEMMA EntryReplaced ==
    ASSUME NEW X, NEW Y, NEW V, NEW f \in [X -> [Y -> V]], NEW x \in X, NEW y \in Y, NEW v \in V
    PROVE  LET g == [f EXCEPT ![x][y] = v]
           IN  /\ g \in [X -> [Y -> V]] /\ g[x][y] = v
               /\ \A u \in X, w \in Y : u # x \/ w # y => g[u][w] = f[u][w]
OBVIOUS

(* The same for a row.                                                      *)
LEMMA RowReplaced ==
    ASSUME NEW X, NEW Y, NEW V, NEW f \in [X -> [Y -> V]], NEW x \in X, NEW r \in [Y -> V]
    PROVE  LET g == [f EXCEPT ![x] = r]
           IN  /\ g \in [X -> [Y -> V]] /\ g[x] = r
               /\ \A u \in X : u # x => g[u] = f[u]
OBVIOUS

(* The fields of a BreakpointInfo, and what counting a reference changes.   *)
LEMMA InfoFields ==
    ASSUME NEW b \in Info
    PROVE  /\ b.id \in 0 .. MaxId /\ b.refcount \in Int /\ b.enabled \in BOOLEAN
           /\ b.saved_insn \in {"insn", "trap"}
BY DEF Info

(* Counting a reference changes nothing else.                               *)
LEMMA InfoCounted ==
    ASSUME NEW b \in Info, NEW n \in Int
    PROVE  /\ Counted (b, n) \in Info /\ Counted (b, n).id = b.id
           /\ Counted (b, n).refcount = b.refcount + n
           /\ Counted (b, n).enabled = b.enabled /\ Counted (b, n).saved_insn = b.saved_insn
BY DEF Info, Counted

(* The types of one address.                                                *)
LEMMA CellTypes ==
    ASSUME TablesType, NEW p \in Procs, NEW a \in Addresses
    PROVE  /\ bpm[p][a] \in Info /\ mem[p][a] \in {"insn", "trap"}
           /\ ReadMemory (p, a) \in {"insn", "trap"}
<1>1. bpm[p][a] \in Info /\ mem[p][a] \in {"insn", "trap"}
  BY DEF TablesType
<1> QED
  BY <1>1, InfoFields DEF ReadMemory

(* The entry of an address without a breakpoint.                            *)
LEMMA EmptyInfo ==
    NoInfo \in Info /\ ~NoInfo.enabled /\ NoInfo.id = 0 /\ NoInfo.refcount = 0
BY BreakpointAssumption DEF NoInfo, Info

(* Taking a slot keeps within the table, and frees none.                    *)
LEMMA SlotsKept ==
    ASSUME TablesType, NEW p, FindSlot (p)
    PROVE  /\ slots' \in 0 .. TableSize /\ (TableSize > 0 => slots' < TableSize)
           /\ ~SlotFree => ~SlotFree'
BY BreakpointAssumption DEF TablesType, FindSlot, SlotFree

(* The id that the next breakpoint gets.                                    *)
LEMMA NextId ==
    ASSUME TablesType, NewId
    PROVE  last_breakpoint_id' = last_breakpoint_id + 1 /\ last_breakpoint_id + 1 \in 1 .. MaxId
BY BreakpointAssumption DEF TablesType, NewId

(* What a call of the server leaves alone.                                  *)
Kept (q, b) ==
    /\ mem'[q][b] = mem[q][b] /\ bpm'[q][b].enabled = bpm[q][b].enabled
    /\ bpm'[q][b].saved_insn = bpm[q][b].saved_insn

(* server_ptrace_insert_breakpoint() and its kin, call by call.             *)
LEMMA AddReferenceEffect ==
    ASSUME TablesType, NEW p \in Procs, NEW a \in Addresses, AddReference (p, a)
    PROVE  /\ TablesType' /\ UNCHANGED slots
           /\ \A q \in Procs, b \in Addresses : Kept (q, b)
<1> DEFINE new == Counted (bpm[p][a], 1)
<1>1. bpm' = [bpm EXCEPT ![p][a] = new] /\ UNCHANGED <<mem, dr_regs, last_breakpoint_id, slots>>
  BY DEF AddReference
<1>2. /\ new \in Info /\ new.enabled = bpm[p][a].enabled
      /\ new.saved_insn = bpm[p][a].saved_insn
  BY CellTypes, InfoCounted
<1> HIDE DEF new
<1>3. /\ bpm' \in [Procs -> [Addresses -> Info]] /\ bpm'[p][a] = new
      /\ \A q \in Procs, b \in Addresses : q # p \/ b # a => bpm'[q][b] = bpm[q][b]
  BY <1>1, <1>2, EntryReplaced DEF TablesType
<1>4. TablesType'
  BY <1>1, <1>3 DEF TablesType
<1>5. ASSUME NEW q \in Procs, NEW b \in Addresses PROVE Kept (q, b)
  BY <1>1, <1>2, <1>3 DEF Kept
<1> QED
  BY <1>1, <1>4, <1>5

(* A new breakpoint patches its address and saves what it read there.       *)
LEMMA NewBreakpointEffect ==
    ASSUME TablesType, NEW t \in AllThreads, NEW a \in Addresses, NewBreakpoint (t, a)
    PROVE  /\ TablesType' /\ (~SlotFree => ~SlotFree')
           /\ \A q \in Procs, b \in Addresses : q # Proc (t) \/ b # a => Kept (q, b)
           /\ mem'[Proc (t)][a] = "trap" /\ bpm'[Proc (t)][a] = NewInfo (Proc (t), a)
           /\ NewInfo (Proc (t), a).enabled
           /\ NewInfo (Proc (t), a).saved_insn = ReadMemory (Proc (t), a)
<1> DEFINE p == Proc (t)
<1>1. p \in Procs
  BY ProcType
<1> HIDE DEF p
<1>2. /\ bpm' = [bpm EXCEPT ![p][a] = NewInfo (p, a)] /\ mem' = [mem EXCEPT ![p][a] = "trap"]
      /\ FindSlot (p) /\ NewId /\ UNCHANGED dr_regs
  BY DEF NewBreakpoint, p
<1>3. /\ NewInfo (p, a) \in Info /\ NewInfo (p, a).enabled
      /\ NewInfo (p, a).saved_insn = ReadMemory (p, a)
  BY <1>1, <1>2, CellTypes, NextId DEF NewInfo, Info
<1>4. /\ bpm' \in [Procs -> [Addresses -> Info]] /\ bpm'[p][a] = NewInfo (p, a)
      /\ \A q \in Procs, b \in Addresses : q # p \/ b # a => bpm'[q][b] = bpm[q][b]
  BY <1>1, <1>2, <1>3, EntryReplaced DEF TablesType
<1>5. /\ mem' \in [Procs -> [Addresses -> {"insn", "trap"}]] /\ mem'[p][a] = "trap"
      /\ \A q \in Procs, b \in Addresses : q # p \/ b # a => mem'[q][b] = mem[q][b]
  BY <1>1, <1>2, EntryReplaced DEF TablesType
<1>6. TablesType'
  BY <1>2, <1>4, <1>5, SlotsKept, NextId DEF TablesType
<1>7. ASSUME NEW q \in Procs, NEW b \in Addresses, q # p \/ b # a PROVE Kept (q, b)
  BY <1>4, <1>5, <1>7 DEF Kept
<1> QED
  BY <1>2, <1>3, <1>4, <1>5, <1>6, <1>7, SlotsKept DEF p

(* A failed insertion changes neither code nor table.                       *)
LEMMA InsertFailsEffect ==
    ASSUME TablesType, NEW t \in AllThreads, NEW a \in Addresses, InsertFails (t, a)
    PROVE  /\ TablesType' /\ (~SlotFree => ~SlotFree') /\ UNCHANGED <<mem, bpm>>
<1>1. FindSlot (Proc (t)) /\ NewId /\ UNCHANGED <<mem, bpm, dr_regs>>
  BY DEF InsertFails
<1> QED
  BY <1>1, SlotsKept, NextId DEF TablesType

(* A debug register is set: code and table are left alone.                  *)
LEMMA NewHardwareEffect ==
    ASSUME TablesType, NEW t \in AllThreads, NewHardware (t)
    PROVE  TablesType' /\ UNCHANGED <<mem, bpm, slots>>
<1>1. NewId /\ UNCHANGED <<mem, bpm, slots>>
  BY DEF NewHardware
<1>2. PICK k \in 1 .. DebugRegs : dr_regs' = [dr_regs EXCEPT ![t][k] = last_breakpoint_id + 1]
  BY DEF NewHardware, FreeRegs
<1>3. last_breakpoint_id + 1 \in 0 .. MaxId
  BY <1>1, NextId
<1>4. dr_regs' \in [AllThreads -> [1 .. DebugRegs -> 0 .. MaxId]]
  BY <1>2, <1>3, EntryReplaced DEF TablesType
<1> QED
  BY <1>1, <1>4, NextId DEF TablesType

(* An address is left alone, or its code is restored.                       *)
LEMMA RemoveCallsEffect ==
    ASSUME TablesType, NEW t \in AllThreads, NEW S, RemoveCalls (t, S)
    PROVE  /\ TablesType' /\ UNCHANGED slots
           /\ \A q \in Procs, b \in Addresses :
                 \/ Kept (q, b)
                 \/ /\ q = Proc (t) /\ ~bpm'[q][b].enabled /\ mem'[q][b] = ReadMemory (q, b)
<1> DEFINE p == Proc (t)
           infos == [a \in Addresses |-> InfoAfter (t, a, S)]
           code == [a \in Addresses |-> CodeAfter (t, a, S)]
           regs == [k \in 1 .. DebugRegs |->
                      IF dr_regs[t][k] \in S /\ Halted (t) THEN 0 ELSE dr_regs[t][k]]
<1>1. p \in Procs
  BY ProcType
<1>2. /\ bpm' = [bpm EXCEPT ![p] = infos] /\ mem' = [mem EXCEPT ![p] = code]
      /\ dr_regs' = [dr_regs EXCEPT ![t] = regs] /\ UNCHANGED <<last_breakpoint_id, slots>>
  BY DEF RemoveCalls
<1>3. ASSUME NEW a \in Addresses
      PROVE  /\ InfoAfter (t, a, S) \in Info /\ CodeAfter (t, a, S) \in {"insn", "trap"}
             /\ \/ /\ InfoAfter (t, a, S).enabled = bpm[p][a].enabled
                   /\ InfoAfter (t, a, S).saved_insn = bpm[p][a].saved_insn
                   /\ CodeAfter (t, a, S) = mem[p][a]
                \/ ~InfoAfter (t, a, S).enabled /\ CodeAfter (t, a, S) = ReadMemory (p, a)
  <2>1. bpm[p][a] \in Info /\ mem[p][a] \in {"insn", "trap"} /\ ReadMemory (p, a) \in {"insn", "trap"}
    BY <1>1, CellTypes
  <2>2. CASE Freed (t, a, S)
    BY <2>1, <2>2, EmptyInfo DEF InfoAfter, CodeAfter
  <2>3. CASE ~Freed (t, a, S)
    BY <2>1, <2>3, InfoCounted DEF InfoAfter, CodeAfter
  <2> QED
    BY <2>2, <2>3
<1>4. regs \in [1 .. DebugRegs -> 0 .. MaxId]
  BY BreakpointAssumption DEF TablesType
<1>5. infos \in [Addresses -> Info] /\ code \in [Addresses -> {"insn", "trap"}]
  BY <1>3
<1>6. ASSUME NEW a \in Addresses PROVE infos[a] = InfoAfter (t, a, S) /\ code[a] = CodeAfter (t, a, S)
  OBVIOUS
<1> HIDE DEF p, infos, code, regs
<1>7. /\ bpm' \in [Procs -> [Addresses -> Info]] /\ bpm'[p] = infos
      /\ \A q \in Procs : q # p => bpm'[q] = bpm[q]
  BY <1>1, <1>2, <1>5, RowReplaced DEF TablesType
<1>8. /\ mem' \in [Procs -> [Addresses -> {"insn", "trap"}]] /\ mem'[p] = code
      /\ \A q \in Procs : q # p => mem'[q] = mem[q]
  BY <1>1, <1>2, <1>5, RowReplaced DEF TablesType
<1>9. TablesType'
  BY <1>2, <1>4, <1>7, <1>8, RowReplaced DEF TablesType
<1>10. ASSUME NEW q \in Procs, NEW b \in Addresses
       PROVE  Kept (q, b) \/ (q = p /\ ~bpm'[q][b].enabled /\ mem'[q][b] = ReadMemory (q, b))
  BY <1>3, <1>6, <1>7, <1>8 DEF Kept, p
<1> QED
  BY <1>2, <1>9, <1>10 DEF p

(* Disabling a breakpoint restores its code.                                *)
LEMMA StepOverEffect ==
    ASSUME TablesType, NEW t \in AllThreads, NEW a \in Addresses, StepOverBreakpoint (t, a)
    PROVE  /\ TablesType' /\ UNCHANGED slots
           /\ \A q \in Procs, b \in Addresses : q # Proc (t) \/ b # a => Kept (q, b)
           /\ ~bpm'[Proc (t)][a].enabled /\ mem'[Proc (t)][a] = ReadMemory (Proc (t), a)
<1> DEFINE p == Proc (t)
           new == [bpm[p][a] EXCEPT !.enabled = FALSE]
<1>1. p \in Procs
  BY ProcType
<1>2. bpm[p][a] \in Info /\ bpm[p][a].saved_insn \in {"insn", "trap"}
  BY <1>1, CellTypes, InfoFields
<1>3. /\ bpm' = [bpm EXCEPT ![p][a] = new] /\ mem' = [mem EXCEPT ![p][a] = bpm[p][a].saved_insn]
      /\ bpm[p][a].enabled /\ UNCHANGED <<dr_regs, last_breakpoint_id, slots>>
  BY DEF StepOverBreakpoint
<1>4. new \in Info /\ ~new.enabled
  BY <1>2 DEF Info
<1> HIDE DEF p, new
<1>5. /\ bpm' \in [Procs -> [Addresses -> Info]] /\ bpm'[p][a] = new
      /\ \A q \in Procs, b \in Addresses : q # p \/ b # a => bpm'[q][b] = bpm[q][b]
  BY <1>1, <1>3, <1>4, EntryReplaced DEF TablesType
<1>6. /\ mem' \in [Procs -> [Addresses -> {"insn", "trap"}]] /\ mem'[p][a] = bpm[p][a].saved_insn
      /\ \A q \in Procs, b \in Addresses : q # p \/ b # a => mem'[q][b] = mem[q][b]
  BY <1>1, <1>2, <1>3, EntryReplaced DEF TablesType
<1>7. TablesType'
  BY <1>3, <1>5, <1>6 DEF TablesType
<1>8. ASSUME NEW q \in Procs, NEW b \in Addresses, q # p \/ b # a PROVE Kept (q, b)
  BY <1>5, <1>6, <1>8 DEF Kept
<1> QED
  BY <1>3, <1>4, <1>5, <1>6, <1>7, <1>8 DEF p, ReadMemory

(* A breakpoint is set at q, b, with the instruction that was read there.   *)
SetAt (q, b) ==
    /\ bpm'[q][b].enabled /\ bpm'[q][b].saved_insn = ReadMemory (q, b)
    /\ \/ mem'[q][b] = "trap" \/ (HasRuntime (q) /\ ~SlotFree)
       \/ bpm[q][b].enabled /\ mem'[q][b] = mem[q][b]

ClearedAt (q, b) == ~bpm'[q][b].enabled /\ mem'[q][b] = ReadMemory (q, b)

(* Enabling it again patches its code, if there is a slot.                  *)
LEMMA EnableEffect ==
    ASSUME TablesType, NEW t \in AllThreads, EnableBreakpoint (t)
    PROVE  /\ TablesType' /\ (~SlotFree => ~SlotFree')
           /\ \A q \in Procs, b \in Addresses : Kept (q, b) \/ SetAt (q, b)
<1> DEFINE p == Proc (t)
           A == SteppedOver (t)
           infos == [a \in Addresses |-> IF a \in A THEN Reenabled (p, a) ELSE bpm[p][a]]
           code == [a \in Addresses |-> IF a \in A /\ Patchable (p, a) THEN "trap" ELSE mem[p][a]]
<1>1. p \in Procs
  BY ProcType
<1>2. /\ bpm' = [bpm EXCEPT ![p] = infos] /\ mem' = [mem EXCEPT ![p] = code]
      /\ UNCHANGED slots \/ FindSlot (p)
      /\ UNCHANGED <<dr_regs, last_breakpoint_id>>
  BY DEF EnableBreakpoint
<1>3. ASSUME NEW a \in Addresses
      PROVE  /\ bpm[p][a] \in Info /\ Reenabled (p, a) \in Info /\ mem[p][a] \in {"insn", "trap"}
             /\ Reenabled (p, a).enabled /\ Reenabled (p, a).saved_insn = ReadMemory (p, a)
  <2>1. bpm[p][a] \in Info /\ mem[p][a] \in {"insn", "trap"} /\ ReadMemory (p, a) \in {"insn", "trap"}
    BY <1>1, CellTypes
  <2> QED
    BY <2>1 DEF Reenabled, Info
<1>4. infos \in [Addresses -> Info] /\ code \in [Addresses -> {"insn", "trap"}]
  BY <1>3
<1>5. ASSUME NEW a \in Addresses
      PROVE  /\ infos[a] = IF a \in A THEN Reenabled (p, a) ELSE bpm[p][a]
             /\ code[a] = IF a \in A /\ Patchable (p, a) THEN "trap" ELSE mem[p][a]
  OBVIOUS
<1> HIDE DEF p, A, infos, code
<1>6. /\ bpm' \in [Procs -> [Addresses -> Info]] /\ bpm'[p] = infos
      /\ \A q \in Procs : q # p => bpm'[q] = bpm[q]
  BY <1>1, <1>2, <1>4, RowReplaced DEF TablesType
<1>7. /\ mem' \in [Procs -> [Addresses -> {"insn", "trap"}]] /\ mem'[p] = code
      /\ \A q \in Procs : q # p => mem'[q] = mem[q]
  BY <1>1, <1>2, <1>4, RowReplaced DEF TablesType
<1>8. TablesType' /\ (~SlotFree => ~SlotFree')
  BY <1>2, <1>6, <1>7, SlotsKept DEF TablesType, SlotFree
<1>9. ASSUME NEW q \in Procs, NEW b \in Addresses PROVE Kept (q, b) \/ SetAt (q, b)
  <2>1. CASE q # p
    BY <1>6, <1>7, <2>1 DEF Kept
  <2>2. CASE q = p /\ b \notin A
    BY <1>5, <1>6, <1>7, <2>2 DEF Kept
  <2>3. CASE q = p /\ b \in A
    BY <1>3, <1>5, <1>6, <1>7, <2>3 DEF SetAt, Patchable
  <2> QED
    BY <2>1, <2>2, <2>3
<1> QED
  BY <1>8, <1>9

(* Inserting, removing, enabling and disabling keep the code and the table  *)
(* in step.                                                                 *)
LEMMA CellsKept ==
    ASSUME TablesType, CellInv, UNCHANGED <<fork, copied>>, ~SlotFree => ~SlotFree',
           \A q \in Procs, b \in Addresses : Kept (q, b) \/ SetAt (q, b) \/ ClearedAt (q, b)
    PROVE  CellInv'
<1> SUFFICES ASSUME NEW q \in Procs, NEW b \in Addresses, InStep (q)' PROVE Cell (q, b)'
  BY DEF CellInv
<1>1. Cell (q, b)
  BY DEF CellInv, InStep
<1>2. ReadMemory (q, b) = "insn"
  BY <1>1 DEF Cell, ReadMemory
<1>3. CASE Kept (q, b)
  BY <1>1, <1>3 DEF Cell, Kept, HasRuntime
<1>4. CASE SetAt (q, b)
  BY <1>1, <1>2, <1>4 DEF Cell, SetAt, HasRuntime
<1>5. CASE ClearedAt (q, b)
  BY <1>2, <1>5 DEF Cell, ClearedAt
<1> QED
  BY <1>3, <1>4, <1>5

(* Only a thread that is there acts; a process that was let go is not.      *)
LEMMA ActsPresent ==
    ASSUME ForkInv, NEW t \in AllThreads, t \in Explored, Command (t) \/ Event (t)
    PROVE  /\ Present (t) /\ fork # "detached"
           /\ \/ fork \in {"none", "forked"} /\ t \in Threads /\ Proc (t) = "parent"
              \/ fork \notin {"none", "forked"} /\ t = ChildThread /\ Proc (t) = "child"
<1>1. \/ fork \in {"none", "forked"} /\ t \in Threads /\ Proc (t) = "parent"
      \/ fork \notin {"none", "forked"} /\ t = ChildThread /\ Proc (t) = "child"
  BY ProcType DEF Explored, Team, AllThreads
<1>2. Present (t)
  <2>1. CASE Command (t)
    BY <2>1 DEF Command, RemoveBreakpoint, InsertBreakpoint, InsertWatchpoint, MayInsert, Start,
                DetachLock, Detach, Present
  <2>2. CASE Event (t)
    BY <2>2 DEF Event, Report, EnableBreakpoint, OperationCompleted, ThreadExit, Continue,
                ContinueUntil, DomainUnload, StepOverBreakpoint, StepOverRefused, Fork,
                ChildForked, DetachAfterFork, InitializeAfterFork, Present, Runs
  <2> QED
    BY <2>1, <2>2
<1> QED
  BY <1>1, <1>2 DEF ForkInv, Present

(* Nothing is inserted when the debugger starts.                            *)
LEMMA InitIInv == Init => IInv
<1> SUFFICES ASSUME Init PROVE IInv
  OBVIOUS
<1>1. TablesType
  BY EmptyInfo, BreakpointAssumption DEF Init, TablesType
<1>2. EnginesType
  BY BreakpointAssumption DEF Init, EnginesType, RunStates, Handling
<1>3. TypeOK
  BY <1>1, <1>2 DEF Init, TypeOK
<1>4. CellInv
  BY EmptyInfo DEF Init, CellInv, Cell, Procs
<1>5. ForkInv /\ LetGoClean
  BY ProcType DEF Init, ForkInv, LetGoClean
<1> QED
  BY <1>3, <1>4, <1>5 DEF IInv

(* The tables are left alone.                                               *)
LEMMA TablesSame ==
    ASSUME TablesType, CellInv, UNCHANGED <<mem, bpm, slots, fork, copied>>,
           last_breakpoint_id' \in 0 .. MaxId,
           dr_regs' \in [AllThreads -> [1 .. DebugRegs -> 0 .. MaxId]]
    PROVE  TablesType' /\ CellInv'
<1>1. TablesType'
  BY DEF TablesType
<1>2. CellInv'
  BY DEF CellInv, Cell, InStep, HasRuntime, SlotFree
<1> QED
  BY <1>1, <1>2

(* The loops over index_hash change the table only by RemoveCalls.          *)
LEMMA RemoveIndicesEffect ==
    ASSUME TypeOK, NEW t \in AllThreads, NEW ids \in SUBSET Ids, RemoveIndices (t, ids)
    PROVE  /\ TablesType' /\ UNCHANGED slots
           /\ \A q \in Procs, b \in Addresses : Kept (q, b) \/ ClearedAt (q, b)
           /\ index_hash' \in [Procs -> [Ids -> Handles \cup {NoHandle}]]
           /\ stale' \in [Procs -> SUBSET Ids]
<1> DEFINE p == Proc (t)
<1>1. p \in Procs
  BY ProcType
<1>2. PICK S \in SUBSET ids, F \in SUBSET ids :
         /\ RemoveCalls (t, S \cup F)
         /\ index_hash' = [index_hash EXCEPT ![p] =
                              [i \in Ids |-> IF i \in S THEN NoHandle ELSE index_hash[p][i]]]
         /\ stale' = [stale EXCEPT ![p] = @ \cup F]
  BY DEF RemoveIndices
<1> HIDE DEF p
<1>3. /\ TablesType' /\ UNCHANGED slots
      /\ \A q \in Procs, b \in Addresses : Kept (q, b) \/ ClearedAt (q, b)
  BY <1>2, RemoveCallsEffect DEF TypeOK, ClearedAt
<1>4. index_hash' \in [Procs -> [Ids -> Handles \cup {NoHandle}]]
  BY <1>1, <1>2, RowReplaced DEF TypeOK
<1>5. stale' \in [Procs -> SUBSET Ids]
  BY <1>1, <1>2 DEF TypeOK
<1> QED
  BY <1>3, <1>4, <1>5

(* A step of thread t, and the threads it locks, releases or kills.         *)
LEMMA ForkKept ==
    ASSUME ForkInv, UNCHANGED fork, NEW t \in AllThreads,
           \/ fork \in {"none", "forked"} /\ t \in Threads
           \/ fork \in {"init", "followed"} /\ t = ChildThread,
           \A u \in AllThreads \ {t} : run'[u] = run[u] \/ (u # ChildThread /\ run'[u] # "init"),
           run'[t] = "init" => t = ChildThread /\ fork = "init",
           t = ChildThread => run'[t] \notin {"fork", "locked_fork", "detach"}
    PROVE  ForkInv'
BY BreakpointAssumption, ProcType DEF ForkInv

(* Every command, event and step of the target keeps the invariant.         *)
LEMMA NextIInv == IInv /\ [Next]_vars => IInv'
<1> SUFFICES ASSUME IInv, [Next]_vars PROVE IInv'
  OBVIOUS
<1>1. TypeOK /\ TablesType /\ EnginesType /\ CellInv /\ ForkInv /\ LetGoClean
  BY DEF IInv, TypeOK
<1>2. CASE UNCHANGED vars
  <2>1. UNCHANGED <<mem, bpm, index_hash, dr_regs, last_breakpoint_id, slots, temp_breakpoint,
                    step_over, until, run, fork, copied, stale>>
    BY <1>2 DEF vars, tables
  <2>2. TablesType' /\ CellInv'
    BY <1>1, <2>1, TablesSame DEF TablesType
  <2>3. EnginesType' /\ ForkInv' /\ LetGoClean'
    BY <1>1, <2>1 DEF EnginesType, ForkInv, LetGoClean
  <2> QED
    BY <1>1, <2>1, <2>2, <2>3 DEF IInv, TypeOK
<1>3. ASSUME NEW t \in AllThreads, t \in Explored, Command (t) \/ Event (t)
      PROVE  IInv'
  <2>1. /\ Present (t) /\ fork # "detached" /\ Proc (t) \in Procs
        /\ \/ fork \in {"none", "forked"} /\ t \in Threads /\ Proc (t) = "parent"
           \/ fork \in {"init", "followed"} /\ t = ChildThread /\ Proc (t) = "child"
    BY <1>1, <1>3, ActsPresent, ProcType DEF EnginesType
  <2>2. ASSUME TypeOK', CellInv', ForkInv', UNCHANGED fork PROVE IInv'
    BY <2>1, <2>2 DEF IInv, LetGoClean
  <2>3. ASSUME UNCHANGED <<tables, index_hash, temp_breakpoint, step_over, until, fork, copied, stale>>,
               NEW r \in RunStates \ {"none", "fork", "locked_fork"}, run' = [run EXCEPT ![t] = r],
               r = "init" => t = ChildThread /\ fork = "init",
               r = "detach" => t \in Threads
        PROVE  IInv'
    <3>1. TablesType' /\ CellInv'
      BY <1>1, <2>3, TablesSame DEF tables, TablesType
    <3>2. EnginesType' /\ ForkInv'
      BY <1>1, <2>1, <2>3, ForkKept, BreakpointAssumption DEF EnginesType
    <3> QED
      BY <1>1, <2>2, <2>3, <3>1, <3>2 DEF TypeOK
  <2> USE DEF tables
  <2>4. ASSUME NEW h \in Handles, NEW a \in Addresses, InsertBreakpoint (t, h, a) PROVE IInv'
    <3>1. UNCHANGED <<temp_breakpoint, step_over, until, run, fork, copied, stale>>
      BY <2>4 DEF InsertBreakpoint
    <3>2. EnginesType' /\ ForkInv'
      BY <1>1, <3>1 DEF EnginesType, ForkInv
    <3>3. CASE AddReference (Proc (t), a) /\ Register (Proc (t), bpm[Proc (t)][a].id, h)
      <4>1. TablesType' /\ CellInv'
        BY <1>1, <2>1, <3>1, <3>3, AddReferenceEffect, CellsKept DEF SlotFree
      <4>2. bpm[Proc (t)][a].id \in Ids
        BY <1>1, <2>1, <3>3, CellTypes, InfoFields, BreakpointAssumption DEF AddReference, Ids
      <4>3. index_hash' \in [Procs -> [Ids -> Handles \cup {NoHandle}]]
        BY <1>1, <2>1, <3>3, <4>2, EntryReplaced DEF Register, TypeOK
      <4> QED
        BY <1>1, <2>2, <3>1, <3>2, <4>1, <4>3 DEF TypeOK
    <3>4. CASE NewBreakpoint (t, a) /\ Register (Proc (t), last_breakpoint_id + 1, h)
      <4>1. /\ TablesType' /\ (~SlotFree => ~SlotFree')
            /\ \A q \in Procs, b \in Addresses : Kept (q, b) \/ SetAt (q, b)
        BY <1>1, <3>4, NewBreakpointEffect DEF SetAt
      <4>2. CellInv'
        BY <1>1, <3>1, <4>1, CellsKept
      <4>3. last_breakpoint_id + 1 \in Ids
        BY <1>1, <3>4, NextId DEF NewBreakpoint, Ids
      <4>4. index_hash' \in [Procs -> [Ids -> Handles \cup {NoHandle}]]
        BY <1>1, <2>1, <3>4, <4>3, EntryReplaced DEF Register, TypeOK
      <4> QED
        BY <1>1, <2>2, <3>1, <3>2, <4>1, <4>2, <4>4 DEF TypeOK
    <3>5. CASE InsertFails (t, a) /\ UNCHANGED index_hash
      <4>1. /\ TablesType' /\ (~SlotFree => ~SlotFree')
            /\ \A q \in Procs, b \in Addresses : Kept (q, b)
        BY <1>1, <3>5, InsertFailsEffect DEF Kept
      <4>2. CellInv'
        BY <1>1, <3>1, <4>1, CellsKept
      <4> QED
        BY <1>1, <2>2, <3>1, <3>2, <3>5, <4>1, <4>2 DEF TypeOK
    <3> QED
      BY <2>4, <3>3, <3>4, <3>5 DEF InsertBreakpoint
  <2>5. ASSUME NEW h \in Handles, NEW a \in Addresses, InsertWatchpoint (t, h, a) PROVE IInv'
    <3>1. /\ UNCHANGED <<temp_breakpoint, step_over, until, run, fork, copied, stale>>
          /\ NewHardware (t) /\ Register (Proc (t), last_breakpoint_id + 1, h)
      BY <2>5 DEF InsertWatchpoint
    <3>2. EnginesType' /\ ForkInv'
      BY <1>1, <3>1 DEF EnginesType, ForkInv
    <3>3. TablesType' /\ CellInv'
      <4>1. TablesType' /\ UNCHANGED <<mem, bpm, slots>>
        BY <1>1, <3>1, NewHardwareEffect
      <4> QED
        BY <1>1, <3>1, <4>1, TablesSame DEF TablesType
    <3>4. last_breakpoint_id + 1 \in Ids
      BY <1>1, <3>1, NextId DEF NewHardware, Ids
    <3>5. index_hash' \in [Procs -> [Ids -> Handles \cup {NoHandle}]]
      BY <1>1, <2>1, <3>1, <3>4, EntryReplaced DEF Register, TypeOK
    <3> QED
      BY <1>1, <2>2, <3>1, <3>2, <3>3, <3>5 DEF TypeOK
  <2>6. ASSUME NEW h \in Handles, RemoveBreakpoint (t, h) PROVE IInv'
    <3>1. /\ RemoveIndices (t, IndicesOf (Proc (t), h))
          /\ UNCHANGED <<temp_breakpoint, step_over, until, run, fork, copied>>
      BY <2>6 DEF RemoveBreakpoint
    <3>2. EnginesType' /\ ForkInv'
      BY <1>1, <3>1 DEF EnginesType, ForkInv
    <3>3. IndicesOf (Proc (t), h) \in SUBSET Ids
      BY DEF IndicesOf
    <3>4. /\ TablesType' /\ UNCHANGED slots
          /\ \A q \in Procs, b \in Addresses : Kept (q, b) \/ ClearedAt (q, b)
          /\ index_hash' \in [Procs -> [Ids -> Handles \cup {NoHandle}]]
          /\ stale' \in [Procs -> SUBSET Ids]
      BY <1>1, <3>1, <3>3, RemoveIndicesEffect
    <3>5. CellInv'
      BY <1>1, <3>1, <3>4, CellsKept DEF SlotFree
    <3> QED
      BY <1>1, <2>2, <3>1, <3>2, <3>4, <3>5 DEF TypeOK
  <2>7. ASSUME NEW u \in Addresses \cup {NoAddress}, Start (t, u) PROVE IInv'
    <3>1. TablesType' /\ CellInv'
      BY <1>1, <2>7, TablesSame DEF Start, TablesType
    <3>2. EnginesType' /\ ForkInv'
      BY <1>1, <2>1, <2>7, ForkKept DEF Start, EnginesType, RunStates, Handling
    <3> QED
      BY <1>1, <2>2, <2>7, <3>1, <3>2 DEF Start, TypeOK
  <2>8. CASE DetachLock (t)
    BY <1>1, <2>1, <2>3, <2>8 DEF DetachLock, RunStates, Handling
  <2>9. CASE Continue (t)
    BY <1>1, <2>1, <2>3, <2>9 DEF Continue, RunStates, Handling
  <2>10. CASE Report (t)
    BY <1>1, <2>1, <2>3, <2>10 DEF Report, RunStates, Handling
  <2>11. ASSUME NEW a \in Addresses, StepOverRefused (t, a) PROVE IInv'
    BY <1>1, <2>1, <2>3, <2>11 DEF StepOverRefused, RunStates, Handling
  <2>12. CASE Detach (t)
    <3> DEFINE ids == {i \in Ids : index_hash["parent"][i] # NoHandle}
    <3>1. /\ RemoveCalls (t, ids) /\ stale' = [stale EXCEPT !["parent"] = stale["parent"] \cup ids]
          /\ run' = [u \in AllThreads |-> IF u \in Threads THEN "gone" ELSE run[u]]
          /\ UNCHANGED <<index_hash, temp_breakpoint, step_over, until, fork, copied>>
      BY <2>12 DEF Detach
    <3>2. EnginesType'
      BY <1>1, <3>1 DEF EnginesType, RunStates
    <3>3. ForkInv'
      BY <1>1, <3>1, ProcType, BreakpointAssumption DEF ForkInv
    <3>4. /\ TablesType' /\ UNCHANGED slots
          /\ \A q \in Procs, b \in Addresses : Kept (q, b) \/ ClearedAt (q, b)
      BY <1>1, <3>1, RemoveCallsEffect DEF ClearedAt
    <3>5. CellInv'
      BY <1>1, <3>1, <3>4, CellsKept DEF SlotFree
    <3>6. stale' \in [Procs -> SUBSET Ids]
      BY <1>1, <3>1 DEF TypeOK
    <3> QED
      BY <1>1, <2>2, <3>1, <3>2, <3>3, <3>4, <3>5, <3>6 DEF TypeOK
  <2>13. CASE DomainUnload (t)
    <3> DEFINE ids == UNION {IndicesOf (Proc (t), h) : h \in FunctionHandles}
    <3>1. /\ RemoveIndices (t, ids)
          /\ UNCHANGED <<temp_breakpoint, step_over, until, fork, copied>>
      BY <2>13 DEF DomainUnload
    <3>2. \E r \in {"event", "hung"} : run' = [run EXCEPT ![t] = r]
      BY <2>13 DEF DomainUnload
    <3>3. EnginesType'
      BY <1>1, <3>1, <3>2 DEF EnginesType, RunStates, Handling
    <3>4. ForkInv'
      BY <1>1, <2>1, <3>1, <3>2, ForkKept DEF EnginesType
    <3>5. ids \in SUBSET Ids
      BY DEF IndicesOf
    <3> HIDE DEF ids
    <3>6. /\ TablesType' /\ UNCHANGED slots
          /\ \A q \in Procs, b \in Addresses : Kept (q, b) \/ ClearedAt (q, b)
          /\ index_hash' \in [Procs -> [Ids -> Handles \cup {NoHandle}]]
          /\ stale' \in [Procs -> SUBSET Ids]
      BY <1>1, <3>1, <3>5, RemoveIndicesEffect
    <3>7. CellInv'
      BY <1>1, <3>1, <3>6, CellsKept DEF SlotFree
    <3> QED
      BY <1>1, <2>2, <3>1, <3>3, <3>4, <3>6, <3>7 DEF TypeOK
  <2>14. CASE OperationCompleted (t)
    <3>1. /\ RemoveCalls (t, {temp_breakpoint[t]} \ {0})
          /\ UNCHANGED <<index_hash, step_over, fork, copied, stale>>
      BY <2>14 DEF OperationCompleted
    <3>2. EnginesType' /\ ForkInv'
      <4>1. EnginesType'
        BY <1>1, <2>14, BreakpointAssumption
        DEF OperationCompleted, EnginesType, RunStates, Handling
      <4>2. ForkInv'
        BY <1>1, <2>1, <2>14, ForkKept DEF OperationCompleted, EnginesType
      <4> QED
        BY <4>1, <4>2
    <3>3. /\ TablesType' /\ UNCHANGED slots
          /\ \A q \in Procs, b \in Addresses : Kept (q, b) \/ ClearedAt (q, b)
      BY <1>1, <3>1, RemoveCallsEffect DEF ClearedAt
    <3>4. CellInv'
      BY <1>1, <3>1, <3>3, CellsKept DEF SlotFree
    <3> QED
      BY <1>1, <2>2, <3>1, <3>2, <3>3, <3>4 DEF TypeOK
  <2>15. CASE ThreadExit (t)
    <3>1. dr_regs' \in [AllThreads -> [1 .. DebugRegs -> 0 .. MaxId]]
      <4>1. [k \in 1 .. DebugRegs |-> 0] \in [1 .. DebugRegs -> 0 .. MaxId]
        BY BreakpointAssumption
      <4> QED
        BY <1>1, <2>15, <4>1, RowReplaced DEF ThreadExit, TablesType
    <3>2. TablesType' /\ CellInv'
      BY <1>1, <2>15, <3>1, TablesSame DEF ThreadExit, TablesType
    <3>3. EnginesType'
      BY <1>1, <2>15, BreakpointAssumption DEF ThreadExit, EnginesType, RunStates
    <3>4. ForkInv'
      BY <1>1, <2>1, <2>15, ForkKept DEF ThreadExit, EnginesType
    <3> QED
      BY <1>1, <2>2, <2>15, <3>2, <3>3, <3>4 DEF ThreadExit, TypeOK
  <2>16. ASSUME NEW a \in Addresses, StepOverBreakpoint (t, a) PROVE IInv'
    <3>1. /\ TablesType' /\ UNCHANGED slots
          /\ \A q \in Procs, b \in Addresses : Kept (q, b) \/ ClearedAt (q, b)
      BY <1>1, <2>16, StepOverEffect DEF ClearedAt
    <3>2. UNCHANGED <<index_hash, temp_breakpoint, until, fork, copied, stale>>
      BY <2>16 DEF StepOverBreakpoint
    <3>3. CellInv'
      BY <1>1, <3>1, <3>2, CellsKept DEF SlotFree
    <3>4. bpm[Proc (t)][a].id \in 0 .. MaxId
      BY <1>1, <2>1, CellTypes, InfoFields
    <3>5. /\ run' = [AcquireAll (t) EXCEPT ![t] = "running"]
          /\ step_over' = [step_over EXCEPT ![t] = bpm[Proc (t)][a].id]
      BY <2>16 DEF StepOverBreakpoint
    <3>6. EnginesType'
      BY <1>1, <3>2, <3>4, <3>5 DEF EnginesType, AcquireAll, RunStates
    <3>7. ForkInv'
      <4>1. \A u \in AllThreads \ {t} : run'[u] = run[u] \/ (u # ChildThread /\ run'[u] # "init")
        BY <2>1, <3>5 DEF AcquireAll, Team, Proc
      <4>2. run'[t] = "running"
        BY <3>5 DEF AcquireAll
      <4> QED
        BY <1>1, <2>1, <3>2, <4>1, <4>2, ForkKept
    <3> QED
      BY <1>1, <2>2, <3>1, <3>2, <3>3, <3>6, <3>7 DEF TypeOK
  <2>17. CASE EnableBreakpoint (t)
    <3>1. /\ TablesType' /\ (~SlotFree => ~SlotFree')
          /\ \A q \in Procs, b \in Addresses : Kept (q, b) \/ SetAt (q, b)
      BY <1>1, <2>17, EnableEffect
    <3>2. UNCHANGED <<index_hash, temp_breakpoint, until, fork, copied, stale>>
      BY <2>17 DEF EnableBreakpoint
    <3>3. CellInv'
      BY <1>1, <3>1, <3>2, CellsKept
    <3>4. \/ \E r \in {"event", "done"} : run' = [ReleaseAll (t) EXCEPT ![t] = r]
          \/ KillTarget (Proc (t))
      BY <2>17 DEF EnableBreakpoint
    <3>5. step_over' \in [AllThreads -> 0 .. MaxId]
      BY <1>1, <2>17, BreakpointAssumption DEF EnableBreakpoint, EnginesType
    <3>6. run' \in [AllThreads -> RunStates]
      BY <1>1, <3>4 DEF EnginesType, ReleaseAll, KillTarget, RunStates, Handling
    <3>7. EnginesType'
      BY <1>1, <3>2, <3>5, <3>6 DEF EnginesType
    <3>8. ForkInv'
      <4>1. \A u \in AllThreads \ {t} : run'[u] = run[u] \/ (u # ChildThread /\ run'[u] # "init")
        BY <1>1, <2>1, <3>4 DEF ReleaseAll, KillTarget, Team, Proc, ForkInv
      <4>2. run'[t] \in {"event", "done", "gone"}
        BY <2>1, <3>4 DEF ReleaseAll, KillTarget, Team
      <4> QED
        BY <1>1, <2>1, <3>2, <4>1, <4>2, ForkKept
    <3> QED
      BY <1>1, <2>2, <3>1, <3>2, <3>3, <3>7, <3>8 DEF TypeOK
  <2>18. CASE ContinueUntil (t)
    <3> DEFINE a == until[t]
    <3>1. a \in Addresses
      BY <1>1, <2>18 DEF ContinueUntil, EnginesType
    <3>2. UNCHANGED <<index_hash, step_over, fork, copied, stale>>
      BY <2>18 DEF ContinueUntil
    <3>3. /\ TablesType' /\ CellInv' /\ temp_breakpoint' \in [AllThreads -> 0 .. MaxId]
      <4>1. CASE /\ NewHardware (t)
                 /\ temp_breakpoint' = [temp_breakpoint EXCEPT ![t] = last_breakpoint_id + 1]
        <5>1. TablesType' /\ UNCHANGED <<mem, bpm, slots>>
          BY <1>1, <4>1, NewHardwareEffect
        <5>2. CellInv'
          BY <1>1, <3>2, <5>1, TablesSame DEF TablesType
        <5>3. last_breakpoint_id + 1 \in 0 .. MaxId
          BY <1>1, <4>1, NextId DEF NewHardware
        <5> QED
          BY <1>1, <4>1, <5>1, <5>2, <5>3 DEF EnginesType
      <4>2. CASE /\ AddReference (Proc (t), a)
                 /\ temp_breakpoint' = [temp_breakpoint EXCEPT ![t] = bpm[Proc (t)][a].id]
        <5>1. TablesType' /\ UNCHANGED slots /\ \A q \in Procs, b \in Addresses : Kept (q, b)
          BY <1>1, <2>1, <3>1, <4>2, AddReferenceEffect
        <5>2. CellInv'
          BY <1>1, <3>2, <5>1, CellsKept DEF SlotFree
        <5>3. bpm[Proc (t)][a].id \in 0 .. MaxId
          BY <1>1, <2>1, <3>1, CellTypes, InfoFields
        <5> QED
          BY <1>1, <4>2, <5>1, <5>2, <5>3 DEF EnginesType
      <4>3. CASE /\ NewBreakpoint (t, a)
                 /\ temp_breakpoint' = [temp_breakpoint EXCEPT ![t] = last_breakpoint_id + 1]
        <5>1. /\ TablesType' /\ (~SlotFree => ~SlotFree')
              /\ \A q \in Procs, b \in Addresses : Kept (q, b) \/ SetAt (q, b)
          BY <1>1, <3>1, <4>3, NewBreakpointEffect DEF SetAt
        <5>2. CellInv'
          BY <1>1, <3>2, <5>1, CellsKept
        <5>3. last_breakpoint_id + 1 \in 0 .. MaxId
          BY <1>1, <4>3, NextId DEF NewBreakpoint
        <5> QED
          BY <1>1, <4>3, <5>1, <5>2, <5>3 DEF EnginesType
      <4>4. CASE InsertFails (t, a) /\ UNCHANGED temp_breakpoint
        <5>1. /\ TablesType' /\ (~SlotFree => ~SlotFree')
              /\ \A q \in Procs, b \in Addresses : Kept (q, b)
          BY <1>1, <3>1, <4>4, InsertFailsEffect DEF Kept
        <5>2. CellInv'
          BY <1>1, <3>2, <5>1, CellsKept
        <5> QED
          BY <1>1, <4>4, <5>1, <5>2 DEF EnginesType
      <4> QED
        BY <2>18, <4>1, <4>2, <4>3, <4>4 DEF ContinueUntil
    <3>4. \/ \E r \in {"running", "stopped"} : run' = [run EXCEPT ![t] = r]
          \/ KillTarget (Proc (t))
      BY <2>18 DEF ContinueUntil
    <3>5. EnginesType'
      <4>1. run' \in [AllThreads -> RunStates]
        BY <1>1, <3>4 DEF EnginesType, KillTarget, RunStates
      <4>2. until' \in [AllThreads -> Addresses \cup {NoAddress}]
        BY <1>1, <2>18 DEF ContinueUntil, EnginesType
      <4> QED
        BY <1>1, <3>2, <3>3, <4>1, <4>2 DEF EnginesType
    <3>6. ForkInv'
      <4>1. \A u \in AllThreads \ {t} : run'[u] = run[u] \/ (u # ChildThread /\ run'[u] # "init")
        BY <1>1, <2>1, <3>4 DEF KillTarget, Team, Proc, EnginesType
      <4>2. run'[t] \in {"running", "stopped", "gone"}
        BY <1>1, <2>1, <3>4 DEF KillTarget, Team, EnginesType
      <4> QED
        BY <1>1, <2>1, <3>2, <4>1, <4>2, ForkKept
    <3> QED
      BY <1>1, <2>2, <3>2, <3>3, <3>5, <3>6 DEF TypeOK
  <2>19. CASE Fork (t)
    <3>1. /\ fork = "none" /\ fork' = "forked" /\ t \in Threads
          /\ mem' = [mem EXCEPT !["child"] = mem["parent"]] /\ run' = [run EXCEPT ![t] = "fork"]
          /\ UNCHANGED <<bpm, dr_regs, last_breakpoint_id, slots, index_hash, temp_breakpoint,
                         step_over, until, copied, stale>>
      BY <2>19 DEF Fork
    <3>2. /\ mem' \in [Procs -> [Addresses -> {"insn", "trap"}]]
          /\ mem'["parent"] = mem["parent"]
      BY <1>1, <3>1 DEF TablesType, Procs
    <3>3. TypeOK'
      BY <1>1, <3>1, <3>2 DEF TypeOK, TablesType, EnginesType, RunStates
    <3>4. CellInv'
      BY <1>1, <3>1, <3>2 DEF CellInv, Cell, InStep, HasRuntime, SlotFree
    <3>5. ForkInv' /\ LetGoClean'
      BY <1>1, <3>1, BreakpointAssumption DEF ForkInv, LetGoClean, EnginesType
    <3> QED
      BY <3>3, <3>4, <3>5 DEF IInv
  <2>20. CASE ChildForked (t)
    <3>1. /\ run[t] = "fork" /\ fork' = "init" /\ copied' = CopiedAlike /\ Idle
          /\ bpm' = [bpm EXCEPT !["child"] = bpm["parent"]]
          /\ index_hash' = [index_hash EXCEPT !["child"] = index_hash["parent"]]
          /\ stale' = [stale EXCEPT !["child"] = stale["parent"]]
          /\ run' = [run EXCEPT ![t] = "running", ![ChildThread] = "command"]
          /\ UNCHANGED <<mem, dr_regs, last_breakpoint_id, slots, temp_breakpoint, step_over, until>>
      BY <2>20 DEF ChildForked
    <3>2. /\ bpm' \in [Procs -> [Addresses -> Info]]
          /\ bpm'["parent"] = bpm["parent"] /\ bpm'["child"] = bpm["parent"]
      BY <1>1, <3>1 DEF TablesType, Procs
    <3>3. TypeOK'
      <4>1. TablesType'
        BY <1>1, <3>1, <3>2 DEF TablesType
      <4>2. EnginesType'
        BY <1>1, <3>1 DEF EnginesType, RunStates, Handling
      <4>3. index_hash' \in [Procs -> [Ids -> Handles \cup {NoHandle}]] /\ stale' \in [Procs -> SUBSET Ids]
        BY <1>1, <3>1 DEF TypeOK, Procs
      <4>4. copied' \in BOOLEAN
        BY <3>1 DEF CopiedAlike
      <4> QED
        BY <4>1, <4>2, <4>3, <4>4 DEF TypeOK
    <3>4. CellInv'
      <4>1. ASSUME NEW a \in Addresses PROVE Cell ("parent", a)
        BY <1>1 DEF CellInv, InStep, Procs
      <4>2. ASSUME NEW a \in Addresses PROVE Cell ("parent", a)'
        BY <3>1, <3>2, <4>1 DEF Cell, HasRuntime, SlotFree
      <4>3. ASSUME NEW a \in Addresses, copied' PROVE Cell ("child", a)'
        <5>1. mem["child"][a] \in {"insn", "trap"}
          BY <1>1 DEF TablesType, Procs
        <5>2. bpm["parent"][a].enabled <=> mem["child"][a] = "trap"
          BY <3>1, <4>3 DEF CopiedAlike
        <5> QED
          BY <3>1, <3>2, <4>1, <5>1, <5>2 DEF Cell
      <4> QED
        BY <4>2, <4>3 DEF CellInv, InStep, Procs
    <3>5. ForkInv' /\ LetGoClean'
      BY <1>1, <2>1, <3>1, ProcType DEF ForkInv, LetGoClean, EnginesType, Idle, Handling
    <3> QED
      BY <3>3, <3>4, <3>5 DEF IInv
  <2>21. CASE DetachAfterFork (t)
    <3> DEFINE code == [a \in Addresses |-> IF bpm["parent"][a].enabled
                           THEN bpm["parent"][a].saved_insn ELSE mem["child"][a]]
    <3>1. /\ run[t] = "fork" /\ fork' = "detached" /\ copied' = CopiedAlike /\ Idle
          /\ mem' = [mem EXCEPT !["child"] = code] /\ run' = [run EXCEPT ![t] = "running"]
          /\ UNCHANGED <<bpm, dr_regs, last_breakpoint_id, slots, index_hash, temp_breakpoint,
                         step_over, until, stale>>
      BY <2>21 DEF DetachAfterFork
    <3>2. ASSUME NEW a \in Addresses
          PROVE  /\ bpm["parent"][a].saved_insn \in {"insn", "trap"} /\ Cell ("parent", a)
                 /\ mem["child"][a] \in {"insn", "trap"}
      BY <1>1, CellTypes, InfoFields DEF Procs, CellInv, InStep
    <3>3. code \in [Addresses -> {"insn", "trap"}]
      BY <3>2
    <3>4. CopiedAlike => \A a \in Addresses : code[a] = "insn"
      BY <3>2 DEF CopiedAlike, Cell
    <3> HIDE DEF code
    <3>5. /\ mem' \in [Procs -> [Addresses -> {"insn", "trap"}]]
          /\ mem'["parent"] = mem["parent"] /\ mem'["child"] = code
      BY <1>1, <3>1, <3>3, RowReplaced DEF TablesType, Procs
    <3>6. TypeOK'
      <4>1. TablesType'
        BY <1>1, <3>1, <3>5 DEF TablesType
      <4>2. EnginesType'
        BY <1>1, <3>1 DEF EnginesType, RunStates
      <4>3. copied' \in BOOLEAN
        BY <3>1 DEF CopiedAlike
      <4> QED
        BY <1>1, <3>1, <4>1, <4>2, <4>3 DEF TypeOK
    <3>7. CellInv'
      BY <1>1, <3>1, <3>5 DEF CellInv, Cell, InStep, HasRuntime, SlotFree
    <3>8. ForkInv'
      BY <1>1, <2>1, <3>1, ProcType DEF ForkInv, EnginesType, Idle, Handling
    <3>9. LetGoClean'
      BY <3>1, <3>4, <3>5 DEF LetGoClean
    <3> QED
      BY <3>6, <3>7, <3>8, <3>9 DEF IInv
  <2>22. CASE InitializeAfterFork (t)
    <3> DEFINE ids == UNION {IndicesOf ("child", h) : h \in NonGlobal}
    <3>1. /\ RemoveCalls (t, ids) /\ stale' = [stale EXCEPT !["child"] = stale["child"] \cup ids]
          /\ run[t] = "init" /\ fork' = "followed"
          /\ UNCHANGED <<index_hash, temp_breakpoint, step_over, until, copied>>
      BY <2>22 DEF InitializeAfterFork
    <3>2. PICK r \in {"event", "done"} : run' = [run EXCEPT ![t] = r]
      BY <2>22 DEF InitializeAfterFork
    <3>3. fork = "init" /\ t = ChildThread
      BY <1>1, <3>1 DEF ForkInv
    <3>4. ids \in SUBSET Ids
      BY DEF IndicesOf
    <3> HIDE DEF ids
    <3>5. /\ TablesType' /\ UNCHANGED slots
          /\ \A q \in Procs, b \in Addresses : Kept (q, b) \/ ClearedAt (q, b)
      BY <1>1, <3>1, RemoveCallsEffect DEF ClearedAt
    <3>6. CellInv'
      <4> SUFFICES ASSUME NEW q \in Procs, NEW b \in Addresses, InStep (q)' PROVE Cell (q, b)'
        BY DEF CellInv
      <4>1. Cell (q, b)
        BY <1>1, <3>1, <3>3 DEF CellInv, InStep
      <4> QED
        BY <3>5, <4>1 DEF Cell, Kept, ClearedAt, ReadMemory, HasRuntime, SlotFree
    <3>7. EnginesType' /\ ForkInv' /\ LetGoClean'
      <4>1. EnginesType'
        BY <1>1, <3>1, <3>2 DEF EnginesType, RunStates, Handling
      <4>2. ForkInv' /\ LetGoClean'
        BY <1>1, <3>1, <3>2, <3>3 DEF ForkInv, LetGoClean, EnginesType
      <4> QED
        BY <4>1, <4>2
    <3>8. stale' \in [Procs -> SUBSET Ids]
      BY <1>1, <3>1, <3>4 DEF TypeOK
    <3> QED
      BY <1>1, <3>1, <3>5, <3>6, <3>7, <3>8 DEF IInv, TypeOK
  <2> QED
    BY <1>3, <2>4, <2>5, <2>6, <2>7, <2>8, <2>9, <2>10, <2>11, <2>12, <2>13, <2>14, <2>15,
       <2>16, <2>17, <2>18, <2>19, <2>20, <2>21, <2>22
    DEF Command, Event
<1> QED
  BY <1>2, <1>3 DEF Next

(* The invariant holds throughout.                                          *)
LEMMA IInvCorrect == Spec => []IInv
<1>1. Init => IInv
  BY InitIInv
<1>2. IInv /\ [Next]_vars => IInv'
  BY NextIInv
<1> QED
  BY <1>1, <1>2, PTL DEF Spec

-----------------------------------------------------------------------------
(* The tables and the engines' fields keep their types: no id exceeds       *)
(* last_breakpoint_id's bound, no slot is taken twice over.                 *)
THEOREM TypeCorrect == Spec => []TypeOK
<1>1. IInv => TypeOK
  BY DEF IInv
<1> QED
  BY <1>1, IInvCorrect, PTL

(* server_ptrace_read_memory() returns the program's own code, for any      *)
(* number of addresses, threads and handles.                                *)
THEOREM ReadsCorrect == Spec => []ReadsOriginal
<1>1. IInv => ReadsOriginal
  BY DEF IInv, CellInv, Cell, ReadsOriginal, ReadMemory
<1> QED
  BY <1>1, IInvCorrect, PTL

(* An enabled breakpoint is in the code, unless the runtime's table was     *)
(* full.                                                                    *)
THEOREM PatchedCorrect == Spec => []EnabledIsPatched
<1>1. IInv => EnabledIsPatched
  BY DEF IInv, CellInv, Cell, EnabledIsPatched
<1> QED
  BY <1>1, IInvCorrect, PTL

(* server_ptrace_detach_after_fork() leaves no trap behind.                 *)
THEOREM LetGoCorrect == Spec => []LetGoClean
<1>1. IInv => LetGoClean
  BY DEF IInv
<1> QED
  BY <1>1, IInvCorrect, PTL

-----------------------------------------------------------------------------
(* Reference counts.                                                        *)

(* A breakpoint of that id is in the table.                                 *)
Exists (p, i) == \E a \in Addresses : bpm[p][a].id = i

(* Ids are given out once, and stand for one address of a process.          *)
IdInv ==
    /\ \A p \in Procs, a \in Addresses : bpm[p][a].id <= last_breakpoint_id
    /\ \A p \in Procs, a \in Addresses, b \in Addresses :
          bpm[p][a].id # 0 /\ bpm[p][b].id = bpm[p][a].id => a = b
    /\ \A p \in Procs, i \in Ids : index_hash[p][i] # NoHandle => i <= last_breakpoint_id
    /\ \A t \in AllThreads : temp_breakpoint[t] <= last_breakpoint_id
    /\ \A t \in AllThreads, k \in 1 .. DebugRegs : dr_regs[t][k] <= last_breakpoint_id
    /\ fork \notin {"init", "followed"} => temp_breakpoint[ChildThread] = 0

(* The id of a debug register is in no table, and has one user.             *)
Hardware (i) ==
    /\ \A t \in AllThreads : InRegisters (t, i) =>
         /\ \A p \in Procs : ~Exists (p, i) /\ index_hash[p][i] \in WatchHandles \cup {NoHandle}
         /\ \A u \in AllThreads \ {t} : temp_breakpoint[u] # i /\ ~InRegisters (u, i)
         /\ temp_breakpoint[t] = i => \A p \in Procs : index_hash[p][i] = NoHandle
    /\ \A p \in Procs : index_hash[p][i] \in WatchHandles =>
         /\ \A q \in Procs : ~Exists (q, i) /\ index_hash[q][i] \in WatchHandles \cup {NoHandle}
         /\ \A u \in AllThreads : temp_breakpoint[u] # i

(* OwnersCounted for one breakpoint.                                        *)
Tracked (p, i) ==
    i \notin stale[p] /\ ~IsWatch (p, i) /\ (p = "child" => fork \in {"init", "followed"})
Counts (p, i) ==
    /\ Owners (p, i) > 0 => Exists (p, i)
    /\ \A a \in Addresses : bpm[p][a].id = i =>
          /\ bpm[p][a].refcount >= Owners (p, i)
          /\ (p = "parent" /\ \A t \in Threads : Present (t)) => bpm[p][a].refcount = Owners (p, i)

(* The invariant of the reference counts.                                   *)
CountInv ==
    /\ IdInv /\ \A i \in Ids : Hardware (i)
    /\ \A p \in Procs, i \in Ids : Tracked (p, i) => Counts (p, i)

(* The threads whose temporary breakpoint it is.                            *)
Temps (p, i) == {t \in Team (p) : temp_breakpoint[t] = i}

(* A process has finitely many threads.                                     *)
LEMMA TeamFinite == \A p : IsFiniteSet (Team (p))
<1>1. IsFiniteSet (AllThreads)
  BY BreakpointAssumption, FS_AddElement DEF AllThreads
<1> QED
  BY <1>1, FS_Subset DEF Team

(* The owners: temporary breakpoints, and the index entry.                  *)
LEMMA OwnersAre ==
    ASSUME NEW p \in Procs, NEW i \in Ids
    PROVE  /\ Owners (p, i) \in Nat /\ IsFiniteSet (Temps (p, i))
           /\ Cardinality (Temps (p, i)) \in Nat
           /\ Owners (p, i) = Cardinality (Temps (p, i))
                                + (IF index_hash[p][i] = NoHandle THEN 0 ELSE 1)
<1>1. IsFiniteSet (Temps (p, i))
  BY TeamFinite, FS_Subset DEF Temps
<1>2. Cardinality (Temps (p, i)) \in Nat
  BY <1>1, FS_CardinalityType
<1> QED
  BY <1>1, <1>2 DEF Owners, Temps

(* How the number of owners changes.                                        *)
LEMMA OwnersSame ==
    ASSUME NEW p \in Procs, NEW i \in Ids,
           \A t \in Team (p) : temp_breakpoint'[t] = i <=> temp_breakpoint[t] = i,
           index_hash'[p][i] = NoHandle <=> index_hash[p][i] = NoHandle
    PROVE  Owners (p, i)' = Owners (p, i)
<1>1. Temps (p, i)' = Temps (p, i)
  BY DEF Temps
<1> QED
  BY <1>1 DEF Owners, Temps

(* An index entry comes or goes.                                            *)
LEMMA OwnersIndex ==
    ASSUME NEW p \in Procs, NEW i \in Ids,
           \A t \in Team (p) : temp_breakpoint'[t] = i <=> temp_breakpoint[t] = i
    PROVE  /\ index_hash[p][i] = NoHandle /\ index_hash'[p][i] # NoHandle =>
                 Owners (p, i)' = Owners (p, i) + 1
           /\ index_hash[p][i] # NoHandle /\ index_hash'[p][i] = NoHandle =>
                 Owners (p, i)' = Owners (p, i) - 1 /\ Owners (p, i) > 0
<1>1. Temps (p, i)' = Temps (p, i)
  BY DEF Temps
<1>2. Cardinality (Temps (p, i)) \in Nat
  BY OwnersAre
<1>3. /\ Owners (p, i) = Cardinality (Temps (p, i)) + (IF index_hash[p][i] = NoHandle THEN 0 ELSE 1)
      /\ Owners (p, i)' = Cardinality (Temps (p, i)) + (IF index_hash'[p][i] = NoHandle THEN 0 ELSE 1)
  BY <1>1 DEF Owners, Temps
<1> QED
  BY <1>2, <1>3

(* A temporary breakpoint comes or goes.                                    *)
LEMMA OwnersTemp ==
    ASSUME NEW p \in Procs, NEW i \in Ids, NEW t \in Team (p),
           \A u \in Team (p) \ {t} : temp_breakpoint'[u] = temp_breakpoint[u],
           index_hash'[p][i] = NoHandle <=> index_hash[p][i] = NoHandle
    PROVE  /\ temp_breakpoint[t] # i /\ temp_breakpoint'[t] = i =>
                 Owners (p, i)' = Owners (p, i) + 1
           /\ temp_breakpoint[t] = i /\ temp_breakpoint'[t] # i =>
                 Owners (p, i)' = Owners (p, i) - 1 /\ Owners (p, i) > 0
<1>1. IsFiniteSet (Temps (p, i)) /\ Cardinality (Temps (p, i)) \in Nat
  BY OwnersAre
<1>2. /\ Owners (p, i) = Cardinality (Temps (p, i)) + (IF index_hash[p][i] = NoHandle THEN 0 ELSE 1)
      /\ Owners (p, i)' = Cardinality (Temps (p, i)') + (IF index_hash[p][i] = NoHandle THEN 0 ELSE 1)
  BY DEF Owners, Temps
<1>3. ASSUME temp_breakpoint[t] # i, temp_breakpoint'[t] = i
      PROVE  Owners (p, i)' = Owners (p, i) + 1
  <2>1. Temps (p, i)' = Temps (p, i) \cup {t} /\ t \notin Temps (p, i)
    BY <1>3 DEF Temps
  <2>2. Cardinality (Temps (p, i)') = Cardinality (Temps (p, i)) + 1
    BY <1>1, <2>1, FS_AddElement
  <2> QED
    BY <1>1, <1>2, <2>2
<1>4. ASSUME temp_breakpoint[t] = i, temp_breakpoint'[t] # i
      PROVE  Owners (p, i)' = Owners (p, i) - 1 /\ Owners (p, i) > 0
  <2>1. Temps (p, i)' = Temps (p, i) \ {t} /\ t \in Temps (p, i)
    BY <1>4 DEF Temps
  <2>2. Cardinality (Temps (p, i)') = Cardinality (Temps (p, i)) - 1
    BY <1>1, <2>1, FS_RemoveElement
  <2>3. Cardinality (Temps (p, i)') \in Nat
    BY <1>1, <2>1, FS_RemoveElement, FS_CardinalityType
  <2> QED
    BY <1>1, <1>2, <2>2, <2>3
<1> QED
  BY <1>3, <1>4

(* Nobody uses the id.                                                      *)
LEMMA OwnersNone ==
    ASSUME NEW p \in Procs, NEW i \in Ids, index_hash[p][i] = NoHandle,
           \A t \in Team (p) : temp_breakpoint[t] # i
    PROVE  Owners (p, i) = 0
<1>1. Temps (p, i) = {}
  BY DEF Temps
<1> QED
  BY <1>1, FS_EmptySet DEF Owners, Temps

(* What the calls of the server do to ids and reference counts.             *)
LEMMA AddReferenceIds ==
    ASSUME TablesType, NEW p \in Procs, NEW a \in Addresses, AddReference (p, a)
    PROVE  /\ bpm[p][a].id \in Ids /\ bpm'[p][a].id = bpm[p][a].id
           /\ bpm'[p][a].refcount = bpm[p][a].refcount + 1
           /\ \A q \in Procs, b \in Addresses : q # p \/ b # a => bpm'[q][b] = bpm[q][b]
           /\ \A q \in Procs, b \in Addresses : bpm'[q][b].id = bpm[q][b].id
           /\ UNCHANGED <<dr_regs, last_breakpoint_id>>
<1> DEFINE new == Counted (bpm[p][a], 1)
<1>1. /\ bpm' = [bpm EXCEPT ![p][a] = new] /\ UNCHANGED <<dr_regs, last_breakpoint_id>>
      /\ bpm[p][a].id # 0
  BY DEF AddReference
<1>4. bpm[p][a] \in Info
  BY CellTypes
<1>5. bpm[p][a].id \in 0 .. MaxId
  BY <1>4, InfoFields
<1>2. new \in Info /\ new.id = bpm[p][a].id /\ new.refcount = bpm[p][a].refcount + 1
  BY <1>4, InfoCounted
<1> HIDE DEF new
<1>3. /\ bpm'[p][a] = new
      /\ \A q \in Procs, b \in Addresses : q # p \/ b # a => bpm'[q][b] = bpm[q][b]
  BY <1>1, <1>2, EntryReplaced DEF TablesType
<1> QED
  BY <1>1, <1>2, <1>3, <1>5, BreakpointAssumption DEF Ids

(* A new breakpoint has the next id and one reference.                      *)
LEMMA NewBreakpointIds ==
    ASSUME TablesType, NEW t \in AllThreads, NEW a \in Addresses, NewBreakpoint (t, a)
    PROVE  /\ bpm[Proc (t)][a].id = 0 /\ bpm'[Proc (t)][a].id = last_breakpoint_id + 1
           /\ bpm'[Proc (t)][a].refcount = 1
           /\ \A q \in Procs, b \in Addresses : q # Proc (t) \/ b # a => bpm'[q][b] = bpm[q][b]
           /\ UNCHANGED dr_regs
<1> DEFINE p == Proc (t)
<1>1. p \in Procs
  BY ProcType
<1> HIDE DEF p
<1>2. /\ bpm' = [bpm EXCEPT ![p][a] = NewInfo (p, a)] /\ NewId /\ UNCHANGED dr_regs
      /\ bpm[p][a].id = 0
  BY DEF NewBreakpoint, p
<1>3. NewInfo (p, a) \in Info
  BY <1>1, <1>2, CellTypes, NextId DEF NewInfo, Info
<1>4. /\ bpm'[p][a] = NewInfo (p, a)
      /\ \A q \in Procs, b \in Addresses : q # p \/ b # a => bpm'[q][b] = bpm[q][b]
  BY <1>1, <1>2, <1>3, EntryReplaced DEF TablesType
<1> QED
  BY <1>2, <1>4 DEF NewInfo, p

(* A free debug register gets the next id.                                  *)
LEMMA NewHardwareIds ==
    ASSUME TablesType, NEW t \in AllThreads, NewHardware (t)
    PROVE  \E k \in 1 .. DebugRegs :
              /\ dr_regs'[t][k] = last_breakpoint_id + 1 /\ dr_regs[t][k] = 0
              /\ \A u \in AllThreads, l \in 1 .. DebugRegs : u # t \/ l # k => dr_regs'[u][l] = dr_regs[u][l]
<1> DEFINE n == last_breakpoint_id + 1
           K == 1 .. DebugRegs
<1>1. NewId
  BY DEF NewHardware
<1>2. n \in 0 .. MaxId /\ dr_regs \in [AllThreads -> [K -> 0 .. MaxId]]
  BY <1>1, NextId DEF TablesType
<1>3. PICK k \in K : dr_regs' = [dr_regs EXCEPT ![t][k] = n] /\ dr_regs[t][k] = 0
  BY DEF NewHardware, FreeRegs
<1> HIDE DEF n, K
<1>4. /\ dr_regs'[t][k] = n
      /\ \A u \in AllThreads, l \in K : u # t \/ l # k => dr_regs'[u][l] = dr_regs[u][l]
  BY <1>2, <1>3, EntryReplaced
<1> QED
  BY <1>3, <1>4 DEF n, K

(* The ids of S lose a reference, their entry, or their register.           *)
LEMMA RemoveCallsIds ==
    ASSUME TablesType, NEW t \in AllThreads, NEW S \in SUBSET Ids, RemoveCalls (t, S)
    PROVE  /\ UNCHANGED last_breakpoint_id
           /\ \A q \in Procs \ {Proc (t)}, b \in Addresses : bpm'[q][b] = bpm[q][b]
           /\ \A b \in Addresses :
                 LET old == bpm[Proc (t)][b]  new == bpm'[Proc (t)][b] IN
                 /\ old.id \notin S => new = old
                 /\ Freed (t, b, S) => new.id = 0
                 /\ old.id \in S /\ ~Freed (t, b, S) =>
                       new.id = old.id /\ new.refcount = old.refcount - 1
           /\ \A u \in AllThreads \ {t}, k \in 1 .. DebugRegs : dr_regs'[u][k] = dr_regs[u][k]
           /\ \A k \in 1 .. DebugRegs :
                 dr_regs'[t][k] = IF dr_regs[t][k] \in S /\ Halted (t) THEN 0 ELSE dr_regs[t][k]
<1> DEFINE p == Proc (t)
           infos == [a \in Addresses |-> InfoAfter (t, a, S)]
           regs == [k \in 1 .. DebugRegs |->
                      IF dr_regs[t][k] \in S /\ Halted (t) THEN 0 ELSE dr_regs[t][k]]
<1>1. p \in Procs
  BY ProcType
<1>2. /\ bpm' = [bpm EXCEPT ![p] = infos] /\ dr_regs' = [dr_regs EXCEPT ![t] = regs]
      /\ UNCHANGED last_breakpoint_id
  BY DEF RemoveCalls
<1>3. bpm'[p] = infos /\ \A q \in Procs : q # p => bpm'[q] = bpm[q]
  <2> HIDE DEF p, infos
  <2> QED
    BY <1>1, <1>2 DEF TablesType
<1>4. dr_regs'[t] = regs /\ \A u \in AllThreads : u # t => dr_regs'[u] = dr_regs[u]
  <2> HIDE DEF regs
  <2> QED
    BY <1>2 DEF TablesType
<1>5. ASSUME NEW b \in Addresses
      PROVE  LET old == bpm[p][b]  new == bpm'[p][b] IN
             /\ old.id \notin S => new = old
             /\ Freed (t, b, S) => new.id = 0
             /\ old.id \in S /\ ~Freed (t, b, S) => new.id = old.id /\ new.refcount = old.refcount - 1
  <2>1. bpm'[p][b] = InfoAfter (t, b, S)
    BY <1>3
  <2>2. bpm[p][b] \in Info /\ bpm[p][b].refcount \in Int
    BY <1>1, CellTypes, InfoFields
  <2>3. /\ Counted (bpm[p][b], -1).id = bpm[p][b].id
        /\ Counted (bpm[p][b], -1).refcount = bpm[p][b].refcount - 1
    <3>1. -1 \in Int
      OBVIOUS
    <3>2. /\ Counted (bpm[p][b], -1).id = bpm[p][b].id
          /\ Counted (bpm[p][b], -1).refcount = bpm[p][b].refcount + (-1)
      BY <2>2, <3>1, InfoCounted
    <3> QED
      BY <2>2, <3>2
  <2>4. ASSUME bpm[p][b].id \notin S PROVE bpm'[p][b] = bpm[p][b]
    BY <2>1, <2>4 DEF InfoAfter, Freed
  <2>5. ASSUME Freed (t, b, S) PROVE bpm'[p][b].id = 0
    BY <2>1, <2>5, EmptyInfo DEF InfoAfter
  <2>6. ASSUME bpm[p][b].id \in S, ~Freed (t, b, S)
        PROVE  bpm'[p][b].id = bpm[p][b].id /\ bpm'[p][b].refcount = bpm[p][b].refcount - 1
    <3>1. bpm'[p][b] = Counted (bpm[p][b], -1)
      BY <2>1, <2>6 DEF InfoAfter
    <3> QED
      BY <2>3, <3>1
  <2> QED
    BY <2>4, <2>5, <2>6
<1>6. ASSUME NEW k \in 1 .. DebugRegs
      PROVE  dr_regs'[t][k] = IF dr_regs[t][k] \in S /\ Halted (t) THEN 0 ELSE dr_regs[t][k]
  BY <1>4
<1>7. /\ \A u \in AllThreads \ {t}, k \in 1 .. DebugRegs : dr_regs'[u][k] = dr_regs[u][k]
      /\ \A q \in Procs \ {Proc (t)}, b \in Addresses : bpm'[q][b] = bpm[q][b]
  <2> HIDE DEF infos, regs
  <2> QED
    BY <1>3, <1>4
<1> QED
  <2> HIDE DEF infos, regs
  <2> QED
    BY <1>2, <1>5, <1>6, <1>7

(* Disabling a breakpoint is not about references.                          *)
LEMMA StepOverIds ==
    ASSUME TablesType, NEW t \in AllThreads, NEW a \in Addresses, StepOverBreakpoint (t, a)
    PROVE  \A q \in Procs, b \in Addresses :
              bpm'[q][b].id = bpm[q][b].id /\ bpm'[q][b].refcount = bpm[q][b].refcount
<1> DEFINE p == Proc (t)
           new == [bpm[p][a] EXCEPT !.enabled = FALSE]
<1>1. p \in Procs
  BY ProcType
<1>2. bpm[p][a] \in Info
  BY <1>1, CellTypes
<1>3. bpm' = [bpm EXCEPT ![p][a] = new]
  BY DEF StepOverBreakpoint
<1>4. new \in Info /\ new.id = bpm[p][a].id /\ new.refcount = bpm[p][a].refcount
  BY <1>2 DEF Info
<1> HIDE DEF p, new
<1>5. /\ bpm'[p][a] = new
      /\ \A q \in Procs, b \in Addresses : q # p \/ b # a => bpm'[q][b] = bpm[q][b]
  BY <1>1, <1>3, <1>4, EntryReplaced DEF TablesType
<1> QED
  BY <1>4, <1>5

(* Nor is enabling it again.                                                *)
LEMMA EnableIds ==
    ASSUME TablesType, NEW t \in AllThreads, EnableBreakpoint (t)
    PROVE  \A q \in Procs, b \in Addresses :
              bpm'[q][b].id = bpm[q][b].id /\ bpm'[q][b].refcount = bpm[q][b].refcount
<1> DEFINE p == Proc (t)
           A == SteppedOver (t)
           infos == [a \in Addresses |-> IF a \in A THEN Reenabled (p, a) ELSE bpm[p][a]]
<1>1. p \in Procs
  BY ProcType
<1>2. bpm' = [bpm EXCEPT ![p] = infos]
  BY DEF EnableBreakpoint
<1>3. ASSUME NEW a \in Addresses
      PROVE  /\ infos[a].id = bpm[p][a].id /\ infos[a].refcount = bpm[p][a].refcount
  <2>1. bpm[p][a] \in Info
    BY <1>1, CellTypes
  <2>2. Reenabled (p, a).id = bpm[p][a].id /\ Reenabled (p, a).refcount = bpm[p][a].refcount
    BY <2>1 DEF Reenabled, Info
  <2> QED
    BY <2>2
<1> HIDE DEF p, A, infos
<1>4. bpm'[p] = infos /\ \A q \in Procs : q # p => bpm'[q] = bpm[q]
  BY <1>1, <1>2 DEF TablesType
<1> QED
  BY <1>3, <1>4

(* A thread that is gone does not come back.                                *)
LEMMA PresentKept ==
    ASSUME EnginesType, ForkInv, NEW t \in AllThreads, t \in Explored, Command (t) \/ Event (t)
    PROVE  \A u \in Threads : Present (u)' => Present (u)
<1> SUFFICES ASSUME NEW u \in Threads, ~Present (u) PROVE ~Present (u)'
  OBVIOUS
<1>1. t # u /\ u \in AllThreads /\ u # ChildThread /\ Present (t)
  BY ActsPresent, ProcType, BreakpointAssumption
<1>2. run[u] \in {"none", "gone"}
  BY DEF Present
<1>3. run'[u] \in {"none", "gone"}
  <2>1. CASE Command (t)
    BY <1>1, <1>2, <2>1
    DEF Command, RemoveBreakpoint, InsertBreakpoint, InsertWatchpoint, Start, DetachLock,
        Detach, EnginesType
  <2>2. CASE \E a \in Addresses : StepOverBreakpoint (t, a) \/ StepOverRefused (t, a)
    BY <1>1, <1>2, <2>2
    DEF StepOverBreakpoint, StepOverRefused, AcquireAll, Unlocked, EnginesType
  <2>3. CASE EnableBreakpoint (t)
    BY <1>1, <1>2, <2>3 DEF EnableBreakpoint, ReleaseAll, KillTarget, EnginesType
  <2>4. CASE ContinueUntil (t)
    BY <1>1, <1>2, <2>4 DEF ContinueUntil, KillTarget, EnginesType
  <2>5. CASE Report (t) \/ OperationCompleted (t) \/ ThreadExit (t) \/ Continue (t) \/ DomainUnload (t)
    BY <1>1, <1>2, <2>5
    DEF Report, OperationCompleted, ThreadExit, Continue, DomainUnload, EnginesType
  <2>6. CASE Fork (t) \/ ChildForked (t) \/ DetachAfterFork (t) \/ InitializeAfterFork (t)
    BY <1>1, <1>2, <2>6
    DEF Fork, ChildForked, DetachAfterFork, InitializeAfterFork, EnginesType
  <2> QED
    BY <2>1, <2>2, <2>3, <2>4, <2>5, <2>6 DEF Event
<1> QED
  BY <1>3 DEF Present

(* The id of a breakpoint that this step makes.                             *)
Newer (i) == last_breakpoint_id' = last_breakpoint_id + 1 /\ i = last_breakpoint_id'

(* The conjuncts of IdInv, kept when every id is old, forgotten or new.     *)
LEMMA IdsKept ==
    ASSUME TypeOK, TablesType', IdInv, last_breakpoint_id' >= last_breakpoint_id,
           \A p \in Procs, a \in Addresses :
              bpm'[p][a].id \in {0, bpm[p][a].id} \/ Newer (bpm'[p][a].id),
           \A p \in Procs, a \in Addresses, b \in Addresses :
              Newer (bpm'[p][a].id) /\ bpm'[p][a].id = bpm'[p][b].id => a = b,
           \A p \in Procs, i \in Ids :
              index_hash'[p][i] \in {NoHandle, index_hash[p][i]} \/ i <= last_breakpoint_id',
           \A t \in AllThreads :
              temp_breakpoint'[t] \in {0, temp_breakpoint[t]}
                \/ temp_breakpoint'[t] <= last_breakpoint_id',
           \A t \in AllThreads, k \in 1 .. DebugRegs :
              dr_regs'[t][k] \in {0, dr_regs[t][k]} \/ Newer (dr_regs'[t][k]),
           fork' \notin {"init", "followed"} => temp_breakpoint'[ChildThread] = 0
    PROVE  IdInv'
<1>0. last_breakpoint_id \in Nat /\ last_breakpoint_id' \in Nat
  BY DEF TypeOK, TablesType
<1>1. ASSUME NEW p \in Procs, NEW a \in Addresses
      PROVE  bpm'[p][a].id <= last_breakpoint_id' /\ bpm'[p][a].id \in Nat /\ bpm[p][a].id \in Nat
  <2>1. bpm[p][a] \in Info /\ bpm'[p][a] \in Info
    BY DEF TypeOK, TablesType
  <2>2. bpm[p][a].id \in 0 .. MaxId /\ bpm'[p][a].id \in 0 .. MaxId
    BY <2>1, InfoFields
  <2>3. bpm[p][a].id <= last_breakpoint_id
    BY DEF IdInv
  <2> QED
    BY <1>0, <2>2, <2>3 DEF Newer
<1>2. ASSUME NEW p \in Procs, NEW a \in Addresses, NEW b \in Addresses,
             bpm'[p][a].id # 0, bpm'[p][b].id = bpm'[p][a].id
      PROVE  a = b
  <2>1. CASE Newer (bpm'[p][a].id)
    BY <1>2, <2>1
  <2>2. CASE ~Newer (bpm'[p][a].id)
    <3>1. bpm'[p][a].id = bpm[p][a].id /\ bpm'[p][b].id = bpm[p][b].id
      BY <1>2, <2>2
    <3> QED
      BY <1>2, <3>1 DEF IdInv
  <2> QED
    BY <2>1, <2>2
<1>3. ASSUME NEW p \in Procs, NEW i \in Ids, index_hash'[p][i] # NoHandle
      PROVE  i <= last_breakpoint_id'
  BY <1>0, <1>3 DEF IdInv, Ids
<1>4. ASSUME NEW t \in AllThreads PROVE temp_breakpoint'[t] <= last_breakpoint_id'
  <2>1. temp_breakpoint[t] \in Nat /\ temp_breakpoint[t] <= last_breakpoint_id
    BY DEF IdInv, TypeOK, EnginesType
  <2> QED
    BY <1>0, <2>1
<1>5. ASSUME NEW t \in AllThreads, NEW k \in 1 .. DebugRegs PROVE dr_regs'[t][k] <= last_breakpoint_id'
  <2>1. dr_regs[t][k] \in Nat /\ dr_regs[t][k] <= last_breakpoint_id
    <3>1. dr_regs[t] \in [1 .. DebugRegs -> 0 .. MaxId]
      BY DEF TypeOK, TablesType
    <3>2. dr_regs[t][k] \in 0 .. MaxId
      BY <3>1
    <3>3. dr_regs[t][k] <= last_breakpoint_id
      BY DEF IdInv
    <3> QED
      BY <3>2, <3>3
  <2> QED
    BY <1>0, <2>1 DEF Newer
<1> QED
  BY <1>1, <1>2, <1>3, <1>4, <1>5 DEF IdInv

(* Hardware, kept when registers, breakpoints, handles and temporary        *)
(* breakpoints only go, or when no register is concerned.                   *)
LEMMA HardwareKept ==
    ASSUME NEW i \in Ids, Hardware (i),
           \A t \in AllThreads : InRegisters (t, i)' => InRegisters (t, i),
           \A p \in Procs : Exists (p, i)' => \E q \in Procs : Exists (q, i),
           \A p \in Procs : index_hash'[p][i] # NoHandle =>
              \E q \in Procs : index_hash'[p][i] = index_hash[q][i],
           \A t \in AllThreads : temp_breakpoint'[t] = i => temp_breakpoint[t] = i
    PROVE  Hardware (i)'
<1>1. ASSUME NEW t \in AllThreads, InRegisters (t, i)'
      PROVE  /\ \A p \in Procs : ~Exists (p, i)' /\ index_hash'[p][i] \in WatchHandles \cup {NoHandle}
             /\ \A u \in AllThreads \ {t} : temp_breakpoint'[u] # i /\ ~InRegisters (u, i)'
             /\ temp_breakpoint'[t] = i => \A p \in Procs : index_hash'[p][i] = NoHandle
  <2>1. /\ \A p \in Procs : ~Exists (p, i) /\ index_hash[p][i] \in WatchHandles \cup {NoHandle}
        /\ \A u \in AllThreads \ {t} : temp_breakpoint[u] # i /\ ~InRegisters (u, i)
        /\ temp_breakpoint[t] = i => \A p \in Procs : index_hash[p][i] = NoHandle
    BY <1>1 DEF Hardware
  <2> HIDE DEF Exists, InRegisters
  <2> QED
    BY <2>1
<1>2. ASSUME NEW p \in Procs, index_hash'[p][i] \in WatchHandles
      PROVE  /\ \A q \in Procs : ~Exists (q, i)' /\ index_hash'[q][i] \in WatchHandles \cup {NoHandle}
             /\ \A u \in AllThreads : temp_breakpoint'[u] # i
  <2>1. PICK q \in Procs : index_hash[q][i] \in WatchHandles
    BY <1>2, BreakpointAssumption DEF Handles
  <2>2. /\ \A r \in Procs : ~Exists (r, i) /\ index_hash[r][i] \in WatchHandles \cup {NoHandle}
        /\ \A u \in AllThreads : temp_breakpoint[u] # i
    BY <2>1 DEF Hardware
  <2> QED
    BY <2>2
<1> QED
  BY <1>1, <1>2 DEF Hardware

(* Hardware, of an id that no register and no watchpoint has.               *)
LEMMA HardwareFree ==
    ASSUME NEW i \in Ids, \A t \in AllThreads : ~InRegisters (t, i)',
           \A p \in Procs : index_hash'[p][i] \notin WatchHandles
    PROVE  Hardware (i)'
BY DEF Hardware

(* An id that is in a table is not one of a debug register.                 *)
LEMMA SoftwareId ==
    ASSUME NEW p \in Procs, NEW i \in Ids, Hardware (i), Exists (p, i)
    PROVE  /\ \A t \in AllThreads : ~InRegisters (t, i)
           /\ \A q \in Procs : index_hash[q][i] \notin WatchHandles
BY DEF Hardware

(* The next id is nobody's.                                                 *)
LEMMA FreshId ==
    ASSUME TypeOK, IdInv, NEW n \in Ids, n = last_breakpoint_id + 1
    PROVE  /\ \A p \in Procs : ~Exists (p, n) /\ index_hash[p][n] = NoHandle
           /\ \A t \in AllThreads : temp_breakpoint[t] # n /\ ~InRegisters (t, n)
<1>0. last_breakpoint_id \in Nat
  BY DEF TypeOK, TablesType
<1>1. ASSUME NEW p \in Procs PROVE ~Exists (p, n)
  BY <1>0 DEF Exists, IdInv
<1>2. ASSUME NEW p \in Procs PROVE index_hash[p][n] = NoHandle
  BY <1>0 DEF IdInv
<1>3. ASSUME NEW t \in AllThreads PROVE temp_breakpoint[t] # n /\ ~InRegisters (t, n)
  BY <1>0 DEF IdInv, InRegisters
<1> QED
  BY <1>1, <1>2, <1>3

(* Counts, kept when the owners and the references change alike.            *)
LEMMA CountsStep ==
    ASSUME TypeOK, NEW p \in Procs, NEW i \in Ids, NEW d \in {-1, 0, 1}, Counts (p, i),
           p = "parent" => \A u \in Threads : Present (u)' => Present (u),
           Owners (p, i)' = Owners (p, i) + d, Owners (p, i)' > 0 => Exists (p, i),
           \A a \in Addresses : bpm'[p][a].id = i =>
              bpm[p][a].id = i /\ bpm'[p][a].refcount = bpm[p][a].refcount + d,
           \A a \in Addresses : bpm[p][a].id = i /\ bpm'[p][a].id # i => Owners (p, i)' = 0
    PROVE  Counts (p, i)'
<1>0. Owners (p, i) \in Nat
  BY OwnersAre
<1>1. ASSUME Owners (p, i)' > 0 PROVE Exists (p, i)'
  <2>1. PICK a \in Addresses : bpm[p][a].id = i
    BY <1>1 DEF Exists
  <2> QED
    BY <1>1, <2>1, <1>0 DEF Exists
<1>2. ASSUME NEW a \in Addresses, bpm'[p][a].id = i
      PROVE  /\ bpm'[p][a].refcount >= Owners (p, i)'
             /\ (p = "parent" /\ \A u \in Threads : Present (u)') => bpm'[p][a].refcount = Owners (p, i)'
  <2>1. bpm[p][a].refcount \in Int
    BY CellTypes, InfoFields DEF TypeOK
  <2>2. /\ bpm[p][a].refcount >= Owners (p, i)
        /\ (p = "parent" /\ \A u \in Threads : Present (u)) => bpm[p][a].refcount = Owners (p, i)
    BY <1>2 DEF Counts
  <2> QED
    BY <1>0, <1>2, <2>1, <2>2
<1> QED
  BY <1>1, <1>2 DEF Counts

(* A breakpoint that a step is not about.                                   *)
LEMMA CountsSame ==
    ASSUME TypeOK, NEW p \in Procs, NEW i \in Ids, Tracked (p, i) => Counts (p, i), Tracked (p, i)',
           p = "parent" => \A u \in Threads : Present (u)' => Present (u),
           i \notin stale'[p] => i \notin stale[p],
           fork' \in {"init", "followed"} => p = "parent" \/ fork \in {"init", "followed"},
           index_hash'[p][i] = index_hash[p][i],
           \A t \in AllThreads : InRegisters (t, i) => InRegisters (t, i)',
           \A t \in Team (p) : temp_breakpoint'[t] = i <=> temp_breakpoint[t] = i,
           \A a \in Addresses : bpm'[p][a].id = i <=> bpm[p][a].id = i,
           \A a \in Addresses : bpm[p][a].id = i => bpm'[p][a].refcount = bpm[p][a].refcount
    PROVE  Counts (p, i)'
<1>1. Tracked (p, i)
  BY DEF Tracked, IsWatch, Procs
<1>2. Owners (p, i)' = Owners (p, i) /\ Owners (p, i) \in Nat
  BY OwnersSame, OwnersAre
<1>3. Owners (p, i)' > 0 => Exists (p, i)
  BY <1>1, <1>2 DEF Counts
<1>4. \A a \in Addresses : bpm'[p][a].id = i =>
         bpm[p][a].id = i /\ bpm'[p][a].refcount = bpm[p][a].refcount + 0
  <2> TAKE a \in Addresses
  <2>1. bpm[p][a].refcount \in Int
    BY CellTypes, InfoFields DEF TypeOK
  <2> QED
    BY <2>1
<1>5. Owners (p, i)' = Owners (p, i) + 0
  BY <1>2
<1> QED
  BY <1>1, <1>3, <1>4, <1>5, CountsStep

-----------------------------------------------------------------------------
(* One lemma for each kind of step.  Calls that concern no reference.       *)
LEMMA CountsUntouched ==
    ASSUME TypeOK, TablesType', CountInv, \A u \in Threads : Present (u)' => Present (u),
           last_breakpoint_id' >= last_breakpoint_id,
           UNCHANGED <<index_hash, stale, temp_breakpoint, dr_regs>>,
           fork' \in {"init", "followed"} <=> fork \in {"init", "followed"},
           \A p \in Procs, a \in Addresses :
              bpm'[p][a].id = bpm[p][a].id /\ bpm'[p][a].refcount = bpm[p][a].refcount
    PROVE  CountInv'
<1>1. IdInv'
  <2>1. fork' \notin {"init", "followed"} => temp_breakpoint'[ChildThread] = 0
    BY DEF CountInv, IdInv
  <2>2. \A p \in Procs, a \in Addresses, b \in Addresses :
           Newer (bpm'[p][a].id) /\ bpm'[p][a].id = bpm'[p][b].id => a = b
    <3> SUFFICES ASSUME NEW p \in Procs, NEW a \in Addresses, Newer (bpm'[p][a].id) PROVE FALSE
      OBVIOUS
    <3>1. bpm[p][a].id <= last_breakpoint_id /\ last_breakpoint_id \in Nat
      BY DEF CountInv, IdInv, TypeOK, TablesType
    <3> QED
      BY <3>1 DEF Newer
  <2>3. IdInv
    BY DEF CountInv
  <2> QED
    BY <2>1, <2>2, <2>3, IdsKept
<1>2. ASSUME NEW i \in Ids PROVE Hardware (i)'
  BY HardwareKept DEF CountInv, InRegisters, Exists
<1>3. ASSUME NEW p \in Procs, NEW i \in Ids, Tracked (p, i)' PROVE Counts (p, i)'
  <2>1. Tracked (p, i) => Counts (p, i)
    BY DEF CountInv
  <2> QED
    BY <1>3, <2>1, CountsSame DEF InRegisters
<1> QED
  BY <1>1, <1>2, <1>3 DEF CountInv

(* One more owner: a handle or the temporary breakpoint of a thread.        *)
Owned (t, i, handles) ==
    \/ /\ \E h \in handles : index_hash' = [index_hash EXCEPT ![Proc (t)][i] = h]
       /\ index_hash[Proc (t)][i] = NoHandle /\ UNCHANGED temp_breakpoint
    \/ /\ temp_breakpoint' = [temp_breakpoint EXCEPT ![t] = i] /\ temp_breakpoint[t] = 0
       /\ UNCHANGED index_hash

(* It is the owner of one id of one process, and of no other.               *)
LEMMA OwnedEffect ==
    ASSUME TypeOK, NEW t \in AllThreads, NEW i \in Ids, NEW handles \in SUBSET Handles,
           Owned (t, i, handles)
    PROVE  /\ Owners (Proc (t), i)' = Owners (Proc (t), i) + 1
           /\ index_hash'[Proc (t)][i] \in handles \cup {index_hash[Proc (t)][i]}
           /\ \A u \in AllThreads : temp_breakpoint'[u] = temp_breakpoint[u] \/ temp_breakpoint'[u] = i
           /\ \A p \in Procs, j \in Ids : p # Proc (t) \/ j # i =>
                 /\ index_hash'[p][j] = index_hash[p][j]
                 /\ \A u \in Team (p) : temp_breakpoint'[u] = j <=> temp_breakpoint[u] = j
           /\ \/ UNCHANGED temp_breakpoint
              \/ UNCHANGED index_hash /\ \A u \in AllThreads \ {t} : temp_breakpoint'[u] = temp_breakpoint[u]
<1> DEFINE p == Proc (t)
<1>1. p \in Procs /\ t \in Team (p)
  BY ProcType DEF Team
<1>2. ASSUME NEW h \in handles, index_hash' = [index_hash EXCEPT ![p][i] = h],
             index_hash[p][i] = NoHandle, UNCHANGED temp_breakpoint
      PROVE  /\ index_hash'[p][i] = h /\ h # NoHandle
             /\ \A q \in Procs, j \in Ids : q # p \/ j # i => index_hash'[q][j] = index_hash[q][j]
  <2>1. h \in Handles \cup {NoHandle} /\ h # NoHandle
    BY BreakpointAssumption
  <2> HIDE DEF p
  <2> QED
    BY <1>1, <1>2, <2>1, EntryReplaced DEF TypeOK
<1>3. ASSUME NEW h \in handles, index_hash' = [index_hash EXCEPT ![p][i] = h],
             index_hash[p][i] = NoHandle, UNCHANGED temp_breakpoint
      PROVE  Owners (p, i)' = Owners (p, i) + 1
  <2>1. index_hash'[p][i] # NoHandle
    BY <1>2, <1>3
  <2> HIDE DEF p
  <2> QED
    BY <1>1, <1>3, <2>1, OwnersIndex
<1>4. ASSUME temp_breakpoint' = [temp_breakpoint EXCEPT ![t] = i], temp_breakpoint[t] = 0,
             UNCHANGED index_hash
      PROVE  /\ temp_breakpoint'[t] = i /\ i # 0
             /\ \A u \in AllThreads : u # t => temp_breakpoint'[u] = temp_breakpoint[u]
             /\ \A q \in Procs, j \in Ids : q # Proc (t) \/ j # i => \A u \in Team (q) :
                   (temp_breakpoint'[u] = j <=> temp_breakpoint[u] = j)
  <2>1. /\ temp_breakpoint'[t] = i /\ i # 0
        /\ \A u \in AllThreads : u # t => temp_breakpoint'[u] = temp_breakpoint[u]
    BY <1>4 DEF TypeOK, EnginesType, Ids
  <2>2. ASSUME NEW q \in Procs, NEW j \in Ids, NEW u \in Team (q), q # Proc (t) \/ j # i
        PROVE  temp_breakpoint'[u] = j <=> temp_breakpoint[u] = j
    BY <1>4, <2>1, <2>2 DEF Team, Ids
  <2> QED
    BY <2>1, <2>2
<1>5. ASSUME temp_breakpoint' = [temp_breakpoint EXCEPT ![t] = i], temp_breakpoint[t] = 0,
             UNCHANGED index_hash
      PROVE  Owners (p, i)' = Owners (p, i) + 1
  <2>1. /\ temp_breakpoint'[t] = i /\ temp_breakpoint[t] # i
        /\ \A u \in Team (p) \ {t} : temp_breakpoint'[u] = temp_breakpoint[u]
    BY <1>4, <1>5 DEF Team
  <2> HIDE DEF p
  <2> QED
    BY <1>1, <1>5, <2>1, OwnersTemp
<1>6. CASE \E h \in handles : /\ index_hash' = [index_hash EXCEPT ![p][i] = h]
                              /\ index_hash[p][i] = NoHandle /\ UNCHANGED temp_breakpoint
  <2>1. PICK h \in handles : /\ index_hash' = [index_hash EXCEPT ![p][i] = h]
                             /\ index_hash[p][i] = NoHandle /\ UNCHANGED temp_breakpoint
    BY <1>6
  <2> HIDE DEF p
  <2>2. /\ Owners (p, i)' = Owners (p, i) + 1 /\ index_hash'[p][i] = h /\ UNCHANGED temp_breakpoint
        /\ \A q \in Procs, j \in Ids : q # p \/ j # i => index_hash'[q][j] = index_hash[q][j]
    BY <1>2, <1>3, <2>1
  <2> QED
    BY <2>2 DEF p
<1>7. CASE /\ temp_breakpoint' = [temp_breakpoint EXCEPT ![t] = i] /\ temp_breakpoint[t] = 0
           /\ UNCHANGED index_hash
  <2>1. /\ Owners (p, i)' = Owners (p, i) + 1 /\ UNCHANGED index_hash /\ temp_breakpoint'[t] = i
        /\ \A u \in AllThreads : u # t => temp_breakpoint'[u] = temp_breakpoint[u]
        /\ \A q \in Procs, j \in Ids : q # p \/ j # i => \A u \in Team (q) :
              (temp_breakpoint'[u] = j <=> temp_breakpoint[u] = j)
    BY <1>4, <1>5, <1>7
  <2> QED
    BY <2>1
<1> QED
  BY <1>6, <1>7 DEF Owned

(* A breakpoint of the table gets one more owner.                           *)
LEMMA CountsShared ==
    ASSUME TypeOK, TablesType', CountInv, \A u \in Threads : Present (u)' => Present (u),
           NEW t \in AllThreads, NEW a \in Addresses, AddReference (Proc (t), a),
           Owned (t, bpm[Proc (t)][a].id, Handles \ WatchHandles),
           t = ChildThread => fork \in {"init", "followed"}, UNCHANGED <<fork, stale>>
    PROVE  CountInv'
<1>1. PICK p \in Procs : p = Proc (t)
  BY ProcType
<1>2. PICK i \in Ids : i = bpm[p][a].id
  BY <1>1, AddReferenceIds DEF TypeOK
<1>3. /\ bpm'[p][a].refcount = bpm[p][a].refcount + 1
      /\ \A q \in Procs, b \in Addresses : q # p \/ b # a => bpm'[q][b] = bpm[q][b]
      /\ \A q \in Procs, b \in Addresses : bpm'[q][b].id = bpm[q][b].id
      /\ UNCHANGED <<dr_regs, last_breakpoint_id>>
  BY <1>1, AddReferenceIds DEF TypeOK
<1>4. /\ Owners (p, i)' = Owners (p, i) + 1
      /\ index_hash'[p][i] \in (Handles \ WatchHandles) \cup {index_hash[p][i]}
      /\ \A u \in AllThreads : temp_breakpoint'[u] = temp_breakpoint[u] \/ temp_breakpoint'[u] = i
      /\ \A q \in Procs, j \in Ids : q # p \/ j # i =>
            /\ index_hash'[q][j] = index_hash[q][j]
            /\ \A u \in Team (q) : temp_breakpoint'[u] = j <=> temp_breakpoint[u] = j
      /\ \/ UNCHANGED temp_breakpoint
         \/ UNCHANGED index_hash /\ \A u \in AllThreads \ {t} : temp_breakpoint'[u] = temp_breakpoint[u]
  BY <1>1, <1>2, OwnedEffect
<1>5. last_breakpoint_id \in Nat /\ i \in Nat /\ i <= last_breakpoint_id
  BY <1>1, <1>2 DEF CountInv, IdInv, Ids, TypeOK, TablesType
<1>6. Exists (p, i) /\ Hardware (i)
  BY <1>2 DEF Exists, CountInv
<1>7. /\ \A u \in AllThreads : ~InRegisters (u, i)
      /\ \A q \in Procs : index_hash[q][i] \notin WatchHandles
  BY <1>6, SoftwareId
<1>8. IdInv'
  <2>1. IdInv
    BY DEF CountInv
  <2>2. fork' \notin {"init", "followed"} => temp_breakpoint'[ChildThread] = 0
    BY <1>4, <2>1, ProcType DEF IdInv
  <2>3. \A q \in Procs, j \in Ids :
           index_hash'[q][j] \in {NoHandle, index_hash[q][j]} \/ j <= last_breakpoint_id'
    BY <1>3, <1>4, <1>5
  <2>4. \A q \in Procs, b \in Addresses : ~Newer (bpm'[q][b].id)
    BY <1>3, <1>5 DEF Newer
  <2>5. \A u \in AllThreads : temp_breakpoint'[u] \in {0, temp_breakpoint[u]}
                                \/ temp_breakpoint'[u] <= last_breakpoint_id'
    BY <1>3, <1>4, <1>5
  <2>6. last_breakpoint_id' >= last_breakpoint_id
    BY <1>3, <1>5
  <2>7. \A q \in Procs, b \in Addresses : bpm'[q][b].id \in {0, bpm[q][b].id}
    BY <1>3
  <2>8. \A u \in AllThreads, k \in 1 .. DebugRegs : dr_regs'[u][k] \in {0, dr_regs[u][k]}
    BY <1>3
  <2> QED
    BY <2>1, <2>2, <2>3, <2>4, <2>5, <2>6, <2>7, <2>8, IdsKept
<1>9. ASSUME NEW j \in Ids PROVE Hardware (j)'
  <2>1. CASE j = i
    <3>1. \A u \in AllThreads : ~InRegisters (u, j)'
      BY <1>3, <1>7, <2>1 DEF InRegisters
    <3>2. \A q \in Procs : index_hash'[q][j] \notin WatchHandles
      BY <1>4, <1>7, <2>1
    <3> QED
      BY <3>1, <3>2, HardwareFree
  <2>2. CASE j # i
    <3>1. \A u \in AllThreads : InRegisters (u, j)' => InRegisters (u, j)
      BY <1>3 DEF InRegisters
    <3>2. \A q \in Procs : Exists (q, j)' => Exists (q, j)
      BY <1>3 DEF Exists
    <3>3. \A q \in Procs : index_hash'[q][j] = index_hash[q][j]
      BY <1>4, <2>2
    <3>4. \A u \in AllThreads : temp_breakpoint'[u] = j => temp_breakpoint[u] = j
      BY <1>4, <2>2
    <3>5. Hardware (j)
      BY DEF CountInv
    <3> QED
      BY <3>1, <3>2, <3>3, <3>4, <3>5, HardwareKept
  <2> QED
    BY <2>1, <2>2
<1>10. ASSUME NEW q \in Procs, NEW j \in Ids, Tracked (q, j)' PROVE Counts (q, j)'
  <2>1. CASE q = p /\ j = i
    <3>1. Tracked (p, i)
      BY <1>7, <1>10, <2>1 DEF Tracked, IsWatch
    <3>2. Counts (p, i)
      BY <3>1 DEF CountInv
    <3>3. \A b \in Addresses : bpm'[p][b].id = i =>
             bpm[p][b].id = i /\ bpm'[p][b].refcount = bpm[p][b].refcount + 1
      <4> SUFFICES ASSUME NEW b \in Addresses, bpm'[p][b].id = i
                   PROVE  bpm[p][b].id = i /\ bpm'[p][b].refcount = bpm[p][b].refcount + 1
        OBVIOUS
      <4>1. bpm[p][b].id = i /\ i # 0
        BY <1>3 DEF Ids
      <4>2. b = a
        BY <1>2, <4>1 DEF CountInv, IdInv
      <4> QED
        BY <1>3, <4>1, <4>2
    <3>4. \A b \in Addresses : bpm[p][b].id = i => bpm'[p][b].id = i
      BY <1>3
    <3> QED
      BY <1>4, <1>6, <2>1, <3>2, <3>3, <3>4, CountsStep
  <2>2. CASE q # p \/ j # i
    <3>1. Tracked (q, j) => Counts (q, j)
      BY DEF CountInv
    <3>2. \A b \in Addresses : bpm'[q][b].id = j <=> bpm[q][b].id = j
      BY <1>3
    <3>3. \A b \in Addresses : bpm[q][b].id = j => bpm'[q][b].refcount = bpm[q][b].refcount
      BY <1>2, <1>3, <2>2
    <3>4. /\ index_hash'[q][j] = index_hash[q][j]
          /\ \A u \in Team (q) : temp_breakpoint'[u] = j <=> temp_breakpoint[u] = j
      BY <1>4, <2>2
    <3>5. \A u \in AllThreads : InRegisters (u, j) => InRegisters (u, j)'
      BY <1>3 DEF InRegisters
    <3> QED
      BY <1>10, <3>1, <3>2, <3>3, <3>4, <3>5, CountsSame
  <2> QED
    BY <2>1, <2>2
<1> QED
  BY <1>8, <1>9, <1>10 DEF CountInv

(* A new breakpoint with its first owner.                                   *)
LEMMA CountsNew ==
    ASSUME TypeOK, TablesType', CountInv, \A u \in Threads : Present (u)' => Present (u),
           NEW t \in AllThreads, NEW a \in Addresses, NewBreakpoint (t, a),
           Owned (t, last_breakpoint_id + 1, Handles \ WatchHandles),
           t = ChildThread => fork \in {"init", "followed"}, UNCHANGED <<fork, stale>>
    PROVE  CountInv'
<1>1. PICK p \in Procs : p = Proc (t)
  BY ProcType
<1>2. NewId
  BY DEF NewBreakpoint
<1>3. PICK n \in Ids : n = last_breakpoint_id + 1
  BY <1>2, NextId DEF Ids, TypeOK
<1>4. last_breakpoint_id' = n /\ last_breakpoint_id \in Nat
  BY <1>2, <1>3, NextId DEF TypeOK, TablesType
<1>5. /\ bpm[p][a].id = 0 /\ bpm'[p][a].id = n /\ bpm'[p][a].refcount = 1
      /\ \A q \in Procs, b \in Addresses : q # p \/ b # a => bpm'[q][b] = bpm[q][b]
      /\ UNCHANGED dr_regs
  BY <1>1, <1>3, NewBreakpointIds DEF TypeOK
<1>6. IdInv
  BY DEF CountInv
<1>7. /\ \A q \in Procs : ~Exists (q, n) /\ index_hash[q][n] = NoHandle
      /\ \A u \in AllThreads : temp_breakpoint[u] # n /\ ~InRegisters (u, n)
  BY <1>3, <1>6, FreshId
<1>8. /\ Owners (p, n)' = Owners (p, n) + 1
      /\ index_hash'[p][n] \in (Handles \ WatchHandles) \cup {index_hash[p][n]}
      /\ \A u \in AllThreads : temp_breakpoint'[u] = temp_breakpoint[u] \/ temp_breakpoint'[u] = n
      /\ \A q \in Procs, j \in Ids : q # p \/ j # n =>
            /\ index_hash'[q][j] = index_hash[q][j]
            /\ \A u \in Team (q) : temp_breakpoint'[u] = j <=> temp_breakpoint[u] = j
      /\ \/ UNCHANGED temp_breakpoint
         \/ UNCHANGED index_hash /\ \A u \in AllThreads \ {t} : temp_breakpoint'[u] = temp_breakpoint[u]
  BY <1>1, <1>3, OwnedEffect
<1>9. \A b \in Addresses : bpm'[p][b].id = n => b = a
  BY <1>5, <1>7 DEF Exists
<1>10. IdInv'
  <2>2. fork' \notin {"init", "followed"} => temp_breakpoint'[ChildThread] = 0
    BY <1>8, <1>6, ProcType DEF IdInv
  <2>3. \A q \in Procs, j \in Ids :
           index_hash'[q][j] \in {NoHandle, index_hash[q][j]} \/ j <= last_breakpoint_id'
    BY <1>4, <1>8, <1>3
  <2>4. \A q \in Procs, b \in Addresses, c \in Addresses :
           Newer (bpm'[q][b].id) /\ bpm'[q][b].id = bpm'[q][c].id => b = c
    <3> SUFFICES ASSUME NEW q \in Procs, NEW b \in Addresses, NEW c \in Addresses,
                        bpm'[q][b].id = n, bpm'[q][c].id = n
                 PROVE  b = c
      BY <1>4 DEF Newer
    <3> QED
      BY <1>5, <1>7, <1>9 DEF Exists
  <2>5. \A u \in AllThreads : temp_breakpoint'[u] \in {0, temp_breakpoint[u]}
                                \/ temp_breakpoint'[u] <= last_breakpoint_id'
    BY <1>3, <1>4, <1>8
  <2>6. last_breakpoint_id' >= last_breakpoint_id
    BY <1>3, <1>4
  <2>7. \A q \in Procs, b \in Addresses : bpm'[q][b].id \in {0, bpm[q][b].id} \/ Newer (bpm'[q][b].id)
    BY <1>3, <1>4, <1>5 DEF Newer
  <2>8. \A u \in AllThreads, k \in 1 .. DebugRegs : dr_regs'[u][k] \in {0, dr_regs[u][k]}
    BY <1>5
  <2> QED
    BY <1>6, <2>2, <2>3, <2>4, <2>5, <2>6, <2>7, <2>8, IdsKept
<1>11. ASSUME NEW j \in Ids PROVE Hardware (j)'
  <2>1. CASE j = n
    <3>1. \A u \in AllThreads : ~InRegisters (u, j)'
      BY <1>5, <1>7, <2>1 DEF InRegisters
    <3>2. \A q \in Procs : index_hash'[q][j] \notin WatchHandles
      BY <1>8, <1>7, <2>1, BreakpointAssumption DEF Handles
    <3> QED
      BY <3>1, <3>2, HardwareFree
  <2>2. CASE j # n
    <3>1. \A u \in AllThreads : InRegisters (u, j)' => InRegisters (u, j)
      BY <1>5 DEF InRegisters
    <3>2. \A q \in Procs : Exists (q, j)' => Exists (q, j)
      BY <1>5, <2>2 DEF Exists
    <3>3. \A q \in Procs : index_hash'[q][j] = index_hash[q][j]
      BY <1>8, <2>2
    <3>4. \A u \in AllThreads : temp_breakpoint'[u] = j => temp_breakpoint[u] = j
      BY <1>8, <2>2
    <3>5. Hardware (j)
      BY DEF CountInv
    <3> QED
      BY <3>1, <3>2, <3>3, <3>4, <3>5, HardwareKept
  <2> QED
    BY <2>1, <2>2
<1>12. ASSUME NEW q \in Procs, NEW j \in Ids, Tracked (q, j)' PROVE Counts (q, j)'
  <2>1. CASE q = p /\ j = n
    <3>1. Owners (p, n) = 0
      <4>1. \A u \in Team (p) : temp_breakpoint[u] # n
        BY <1>7 DEF Team
      <4> QED
        BY <1>7, <4>1, OwnersNone
    <3>2. Owners (p, n)' = 1
      BY <1>8, <3>1
    <3>3. Exists (p, n)'
      BY <1>5 DEF Exists
    <3>4. ASSUME NEW b \in Addresses, bpm'[p][b].id = n PROVE bpm'[p][b].refcount = 1
      BY <1>5, <1>9, <3>4
    <3> QED
      BY <2>1, <3>2, <3>3, <3>4 DEF Counts
  <2>2. CASE q # p \/ j # n
    <3>1. Tracked (q, j) => Counts (q, j)
      BY DEF CountInv
    <3>2. \A b \in Addresses : bpm'[q][b].id = j <=> bpm[q][b].id = j
      BY <1>5, <2>2 DEF Ids
    <3>3. \A b \in Addresses : bpm[q][b].id = j => bpm'[q][b].refcount = bpm[q][b].refcount
      BY <1>5, <2>2 DEF Ids
    <3>4. /\ index_hash'[q][j] = index_hash[q][j]
          /\ \A u \in Team (q) : temp_breakpoint'[u] = j <=> temp_breakpoint[u] = j
      BY <1>8, <2>2
    <3>5. \A u \in AllThreads : InRegisters (u, j) => InRegisters (u, j)'
      BY <1>5 DEF InRegisters
    <3> QED
      BY <1>12, <3>1, <3>2, <3>3, <3>4, <3>5, CountsSame
  <2> QED
    BY <2>1, <2>2
<1> QED
  BY <1>10, <1>11, <1>12 DEF CountInv

(* A debug register, for a watchpoint or a temporary breakpoint.            *)
LEMMA CountsHardware ==
    ASSUME TypeOK, TablesType', CountInv, \A u \in Threads : Present (u)' => Present (u),
           NEW t \in AllThreads, NewHardware (t), Owned (t, last_breakpoint_id + 1, WatchHandles),
           t = ChildThread => fork \in {"init", "followed"}, UNCHANGED <<fork, stale>>
    PROVE  CountInv'
<1>1. PICK p \in Procs : p = Proc (t)
  BY ProcType
<1>2. NewId /\ UNCHANGED bpm
  BY DEF NewHardware
<1>3. PICK n \in Ids : n = last_breakpoint_id + 1
  BY <1>2, NextId DEF Ids, TypeOK
<1>4. last_breakpoint_id' = n /\ last_breakpoint_id \in Nat
  BY <1>2, <1>3, NextId DEF TypeOK, TablesType
<1>5. PICK k \in 1 .. DebugRegs :
         /\ dr_regs'[t][k] = n /\ dr_regs[t][k] = 0
         /\ \A u \in AllThreads, l \in 1 .. DebugRegs : u # t \/ l # k => dr_regs'[u][l] = dr_regs[u][l]
  BY <1>3, NewHardwareIds DEF TypeOK
<1>6. IdInv
  BY DEF CountInv
<1>7. /\ \A q \in Procs : ~Exists (q, n) /\ index_hash[q][n] = NoHandle
      /\ \A u \in AllThreads : temp_breakpoint[u] # n /\ ~InRegisters (u, n)
  BY <1>3, <1>6, FreshId
<1>8. /\ index_hash'[p][n] \in WatchHandles \cup {index_hash[p][n]}
      /\ \A u \in AllThreads : temp_breakpoint'[u] = temp_breakpoint[u] \/ temp_breakpoint'[u] = n
      /\ \A q \in Procs, j \in Ids : q # p \/ j # n =>
            /\ index_hash'[q][j] = index_hash[q][j]
            /\ \A u \in Team (q) : temp_breakpoint'[u] = j <=> temp_breakpoint[u] = j
      /\ \/ UNCHANGED temp_breakpoint
         \/ UNCHANGED index_hash /\ \A u \in AllThreads \ {t} : temp_breakpoint'[u] = temp_breakpoint[u]
  <2>1. WatchHandles \in SUBSET Handles
    BY DEF Handles
  <2> QED
    BY <1>1, <1>3, <2>1, OwnedEffect
<1>9. \A u \in AllThreads, j \in Ids : j # n => (InRegisters (u, j)' <=> InRegisters (u, j))
  <2> SUFFICES ASSUME NEW u \in AllThreads, NEW j \in Ids, j # n
               PROVE  InRegisters (u, j)' <=> InRegisters (u, j)
    OBVIOUS
  <2> QED
    BY <1>5 DEF InRegisters, Ids
<1>10. \A u \in AllThreads : InRegisters (u, n)' <=> u = t
  BY <1>5, <1>7 DEF InRegisters
<1>11. IdInv'
  <2>2. fork' \notin {"init", "followed"} => temp_breakpoint'[ChildThread] = 0
    BY <1>8, <1>6, ProcType DEF IdInv
  <2>3. \A q \in Procs, j \in Ids :
           index_hash'[q][j] \in {NoHandle, index_hash[q][j]} \/ j <= last_breakpoint_id'
    BY <1>4, <1>8, <1>3
  <2>4. \A q \in Procs, b \in Addresses : ~Newer (bpm'[q][b].id)
    BY <1>2, <1>4, <1>7 DEF Newer, Exists
  <2>5. \A u \in AllThreads : temp_breakpoint'[u] \in {0, temp_breakpoint[u]}
                                \/ temp_breakpoint'[u] <= last_breakpoint_id'
    BY <1>3, <1>4, <1>8
  <2>6. last_breakpoint_id' >= last_breakpoint_id
    BY <1>3, <1>4
  <2>7. \A q \in Procs, b \in Addresses : bpm'[q][b].id \in {0, bpm[q][b].id}
    BY <1>2
  <2>8. \A u \in AllThreads, l \in 1 .. DebugRegs :
           dr_regs'[u][l] \in {0, dr_regs[u][l]} \/ Newer (dr_regs'[u][l])
    BY <1>3, <1>4, <1>5 DEF Newer
  <2> QED
    BY <1>6, <2>2, <2>3, <2>4, <2>5, <2>6, <2>7, <2>8, IdsKept
<1>12. ASSUME NEW j \in Ids PROVE Hardware (j)'
  <2>1. CASE j = n
    <3>1. \A q \in Procs : ~Exists (q, n)' /\ index_hash'[q][n] \in WatchHandles \cup {NoHandle}
      BY <1>2, <1>7, <1>8 DEF Exists
    <3>2. \A u \in AllThreads \ {t} : temp_breakpoint'[u] # n
      BY <1>7, <1>8
    <3>3. temp_breakpoint'[t] = n => \A q \in Procs : index_hash'[q][n] = NoHandle
      BY <1>7, <1>8
    <3>4. \A q \in Procs : index_hash'[q][n] \in WatchHandles => \A u \in AllThreads : temp_breakpoint'[u] # n
      BY <1>7, <1>8, BreakpointAssumption DEF Handles
    <3> QED
      BY <1>10, <2>1, <3>1, <3>2, <3>3, <3>4 DEF Hardware
  <2>2. CASE j # n
    <3>2. \A q \in Procs : Exists (q, j)' => Exists (q, j)
      BY <1>2 DEF Exists
    <3>3. \A q \in Procs : index_hash'[q][j] = index_hash[q][j]
      BY <1>8, <2>2
    <3>4. \A u \in AllThreads : temp_breakpoint'[u] = j => temp_breakpoint[u] = j
      BY <1>8, <2>2
    <3>5. Hardware (j)
      BY DEF CountInv
    <3> QED
      BY <1>9, <2>2, <3>2, <3>3, <3>4, <3>5, HardwareKept
  <2> QED
    BY <2>1, <2>2
<1>13. ASSUME NEW q \in Procs, NEW j \in Ids, Tracked (q, j)' PROVE Counts (q, j)'
  <2>1. j # n
    BY <1>10, <1>13 DEF Tracked, IsWatch
  <2>2. Tracked (q, j) => Counts (q, j)
    BY DEF CountInv
  <2>3. /\ index_hash'[q][j] = index_hash[q][j]
        /\ \A u \in Team (q) : temp_breakpoint'[u] = j <=> temp_breakpoint[u] = j
    BY <1>8, <2>1
  <2> QED
    BY <1>2, <1>9, <1>13, <2>1, <2>2, <2>3, CountsSame
<1> QED
  BY <1>11, <1>12, <1>13 DEF CountInv

(* Ids and registers only go.                                               *)
LEMMA IdsShrink ==
    ASSUME TypeOK, TablesType', CountInv, UNCHANGED last_breakpoint_id,
           \A p \in Procs, a \in Addresses : bpm'[p][a].id \in {0, bpm[p][a].id},
           \A t \in AllThreads, k \in 1 .. DebugRegs : dr_regs'[t][k] \in {0, dr_regs[t][k]},
           \A t \in AllThreads : temp_breakpoint'[t] \in {0, temp_breakpoint[t]},
           \A p \in Procs, i \in Ids : index_hash'[p][i] \in {NoHandle, index_hash[p][i]},
           fork' \in {"init", "followed"} <=> fork \in {"init", "followed"}
    PROVE  IdInv' /\ \A i \in Ids : Hardware (i)'
<1>1. IdInv
  BY DEF CountInv
<1>2. last_breakpoint_id' >= last_breakpoint_id
  BY DEF TypeOK, TablesType
<1>3. fork' \notin {"init", "followed"} => temp_breakpoint'[ChildThread] = 0
  BY <1>1, ProcType DEF IdInv
<1>4. \A p \in Procs, a \in Addresses : ~Newer (bpm'[p][a].id)
  BY DEF Newer, TypeOK, TablesType
<1>5. IdInv'
  BY <1>1, <1>2, <1>3, <1>4, IdsKept
<1>6. ASSUME NEW i \in Ids PROVE Hardware (i)'
  <2>1. \A t \in AllThreads : InRegisters (t, i)' => InRegisters (t, i)
    BY DEF InRegisters, Ids
  <2>2. \A p \in Procs : Exists (p, i)' => Exists (p, i)
    BY DEF Exists, Ids
  <2>3. \A t \in AllThreads : temp_breakpoint'[t] = i => temp_breakpoint[t] = i
    BY DEF Ids
  <2>4. Hardware (i)
    BY DEF CountInv
  <2> QED
    BY <2>1, <2>2, <2>3, <2>4, HardwareKept
<1> QED
  BY <1>5, <1>6

(* A watchpoint or a hardware breakpoint that goes leaves no owner behind.  *)
LEMMA CountsGone ==
    ASSUME NEW p \in Procs, NEW i \in Ids, Hardware (i), IsWatch (p, i), Tracked (p, i)',
           index_hash'[p][i] \in {NoHandle, index_hash[p][i]}, Exists (p, i)' => Exists (p, i),
           \A t \in Team (p) : temp_breakpoint'[t] # i
    PROVE  Counts (p, i)'
<1>1. ~Exists (p, i) /\ index_hash[p][i] \in WatchHandles \cup {NoHandle}
  BY DEF IsWatch, Hardware
<1>2. index_hash'[p][i] = NoHandle
  BY <1>1 DEF Tracked, IsWatch
<1>3. Temps (p, i)' = {}
  BY DEF Temps
<1>4. Owners (p, i)' = 0
  BY <1>2, <1>3, FS_EmptySet DEF Owners, Temps
<1> QED
  BY <1>1, <1>4 DEF Counts, Exists

(* What removing the ids of S does to the registers and to the ids.         *)
LEMMA RemoveCallsShrink ==
    ASSUME TypeOK, NEW t \in AllThreads, NEW S \in SUBSET Ids, RemoveCalls (t, S)
    PROVE  /\ UNCHANGED last_breakpoint_id
           /\ \A p \in Procs, a \in Addresses : bpm'[p][a].id \in {0, bpm[p][a].id}
           /\ \A u \in AllThreads, k \in 1 .. DebugRegs : dr_regs'[u][k] \in {0, dr_regs[u][k]}
           /\ \A u \in AllThreads, i \in Ids : InRegisters (u, i) =>
                 InRegisters (u, i)' \/ (u = t /\ i \in S)
           /\ \A p \in Procs, i \in Ids : Exists (p, i)' => Exists (p, i)
           /\ \A p \in Procs, i \in Ids : p # Proc (t) \/ i \notin S =>
                 \A a \in Addresses : /\ bpm'[p][a].id = i <=> bpm[p][a].id = i
                                      /\ bpm[p][a].id = i => bpm'[p][a].refcount = bpm[p][a].refcount
<1>1. PICK r \in Procs : r = Proc (t)
  BY ProcType
<1>2. /\ UNCHANGED last_breakpoint_id
      /\ \A q \in Procs, b \in Addresses : q # r => bpm'[q][b] = bpm[q][b]
      /\ \A b \in Addresses :
            /\ bpm[r][b].id \notin S => bpm'[r][b] = bpm[r][b]
            /\ Freed (t, b, S) => bpm'[r][b].id = 0
            /\ bpm[r][b].id \in S /\ ~Freed (t, b, S) => bpm'[r][b].id = bpm[r][b].id
      /\ \A u \in AllThreads, k \in 1 .. DebugRegs : u # t => dr_regs'[u][k] = dr_regs[u][k]
      /\ \A k \in 1 .. DebugRegs :
            dr_regs'[t][k] = IF dr_regs[t][k] \in S /\ Halted (t) THEN 0 ELSE dr_regs[t][k]
  BY <1>1, RemoveCallsIds DEF TypeOK
<1>3. \A p \in Procs, a \in Addresses : bpm'[p][a].id \in {0, bpm[p][a].id}
  BY <1>2
<1>4. \A u \in AllThreads, k \in 1 .. DebugRegs : dr_regs'[u][k] \in {0, dr_regs[u][k]}
  BY <1>2
<1>5. ASSUME NEW u \in AllThreads, NEW i \in Ids, InRegisters (u, i), ~(u = t /\ i \in S)
      PROVE  InRegisters (u, i)'
  BY <1>2, <1>5 DEF InRegisters
<1>6. \A p \in Procs, i \in Ids : Exists (p, i)' => Exists (p, i)
  BY <1>3 DEF Exists, Ids
<1>7. ASSUME NEW p \in Procs, NEW i \in Ids, p # r \/ i \notin S, NEW a \in Addresses
      PROVE  /\ bpm'[p][a].id = i <=> bpm[p][a].id = i
             /\ bpm[p][a].id = i => bpm'[p][a].refcount = bpm[p][a].refcount
  <2>1. i # 0
    BY DEF Ids
  <2>2. CASE p # r
    BY <1>2, <2>2
  <2>3. CASE p = r /\ bpm[p][a].id \notin S
    BY <1>2, <2>3
  <2>4. CASE p = r /\ bpm[p][a].id \in S
    BY <1>2, <1>7, <2>1, <2>4
  <2> QED
    BY <2>2, <2>3, <2>4
<1> QED
  BY <1>1, <1>2, <1>3, <1>4, <1>5, <1>6, <1>7

(* A reference is given up with its owner.                                  *)
LEMMA CountsReleased ==
    ASSUME TypeOK, NEW t \in AllThreads, NEW S \in SUBSET Ids, RemoveCalls (t, S),
           \A u \in Threads : Present (u)' => Present (u), NEW i \in S, Counts (Proc (t), i),
           Owners (Proc (t), i)' = Owners (Proc (t), i) - 1, Owners (Proc (t), i) > 0
    PROVE  Counts (Proc (t), i)'
<1>1. PICK p \in Procs : p = Proc (t)
  BY ProcType
<1>2. Owners (p, i) \in Nat /\ Owners (p, i)' = Owners (p, i) + (-1) /\ Exists (p, i)
  <2>1. Owners (p, i) \in Nat
    BY OwnersAre
  <2> QED
    BY <1>1, <2>1 DEF Counts
<1>3. ASSUME NEW a \in Addresses, bpm'[p][a].id = i
      PROVE  bpm[p][a].id = i /\ bpm'[p][a].refcount = bpm[p][a].refcount + (-1)
  <2>1. i # 0 /\ bpm[p][a].refcount \in Int
    <3>1. bpm[p][a] \in Info
      BY CellTypes DEF TypeOK
    <3> QED
      BY <3>1, InfoFields DEF Ids
  <2>2. bpm[p][a].id = i
    BY <1>3, <2>1, RemoveCallsShrink
  <2>3. ~Freed (t, a, S) /\ bpm'[p][a].refcount = bpm[p][a].refcount - 1
    BY <1>1, <1>3, <2>1, <2>2, RemoveCallsIds DEF TypeOK
  <2> QED
    BY <2>1, <2>2, <2>3
<1>4. ASSUME NEW a \in Addresses, bpm[p][a].id = i, bpm'[p][a].id # i PROVE Owners (p, i)' = 0
  <2>1. Freed (t, a, S)
    BY <1>1, <1>4, RemoveCallsIds DEF TypeOK
  <2>2. bpm[p][a].refcount <= 1 /\ bpm[p][a].refcount \in Int
    <3>1. bpm[p][a] \in Info
      BY CellTypes DEF TypeOK
    <3> QED
      BY <1>1, <2>1, <3>1, InfoFields DEF Freed, LastReference
  <2>3. bpm[p][a].refcount >= Owners (p, i)
    BY <1>1, <1>4 DEF Counts
  <2> QED
    BY <1>1, <1>2, <2>2, <2>3
<1>5. -1 \in {-1, 0, 1} /\ i \in Ids
  OBVIOUS
<1>6. Counts (p, i) /\ (Owners (p, i)' > 0 => Exists (p, i))
  BY <1>1, <1>2
<1>7. Counts (p, i)'
  BY <1>2, <1>3, <1>4, <1>5, <1>6, CountsStep
<1> QED
  BY <1>1, <1>7

(* RemoveIndices(), Detach() and InitializeAfterFork(): the handles of S    *)
(* are let go; the index entries of F are kept, without a reference.        *)
LEMMA CountsRemoved ==
    ASSUME TypeOK, TablesType', CountInv, \A u \in Threads : Present (u)' => Present (u),
           NEW t \in AllThreads, NEW S \in SUBSET Ids, NEW F \in SUBSET Ids, RemoveCalls (t, S \cup F),
           \A i \in S \cup F : index_hash[Proc (t)][i] # NoHandle,
           index_hash' = [index_hash EXCEPT ![Proc (t)] =
                             [i \in Ids |-> IF i \in S THEN NoHandle ELSE @[i]]],
           stale' = [stale EXCEPT ![Proc (t)] = @ \cup F],
           UNCHANGED temp_breakpoint,
           fork' \in {"init", "followed"} <=> fork \in {"init", "followed"}
    PROVE  CountInv'
<1>1. PICK p \in Procs : p = Proc (t)
  BY ProcType
<1>2. PICK R \in SUBSET Ids : R = S \cup F
  OBVIOUS
<1>3. /\ UNCHANGED last_breakpoint_id
      /\ \A q \in Procs, a \in Addresses : bpm'[q][a].id \in {0, bpm[q][a].id}
      /\ \A u \in AllThreads, k \in 1 .. DebugRegs : dr_regs'[u][k] \in {0, dr_regs[u][k]}
      /\ \A u \in AllThreads, i \in Ids : InRegisters (u, i) =>
            InRegisters (u, i)' \/ (u = t /\ i \in R)
      /\ \A q \in Procs, i \in Ids : Exists (q, i)' => Exists (q, i)
      /\ \A q \in Procs, i \in Ids : q # p \/ i \notin R =>
            \A a \in Addresses : /\ bpm'[q][a].id = i <=> bpm[q][a].id = i
                                 /\ bpm[q][a].id = i => bpm'[q][a].refcount = bpm[q][a].refcount
  BY <1>1, <1>2, RemoveCallsShrink
<1>4. /\ \A i \in Ids : index_hash'[p][i] = IF i \in S THEN NoHandle ELSE index_hash[p][i]
      /\ \A q \in Procs, i \in Ids : q # p => index_hash'[q][i] = index_hash[q][i]
  BY <1>1 DEF TypeOK
<1>5. stale'[p] = stale[p] \cup F /\ \A q \in Procs : q # p => stale'[q] = stale[q]
  BY <1>1 DEF TypeOK
<1>6. IdInv' /\ \A i \in Ids : Hardware (i)'
  <2>1. \A q \in Procs, i \in Ids : index_hash'[q][i] \in {NoHandle, index_hash[q][i]}
    BY <1>4
  <2> QED
    BY <1>3, <2>1, IdsShrink
<1>7. ASSUME NEW q \in Procs, NEW j \in Ids, Tracked (q, j)' PROVE Counts (q, j)'
  <2>1. CASE IsWatch (q, j)
    <3>1. Hardware (j)
      BY DEF CountInv
    <3>2. \A v \in Team (q) : temp_breakpoint'[v] # j
      <4>1. CASE index_hash[q][j] \in WatchHandles
        BY <3>1, <4>1 DEF Hardware, Team
      <4>2. CASE \E u \in AllThreads : InRegisters (u, j)
        <5>1. InRegisters (t, j) /\ j \in R
          BY <1>3, <1>7, <4>2 DEF Tracked, IsWatch
        <5>2. index_hash[p][j] # NoHandle
          BY <1>1, <1>2, <5>1
        <5>3. /\ \A u \in AllThreads \ {t} : temp_breakpoint[u] # j
              /\ temp_breakpoint[t] = j => index_hash[p][j] = NoHandle
          BY <3>1, <5>1 DEF Hardware
        <5> QED
          BY <5>2, <5>3 DEF Team
      <4> QED
        BY <2>1, <4>1, <4>2 DEF IsWatch
    <3>3. index_hash'[q][j] \in {NoHandle, index_hash[q][j]}
      BY <1>4
    <3> QED
      BY <1>3, <1>7, <2>1, <3>1, <3>2, <3>3, CountsGone
  <2>2. CASE ~IsWatch (q, j)
    <3>1. Tracked (q, j)
      BY <1>5, <1>7, <2>2 DEF Tracked
    <3>2. Counts (q, j)
      BY <3>1 DEF CountInv
    <3>3. CASE q = p /\ j \in R
      <4>1. j \in S
        BY <1>2, <1>5, <1>7, <3>3 DEF Tracked
      <4>2. Owners (p, j)' = Owners (p, j) - 1 /\ Owners (p, j) > 0
        BY <1>1, <1>4, <4>1, OwnersIndex
      <4> QED
        BY <1>1, <1>2, <3>2, <3>3, <4>2, CountsReleased
    <3>4. CASE q # p \/ j \notin R
      <4>1. index_hash'[q][j] = index_hash[q][j]
        BY <1>2, <1>4, <3>4
      <4>2. j \notin stale'[q] => j \notin stale[q]
        BY <1>5
      <4>3. \A u \in AllThreads : InRegisters (u, j) => InRegisters (u, j)'
        BY <2>2 DEF IsWatch
      <4> QED
        BY <1>3, <1>7, <3>2, <3>4, <4>1, <4>2, <4>3, CountsSame
    <3> QED
      BY <3>3, <3>4
  <2> QED
    BY <2>1, <2>2
<1> QED
  BY <1>6, <1>7 DEF CountInv

(* remove_temporary_breakpoint().                                           *)
LEMMA CountsCompleted ==
    ASSUME TypeOK, TablesType', CountInv, \A u \in Threads : Present (u)' => Present (u),
           NEW t \in AllThreads, OperationCompleted (t)
    PROVE  CountInv'
<1>1. PICK p \in Procs : p = Proc (t) /\ t \in Team (p)
  BY ProcType DEF Team
<1>2. PICK S \in SUBSET Ids : S = {temp_breakpoint[t]} \ {0}
  <2>1. temp_breakpoint[t] \in 0 .. MaxId
    BY DEF TypeOK, EnginesType
  <2>2. \A x \in {temp_breakpoint[t]} \ {0} : x \in Ids
    BY <2>1, BreakpointAssumption DEF Ids
  <2> QED
    BY <2>2
<1>3. RemoveCalls (t, S) /\ Halted (t) /\ UNCHANGED <<index_hash, stale, fork>>
  BY <1>2 DEF OperationCompleted, Halted, Present, Runs
<1>4. /\ UNCHANGED last_breakpoint_id
      /\ \A q \in Procs, a \in Addresses : bpm'[q][a].id \in {0, bpm[q][a].id}
      /\ \A u \in AllThreads, k \in 1 .. DebugRegs : dr_regs'[u][k] \in {0, dr_regs[u][k]}
      /\ \A u \in AllThreads, i \in Ids : InRegisters (u, i) =>
            InRegisters (u, i)' \/ (u = t /\ i \in S)
      /\ \A q \in Procs, i \in Ids : Exists (q, i)' => Exists (q, i)
      /\ \A q \in Procs, i \in Ids : q # p \/ i \notin S =>
            \A a \in Addresses : /\ bpm'[q][a].id = i <=> bpm[q][a].id = i
                                 /\ bpm[q][a].id = i => bpm'[q][a].refcount = bpm[q][a].refcount
  BY <1>1, <1>3, RemoveCallsShrink
<1>5. /\ \A u \in AllThreads : u # t => temp_breakpoint'[u] = temp_breakpoint[u]
      /\ \/ temp_breakpoint'[t] = 0
         \/ /\ temp_breakpoint'[t] = temp_breakpoint[t] /\ temp_breakpoint[t] # 0
            /\ RemoveRaises (t, temp_breakpoint[t])
  BY DEF OperationCompleted, TypeOK, EnginesType
<1>6. IdInv' /\ \A i \in Ids : Hardware (i)'
  <2>1. \A u \in AllThreads : temp_breakpoint'[u] \in {0, temp_breakpoint[u]}
    BY <1>5
  <2> QED
    BY <1>3, <1>4, <2>1, IdsShrink
(* An exception: the breakpoint is neither in a register nor in the table.  *)
<1>7. ASSUME NEW j \in Ids, temp_breakpoint'[t] = j
      PROVE  ~InRegisters (t, j) /\ \A a \in Addresses : bpm[p][a].id # j /\ bpm'[p][a].id # j
  <2>1. RemoveRaises (t, j) /\ j # 0
    BY <1>5, <1>7 DEF Ids
  <2>2. ~InRegisters (t, j)
    BY <1>3, <2>1 DEF RemoveRaises
  <2>3. \A a \in Addresses : bpm[p][a].id # j
    BY <1>1, <1>3, <2>1, <2>2 DEF RemoveRaises, Restorable
  <2> QED
    BY <1>4, <2>1, <2>2, <2>3
<1>8. ASSUME NEW q \in Procs, NEW j \in Ids, Tracked (q, j)' PROVE Counts (q, j)'
  <2>0. j # 0
    BY DEF Ids
  <2>1. CASE IsWatch (q, j)
    <3>1. Hardware (j)
      BY DEF CountInv
    <3>2. \A v \in Team (q) : temp_breakpoint'[v] # j
      <4>1. PICK u \in AllThreads : InRegisters (u, j) /\ ~InRegisters (u, j)'
        BY <1>3, <1>8, <2>1 DEF Tracked, IsWatch
      <4>2. u = t
        BY <1>4, <4>1
      <4>3. \A v \in AllThreads \ {t} : temp_breakpoint[v] # j
        BY <3>1, <4>1, <4>2 DEF Hardware
      <4>4. temp_breakpoint'[t] # j
        BY <1>7, <4>1, <4>2
      <4> QED
        BY <1>5, <4>3, <4>4 DEF Team
    <3> QED
      BY <1>3, <1>4, <1>8, <2>1, <3>1, <3>2, CountsGone
  <2>2. CASE ~IsWatch (q, j)
    <3>1. Tracked (q, j)
      BY <1>3, <1>8, <2>2 DEF Tracked
    <3>2. Counts (q, j)
      BY <3>1 DEF CountInv
    <3>3. CASE q = p /\ temp_breakpoint[t] = j /\ temp_breakpoint'[t] # j
      <4>1. \A u \in Team (p) \ {t} : temp_breakpoint'[u] = temp_breakpoint[u]
        BY <1>5 DEF Team
      <4>2. Owners (p, j)' = Owners (p, j) - 1 /\ Owners (p, j) > 0
        BY <1>1, <1>3, <3>3, <4>1, OwnersTemp
      <4>3. j \in S
        BY <1>2, <2>0, <3>3
      <4> QED
        BY <1>1, <1>3, <3>2, <3>3, <4>2, <4>3, CountsReleased
    <3>4. CASE q # p \/ temp_breakpoint[t] # j \/ temp_breakpoint'[t] = j
      <4>1. \A u \in Team (q) : temp_breakpoint'[u] = j <=> temp_breakpoint[u] = j
        BY <1>1, <1>5, <2>0, <3>4 DEF Team
      <4>2. \A a \in Addresses : /\ bpm'[q][a].id = j <=> bpm[q][a].id = j
                                 /\ bpm[q][a].id = j => bpm'[q][a].refcount = bpm[q][a].refcount
        <5>1. CASE q # p \/ j \notin S
          BY <1>4, <5>1
        <5>2. CASE q = p /\ j \in S
          BY <1>2, <1>7, <3>4, <5>2
        <5> QED
          BY <5>1, <5>2
      <4>3. \A u \in AllThreads : InRegisters (u, j) => InRegisters (u, j)'
        BY <2>2 DEF IsWatch
      <4> QED
        BY <1>3, <1>8, <3>2, <4>1, <4>2, <4>3, CountsSame
    <3> QED
      BY <3>3, <3>4
  <2> QED
    BY <2>1, <2>2
<1> QED
  BY <1>6, <1>8 DEF CountInv

(* A thread that exits forgets its temporary breakpoint: the reference is   *)
(* not given up, and the registers are gone.                                *)
LEMMA CountsExit ==
    ASSUME TypeOK, TablesType', CountInv, \A u \in Threads : Present (u)' => Present (u),
           NEW t \in AllThreads, ThreadExit (t)
    PROVE  CountInv'
<1>1. UNCHANGED <<bpm, last_breakpoint_id, index_hash, fork, stale>> /\ ~Present (t)'
  BY DEF ThreadExit, Present, TypeOK, EnginesType
<1>2. /\ temp_breakpoint'[t] = 0
      /\ \A u \in AllThreads : u # t => temp_breakpoint'[u] = temp_breakpoint[u]
  BY DEF ThreadExit, TypeOK, EnginesType
<1>3. /\ \A k \in 1 .. DebugRegs : dr_regs'[t][k] = 0
      /\ \A u \in AllThreads : u # t => dr_regs'[u] = dr_regs[u]
  <2> DEFINE zeros == [k \in 1 .. DebugRegs |-> 0]
  <2>1. \A k \in 1 .. DebugRegs : zeros[k] = 0
    OBVIOUS
  <2>2. dr_regs' = [dr_regs EXCEPT ![t] = zeros]
    BY DEF ThreadExit
  <2> HIDE DEF zeros
  <2> QED
    BY <2>1, <2>2 DEF TypeOK, TablesType
<1>4. IdInv' /\ \A i \in Ids : Hardware (i)'
  <2>1. \A u \in AllThreads : temp_breakpoint'[u] \in {0, temp_breakpoint[u]}
    BY <1>2
  <2>2. \A u \in AllThreads, k \in 1 .. DebugRegs : dr_regs'[u][k] \in {0, dr_regs[u][k]}
    BY <1>3
  <2> QED
    BY <1>1, <2>1, <2>2, IdsShrink
<1>5. ASSUME NEW q \in Procs, NEW j \in Ids, Tracked (q, j)' PROVE Counts (q, j)'
  <2>0. j # 0
    BY DEF Ids
  <2>1. CASE IsWatch (q, j)
    <3>1. Hardware (j)
      BY DEF CountInv
    <3>2. PICK u \in AllThreads : InRegisters (u, j) /\ ~InRegisters (u, j)'
      BY <1>1, <1>5, <2>1 DEF Tracked, IsWatch
    <3>3. u = t
      BY <1>3, <3>2 DEF InRegisters
    <3>4. \A v \in AllThreads \ {t} : temp_breakpoint[v] # j
      BY <3>1, <3>2, <3>3 DEF Hardware
    <3>5. \A v \in Team (q) : temp_breakpoint'[v] # j
      BY <1>2, <2>0, <3>4 DEF Team
    <3>6. Exists (q, j)' => Exists (q, j)
      BY <1>1 DEF Exists
    <3> QED
      BY <1>1, <1>5, <2>1, <3>1, <3>5, <3>6, CountsGone
  <2>2. CASE ~IsWatch (q, j)
    <3>1. Tracked (q, j)
      BY <1>1, <1>5, <2>2 DEF Tracked
    <3>2. Counts (q, j)
      BY <3>1 DEF CountInv
    <3>3. CASE t \in Team (q) /\ temp_breakpoint[t] = j
      <4>1. \A u \in Team (q) \ {t} : temp_breakpoint'[u] = temp_breakpoint[u]
        BY <1>2 DEF Team
      <4>2. Owners (q, j)' = Owners (q, j) - 1 /\ Owners (q, j) > 0 /\ Owners (q, j) \in Nat
        BY <1>1, <1>2, <2>0, <3>3, <4>1, OwnersTemp, OwnersAre
      <4>3. Exists (q, j)'
        BY <1>1, <3>2, <4>2 DEF Counts, Exists
      <4>4. ASSUME NEW a \in Addresses, bpm[q][a].id = j
            PROVE  bpm[q][a].refcount >= Owners (q, j)'
        <5>1. bpm[q][a].refcount \in Int
          BY CellTypes, InfoFields DEF TypeOK
        <5>2. bpm[q][a].refcount >= Owners (q, j)
          BY <3>2, <4>4 DEF Counts
        <5> QED
          BY <4>2, <5>1, <5>2
      <4>5. q = "parent" => ~\A u \in Threads : Present (u)'
        BY <1>1, <3>3, ProcType DEF Team, AllThreads
      <4> QED
        BY <1>1, <4>3, <4>4, <4>5 DEF Counts
    <3>4. CASE ~(t \in Team (q) /\ temp_breakpoint[t] = j)
      <4>1. \A u \in Team (q) : temp_breakpoint'[u] = j <=> temp_breakpoint[u] = j
        BY <1>2, <2>0, <3>4 DEF Team
      <4>2. \A u \in AllThreads : InRegisters (u, j) => InRegisters (u, j)'
        BY <2>2 DEF IsWatch
      <4> QED
        BY <1>1, <1>5, <3>2, <4>1, <4>2, CountsSame
    <3> QED
      BY <3>3, <3>4
  <2> QED
    BY <2>1, <2>2
<1> QED
  BY <1>4, <1>5 DEF CountInv

(* The tables that a followed process inherits count the parent's temporary *)
(* breakpoints too.                                                         *)
LEMMA CountsForked ==
    ASSUME TypeOK, TablesType', CountInv, \A u \in Threads : Present (u)' => Present (u),
           NEW t \in AllThreads, ChildForked (t), fork \in {"none", "forked"}
    PROVE  CountInv'
<1>1. /\ "parent" \in Procs /\ "child" \in Procs /\ \A p \in Procs : p = "parent" \/ p = "child"
  BY DEF Procs
<1>2. /\ bpm'["child"] = bpm["parent"] /\ bpm'["parent"] = bpm["parent"]
      /\ UNCHANGED <<dr_regs, last_breakpoint_id, temp_breakpoint>> /\ fork' = "init"
  BY <1>1 DEF ChildForked, TypeOK, TablesType
<1>3. index_hash'["child"] = index_hash["parent"] /\ index_hash'["parent"] = index_hash["parent"]
  BY <1>1 DEF ChildForked, TypeOK
<1>4. stale'["child"] = stale["parent"] /\ stale'["parent"] = stale["parent"]
  BY <1>1 DEF ChildForked, TypeOK
<1>5. temp_breakpoint[ChildThread] = 0 /\ IdInv /\ last_breakpoint_id \in Nat
  BY DEF CountInv, IdInv, TypeOK, TablesType
<1>6. \A p \in Procs : bpm'[p] = bpm["parent"] /\ index_hash'[p] = index_hash["parent"]
  BY <1>1, <1>2, <1>3
<1>7. IdInv'
  <2>1. \A p \in Procs, a \in Addresses : bpm'[p][a].id <= last_breakpoint_id'
    BY <1>1, <1>2, <1>5, <1>6 DEF IdInv
  <2>2. \A p \in Procs, a \in Addresses, b \in Addresses :
           bpm'[p][a].id # 0 /\ bpm'[p][b].id = bpm'[p][a].id => a = b
    BY <1>1, <1>5, <1>6 DEF IdInv
  <2>3. \A p \in Procs, i \in Ids : index_hash'[p][i] # NoHandle => i <= last_breakpoint_id'
    BY <1>1, <1>2, <1>5, <1>6 DEF IdInv
  <2> QED
    BY <1>2, <1>5, <2>1, <2>2, <2>3 DEF IdInv
<1>8. ASSUME NEW i \in Ids PROVE Hardware (i)'
  <2>1. Hardware (i)
    BY DEF CountInv
  <2>2. \A p \in Procs : Exists (p, i)' => Exists ("parent", i)
    BY <1>6 DEF Exists
  <2>3. \A u \in AllThreads : InRegisters (u, i)' => InRegisters (u, i)
    BY <1>2 DEF InRegisters
  <2> QED
    BY <1>1, <1>2, <1>6, <2>1, <2>2, <2>3, HardwareKept
<1>9. ASSUME NEW j \in Ids, Tracked ("parent", j)' PROVE Counts ("parent", j)'
  <2>1. Tracked ("parent", j) => Counts ("parent", j)
    BY <1>1 DEF CountInv
  <2>2. \A u \in AllThreads : InRegisters (u, j) => InRegisters (u, j)'
    BY <1>2 DEF InRegisters
  <2> QED
    BY <1>1, <1>2, <1>3, <1>4, <1>9, <2>1, <2>2, CountsSame
<1>10. ASSUME NEW j \in Ids, Tracked ("child", j)' PROVE Counts ("child", j)'
  <2>1. Tracked ("parent", j)
    BY <1>2, <1>3, <1>4, <1>10 DEF Tracked, IsWatch, InRegisters
  <2>2. Counts ("parent", j)
    BY <1>1, <2>1 DEF CountInv
  <2>3. Temps ("child", j)' = {}
    BY <1>2, <1>5, ProcType DEF Temps, Team, Ids, Proc
  <2>4. /\ Owners ("child", j)' = IF index_hash["parent"][j] = NoHandle THEN 0 ELSE 1
    BY <1>3, <2>3, FS_EmptySet DEF Owners, Temps
  <2>5. /\ Owners ("parent", j) \in Nat /\ Cardinality (Temps ("parent", j)) \in Nat
        /\ Owners ("parent", j) = Cardinality (Temps ("parent", j))
                                     + (IF index_hash["parent"][j] = NoHandle THEN 0 ELSE 1)
    BY <1>1, OwnersAre
  <2>6. Owners ("child", j)' <= Owners ("parent", j) /\ Owners ("child", j)' \in Nat
    BY <2>4, <2>5
  <2>7. Owners ("child", j)' > 0 => Exists ("child", j)'
    BY <1>2, <2>2, <2>5, <2>6 DEF Counts, Exists
  <2>8. ASSUME NEW a \in Addresses, bpm'["child"][a].id = j
        PROVE  bpm'["child"][a].refcount >= Owners ("child", j)'
    <3>1. bpm["parent"][a].refcount \in Int
      BY <1>1, CellTypes, InfoFields DEF TypeOK
    <3>2. bpm["parent"][a].refcount >= Owners ("parent", j)
      BY <1>2, <2>2, <2>8 DEF Counts
    <3> QED
      BY <1>2, <2>5, <2>6, <3>1, <3>2
  <2> QED
    BY <2>7, <2>8 DEF Counts
<1> QED
  BY <1>1, <1>7, <1>8, <1>9, <1>10 DEF CountInv

-----------------------------------------------------------------------------
(* Nobody uses anything when the debugger starts.                           *)
LEMMA InitCounts == Init => CountInv
<1> SUFFICES ASSUME Init PROVE CountInv
  OBVIOUS
<1>1. /\ \A p \in Procs, a \in Addresses : bpm[p][a].id = 0 /\ \A i \in Ids : index_hash[p][i] = NoHandle
      /\ \A t \in AllThreads : temp_breakpoint[t] = 0
      /\ \A t \in AllThreads, k \in 1 .. DebugRegs : dr_regs[t][k] = 0
      /\ last_breakpoint_id = 0
  BY EmptyInfo DEF Init
<1>2. \A p \in Procs, i \in Ids : index_hash[p][i] = NoHandle
  BY DEF Init
<1>3. IdInv
  BY <1>1, <1>2, ProcType DEF IdInv
<1>4. ASSUME NEW i \in Ids PROVE Hardware (i)
  BY <1>1, <1>2, BreakpointAssumption DEF Hardware, InRegisters, Ids, Handles
<1>5. ASSUME NEW p \in Procs, NEW i \in Ids PROVE Counts (p, i)
  <2>1. Owners (p, i) = 0
    BY <1>1, <1>2, OwnersNone DEF Team, Ids
  <2> QED
    BY <1>1, <2>1 DEF Counts, Ids
<1> QED
  BY <1>3, <1>4, <1>5 DEF CountInv

(* Every action is of one of the kinds.                                     *)
LEMMA NextCounts == IInv /\ IInv' /\ CountInv /\ [Next]_vars => CountInv'
<1> SUFFICES ASSUME IInv, IInv', CountInv, [Next]_vars PROVE CountInv'
  OBVIOUS
<1>1. TypeOK /\ TablesType /\ EnginesType /\ ForkInv /\ TablesType'
  BY DEF IInv, TypeOK
<1>2. last_breakpoint_id \in Nat
  BY <1>1 DEF TablesType
<1>3. CASE UNCHANGED vars
  <2>1. UNCHANGED <<bpm, index_hash, stale, temp_breakpoint, dr_regs, fork, last_breakpoint_id, run>>
    BY <1>3 DEF vars, tables
  <2>2. \A u \in Threads : Present (u)' => Present (u)
    BY <2>1 DEF Present
  <2>3. last_breakpoint_id' >= last_breakpoint_id
    BY <1>2, <2>1
  <2> QED
    BY <1>1, <2>1, <2>2, <2>3, CountsUntouched
<1>4. ASSUME NEW t \in AllThreads, t \in Explored, Command (t) \/ Event (t)
      PROVE  CountInv'
  <2>1. /\ fork # "detached" /\ Proc (t) \in Procs
        /\ \/ fork \in {"none", "forked"} /\ t \in Threads /\ Proc (t) = "parent"
           \/ fork \in {"init", "followed"} /\ t = ChildThread /\ Proc (t) = "child"
    BY <1>1, <1>4, ActsPresent, ProcType DEF EnginesType
  <2>2. \A u \in Threads : Present (u)' => Present (u)
    BY <1>1, <1>4, PresentKept
  <2>3. t = ChildThread => fork \in {"init", "followed"}
    BY <2>1, BreakpointAssumption
  <2>4. ASSUME UNCHANGED <<bpm, dr_regs, index_hash, temp_breakpoint, stale>>,
               last_breakpoint_id' >= last_breakpoint_id,
               fork' \in {"init", "followed"} <=> fork \in {"init", "followed"}
        PROVE  CountInv'
    BY <1>1, <2>2, <2>4, CountsUntouched
  <2>5. ASSUME UNCHANGED <<tables, index_hash, temp_breakpoint, stale, fork>> PROVE CountInv'
    BY <1>2, <2>4, <2>5 DEF tables
  <2>6. ASSUME NEW ids \in SUBSET Ids, RemoveIndices (t, ids), UNCHANGED <<temp_breakpoint, fork>>,
               \A i \in ids : index_hash[Proc (t)][i] # NoHandle
        PROVE  CountInv'
    <3>1. PICK S \in SUBSET ids, F \in SUBSET ids :
             /\ RemoveCalls (t, S \cup F)
             /\ index_hash' = [index_hash EXCEPT ![Proc (t)] =
                                  [i \in Ids |-> IF i \in S THEN NoHandle ELSE @[i]]]
             /\ stale' = [stale EXCEPT ![Proc (t)] = @ \cup F]
      BY <2>6 DEF RemoveIndices
    <3>2. S \in SUBSET Ids /\ F \in SUBSET Ids /\ \A i \in S \cup F : index_hash[Proc (t)][i] # NoHandle
      BY <2>6
    <3> QED
      BY <1>1, <2>2, <2>6, <3>1, <3>2, CountsRemoved
  <2>7. ASSUME NEW ids \in SUBSET Ids, RemoveCalls (t, ids), UNCHANGED <<index_hash, temp_breakpoint>>,
               stale' = [stale EXCEPT ![Proc (t)] = @ \cup ids],
               fork' \in {"init", "followed"} <=> fork \in {"init", "followed"},
               \A i \in ids : index_hash[Proc (t)][i] # NoHandle
        PROVE  CountInv'
    <3>1. PICK S \in SUBSET Ids : S = {}
      OBVIOUS
    <3>2. index_hash' = [index_hash EXCEPT ![Proc (t)] =
                            [i \in Ids |-> IF i \in S THEN NoHandle ELSE @[i]]]
      BY <1>1, <2>1, <2>7, <3>1 DEF TypeOK
    <3>3. S \cup ids = ids
      BY <3>1
    <3>4. RemoveCalls (t, S \cup ids) /\ \A i \in S \cup ids : index_hash[Proc (t)][i] # NoHandle
      BY <2>7, <3>3
    <3> QED
      BY <1>1, <2>2, <2>7, <3>2, <3>4, CountsRemoved
  <2>8. ASSUME NEW h \in Handles, RemoveBreakpoint (t, h) PROVE CountInv'
    <3>1. /\ IndicesOf (Proc (t), h) \in SUBSET Ids
          /\ \A i \in IndicesOf (Proc (t), h) : index_hash[Proc (t)][i] # NoHandle
      BY BreakpointAssumption DEF IndicesOf
    <3> QED
      BY <2>6, <2>8, <3>1 DEF RemoveBreakpoint
  <2>9. CASE DomainUnload (t)
    <3> DEFINE ids == UNION {IndicesOf (Proc (t), h) : h \in FunctionHandles}
    <3>1. ids \in SUBSET Ids /\ \A i \in ids : index_hash[Proc (t)][i] # NoHandle
      BY BreakpointAssumption DEF IndicesOf, Handles
    <3>2. RemoveIndices (t, ids) /\ UNCHANGED <<temp_breakpoint, fork>>
      BY <2>9 DEF DomainUnload
    <3> HIDE DEF ids
    <3> QED
      BY <2>6, <3>1, <3>2
  <2>10. CASE Detach (t)
    <3> DEFINE ids == {i \in Ids : index_hash["parent"][i] # NoHandle}
    <3>1. Proc (t) = "parent"
      BY <1>1, <2>1, <2>10 DEF Detach, ForkInv
    <3>2. /\ ids \in SUBSET Ids /\ \A i \in ids : index_hash[Proc (t)][i] # NoHandle
      BY <3>1
    <3>3. /\ RemoveCalls (t, ids) /\ UNCHANGED <<index_hash, temp_breakpoint, fork>>
          /\ stale' = [stale EXCEPT ![Proc (t)] = @ \cup ids]
      BY <2>10, <3>1 DEF Detach
    <3> HIDE DEF ids
    <3> QED
      BY <2>7, <3>2, <3>3
  <2>11. CASE InitializeAfterFork (t)
    <3> DEFINE ids == UNION {IndicesOf ("child", h) : h \in NonGlobal}
    <3>1. Proc (t) = "child" /\ fork = "init" /\ fork' = "followed"
      BY <1>1, <2>11, ProcType DEF InitializeAfterFork, ForkInv
    <3>2. ids \in SUBSET Ids /\ \A i \in ids : index_hash[Proc (t)][i] # NoHandle
      BY <3>1, BreakpointAssumption DEF IndicesOf
    <3>3. /\ RemoveCalls (t, ids) /\ UNCHANGED <<index_hash, temp_breakpoint>>
          /\ stale' = [stale EXCEPT ![Proc (t)] = @ \cup ids]
      BY <2>11, <3>1 DEF InitializeAfterFork
    <3> HIDE DEF ids
    <3> QED
      BY <2>7, <3>1, <3>2, <3>3
  <2>12. ASSUME NEW h \in Handles, NEW a \in Addresses, InsertBreakpoint (t, h, a) PROVE CountInv'
    <3>1. /\ h \in Handles \ WatchHandles /\ UNCHANGED <<temp_breakpoint, fork, stale, run>>
          /\ LookupBreakpoint (Proc (t), a) = NoHandle
      BY <2>12 DEF InsertBreakpoint, MayInsert
    <3>2. CASE AddReference (Proc (t), a) /\ Register (Proc (t), bpm[Proc (t)][a].id, h)
      <4>1. Owned (t, bpm[Proc (t)][a].id, Handles \ WatchHandles)
        BY <3>1, <3>2 DEF Owned, Register, AddReference, LookupBreakpoint
      <4> QED
        BY <1>1, <2>2, <2>3, <3>1, <3>2, <4>1, CountsShared
    <3>3. CASE NewBreakpoint (t, a) /\ Register (Proc (t), last_breakpoint_id + 1, h)
      <4>1. NewId
        BY <3>3 DEF NewBreakpoint
      <4>2. PICK n \in Ids : n = last_breakpoint_id + 1
        BY <1>1, <4>1, NextId DEF Ids
      <4>3. index_hash[Proc (t)][n] = NoHandle
        BY <1>1, <2>1, <4>2, FreshId DEF CountInv
      <4>4. Owned (t, last_breakpoint_id + 1, Handles \ WatchHandles)
        BY <3>1, <3>3, <4>2, <4>3 DEF Owned, Register
      <4> QED
        BY <1>1, <2>2, <2>3, <3>1, <3>3, <4>4, CountsNew
    <3>4. CASE InsertFails (t, a) /\ UNCHANGED index_hash
      BY <1>2, <2>4, <3>1, <3>4 DEF InsertFails, NewId
    <3> QED
      BY <2>12, <3>2, <3>3, <3>4 DEF InsertBreakpoint
  <2>13. ASSUME NEW h \in Handles, NEW a \in Addresses, InsertWatchpoint (t, h, a) PROVE CountInv'
    <3>1. /\ h \in WatchHandles /\ NewHardware (t) /\ Register (Proc (t), last_breakpoint_id + 1, h)
          /\ UNCHANGED <<temp_breakpoint, fork, stale>>
      BY <2>13 DEF InsertWatchpoint
    <3>2. NewId
      BY <3>1 DEF NewHardware
    <3>3. PICK n \in Ids : n = last_breakpoint_id + 1
      BY <1>1, <3>2, NextId DEF Ids
    <3>4. index_hash[Proc (t)][n] = NoHandle
      BY <1>1, <2>1, <3>3, FreshId DEF CountInv
    <3>5. Owned (t, last_breakpoint_id + 1, WatchHandles)
      BY <3>1, <3>3, <3>4 DEF Owned, Register
    <3> QED
      BY <1>1, <2>2, <2>3, <3>1, <3>5, CountsHardware
  <2>14. CASE ContinueUntil (t)
    <3>1. /\ until[t] \in Addresses /\ temp_breakpoint[t] = 0 /\ UNCHANGED <<index_hash, fork, stale>>
      BY <1>1, <2>14 DEF ContinueUntil, EnginesType
    <3>2. CASE NewHardware (t) /\ temp_breakpoint' = [temp_breakpoint EXCEPT ![t] = last_breakpoint_id + 1]
      <4>1. Owned (t, last_breakpoint_id + 1, WatchHandles)
        BY <3>1, <3>2 DEF Owned
      <4> QED
        BY <1>1, <2>2, <2>3, <3>1, <3>2, <4>1, CountsHardware
    <3>3. CASE /\ AddReference (Proc (t), until[t])
               /\ temp_breakpoint' = [temp_breakpoint EXCEPT ![t] = bpm[Proc (t)][until[t]].id]
      <4>1. Owned (t, bpm[Proc (t)][until[t]].id, Handles \ WatchHandles)
        BY <3>1, <3>3 DEF Owned
      <4> QED
        BY <1>1, <2>2, <2>3, <3>1, <3>3, <4>1, CountsShared
    <3>4. CASE /\ NewBreakpoint (t, until[t])
               /\ temp_breakpoint' = [temp_breakpoint EXCEPT ![t] = last_breakpoint_id + 1]
      <4>1. Owned (t, last_breakpoint_id + 1, Handles \ WatchHandles)
        BY <3>1, <3>4 DEF Owned
      <4> QED
        BY <1>1, <2>2, <2>3, <3>1, <3>4, <4>1, CountsNew
    <3>5. CASE InsertFails (t, until[t]) /\ UNCHANGED temp_breakpoint
      BY <1>2, <2>4, <3>1, <3>5 DEF InsertFails, NewId
    <3> QED
      BY <2>14, <3>2, <3>3, <3>4, <3>5 DEF ContinueUntil
  <2>15. CASE OperationCompleted (t)
    BY <1>1, <2>2, <2>15, CountsCompleted
  <2>16. CASE ThreadExit (t)
    BY <1>1, <2>2, <2>16, CountsExit
  <2>17. CASE ChildForked (t)
    <3>1. fork \in {"none", "forked"}
      BY <1>1, <2>1, <2>17 DEF ChildForked, ForkInv
    <3> QED
      BY <1>1, <2>2, <2>17, <3>1, CountsForked
  <2>18. CASE Fork (t) \/ DetachAfterFork (t)
    <3>1. /\ UNCHANGED <<bpm, dr_regs, last_breakpoint_id, index_hash, temp_breakpoint, stale>>
          /\ fork \notin {"init", "followed"} /\ fork' \notin {"init", "followed"}
      BY <1>1, <2>1, <2>18 DEF Fork, DetachAfterFork, ForkInv
    <3> QED
      BY <1>2, <2>4, <3>1
  <2>19. ASSUME NEW a \in Addresses, StepOverBreakpoint (t, a) PROVE CountInv'
    <3>1. \A q \in Procs, b \in Addresses :
             bpm'[q][b].id = bpm[q][b].id /\ bpm'[q][b].refcount = bpm[q][b].refcount
      BY <1>1, <2>19, StepOverIds
    <3>2. UNCHANGED <<dr_regs, last_breakpoint_id, index_hash, temp_breakpoint, stale, fork>>
      BY <2>19 DEF StepOverBreakpoint
    <3>3. last_breakpoint_id' >= last_breakpoint_id
      BY <1>2, <3>2
    <3> QED
      BY <1>1, <2>2, <3>1, <3>2, <3>3, CountsUntouched
  <2>20. CASE EnableBreakpoint (t)
    <3>1. \A q \in Procs, b \in Addresses :
             bpm'[q][b].id = bpm[q][b].id /\ bpm'[q][b].refcount = bpm[q][b].refcount
      BY <1>1, <2>20, EnableIds
    <3>2. UNCHANGED <<dr_regs, last_breakpoint_id, index_hash, temp_breakpoint, stale, fork>>
      BY <2>20 DEF EnableBreakpoint
    <3>3. last_breakpoint_id' >= last_breakpoint_id
      BY <1>2, <3>2
    <3> QED
      BY <1>1, <2>2, <3>1, <3>2, <3>3, CountsUntouched
  <2>21. ASSUME NEW u \in Addresses \cup {NoAddress}, Start (t, u) PROVE CountInv'
    BY <2>5, <2>21 DEF Start
  <2>22. ASSUME NEW a \in Addresses, StepOverRefused (t, a) PROVE CountInv'
    BY <2>5, <2>22 DEF StepOverRefused
  <2>23. CASE DetachLock (t) \/ Report (t) \/ Continue (t)
    BY <2>5, <2>23 DEF DetachLock, Report, Continue
  <2> QED
    BY <1>4, <2>8, <2>9, <2>10, <2>11, <2>12, <2>13, <2>14, <2>15, <2>16, <2>17, <2>18, <2>19,
       <2>20, <2>21, <2>22, <2>23
    DEF Command, Event
<1> QED
  BY <1>3, <1>4 DEF Next

(* The references are counted throughout.                                   *)
LEMMA CountsCorrect == Spec => []CountInv
<1>1. Init => CountInv
  BY InitCounts
<1>2. IInv /\ IInv' /\ CountInv /\ [Next]_vars => CountInv'
  BY NextCounts
<1> QED
  BY <1>1, <1>2, IInvCorrect, PTL DEF Spec

(* A software breakpoint stays in the table, with a reference for each, as  *)
(* long as a handle or a temporary breakpoint uses it.                      *)
THEOREM OwnersCorrect == Spec => []OwnersCounted
<1>1. CountInv => OwnersCounted
  BY DEF CountInv, OwnersCounted, Tracked, Counts, Exists
<1> QED
  BY <1>1, CountsCorrect, PTL
=============================================================================
