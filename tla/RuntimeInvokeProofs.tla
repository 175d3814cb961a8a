------------------------ MODULE RuntimeInvokeProofs ------------------------
(***************************************************************************)
(* Theorems about RuntimeInvoke, for any number of calls (MaxIds).         *)
(*                                                                         *)
(* The inductive invariant is RInv.  IDs are given in ascending order, so  *)
(* that the call that begins is the innermost of all (CallsOK, RtisOK,     *)
(* FreshIds); a helper is pushed on its own invocation (OpsOK); the        *)
(* invocation that is current is the last of rti_stack, and it is neither  *)
(* suspended nor done (Current); and whoever has not been told waits for   *)
(* the current one (Waiting).                                              *)
(*                                                                         *)
(* The lemmas about the stacks say what a push and a pop do to the set of  *)
(* the IDs that are on them; the steps of the invariant use nothing else.  *)
(***************************************************************************)
EXTENDS RuntimeInvoke, TLAPS

Calls == [id : Ids, is_rti : BOOLEAN]
Operations == [op : {"run", "rti", "helper", "abort"}, id : Ids \cup {NoId}]
Stages == {"none", "prepare", "compile", "invoked"}
Rtis == [mode : Modes \cup {"none"}, stage : Stages, HasStarted : BOOLEAN,
         AbortRequested : BOOLEAN, IsSuspended : BOOLEAN, done : BOOLEAN, completed : BOOLEAN]

Scalars ==
    /\ state \in {"stopped", "running", "unseen"} /\ sigstop \in BOOLEAN
    /\ engine_stopped \in BOOLEAN
    /\ abort_requested \in 0 .. next_id /\ temp_breakpoint \in Ids \cup {NoId}
    /\ rti \in [Ids -> Rtis]
    /\ next_id \in 0 .. MaxIds

(* The calls that the thread is executing, and the invocations among them;  *)
(* the invocations that the engine has begun, and the innermost of them;    *)
(* and the nested break states.                                             *)
OnCalls (i) == \E k \in DOMAIN callback_stack : callback_stack[k].id = i
IsFrame (i) ==
    \E k \in DOMAIN callback_stack : callback_stack[k].id = i /\ callback_stack[k].is_rti
OnRti (i) == \E k \in DOMAIN rti_stack : rti_stack[k] = i
RtiTop (i) == rti_stack # <<>> /\ Last (rti_stack) = i
OnNested (i) == \E k \in DOMAIN nested_break_stack : nested_break_stack[k] = i

(* A call that begins gets an ID that nobody else has.                      *)
CallsOK ==
    /\ callback_stack \in Seq (Calls) /\ Ascending (CallIds)
    /\ \A k \in DOMAIN callback_stack : callback_stack[k].id <= next_id

RtisOK ==
    /\ rti_stack \in Seq (Ids) /\ Ascending (rti_stack)
    /\ \A k \in DOMAIN rti_stack : rti_stack[k] <= next_id

NestedOK == nested_break_stack \in Seq (Ids) /\ Ascending (nested_break_stack)

FreshIds == \A i \in Ids : next_id < i => rti[i] = NoRti

(* An invocation is at the bottom of the operations, with its helper right  *)
(* on it; a step is never pushed.                                           *)
OpsOK ==
    /\ ops \in Seq (Operations)
    /\ \A k \in DOMAIN ops :
        /\ ops[k].op \in {"rti", "run"} => k = 1
        /\ ops[k].op = "rti" => ops[k].id \in Ids
        /\ ops[k].op = "helper" => k = 2 /\ ops[1] = Op ("rti", ops[k].id)

IsCurrent (i) == ops # <<>> /\ ops[1] = Op ("rti", i)

Current ==
    dead = "no" => \A i \in Ids : IsCurrent (i) =>
        ~engine_stopped /\ ~rti[i].done /\ ~rti[i].IsSuspended /\ RtiTop (i)

(* Whoever waits for a result.                                              *)
Waiting ==
    dead = "no" => \A i \in Ids : rti[i].mode # "none" =>
        \/ rti[i].completed
        \/ rti[i].IsSuspended /\ ~rti[i].done
        \/ state = "running" /\ IsCurrent (i)

Temporary ==
    temp_breakpoint # NoId /\ dead = "no" => state = "running" /\ IsCurrent (temp_breakpoint)

(* StacksAgree, NestedAgree and DoneIsGone, one ID at a time.               *)
FramesAgree ==
    dead = "no" => \A i \in Ids : IsFrame (i) <=> OnRti (i) /\ rti[i].stage = "invoked"
SuspendedAgree ==
    dead = "no" => \A i \in Ids : OnNested (i) <=> OnRti (i) /\ rti[i].IsSuspended
DoneGone == \A i \in Ids : rti[i].done => ~OnCalls (i)

RInv ==
    /\ Scalars /\ CallsOK /\ RtisOK /\ NestedOK /\ FreshIds /\ OpsOK
    /\ Current /\ Waiting /\ Temporary /\ FramesAgree /\ SuspendedAgree /\ DoneGone

-----------------------------------------------------------------------------
(* Sequences: what Append, Front and a replaced last element do.            *)

LEMMA Pushed ==
    ASSUME NEW S, NEW s \in Seq (S), NEW e \in S
    PROVE  /\ Append (s, e) \in Seq (S) /\ Append (s, e) # <<>>
           /\ Len (Append (s, e)) = Len (s) + 1
           /\ DOMAIN Append (s, e) = 1 .. Len (s) + 1 /\ DOMAIN s = 1 .. Len (s)
           /\ \A k \in 1 .. Len (s) : Append (s, e)[k] = s[k]
           /\ Append (s, e)[Len (s) + 1] = e
           /\ Len (s) \in Nat /\ \A k \in 1 .. Len (s) : s[k] \in S
  <1>1. Len (s) \in Nat /\ DOMAIN s = 1 .. Len (s) /\ \A k \in 1 .. Len (s) : s[k] \in S
    OBVIOUS
  <1>2. Append (s, e) \in Seq (S) /\ Len (Append (s, e)) = Len (s) + 1
    OBVIOUS
  <1>3. Append (s, e) # <<>>
    BY <1>1, <1>2
  <1>4. DOMAIN Append (s, e) = 1 .. Len (s) + 1
    BY <1>2
  <1>5. /\ \A k \in 1 .. Len (s) : Append (s, e)[k] = s[k]
        /\ Append (s, e)[Len (s) + 1] = e
    OBVIOUS
  <1> QED  BY <1>1, <1>2, <1>3, <1>4, <1>5

LEMMA Popped ==
    ASSUME NEW S, NEW s \in Seq (S), s # <<>>
    PROVE  /\ Front (s) \in Seq (S)
           /\ Len (s) \in Nat \ {0} /\ Len (Front (s)) = Len (s) - 1
           /\ DOMAIN Front (s) = 1 .. Len (s) - 1 /\ DOMAIN s = 1 .. Len (s)
           /\ \A k \in 1 .. Len (s) - 1 : Front (s)[k] = s[k]
           /\ Last (s) = s[Len (s)] /\ Last (s) \in S
           /\ \A k \in 1 .. Len (s) : s[k] \in S
  <1>1. /\ Len (s) \in Nat \ {0} /\ DOMAIN s = 1 .. Len (s)
        /\ \A k \in 1 .. Len (s) : s[k] \in S
    OBVIOUS
  <1>2. /\ Front (s) \in Seq (S) /\ Len (Front (s)) = Len (s) - 1
        /\ \A k \in 1 .. Len (s) - 1 : Front (s)[k] = s[k]
    BY <1>1 DEF Front
  <1>3. DOMAIN Front (s) = 1 .. Len (s) - 1
    BY <1>2
  <1> QED  BY <1>1, <1>2, <1>3 DEF Last

LEMMA Replaced ==
    ASSUME NEW S, NEW s \in Seq (S), s # <<>>, NEW e \in S
    PROVE  /\ Append (Front (s), e) \in Seq (S) /\ DOMAIN Append (Front (s), e) = DOMAIN s
           /\ \A k \in 1 .. Len (s) - 1 : Append (Front (s), e)[k] = s[k]
           /\ Append (Front (s), e)[Len (s)] = e
  <1> DEFINE f == Front (s)
  <1>1. /\ f \in Seq (S) /\ Len (f) = Len (s) - 1 /\ Len (s) \in Nat \ {0}
        /\ DOMAIN s = 1 .. Len (s)
        /\ \A k \in 1 .. Len (s) - 1 : f[k] = s[k]
    BY Popped
  <1> HIDE DEF f
  <1>2. /\ Append (f, e) \in Seq (S) /\ DOMAIN Append (f, e) = 1 .. Len (f) + 1
        /\ \A k \in 1 .. Len (f) : Append (f, e)[k] = f[k]
        /\ Append (f, e)[Len (f) + 1] = e
    BY <1>1, Pushed
  <1>3. Len (f) + 1 = Len (s)
    BY <1>1
  <1> QED  BY <1>1, <1>2, <1>3 DEF f

(* An invocation is changed.                                                *)
LEMMA Update ==
    ASSUME NEW r \in [Ids -> Rtis], NEW i \in Ids, NEW x \in Rtis
    PROVE  /\ [r EXCEPT ![i] = x] \in [Ids -> Rtis] /\ [r EXCEPT ![i] = x][i] = x
           /\ \A j \in Ids : j # i => [r EXCEPT ![i] = x][j] = r[j]
  OBVIOUS

-----------------------------------------------------------------------------
(* callback_stack.                                                          *)

(* A new call is the innermost, and it is not an invocation yet.            *)
LEMMA CallPushed ==
    ASSUME Scalars, CallsOK, next_id < MaxIds, next_id' = next_id + 1,
           callback_stack' = Append (callback_stack, Call (next_id', FALSE))
    PROVE  /\ CallsOK'
           /\ \A i \in Ids : OnCalls (i)' <=> OnCalls (i) \/ i = next_id'
           /\ \A i \in Ids : IsFrame (i)' <=> IsFrame (i)
           /\ ~OnCalls (next_id') /\ ~IsFrame (next_id')
  <1> DEFINE c == Call (next_id', FALSE)
             n == Len (callback_stack)
             s == callback_stack
             t == callback_stack'
  <1>1. next_id' \in Ids /\ next_id \in Nat /\ MaxIds \in Nat
    BY RuntimeInvokeAssumption DEF Scalars, Ids
  <1>2. c \in Calls /\ c.id = next_id' /\ c.is_rti = FALSE
    BY <1>1 DEF Calls, Call
  <1> HIDE DEF c
  <1>3. /\ t \in Seq (Calls) /\ DOMAIN t = 1 .. n + 1 /\ DOMAIN s = 1 .. n
        /\ \A k \in 1 .. n : t[k] = s[k] /\ s[k] \in Calls
        /\ t[n + 1] = c /\ n \in Nat
    <2>1. s \in Seq (Calls) /\ t = Append (s, c)
      BY DEF CallsOK, c
    <2> HIDE DEF s, t, n
    <2> QED  BY <2>1, <1>2, Pushed DEF n, s
  <1>4. \A k \in 1 .. n : s[k].id \in Ids /\ s[k].id <= next_id /\ s[k].id < next_id'
    BY <1>1, <1>3 DEF CallsOK, Calls, Ids
  <1>5. \A j, k \in 1 .. n : j < k => s[j].id < s[k].id
    BY <1>3 DEF CallsOK, Ascending, CallIds
  <1> HIDE DEF n, s, t
  <1>6. \A k \in 1 .. n + 1 : t[k].id <= next_id'
    BY <1>1, <1>2, <1>3, <1>4 DEF Ids
  <1>7. \A j, k \in 1 .. n + 1 : j < k => t[j].id < t[k].id
    <2> TAKE j, k \in 1 .. n + 1
    <2> HAVE j < k
    <2>1. CASE k = n + 1
      BY <2>1, <1>2, <1>3, <1>4
    <2>2. CASE k # n + 1
      BY <2>2, <1>3, <1>5
    <2> QED  BY <2>1, <2>2
  <1>8. CallsOK'
    <2>1. Ascending (CallIds)'
      BY <1>3, <1>7 DEF Ascending, CallIds, t
    <2> QED  BY <1>3, <1>6, <2>1 DEF CallsOK, t
  <1>9. ASSUME NEW i \in Ids
        PROVE  /\ OnCalls (i)' <=> OnCalls (i) \/ i = next_id'
               /\ IsFrame (i)' <=> IsFrame (i)
    <2>1. OnCalls (i)' <=> \E k \in 1 .. n + 1 : t[k].id = i
      BY <1>3 DEF OnCalls, t
    <2>2. OnCalls (i) <=> \E k \in 1 .. n : s[k].id = i
      BY <1>3 DEF OnCalls, s
    <2>3. IsFrame (i)' <=> \E k \in 1 .. n + 1 : t[k].id = i /\ t[k].is_rti
      BY <1>3 DEF IsFrame, t
    <2>4. IsFrame (i) <=> \E k \in 1 .. n : s[k].id = i /\ s[k].is_rti
      BY <1>3 DEF IsFrame, s
    <2>5. n + 1 \in 1 .. n + 1 /\ \A k \in 1 .. n + 1 : k = n + 1 \/ k \in 1 .. n
      BY <1>3
    <2>6. \A k \in 1 .. n : k \in 1 .. n + 1
      BY <1>3
    <2> QED  BY <1>2, <1>3, <2>1, <2>2, <2>3, <2>4, <2>5, <2>6
  <1>10. ~OnCalls (next_id') /\ ~IsFrame (next_id')
    BY <1>1, <1>3, <1>4 DEF OnCalls, IsFrame, s, Ids
  <1> QED  BY <1>8, <1>9, <1>10

(* The innermost call returns.                                              *)
LEMMA CallPopped ==
    ASSUME Scalars, CallsOK, callback_stack # <<>>, UNCHANGED next_id,
           callback_stack' = Front (callback_stack)
    PROVE  /\ CallsOK'
           /\ Last (callback_stack) \in Calls
           /\ \A i \in Ids : OnCalls (i)' <=> OnCalls (i) /\ i # Last (callback_stack).id
           /\ \A i \in Ids : IsFrame (i)' <=> IsFrame (i) /\ i # Last (callback_stack).id
           /\ IsFrame (Last (callback_stack).id) <=> Last (callback_stack).is_rti
           /\ OnCalls (Last (callback_stack).id)
  <1> DEFINE n == Len (callback_stack)
             s == callback_stack
             t == callback_stack'
             l == Last (callback_stack)
  <1>1. /\ t \in Seq (Calls) /\ n \in Nat \ {0} /\ DOMAIN t = 1 .. n - 1 /\ DOMAIN s = 1 .. n
        /\ \A k \in 1 .. n - 1 : t[k] = s[k]
        /\ \A k \in 1 .. n : s[k] \in Calls
        /\ l = s[n] /\ l \in Calls
    BY Popped DEF CallsOK
  <1>2. \A k \in 1 .. n : s[k].id \in Ids /\ s[k].id <= next_id
    BY <1>1 DEF CallsOK, Calls
  <1>3. \A j, k \in 1 .. n : j < k => s[j].id < s[k].id
    BY <1>1 DEF CallsOK, Ascending, CallIds
  <1> HIDE DEF n, s, t, l
  <1>4. \A k \in 1 .. n : s[k].id = l.id <=> k = n
    <2> TAKE k \in 1 .. n
    <2>1. n \in 1 .. n /\ (k = n \/ k < n)
      BY <1>1
    <2>2. s[k].id \in Int /\ s[n].id \in Int
      BY <1>2, <2>1, RuntimeInvokeAssumption DEF Ids
    <2> QED  BY <1>1, <1>3, <2>1, <2>2
  <1>5. CallsOK'
    <2>1. Ascending (CallIds)'
      BY <1>1, <1>3 DEF Ascending, CallIds, t
    <2>2. \A k \in 1 .. n - 1 : t[k].id <= next_id'
      BY <1>1, <1>2
    <2> QED  BY <1>1, <2>1, <2>2 DEF CallsOK, t
  <1>6. ASSUME NEW i \in Ids
        PROVE  /\ OnCalls (i)' <=> OnCalls (i) /\ i # l.id
               /\ IsFrame (i)' <=> IsFrame (i) /\ i # l.id
    <2>1. OnCalls (i)' <=> \E k \in 1 .. n - 1 : t[k].id = i
      BY <1>1 DEF OnCalls, t
    <2>2. OnCalls (i) <=> \E k \in 1 .. n : s[k].id = i
      BY <1>1 DEF OnCalls, s
    <2>3. IsFrame (i)' <=> \E k \in 1 .. n - 1 : t[k].id = i /\ t[k].is_rti
      BY <1>1 DEF IsFrame, t
    <2>4. IsFrame (i) <=> \E k \in 1 .. n : s[k].id = i /\ s[k].is_rti
      BY <1>1 DEF IsFrame, s
    <2>5. \A k \in 1 .. n : k = n \/ k \in 1 .. n - 1
      BY <1>1
    <2>6. \A k \in 1 .. n - 1 : k \in 1 .. n /\ k # n
      BY <1>1
    <2> QED  BY <1>1, <1>4, <2>1, <2>2, <2>3, <2>4, <2>5, <2>6
  <1>7. (IsFrame (l.id) <=> l.is_rti) /\ OnCalls (l.id)
    <2>1. n \in 1 .. n
      BY <1>1
    <2> QED  BY <2>1, <1>1, <1>4 DEF IsFrame, OnCalls, s
  <1> QED  BY <1>1, <1>5, <1>6, <1>7 DEF l

(* The helper's call is replaced by the invocation itself.                  *)
LEMMA CallReplaced ==
    ASSUME Scalars, CallsOK, callback_stack # <<>>, UNCHANGED next_id, NEW i \in Ids,
           Last (callback_stack).id = i,
           callback_stack' = Append (Front (callback_stack), Call (i, TRUE))
    PROVE  /\ CallsOK'
           /\ \A j \in Ids : OnCalls (j)' <=> OnCalls (j)
           /\ \A j \in Ids : IsFrame (j)' <=> IsFrame (j) \/ j = i
           /\ OnCalls (i)
  <1> DEFINE c == Call (i, TRUE)
             n == Len (callback_stack)
             s == callback_stack
             t == callback_stack'
  <1>1. c \in Calls /\ c.id = i /\ c.is_rti
    BY DEF Call, Calls
  <1> HIDE DEF c
  <1>2. /\ n \in Nat \ {0} /\ DOMAIN s = 1 .. n /\ s[n].id = i
        /\ \A k \in 1 .. n : s[k] \in Calls
    <2>1. s \in Seq (Calls) /\ s # <<>> /\ Last (s).id = i /\ n = Len (s)
      BY DEF CallsOK
    <2> HIDE DEF s, n
    <2>2. /\ Len (s) \in Nat \ {0} /\ DOMAIN s = 1 .. Len (s) /\ Last (s) = s[Len (s)]
          /\ \A k \in 1 .. Len (s) : s[k] \in Calls
      BY <2>1, Popped
    <2> QED  BY <2>1, <2>2
  <1>3. /\ t \in Seq (Calls) /\ DOMAIN t = 1 .. n
        /\ \A k \in 1 .. n - 1 : t[k] = s[k]
        /\ t[n] = c
    <2>1. s \in Seq (Calls) /\ t = Append (Front (s), c) /\ s # <<>> /\ n = Len (s)
      BY DEF CallsOK, c
    <2> HIDE DEF s, t, n
    <2>2. /\ Append (Front (s), c) \in Seq (Calls) /\ DOMAIN Append (Front (s), c) = DOMAIN s
          /\ \A k \in 1 .. Len (s) - 1 : Append (Front (s), c)[k] = s[k]
          /\ Append (Front (s), c)[Len (s)] = c
      BY <2>1, <1>1, Replaced
    <2> QED  BY <2>1, <2>2, <1>2
  <1>4. \A k \in 1 .. n : s[k].id \in Ids /\ s[k].id <= next_id
    BY <1>2 DEF CallsOK, Calls
  <1>5. \A j, k \in 1 .. n : j < k => s[j].id < s[k].id
    BY <1>2 DEF CallsOK, Ascending, CallIds
  <1> HIDE DEF n, s, t
  <1>6. \A k \in 1 .. n : t[k].id = s[k].id
    <2> TAKE k \in 1 .. n
    <2>1. k = n \/ k \in 1 .. n - 1
      BY <1>2
    <2> QED  BY <2>1, <1>1, <1>2, <1>3
  <1>7. \A k \in 1 .. n : s[k].id = i <=> k = n
    <2> TAKE k \in 1 .. n
    <2>1. n \in 1 .. n /\ (k = n \/ k < n)
      BY <1>2
    <2>2. s[k].id \in Int /\ s[n].id \in Int
      BY <1>4, <2>1, RuntimeInvokeAssumption DEF Ids
    <2> QED  BY <1>2, <1>5, <2>1, <2>2
  <1>8. CallsOK'
    <2>1. \A j, k \in 1 .. n : j < k => t[j].id < t[k].id
      BY <1>5, <1>6
    <2>2. Ascending (CallIds)'
      BY <1>3, <2>1 DEF Ascending, CallIds, t
    <2>3. \A k \in 1 .. n : t[k].id <= next_id'
      BY <1>4, <1>6
    <2> QED  BY <1>3, <2>2, <2>3 DEF CallsOK, t
  <1>9. (\A j \in Ids : OnCalls (j)' <=> OnCalls (j)) /\ OnCalls (i)
    <2>1. n \in 1 .. n
      BY <1>2
    <2>2. \A j \in Ids : OnCalls (j)' <=> \E k \in 1 .. n : t[k].id = j
      BY <1>3 DEF OnCalls, t
    <2>3. \A j \in Ids : OnCalls (j) <=> \E k \in 1 .. n : s[k].id = j
      BY <1>2 DEF OnCalls, s
    <2> QED  BY <2>1, <2>2, <2>3, <1>2, <1>6
  <1>10. ASSUME NEW j \in Ids
         PROVE  IsFrame (j)' <=> IsFrame (j) \/ j = i
    <2>1. IsFrame (j)' <=> \E k \in 1 .. n : t[k].id = j /\ t[k].is_rti
      BY <1>3 DEF IsFrame, t
    <2>2. IsFrame (j) <=> \E k \in 1 .. n : s[k].id = j /\ s[k].is_rti
      BY <1>2 DEF IsFrame, s
    <2>3. n \in 1 .. n /\ \A k \in 1 .. n : k = n \/ k \in 1 .. n - 1
      BY <1>2
    <2> QED  BY <2>1, <2>2, <2>3, <1>1, <1>3, <1>6, <1>7
  <1> QED  BY <1>8, <1>9, <1>10

LEMMA CallsKept ==
    ASSUME CallsOK, UNCHANGED callback_stack, UNCHANGED next_id
    PROVE  /\ CallsOK'
           /\ \A i \in Ids : (OnCalls (i)' <=> OnCalls (i)) /\ (IsFrame (i)' <=> IsFrame (i))
  BY DEF CallsOK, OnCalls, IsFrame, Ascending, CallIds

-----------------------------------------------------------------------------
(* rti_stack and nested_break_stack.                                        *)

(* What a push of a greatest ID, and a pop, do to a stack of IDs.           *)
LEMMA AscendingPushed ==
    ASSUME NEW s \in Seq (Ids), Ascending (s), NEW e \in Ids, \A k \in DOMAIN s : s[k] < e
    PROVE  /\ Append (s, e) \in Seq (Ids) /\ Ascending (Append (s, e))
           /\ Append (s, e) # <<>> /\ Last (Append (s, e)) = e
           /\ \A i \in Ids : (\E k \in DOMAIN Append (s, e) : Append (s, e)[k] = i)
                               <=> (\E k \in DOMAIN s : s[k] = i) \/ i = e
           /\ \A m \in Nat : e <= m /\ (\A k \in DOMAIN s : s[k] <= m)
                               => \A k \in DOMAIN Append (s, e) : Append (s, e)[k] <= m
  <1> DEFINE t == Append (s, e)
             n == Len (s)
  <1>1. /\ t \in Seq (Ids) /\ t # <<>> /\ Len (t) = n + 1
        /\ DOMAIN t = 1 .. n + 1 /\ DOMAIN s = 1 .. n
        /\ \A k \in 1 .. n : t[k] = s[k] /\ s[k] \in Ids
        /\ t[n + 1] = e /\ n \in Nat
    BY Pushed
  <1>2. \A i \in Ids : i \in Int
    BY RuntimeInvokeAssumption DEF Ids
  <1> HIDE DEF t, n
  <1>3. \A k \in 1 .. n + 1 : k = n + 1 \/ k \in 1 .. n
    BY <1>1
  <1>4. (\A k \in 1 .. n : k \in 1 .. n + 1) /\ n + 1 \in 1 .. n + 1
    BY <1>1
  <1>5. Ascending (t)
    <2> SUFFICES ASSUME NEW j \in 1 .. n + 1, NEW k \in 1 .. n + 1, j < k
                 PROVE  t[j] < t[k]
      BY <1>1 DEF Ascending
    <2>1. CASE k = n + 1
      BY <2>1, <1>1
    <2>2. CASE k # n + 1
      BY <2>2, <1>1 DEF Ascending
    <2> QED  BY <2>1, <2>2
  <1>6. Last (t) = e
    BY <1>1 DEF Last
  <1>7. ASSUME NEW i \in Ids
        PROVE  (\E k \in DOMAIN t : t[k] = i) <=> (\E k \in DOMAIN s : s[k] = i) \/ i = e
    BY <1>1, <1>3, <1>4
  <1>8. ASSUME NEW m \in Nat, e <= m, \A k \in DOMAIN s : s[k] <= m, NEW k \in DOMAIN t
        PROVE  t[k] <= m
    BY <1>8, <1>1, <1>3
  <1> QED  BY <1>1, <1>5, <1>6, <1>7, <1>8 DEF t

LEMMA AscendingPopped ==
    ASSUME NEW s \in Seq (Ids), Ascending (s), s # <<>>
    PROVE  /\ Front (s) \in Seq (Ids) /\ Ascending (Front (s)) /\ Last (s) \in Ids
           /\ \A i \in Ids : (\E k \in DOMAIN Front (s) : Front (s)[k] = i)
                               <=> (\E k \in DOMAIN s : s[k] = i) /\ i # Last (s)
           /\ \E k \in DOMAIN s : s[k] = Last (s)
           /\ \A k \in DOMAIN s : s[k] <= Last (s)
           /\ \A m \in Nat : (\A k \in DOMAIN s : s[k] <= m)
                               => \A k \in DOMAIN Front (s) : Front (s)[k] <= m
  <1> DEFINE t == Front (s)
             n == Len (s)
             l == Last (s)
  <1>1. /\ t \in Seq (Ids) /\ DOMAIN t = 1 .. n - 1 /\ DOMAIN s = 1 .. n
        /\ \A k \in 1 .. n - 1 : t[k] = s[k]
        /\ \A k \in 1 .. n : s[k] \in Ids
        /\ l = s[n] /\ l \in Ids /\ n \in Nat \ {0}
    BY Popped
  <1>2. \A i \in Ids : i \in Int
    BY RuntimeInvokeAssumption DEF Ids
  <1>3. \A j, k \in 1 .. n : j < k => s[j] < s[k]
    BY <1>1 DEF Ascending
  <1> HIDE DEF t, n, l
  <1>4. \A k \in 1 .. n : k = n \/ k \in 1 .. n - 1
    BY <1>1
  <1>5. (\A k \in 1 .. n - 1 : k \in 1 .. n /\ k < n /\ k # n) /\ n \in 1 .. n
    BY <1>1
  <1>6. \A k \in 1 .. n - 1 : s[k] < l
    BY <1>1, <1>3, <1>5
  <1>7. \A k \in 1 .. n : s[k] <= l /\ (s[k] = l <=> k = n)
    <2> TAKE k \in 1 .. n
    <2>1. CASE k = n
      BY <2>1, <1>1, <1>2
    <2>2. CASE k # n
      BY <2>2, <1>1, <1>2, <1>4, <1>6
    <2> QED  BY <2>1, <2>2
  <1>8. Ascending (t)
    BY <1>1, <1>3, <1>5 DEF Ascending
  <1>9. ASSUME NEW i \in Ids
        PROVE  (\E k \in DOMAIN t : t[k] = i) <=> (\E k \in DOMAIN s : s[k] = i) /\ i # l
    BY <1>1, <1>4, <1>5, <1>7
  <1>10. ASSUME NEW m \in Nat, \A k \in DOMAIN s : s[k] <= m, NEW k \in DOMAIN t
         PROVE  t[k] <= m
    BY <1>10, <1>1, <1>5
  <1>11. (\E k \in DOMAIN s : s[k] = l) /\ \A k \in DOMAIN s : s[k] <= l
    BY <1>1, <1>5, <1>7
  <1> QED  BY <1>1, <1>8, <1>9, <1>10, <1>11 DEF t, l

(* A new invocation is the innermost.                                       *)
LEMMA RtiPushed ==
    ASSUME Scalars, RtisOK, next_id < MaxIds, next_id' = next_id + 1,
           rti_stack' = Append (rti_stack, next_id')
    PROVE  /\ RtisOK' /\ ~OnRti (next_id')
           /\ \A i \in Ids : OnRti (i)' <=> OnRti (i) \/ i = next_id'
           /\ \A i \in Ids : RtiTop (i)' <=> i = next_id'
  <1>1. next_id' \in Ids /\ next_id \in Nat /\ next_id' \in Nat
    BY RuntimeInvokeAssumption DEF Scalars, Ids
  <1>2. \A k \in DOMAIN rti_stack : rti_stack[k] \in Int /\ rti_stack[k] <= next_id
    BY RuntimeInvokeAssumption DEF RtisOK, Ids
  <1>3. \A k \in DOMAIN rti_stack :
           rti_stack[k] < next_id' /\ rti_stack[k] <= next_id' /\ rti_stack[k] # next_id'
    BY <1>1, <1>2
  <1>4. rti_stack \in Seq (Ids) /\ Ascending (rti_stack) /\ next_id' <= next_id'
    BY <1>1 DEF RtisOK
  <1>5. /\ rti_stack' \in Seq (Ids) /\ Ascending (rti_stack')
        /\ rti_stack' # <<>> /\ Last (rti_stack') = next_id'
        /\ \A i \in Ids : (\E k \in DOMAIN rti_stack' : rti_stack'[k] = i)
                            <=> (\E k \in DOMAIN rti_stack : rti_stack[k] = i) \/ i = next_id'
        /\ \A k \in DOMAIN rti_stack' : rti_stack'[k] <= next_id'
    BY <1>1, <1>3, <1>4, AscendingPushed
  <1>6. Ascending (rti_stack)'
    BY <1>5 DEF Ascending
  <1>7. RtisOK' /\ ~OnRti (next_id')
    BY <1>3, <1>5, <1>6 DEF RtisOK, OnRti
  <1> QED  BY <1>5, <1>7 DEF OnRti, RtiTop

LEMMA RtiPopped ==
    ASSUME Scalars, RtisOK, NEW i, RtiTop (i), UNCHANGED next_id, rti_stack' = Front (rti_stack)
    PROVE  RtisOK' /\ \A j \in Ids : OnRti (j)' <=> OnRti (j) /\ j # i
  <1>1. /\ rti_stack \in Seq (Ids) /\ Ascending (rti_stack)
        /\ rti_stack # <<>> /\ next_id \in Nat /\ i = Last (rti_stack)
        /\ \A k \in DOMAIN rti_stack : rti_stack[k] <= next_id
    BY RuntimeInvokeAssumption DEF RtisOK, RtiTop, Scalars
  <1>2. /\ rti_stack' \in Seq (Ids) /\ Ascending (rti_stack')
        /\ \A j \in Ids : (\E k \in DOMAIN rti_stack' : rti_stack'[k] = j)
                            <=> (\E k \in DOMAIN rti_stack : rti_stack[k] = j) /\ j # i
        /\ \A k \in DOMAIN rti_stack' : rti_stack'[k] <= next_id'
    BY <1>1, AscendingPopped
  <1>3. Ascending (rti_stack)'
    BY <1>2 DEF Ascending
  <1> QED  BY <1>2, <1>3 DEF RtisOK, OnRti

LEMMA RtiTopOn ==
    ASSUME RtisOK, NEW i, RtiTop (i)
    PROVE  i \in Ids /\ OnRti (i) /\ \A j \in Ids : OnRti (j) => j <= i
  <1>1. /\ rti_stack \in Seq (Ids) /\ Ascending (rti_stack)
        /\ rti_stack # <<>> /\ i = Last (rti_stack)
    BY DEF RtisOK, RtiTop
  <1>2. /\ i \in Ids /\ \E k \in DOMAIN rti_stack : rti_stack[k] = i
        /\ \A k \in DOMAIN rti_stack : rti_stack[k] <= i
    BY <1>1, AscendingPopped
  <1> QED  BY <1>2 DEF OnRti

LEMMA RtisKept ==
    ASSUME RtisOK, UNCHANGED rti_stack, UNCHANGED next_id
    PROVE  RtisOK' /\ \A i : (OnRti (i)' <=> OnRti (i)) /\ (RtiTop (i)' <=> RtiTop (i))
  BY DEF RtisOK, OnRti, RtiTop, Ascending

(* The current invocation is suspended inside all others.                   *)
LEMMA NestedPushed ==
    ASSUME NestedOK, NEW i \in Ids, \A j \in Ids : OnNested (j) => j < i,
           nested_break_stack' = Append (nested_break_stack, i)
    PROVE  NestedOK' /\ \A j \in Ids : OnNested (j)' <=> OnNested (j) \/ j = i
  <1>1. nested_break_stack \in Seq (Ids) /\ Ascending (nested_break_stack)
    BY DEF NestedOK
  <1>2. \A k \in DOMAIN nested_break_stack : nested_break_stack[k] < i
    BY <1>1 DEF OnNested
  <1>3. /\ nested_break_stack' \in Seq (Ids) /\ Ascending (nested_break_stack')
        /\ \A j \in Ids : (\E k \in DOMAIN nested_break_stack' : nested_break_stack'[k] = j)
              <=> (\E k \in DOMAIN nested_break_stack : nested_break_stack[k] = j) \/ j = i
    BY <1>1, <1>2, AscendingPushed
  <1>4. Ascending (nested_break_stack)'
    BY <1>3 DEF Ascending
  <1> QED  BY <1>3, <1>4 DEF NestedOK, OnNested

LEMMA NestedPopped ==
    ASSUME NestedOK, NEW i, nested_break_stack # <<>>, Last (nested_break_stack) = i,
           nested_break_stack' = Front (nested_break_stack)
    PROVE  NestedOK' /\ \A j \in Ids : OnNested (j)' <=> OnNested (j) /\ j # i
  <1>1. nested_break_stack \in Seq (Ids) /\ Ascending (nested_break_stack)
    BY DEF NestedOK
  <1>2. /\ nested_break_stack' \in Seq (Ids) /\ Ascending (nested_break_stack')
        /\ \A j \in Ids : (\E k \in DOMAIN nested_break_stack' : nested_break_stack'[k] = j)
              <=> (\E k \in DOMAIN nested_break_stack : nested_break_stack[k] = j) /\ j # i
    BY <1>1, AscendingPopped
  <1>3. Ascending (nested_break_stack)'
    BY <1>2 DEF Ascending
  <1> QED  BY <1>2, <1>3 DEF NestedOK, OnNested

LEMMA NestedKept ==
    ASSUME NestedOK, UNCHANGED nested_break_stack
    PROVE  NestedOK' /\ \A i : OnNested (i)' <=> OnNested (i)
  BY DEF NestedOK, OnNested, Ascending

-----------------------------------------------------------------------------
(* The operations.                                                          *)

(* What is known of the current operation and of the last one.              *)
LEMMA OpsFacts ==
    ASSUME OpsOK, ops # <<>>
    PROVE  /\ current_operation \in Operations /\ Last (ops) \in Operations
           /\ current_operation.op = "rti" =>
                current_operation.id \in Ids /\ IsCurrent (current_operation.id)
           /\ \A i : IsCurrent (i) <=> current_operation = Op ("rti", i)
           /\ Last (ops).op = "rti" => current_operation = Last (ops)
           /\ Last (ops).op = "helper" => IsCurrent (Last (ops).id) /\ Last (ops).id \in Ids
  <1>1. /\ Len (ops) \in Nat \ {0} /\ DOMAIN ops = 1 .. Len (ops) /\ Last (ops) = ops[Len (ops)]
        /\ \A k \in 1 .. Len (ops) : ops[k] \in Operations
    BY Popped DEF OpsOK
  <1>2. 1 \in DOMAIN ops /\ Len (ops) \in DOMAIN ops
    BY <1>1
  <1>3. \A i : Op ("rti", i).op = "rti" /\ Op ("rti", i).id = i
    BY DEF Op
  <1>4. current_operation \in Operations /\ Last (ops) \in Operations
    BY <1>1, <1>2 DEF current_operation
  <1>5. current_operation.op = "rti" =>
           current_operation.id \in Ids /\ current_operation = Op ("rti", current_operation.id)
    BY <1>2, <1>4 DEF OpsOK, current_operation, Operations, Op
  <1>6. Last (ops).op = "rti" => current_operation = Last (ops)
    BY <1>1, <1>2 DEF OpsOK, current_operation
  <1>7. Last (ops).op = "helper" => ops[1] = Op ("rti", Last (ops).id)
    BY <1>1, <1>2 DEF OpsOK
  <1>8. Last (ops).op = "helper" => Last (ops).id \in Ids
    BY <1>2, <1>3, <1>7 DEF OpsOK
  <1> QED  BY <1>4, <1>5, <1>6, <1>7, <1>8 DEF IsCurrent, current_operation

LEMMA OpsPushed ==
    ASSUME OpsOK, NEW i \in Ids, ops' = Append (ops, Op ("abort", i))
    PROVE  OpsOK' /\ ops' # <<>> /\ \A j \in Ids : IsCurrent (j)' <=> IsCurrent (j)
  <1> DEFINE n == Len (ops)
             o == Op ("abort", i)
  <1>1. o \in Operations /\ o.op = "abort"
    BY DEF Op, Operations
  <1>2. /\ ops' \in Seq (Operations) /\ ops' # <<>>
        /\ DOMAIN ops' = 1 .. n + 1 /\ DOMAIN ops = 1 .. n
        /\ \A k \in 1 .. n : ops'[k] = ops[k]
        /\ ops'[n + 1] = o /\ n \in Nat
    <2> HIDE DEF o
    <2>1. ops \in Seq (Operations) /\ ops' = Append (ops, o)
      BY DEF OpsOK, o
    <2> QED  BY <1>1, <2>1, Pushed
  <1>3. \A j : Op ("rti", j).op = "rti"
    BY DEF Op
  <1>4. n = 0 <=> ops = <<>>
    BY DEF OpsOK
  <1> HIDE DEF n, o
  <1>5. \A k \in 1 .. n + 1 : k = n + 1 \/ k \in 1 .. n
    BY <1>2
  <1>6. n # 0 => 1 \in 1 .. n
    BY <1>2
  <1>7. ASSUME NEW k \in DOMAIN ops'
        PROVE  /\ ops'[k].op \in {"rti", "run"} => k = 1
               /\ ops'[k].op = "rti" => ops'[k].id \in Ids
               /\ ops'[k].op = "helper" => k = 2 /\ ops'[1] = Op ("rti", ops'[k].id)
    <2>1. CASE k = n + 1
      BY <2>1, <1>1, <1>2
    <2>2. CASE k \in 1 .. n
      <3>1. 1 \in 1 .. n
        BY <2>2, <1>2
      <3> QED  BY <2>2, <3>1, <1>2 DEF OpsOK
    <2> QED  BY <2>1, <2>2, <1>2, <1>5
  <1>8. OpsOK'
    BY <1>2, <1>7 DEF OpsOK
  <1>9. \A j \in Ids : IsCurrent (j)' <=> IsCurrent (j)
    <2>1. CASE n = 0
      <3>1. ops'[1] = o
        BY <2>1, <1>2
      <3> QED  BY <2>1, <3>1, <1>1, <1>3, <1>4 DEF IsCurrent
    <2>2. CASE n # 0
      BY <2>2, <1>2, <1>4, <1>6 DEF IsCurrent
    <2> QED  BY <2>1, <2>2
  <1> QED  BY <1>2, <1>8, <1>9

LEMMA OpsCleared ==
    ASSUME ops' = <<>>
    PROVE  OpsOK' /\ \A i : ~IsCurrent (i)'
  BY DEF OpsOK, IsCurrent

LEMMA OpsKept ==
    ASSUME OpsOK, UNCHANGED ops
    PROVE  OpsOK' /\ \A i : IsCurrent (i)' <=> IsCurrent (i)
  BY DEF OpsOK, IsCurrent

LEMMA OpsStarted ==
    ASSUME NEW i \in Ids, ops' = <<Op ("rti", i), Op ("helper", i)>>
    PROVE  OpsOK' /\ \A j \in Ids : IsCurrent (j)' <=> j = i
  BY DEF OpsOK, IsCurrent, Op, Operations

LEMMA OpsRun ==
    ASSUME ops' = <<Op ("run", NoId)>>
    PROVE  OpsOK' /\ \A j \in Ids : ~IsCurrent (j)'
  BY DEF OpsOK, IsCurrent, Op, Operations

LEMMA OpsEntered ==
    ASSUME OpsOK, ops # <<>>, NEW i \in Ids, IsCurrent (i), ops' = <<current_operation>>
    PROVE  OpsOK' /\ \A j \in Ids : IsCurrent (j)' <=> IsCurrent (j)
  BY DEF OpsOK, IsCurrent, Op, Operations, current_operation

-----------------------------------------------------------------------------
(* The steps.                                                               *)

(* Facts about the current invocation.                                      *)
LEMMA CurrentFacts ==
    ASSUME RInv, dead = "no", NEW i \in Ids, IsCurrent (i)
    PROVE  /\ ~engine_stopped /\ ~rti[i].done /\ ~rti[i].IsSuspended
           /\ RtiTop (i) /\ OnRti (i) /\ i <= next_id
           /\ \A j \in Ids : OnNested (j) => j < i
           /\ \A j \in Ids : IsCurrent (j) <=> j = i
  <1>1. ~engine_stopped /\ ~rti[i].done /\ ~rti[i].IsSuspended /\ RtiTop (i)
    BY DEF RInv, Current
  <1>2. OnRti (i) /\ \A j \in Ids : OnRti (j) => j <= i
    BY <1>1, RtiTopOn DEF RInv
  <1>3. i <= next_id
    BY <1>2 DEF RInv, RtisOK, OnRti
  <1>4. \A j \in Ids : OnNested (j) => OnRti (j) /\ rti[j].IsSuspended
    BY DEF RInv, SuspendedAgree
  <1>5. \A j \in Ids : j \in Int
    BY RuntimeInvokeAssumption DEF Ids
  <1>6. ASSUME NEW j \in Ids, OnNested (j)
        PROVE  j < i
    <2>1. j <= i /\ j # i
      BY <1>6, <1>1, <1>2, <1>4
    <2> QED  BY <2>1, <1>5
  <1>7. \A j \in Ids : IsCurrent (j) <=> j = i
    BY DEF IsCurrent, Op
  <1> QED  BY <1>1, <1>2, <1>3, <1>6, <1>7

(* The current operation ends; X is the invocation that is suspended.       *)
LEMMA FinishedStep ==
    ASSUME RInv, dead = "no", UNCHANGED <<rti_stack, next_id>>,
           ops' = <<>>, engine_stopped' = TRUE, temp_breakpoint' = NoId,
           NEW X \in SUBSET Ids, \A i \in X : IsCurrent (i),
           rti' \in [Ids -> Rtis],
           \A i \in Ids :
             /\ rti'[i].mode = rti[i].mode /\ rti'[i].stage = rti[i].stage
             /\ rti'[i].IsSuspended <=> rti[i].IsSuspended \/ i \in X
             /\ rti'[i].completed <=> rti[i].completed \/ (IsCurrent (i) /\ i \notin X)
             /\ rti'[i].done => rti[i].done \/ (IsCurrent (i) /\ i \notin X /\ ~OnCalls (i)')
             /\ ~IsCurrent (i) => rti'[i] = rti[i],
           NestedOK', \A i \in Ids : OnNested (i)' <=> OnNested (i) \/ i \in X,
           CallsOK',
           \A i \in Ids : (OnCalls (i)' => OnCalls (i)) /\ (IsFrame (i)' <=> IsFrame (i)),
           state' \in {"stopped", "running", "unseen"}, sigstop' \in BOOLEAN,
           abort_requested' \in {abort_requested, NoId}
    PROVE  RInv'
  <1>1. OpsOK' /\ \A i : ~IsCurrent (i)'
    BY OpsCleared
  <1>2. RtisOK' /\ \A i : (OnRti (i)' <=> OnRti (i)) /\ (RtiTop (i)' <=> RtiTop (i))
    BY RtisKept DEF RInv
  <1>3. \A i \in Ids : IsCurrent (i) =>
           ~rti[i].done /\ ~rti[i].IsSuspended /\ OnRti (i) /\ i <= next_id
    BY CurrentFacts
  <1>4. Scalars'
    BY DEF RInv, Scalars, NoId
  <1>5. FreshIds'
    <2> SUFFICES ASSUME NEW i \in Ids, next_id < i
                 PROVE  rti'[i] = NoRti
      BY DEF FreshIds
    <2>1. ~(i <= next_id)
      BY RuntimeInvokeAssumption DEF RInv, Scalars, Ids
    <2> QED  BY <1>3, <2>1 DEF RInv, FreshIds
  <1>6. Current' /\ Temporary'
    BY <1>1 DEF Current, Temporary
  <1>7. Waiting'
    <2> SUFFICES ASSUME NEW i \in Ids, rti'[i].mode # "none"
                 PROVE  rti'[i].completed \/ (rti'[i].IsSuspended /\ ~rti'[i].done)
      BY DEF Waiting
    <2>1. CASE IsCurrent (i)
      BY <2>1, <1>3
    <2>2. CASE ~IsCurrent (i)
      BY <2>2 DEF RInv, Waiting
    <2> QED  BY <2>1, <2>2
  <1>8. FramesAgree'
    BY <1>2 DEF RInv, FramesAgree
  <1>9. SuspendedAgree'
    BY <1>2, <1>3 DEF RInv, SuspendedAgree
  <1>10. DoneGone'
    BY DEF RInv, DoneGone
  <1> QED  BY <1>1, <1>2, <1>4, <1>5, <1>6, <1>7, <1>8, <1>9, <1>10 DEF RInv

(* The current operation is completed, after the handler has made r of rti. *)
LEMMA ToldStep ==
    ASSUME RInv, dead = "no", ops # <<>>, UNCHANGED <<rti_stack, next_id, nested_break_stack>>,
           ops' = <<>>, engine_stopped' = TRUE, temp_breakpoint' = NoId,
           NEW r \in [Ids -> Rtis], rti' = Told (r, current_operation),
           \A i \in Ids :
             /\ r[i].mode = rti[i].mode /\ r[i].stage = rti[i].stage
             /\ r[i].IsSuspended = rti[i].IsSuspended /\ r[i].completed = rti[i].completed
             /\ r[i].done => rti[i].done \/ (IsCurrent (i) /\ ~OnCalls (i)')
             /\ ~IsCurrent (i) => r[i] = rti[i],
           CallsOK',
           \A i \in Ids : (OnCalls (i)' => OnCalls (i)) /\ (IsFrame (i)' <=> IsFrame (i)),
           state' \in {"stopped", "running", "unseen"}, sigstop' \in BOOLEAN,
           abort_requested' \in {abort_requested, NoId}
    PROVE  RInv'
  <1> DEFINE o == current_operation
  <1>1. /\ o \in Operations
        /\ o.op = "rti" => o.id \in Ids
        /\ \A i : IsCurrent (i) <=> o = Op ("rti", i)
    BY OpsFacts DEF RInv
  <1>2. rti' = IF o.op = "rti" THEN [r EXCEPT ![o.id].completed = TRUE] ELSE r
    BY DEF Told
  <1> HIDE DEF o
  <1>3. \A i : IsCurrent (i) <=> o.op = "rti" /\ o.id = i
    BY <1>1 DEF Op, Operations
  <1>4. /\ rti' \in [Ids -> Rtis]
        /\ \A i \in Ids : IsCurrent (i) => rti'[i] = [r[i] EXCEPT !.completed = TRUE]
        /\ \A i \in Ids : ~IsCurrent (i) => rti'[i] = r[i]
    <2>1. CASE o.op = "rti"
      <3> DEFINE c == o.id
                 x == [r[c] EXCEPT !.completed = TRUE]
      <3>1. c \in Ids /\ r[c] \in Rtis /\ rti' = [r EXCEPT ![c] = x]
        BY <2>1, <1>1, <1>2
      <3>2. x \in Rtis
        BY <3>1 DEF Rtis
      <3>3. /\ rti' \in [Ids -> Rtis] /\ rti'[c] = x
            /\ \A j \in Ids : j # c => rti'[j] = r[j]
        <4> HIDE DEF c, x
        <4> QED  BY <3>1, <3>2, Update
      <3> QED  BY <2>1, <3>1, <3>3, <1>3
    <2>2. CASE o.op # "rti"
      BY <2>2, <1>2, <1>3
    <2> QED  BY <2>1, <2>2
  <1>5. ASSUME NEW i \in Ids
        PROVE  /\ rti'[i].mode = rti[i].mode /\ rti'[i].stage = rti[i].stage
               /\ rti'[i].IsSuspended <=> rti[i].IsSuspended \/ i \in {}
               /\ rti'[i].completed <=> rti[i].completed \/ (IsCurrent (i) /\ i \notin {})
               /\ rti'[i].done => rti[i].done \/ (IsCurrent (i) /\ i \notin {} /\ ~OnCalls (i)')
               /\ ~IsCurrent (i) => rti'[i] = rti[i]
    <2>1. CASE IsCurrent (i)
      <3>1. rti'[i] = [r[i] EXCEPT !.completed = TRUE] /\ r[i] \in Rtis
        BY <2>1, <1>4
      <3>2. /\ rti'[i].mode = r[i].mode /\ rti'[i].stage = r[i].stage
            /\ rti'[i].IsSuspended = r[i].IsSuspended /\ rti'[i].done = r[i].done
            /\ rti'[i].completed
        BY <3>1 DEF Rtis
      <3> QED  BY <2>1, <3>2
    <2>2. CASE ~IsCurrent (i)
      <3>1. rti'[i] = r[i]
        BY <2>2, <1>4
      <3> QED  BY <2>2, <3>1
    <2> QED  BY <2>1, <2>2
  <1>6. NestedOK' /\ \A i \in Ids : OnNested (i)' <=> OnNested (i) \/ i \in {}
    BY NestedKept DEF RInv
  <1>7. {} \in SUBSET Ids /\ \A i \in {} : IsCurrent (i)
    OBVIOUS
  <1> QED  BY <1>4, <1>5, <1>6, <1>7, FinishedStep

(* The current invocation is suspended.                                     *)
LEMMA SuspendedStep ==
    ASSUME RInv, dead = "no", ops # <<>>, UNCHANGED <<rti_stack, next_id, callback_stack>>,
           current_operation.op = "rti",
           ops' = <<>>, engine_stopped' = TRUE, temp_breakpoint' = NoId,
           rti' = [rti EXCEPT ![current_operation.id].IsSuspended = TRUE],
           nested_break_stack' = Append (nested_break_stack, current_operation.id),
           state' \in {"stopped", "running", "unseen"}, sigstop' \in BOOLEAN,
           abort_requested' \in {abort_requested, NoId}
    PROVE  RInv'
  <1> DEFINE c == current_operation.id
  <1>1. c \in Ids /\ IsCurrent (c)
    BY OpsFacts DEF RInv
  <1> HIDE DEF c
  <1>2. (\A j \in Ids : OnNested (j) => j < c) /\ \A j \in Ids : IsCurrent (j) <=> j = c
    BY <1>1, CurrentFacts
  <1>3. NestedOK' /\ \A j \in Ids : OnNested (j)' <=> OnNested (j) \/ j \in {c}
    BY <1>1, <1>2, NestedPushed DEF RInv, c
  <1>4. CallsOK' /\ \A i \in Ids : (OnCalls (i)' <=> OnCalls (i)) /\ (IsFrame (i)' <=> IsFrame (i))
    BY CallsKept DEF RInv
  <1>5. rti \in [Ids -> Rtis] /\ rti' = [rti EXCEPT ![c] = [rti[c] EXCEPT !.IsSuspended = TRUE]]
    BY DEF RInv, Scalars, c
  <1>6. rti' \in [Ids -> Rtis]
    <2> DEFINE x == [rti[c] EXCEPT !.IsSuspended = TRUE]
    <2>1. rti[c] \in Rtis
      BY <1>1, <1>5
    <2>2. x \in Rtis
      BY <2>1 DEF Rtis
    <2>3. rti' = [rti EXCEPT ![c] = x]
      BY <1>5
    <2> HIDE DEF x
    <2> QED  BY <2>2, <2>3, <1>1, <1>5
  <1>7. ASSUME NEW i \in Ids
        PROVE  /\ rti'[i].mode = rti[i].mode /\ rti'[i].stage = rti[i].stage
               /\ rti'[i].IsSuspended <=> rti[i].IsSuspended \/ i \in {c}
               /\ rti'[i].completed <=> rti[i].completed \/ (IsCurrent (i) /\ i \notin {c})
               /\ rti'[i].done => rti[i].done
               /\ ~IsCurrent (i) => rti'[i] = rti[i]
    <2>1. CASE i = c
      <3>1. rti[i] \in Rtis /\ rti'[i] = [rti[i] EXCEPT !.IsSuspended = TRUE]
        BY <2>1, <1>1, <1>5
      <3>2. /\ rti'[i].mode = rti[i].mode /\ rti'[i].stage = rti[i].stage
            /\ rti'[i].completed = rti[i].completed /\ rti'[i].done = rti[i].done
            /\ rti'[i].IsSuspended
        BY <3>1 DEF Rtis
      <3> QED  BY <2>1, <3>2, <1>1
    <2>2. CASE i # c
      <3>1. rti'[i] = rti[i]
        BY <2>2, <1>1, <1>5
      <3> QED  BY <2>2, <3>1, <1>2
    <2> QED  BY <2>1, <2>2
  <1>8. {c} \in SUBSET Ids /\ \A i \in {c} : IsCurrent (i)
    BY <1>1
  <1> QED  BY <1>3, <1>4, <1>6, <1>7, <1>8, FinishedStep

(* The engine or the target has ended: what is guarded by `dead' holds.     *)
LEMMA DeadStep ==
    ASSUME RInv, dead' # "no", UNCHANGED <<ops, engine_stopped, temp_breakpoint, rti, next_id>>,
           UNCHANGED nested_break_stack,
           CallsOK', \A i \in Ids : OnCalls (i)' => OnCalls (i),
           RtisOK',
           state' \in {"stopped", "running", "unseen"}, sigstop' \in BOOLEAN,
           abort_requested' \in {abort_requested, NoId}
    PROVE  RInv'
  <1>1. OpsOK' /\ NestedOK'
    BY OpsKept, NestedKept DEF RInv
  <1>2. Scalars' /\ FreshIds' /\ DoneGone'
    BY DEF RInv, Scalars, NoId, FreshIds, DoneGone
  <1>3. Current' /\ Waiting' /\ Temporary' /\ FramesAgree' /\ SuspendedAgree'
    BY DEF Current, Waiting, Temporary, FramesAgree, SuspendedAgree
  <1> QED  BY <1>1, <1>2, <1>3 DEF RInv

(* Nothing changes but what other threads of the debugger ask for.          *)
LEMMA QuietStep ==
    ASSUME RInv, UNCHANGED <<state, callback_stack, engine, rti_stack, next_id, dead>>,
           sigstop' \in BOOLEAN, abort_requested' \in 0 .. next_id
    PROVE  RInv'
  <1>1. OpsOK' /\ NestedOK' /\ CallsOK' /\ RtisOK'
    BY OpsKept, NestedKept, CallsKept, RtisKept DEF RInv, engine
  <1>2. Scalars' /\ FreshIds'
    BY DEF RInv, Scalars, FreshIds, engine
  <1>3. /\ \A i : (IsCurrent (i)' <=> IsCurrent (i)) /\ (OnNested (i)' <=> OnNested (i))
        /\ \A i : (OnRti (i)' <=> OnRti (i)) /\ (RtiTop (i)' <=> RtiTop (i))
        /\ \A i : (OnCalls (i)' <=> OnCalls (i)) /\ (IsFrame (i)' <=> IsFrame (i))
    BY DEF IsCurrent, OnNested, OnRti, RtiTop, OnCalls, IsFrame, engine
  <1>4. Current' /\ Waiting' /\ Temporary' /\ FramesAgree' /\ SuspendedAgree' /\ DoneGone'
    BY <1>3 DEF RInv, Current, Waiting, Temporary, FramesAgree, SuspendedAgree, DoneGone, engine
  <1> QED  BY <1>1, <1>2, <1>4 DEF RInv

(* OperationAbortRuntimeInvoke is pushed.                                   *)
LEMMA AbortStep ==
    ASSUME RInv, dead = "no", PushAbort,
           UNCHANGED <<rti_stack, nested_break_stack, temp_breakpoint, rti, dead>>,
           engine_stopped' \in BOOLEAN, engine_stopped' => engine_stopped,
           sigstop' \in BOOLEAN, abort_requested' \in {abort_requested, NoId}
    PROVE  RInv'
  <1>1. /\ next_id < MaxIds /\ next_id' = next_id + 1 /\ state' = "running"
        /\ ops' = Append (ops, Op ("abort", next_id'))
        /\ callback_stack' = Append (callback_stack, Call (next_id', FALSE))
    BY DEF PushAbort
  <1>2. next_id' \in Ids /\ next_id \in Nat /\ next_id' \in 0 .. MaxIds /\ next_id <= next_id'
    BY <1>1, RuntimeInvokeAssumption DEF RInv, Scalars, Ids
  <1>3. /\ CallsOK'
        /\ \A i \in Ids : OnCalls (i)' <=> OnCalls (i) \/ i = next_id'
        /\ \A i \in Ids : IsFrame (i)' <=> IsFrame (i)
    BY <1>1, CallPushed DEF RInv
  <1>4. OpsOK' /\ \A j \in Ids : IsCurrent (j)' <=> IsCurrent (j)
    <2> DEFINE n == next_id'
    <2>1. n \in Ids /\ ops' = Append (ops, Op ("abort", n)) /\ OpsOK
      BY <1>1, <1>2 DEF RInv
    <2> HIDE DEF n
    <2> QED  BY <2>1, OpsPushed
  <1>5. RtisOK' /\ \A i : (OnRti (i)' <=> OnRti (i)) /\ (RtiTop (i)' <=> RtiTop (i))
    <2>1. \A k \in DOMAIN rti_stack : rti_stack[k] \in Int /\ rti_stack[k] <= next_id
      BY RuntimeInvokeAssumption DEF RInv, RtisOK, Ids
    <2>2. \A k \in DOMAIN rti_stack : rti_stack[k] <= next_id'
      BY <2>1, <1>1, <1>2
    <2> QED  BY <2>2 DEF RInv, RtisOK, OnRti, RtiTop, Ascending
  <1>6. NestedOK' /\ \A i : OnNested (i)' <=> OnNested (i)
    BY NestedKept DEF RInv
  <1>7. Scalars'
    BY <1>1, <1>2 DEF RInv, Scalars, NoId
  <1>8. FreshIds'
    <2>1. \A i \in Ids : next_id' < i => next_id < i
      BY <1>1, <1>2, RuntimeInvokeAssumption DEF Ids
    <2> QED  BY <2>1 DEF RInv, FreshIds
  <1>9. Current' /\ Waiting' /\ SuspendedAgree' /\ FramesAgree'
    BY <1>1, <1>3, <1>4, <1>5, <1>6
       DEF RInv, Current, Waiting, SuspendedAgree, FramesAgree
  <1>10. Temporary'
    BY <1>1, <1>4 DEF RInv, Temporary, Scalars
  <1>11. DoneGone'
    <2>1. rti[next_id'] = NoRti
      BY <1>1, <1>2 DEF RInv, FreshIds
    <2>2. ~rti[next_id'].done
      BY <2>1 DEF NoRti
    <2> QED  BY <1>3, <2>2 DEF RInv, DoneGone
  <1> QED  BY <1>3, <1>4, <1>5, <1>6, <1>7, <1>8, <1>9, <1>10, <1>11 DEF RInv

(* Fields of an invocation that the invariant does not relate to others are *)
(* noted, and the thread goes on.                                           *)
LEMMA NotedStep ==
    ASSUME RInv, UNCHANGED <<state, callback_stack, ops, engine_stopped, temp_breakpoint>>,
           UNCHANGED <<rti_stack, nested_break_stack, next_id, dead>>,
           sigstop' \in BOOLEAN, abort_requested' \in {abort_requested, NoId},
           NEW i \in Ids, i <= next_id, NEW x \in Rtis, rti' = [rti EXCEPT ![i] = x],
           x.mode = rti[i].mode, x.done = rti[i].done, x.completed = rti[i].completed,
           x.IsSuspended = rti[i].IsSuspended,
           x.stage = "invoked" <=> rti[i].stage = "invoked"
    PROVE  RInv'
  <1>1. /\ rti' \in [Ids -> Rtis] /\ rti'[i] = x
        /\ \A j \in Ids : j # i => rti'[j] = rti[j]
    BY Update DEF RInv, Scalars
  <1>2. \A j \in Ids : /\ rti'[j].mode = rti[j].mode
                       /\ rti'[j].done = rti[j].done /\ rti'[j].completed = rti[j].completed
                       /\ rti'[j].IsSuspended = rti[j].IsSuspended
                       /\ rti'[j].stage = "invoked" <=> rti[j].stage = "invoked"
    BY <1>1
  <1>3. OpsOK' /\ NestedOK' /\ CallsOK' /\ RtisOK'
    BY OpsKept, NestedKept, CallsKept, RtisKept DEF RInv
  <1>4. /\ \A j : (IsCurrent (j)' <=> IsCurrent (j)) /\ (OnNested (j)' <=> OnNested (j))
        /\ \A j : (OnRti (j)' <=> OnRti (j)) /\ (RtiTop (j)' <=> RtiTop (j))
        /\ \A j : (OnCalls (j)' <=> OnCalls (j)) /\ (IsFrame (j)' <=> IsFrame (j))
    BY DEF IsCurrent, OnNested, OnRti, RtiTop, OnCalls, IsFrame
  <1>5. Scalars'
    BY <1>1 DEF RInv, Scalars, NoId
  <1>6. FreshIds'
    <2>1. \A j \in Ids : next_id < j => j # i
      BY RuntimeInvokeAssumption DEF RInv, Scalars, Ids
    <2> QED  BY <1>1, <2>1 DEF RInv, FreshIds
  <1>7. Current' /\ Waiting' /\ Temporary' /\ FramesAgree' /\ SuspendedAgree' /\ DoneGone'
    BY <1>2, <1>4 DEF RInv, Current, Waiting, Temporary, FramesAgree, SuspendedAgree, DoneGone
  <1> QED  BY <1>3, <1>5, <1>6, <1>7 DEF RInv

-----------------------------------------------------------------------------
(* The actions.                                                             *)

LEMMA InitStep == Init => RInv
  <1> SUFFICES ASSUME Init PROVE RInv
    OBVIOUS
  <1> USE DEF Init
  <1>1. Scalars
    <2>1. NoRti \in Rtis
      BY DEF Rtis, NoRti, Stages
    <2>2. rti \in [Ids -> Rtis]
      BY <2>1
    <2>3. /\ next_id \in 0 .. MaxIds /\ abort_requested \in 0 .. next_id
          /\ temp_breakpoint \in Ids \cup {NoId}
      BY RuntimeInvokeAssumption DEF NoId
    <2> QED  BY <2>2, <2>3 DEF Scalars
  <1>2. CallsOK /\ RtisOK /\ NestedOK /\ OpsOK
    BY DEF CallsOK, RtisOK, NestedOK, OpsOK, Ascending, CallIds
  <1>3. FreshIds
    BY DEF FreshIds
  <1>4. \A i : ~IsCurrent (i) /\ ~OnRti (i) /\ ~OnNested (i) /\ ~OnCalls (i) /\ ~IsFrame (i)
    BY DEF IsCurrent, OnRti, OnNested, OnCalls, IsFrame
  <1>5. Current /\ Waiting /\ Temporary /\ FramesAgree /\ SuspendedAgree /\ DoneGone
    BY <1>4 DEF Current, Waiting, Temporary, FramesAgree, SuspendedAgree, DoneGone, NoRti, NoId
  <1> QED  BY <1>1, <1>2, <1>3, <1>5 DEF RInv

(* An invocation has begun: it is current and its helper has called the     *)
(* runtime, or it has failed.                                               *)
LEMMA BegunStep ==
    ASSUME RInv, dead = "no", engine_stopped, state = "stopped",
           next_id < MaxIds, next_id' = next_id + 1,
           rti_stack' = Append (rti_stack, next_id'),
           UNCHANGED <<sigstop, abort_requested, temp_breakpoint, nested_break_stack, dead>>,
           NEW x \in Rtis, rti' = [rti EXCEPT ![next_id'] = x],
           x.stage # "invoked", ~x.IsSuspended, ~x.done,
           CallsOK',
           \A i \in Ids : OnCalls (i)' => OnCalls (i) \/ i = next_id',
           \A i \in Ids : IsFrame (i)' <=> IsFrame (i),
           OpsOK',
           \A i \in Ids : IsCurrent (i)' => i = next_id' /\ ~engine_stopped',
           \A i \in Ids : i = next_id' => x.completed \/ (state' = "running" /\ IsCurrent (i)'),
           state' \in {"stopped", "running"}, engine_stopped' \in BOOLEAN
    PROVE  RInv'
  <1> DEFINE n == next_id'
  <1>1. n \in Ids /\ next_id \in Nat /\ n \in 0 .. MaxIds /\ ~(n <= next_id)
    BY RuntimeInvokeAssumption DEF RInv, Scalars, Ids
  <1>2. /\ RtisOK' /\ ~OnRti (n)
        /\ \A i \in Ids : OnRti (i)' <=> OnRti (i) \/ i = n
        /\ \A i \in Ids : RtiTop (i)' <=> i = n
    BY RtiPushed DEF RInv
  <1>3. rti' \in [Ids -> Rtis] /\ rti'[n] = x /\ \A j \in Ids : j # n => rti'[j] = rti[j]
    <2>1. rti' = [rti EXCEPT ![n] = x] /\ rti \in [Ids -> Rtis]
      BY DEF RInv, Scalars
    <2> HIDE DEF n
    <2> QED  BY <2>1, <1>1
  <1>4. NestedOK' /\ \A i : OnNested (i)' <=> OnNested (i)
    BY NestedKept DEF RInv
  <1>5. abort_requested' \in 0 .. n
    BY <1>1 DEF RInv, Scalars
  <1>6. Scalars'
    BY <1>1, <1>3, <1>5 DEF RInv, Scalars
  <1>7. FreshIds'
    <2>1. \A j \in Ids : n < j => next_id < j /\ j # n
      BY <1>1, RuntimeInvokeAssumption DEF Ids
    <2> QED  BY <2>1, <1>3 DEF RInv, FreshIds
  <1>8. temp_breakpoint' = NoId
    BY DEF RInv, Temporary
  <1>9. ~IsFrame (n) /\ ~OnNested (n)
    BY <1>1, <1>2 DEF RInv, FramesAgree, SuspendedAgree
  <1>10. Current'
    <2> SUFFICES ASSUME NEW i \in Ids, IsCurrent (i)'
                 PROVE  (~engine_stopped /\ ~rti[i].done /\ ~rti[i].IsSuspended /\ RtiTop (i))'
      BY DEF Current
    <2> QED  BY <1>2, <1>3
  <1>11. Waiting'
    <2> SUFFICES ASSUME NEW i \in Ids, rti'[i].mode # "none"
                 PROVE  \/ rti'[i].completed
                        \/ rti'[i].IsSuspended /\ ~rti'[i].done
                        \/ state' = "running" /\ IsCurrent (i)'
      BY DEF Waiting
    <2>1. CASE i = n
      BY <2>1, <1>3
    <2>2. CASE i # n
      BY <2>2, <1>3 DEF RInv, Waiting
    <2> QED  BY <2>1, <2>2
  <1>12. Temporary'
    BY <1>8 DEF Temporary
  <1>13. FramesAgree'
    <2> SUFFICES ASSUME NEW i \in Ids
                 PROVE  IsFrame (i)' <=> OnRti (i)' /\ rti'[i].stage = "invoked"
      BY DEF FramesAgree
    <2>1. CASE i = n
      BY <2>1, <1>3, <1>9
    <2>2. CASE i # n
      BY <2>2, <1>2, <1>3 DEF RInv, FramesAgree
    <2> QED  BY <2>1, <2>2
  <1>14. SuspendedAgree'
    <2> SUFFICES ASSUME NEW i \in Ids
                 PROVE  OnNested (i)' <=> OnRti (i)' /\ rti'[i].IsSuspended
      BY DEF SuspendedAgree
    <2>1. CASE i = n
      BY <2>1, <1>3, <1>4, <1>9
    <2>2. CASE i # n
      BY <2>2, <1>2, <1>3, <1>4 DEF RInv, SuspendedAgree
    <2> QED  BY <2>1, <2>2
  <1>15. DoneGone'
    <2> SUFFICES ASSUME NEW i \in Ids, rti'[i].done
                 PROVE  ~OnCalls (i)'
      BY DEF DoneGone
    <2>1. i # n
      BY <1>3
    <2> QED  BY <2>1, <1>3 DEF RInv, DoneGone
  <1> QED  BY <1>2, <1>4, <1>6, <1>7, <1>10, <1>11, <1>12, <1>13, <1>14, <1>15 DEF RInv

LEMMA RuntimeInvokeStep ==
    ASSUME RInv, NEW mode \in Modes, RuntimeInvoke (mode)
    PROVE  RInv'
  <1> DEFINE n == next_id'
             fresh (stage) == [NoRti EXCEPT !.mode = mode, !.stage = stage]
             r (stage) == [rti EXCEPT ![n] = fresh (stage)]
             calls == /\ callback_stack' = Append (callback_stack, Call (n, FALSE))
                      /\ state' = "running"
             fails == /\ rti' = Told (r ("prepare"), Op ("rti", n))
                      /\ UNCHANGED <<ops, engine_stopped>>
  <1>1. /\ dead = "no" /\ engine_stopped /\ state = "stopped"
        /\ next_id < MaxIds /\ next_id' = next_id + 1
        /\ rti_stack' = Append (rti_stack, next_id')
        /\ UNCHANGED <<sigstop, abort_requested, temp_breakpoint, nested_break_stack, dead>>
    BY DEF RuntimeInvoke
  <1>2. \/ /\ calls
           /\ \E stage \in {"prepare", "compile"} : rti' = r (stage)
           /\ ops' = <<Op ("rti", n), Op ("helper", n)>>
           /\ engine_stopped' = FALSE
        \/ fails /\ UNCHANGED <<callback_stack, state>>
        \/ fails /\ calls
    BY DEF RuntimeInvoke
  <1>3. n \in Ids /\ ~(n <= next_id)
    BY <1>1, RuntimeInvokeAssumption DEF RInv, Scalars, Ids
  <1>4. \A stage \in {"prepare", "compile"} :
           /\ fresh (stage) \in Rtis /\ fresh (stage).stage # "invoked"
           /\ ~fresh (stage).IsSuspended /\ ~fresh (stage).done
    BY DEF NoRti, Rtis, Stages
  <1>5. ASSUME calls
        PROVE  /\ CallsOK' /\ state' \in {"stopped", "running"}
               /\ \A i \in Ids : OnCalls (i)' => OnCalls (i) \/ i = n
               /\ \A i \in Ids : IsFrame (i)' <=> IsFrame (i)
    BY <1>1, <1>5, CallPushed DEF RInv
  <1>6. ASSUME UNCHANGED <<callback_stack, state>>
        PROVE  /\ CallsOK' /\ state' \in {"stopped", "running"}
               /\ \A i \in Ids : OnCalls (i)' => OnCalls (i) \/ i = n
               /\ \A i \in Ids : IsFrame (i)' <=> IsFrame (i)
    <2>1. \A k \in DOMAIN callback_stack : callback_stack[k].id <= next_id'
      <3>1. \A k \in DOMAIN callback_stack :
               callback_stack[k].id \in Int /\ callback_stack[k].id <= next_id
        <4>1. \A k \in DOMAIN callback_stack :
                 callback_stack[k] \in Calls /\ callback_stack[k].id <= next_id
          BY DEF RInv, CallsOK
        <4>2. \A c \in Calls : c.id \in Int
          BY RuntimeInvokeAssumption DEF Calls, Ids
        <4> QED  BY <4>1, <4>2
      <3> QED  BY <3>1, <1>1 DEF RInv, Scalars
    <2> QED  BY <1>1, <1>6, <2>1 DEF RInv, CallsOK, Ascending, CallIds, OnCalls, IsFrame
  <1>7. ASSUME calls, NEW stage \in {"prepare", "compile"}, rti' = r (stage),
               ops' = <<Op ("rti", n), Op ("helper", n)>>, engine_stopped' = FALSE
        PROVE  RInv'
    <2> DEFINE x == fresh (stage)
    <2>1. OpsOK' /\ \A i \in Ids : IsCurrent (i)' <=> i = n
      <3> HIDE DEF n
      <3> QED  BY <1>3, <1>7, OpsStarted
    <2>2. /\ x \in Rtis /\ x.stage # "invoked" /\ ~x.IsSuspended /\ ~x.done
          /\ rti' = [rti EXCEPT ![next_id'] = x]
      BY <1>4, <1>7
    <2>3. state' = "running"
      BY <1>7
    <2> HIDE DEF x, fresh, r, calls
    <2> QED  BY <1>1, <1>5, <1>7, <2>1, <2>2, <2>3, BegunStep
  <1>8. ASSUME fails, CallsOK', state' \in {"stopped", "running"},
               \A i \in Ids : OnCalls (i)' => OnCalls (i) \/ i = n,
               \A i \in Ids : IsFrame (i)' <=> IsFrame (i)
        PROVE  RInv'
    <2> DEFINE x == [fresh ("prepare") EXCEPT !.completed = TRUE]
    <2>1. OpsOK' /\ \A i : IsCurrent (i)' <=> IsCurrent (i)
      BY <1>8, OpsKept DEF RInv
    <2>2. \A i \in Ids : ~IsCurrent (i)
      BY <1>1 DEF RInv, Current
    <2>3. /\ x \in Rtis /\ x.stage # "invoked" /\ ~x.IsSuspended /\ ~x.done /\ x.completed
      BY DEF NoRti, Rtis, Stages
    <2>4. rti' = [rti EXCEPT ![next_id'] = x]
      <3>1. rti' = [r ("prepare") EXCEPT ![n].completed = TRUE]
        BY <1>8 DEF Told, Op
      <3> HIDE DEF fresh
      <3> QED  BY <3>1, <1>3 DEF RInv, Scalars
    <2>5. engine_stopped' \in BOOLEAN
      BY <1>8 DEF RInv, Scalars
    <2> HIDE DEF x, fresh, r, fails
    <2> QED  BY <1>1, <1>8, <2>1, <2>2, <2>3, <2>4, <2>5, BegunStep
  <1> HIDE DEF r, fresh, calls, fails, n
  <1> QED  BY <1>2, <1>5, <1>6, <1>7, <1>8

LEMMA StopStep == RInv /\ Stop => RInv'
  <1> SUFFICES ASSUME RInv, Stop PROVE RInv'
    OBVIOUS
  <1> QED  BY QuietStep DEF Stop, RInv, Scalars

LEMMA ReturnStep == RInv /\ Return => RInv'
  <1> SUFFICES ASSUME RInv, Return PROVE RInv'
    OBVIOUS
  <1>1. /\ dead = "no" /\ engine_stopped /\ PushAbort /\ engine_stopped' = FALSE
        /\ UNCHANGED <<rti_stack, nested_break_stack, temp_breakpoint, rti, dead>>
        /\ sigstop' \in BOOLEAN /\ abort_requested' = abort_requested
    BY DEF Return, RInv, Scalars, stacks
  <1> QED  BY <1>1, AbortStep

(* The operation that the engine has just been given is completed at once,  *)
(* if the thread is running after all.                                      *)
LEMMA RunStep == RInv /\ Run => RInv'
  <1> SUFFICES ASSUME RInv, Run PROVE RInv'
    OBVIOUS
  <1>1. /\ dead = "no" /\ engine_stopped
        /\ UNCHANGED <<sigstop, callback_stack, abort_requested, rti_stack, next_id, dead>>
    BY DEF Run
  <1>2. /\ CallsOK'
        /\ \A i \in Ids : (OnCalls (i)' <=> OnCalls (i)) /\ (IsFrame (i)' <=> IsFrame (i))
    BY <1>1, CallsKept DEF RInv
  <1>3. \A i \in Ids : ~IsCurrent (i)
    BY <1>1 DEF RInv, Current
  <1>4. CASE state = "running"
    <2> DEFINE o == Head (Append (ops, Op ("run", NoId)))
    <2>1. /\ ops' = <<>> /\ engine_stopped' = TRUE /\ temp_breakpoint' = NoId
          /\ rti' = Told (rti, o)
          /\ UNCHANGED <<nested_break_stack, state>>
      BY <1>4 DEF Run, OperationCompleted
    <2>2. o.op # "rti"
      <3>1. CASE ops = <<>>
        BY <3>1 DEF Op
      <3>2. CASE ops # <<>>
        <4>1. o = current_operation
          <5>1. Op ("run", NoId) \in Operations
            BY DEF Operations, Op
          <5>2. /\ 1 \in 1 .. Len (ops) /\ ops \in Seq (Operations)
            BY <3>2 DEF RInv, OpsOK
          <5>3. Append (ops, Op ("run", NoId))[1] = ops[1]
            BY <5>1, <5>2, Pushed
          <5> QED  BY <5>3 DEF current_operation
        <4> QED  BY <3>2, <4>1, <1>3, OpsFacts DEF RInv
      <3> QED  BY <3>1, <3>2
    <2>3. rti' = rti
      BY <2>1, <2>2 DEF Told
    <2>4. NestedOK' /\ \A i \in Ids : OnNested (i)' <=> OnNested (i) \/ i \in {}
      BY <2>1, NestedKept DEF RInv
    <2>5. {} \in SUBSET Ids /\ \A i \in {} : IsCurrent (i)
      OBVIOUS
    <2>6. /\ rti' \in [Ids -> Rtis]
          /\ \A i \in Ids :
              /\ rti'[i].mode = rti[i].mode /\ rti'[i].stage = rti[i].stage
              /\ rti'[i].IsSuspended <=> rti[i].IsSuspended \/ i \in {}
              /\ rti'[i].completed <=> rti[i].completed \/ (IsCurrent (i) /\ i \notin {})
              /\ rti'[i].done => rti[i].done \/ (IsCurrent (i) /\ i \notin {} /\ ~OnCalls (i)')
              /\ ~IsCurrent (i) => rti'[i] = rti[i]
      BY <1>3, <2>3 DEF RInv, Scalars
    <2>7. /\ state' \in {"stopped", "running", "unseen"} /\ sigstop' \in BOOLEAN
          /\ abort_requested' \in {abort_requested, NoId}
      BY <1>1, <2>1 DEF RInv, Scalars
    <2> QED  BY <1>1, <1>2, <2>1, <2>4, <2>5, <2>6, <2>7, FinishedStep
  <1>5. CASE state # "running"
    <2>1. /\ state' = "running" /\ engine_stopped' = FALSE /\ ops' = <<Op ("run", NoId)>>
          /\ UNCHANGED <<temp_breakpoint, rti, nested_break_stack>>
      BY <1>5 DEF Run
    <2>2. OpsOK' /\ \A i \in Ids : ~IsCurrent (i)'
      BY <2>1, OpsRun
    <2>3. NestedOK' /\ \A i : OnNested (i)' <=> OnNested (i)
      BY <2>1, NestedKept DEF RInv
    <2>4. RtisOK' /\ \A i : (OnRti (i)' <=> OnRti (i)) /\ (RtiTop (i)' <=> RtiTop (i))
      BY <1>1, RtisKept DEF RInv
    <2>5. Scalars' /\ FreshIds'
      BY <1>1, <2>1 DEF RInv, Scalars, FreshIds
    <2>6. temp_breakpoint' = NoId
      BY <1>1, <1>5, <2>1 DEF RInv, Temporary
    <2>7. Current' /\ Temporary'
      BY <2>2, <2>6 DEF Current, Temporary
    <2>8. Waiting' /\ FramesAgree' /\ SuspendedAgree' /\ DoneGone'
      BY <1>1, <1>2, <1>5, <2>1, <2>3, <2>4
         DEF RInv, Waiting, FramesAgree, SuspendedAgree, DoneGone
    <2> QED  BY <1>2, <2>2, <2>3, <2>4, <2>5, <2>7, <2>8 DEF RInv
  <1> QED  BY <1>4, <1>5

(* The runtime is asked to abort an invocation, or it is marked.            *)
LEMMA DoAbortStep ==
    ASSUME RInv, dead = "no", NEW i \in Ids, i <= next_id, DoAbortInvocation (i),
           UNCHANGED <<rti_stack, nested_break_stack, engine_stopped, temp_breakpoint, dead>>,
           sigstop' \in BOOLEAN, abort_requested' \in {abort_requested, NoId}
    PROVE  RInv'
  <1>1. CASE PushAbort /\ UNCHANGED rti
    <2>1. engine_stopped' \in BOOLEAN /\ (engine_stopped' => engine_stopped)
      BY DEF RInv, Scalars
    <2> QED  BY <1>1, <2>1, AbortStep
  <1>2. CASE /\ rti' = [rti EXCEPT ![i].AbortRequested =
                          @ \/ (i \in ToSet (rti_stack) /\ ~rti[i].HasStarted)]
             /\ UNCHANGED <<ops, callback_stack, next_id, state>>
    <2> DEFINE z == rti[i].AbortRequested \/ (i \in ToSet (rti_stack) /\ ~rti[i].HasStarted)
               x == [rti[i] EXCEPT !.AbortRequested = z]
    <2>1. z \in BOOLEAN /\ rti[i] \in Rtis
      BY DEF RInv, Scalars
    <2>2. rti' = [rti EXCEPT ![i] = x]
      BY <1>2
    <2> HIDE DEF z
    <2>3. /\ x \in Rtis
          /\ x.mode = rti[i].mode /\ x.stage = rti[i].stage /\ x.done = rti[i].done
          /\ x.completed = rti[i].completed /\ x.IsSuspended = rti[i].IsSuspended
      BY <2>1 DEF Rtis
    <2> HIDE DEF x
    <2>4. /\ UNCHANGED <<state, callback_stack, ops, engine_stopped, temp_breakpoint>>
          /\ UNCHANGED <<rti_stack, nested_break_stack, next_id, dead>>
      BY <1>2
    <2>5. x.stage = "invoked" <=> rti[i].stage = "invoked"
      BY <2>3
    <2> QED  BY <2>2, <2>3, <2>4, <2>5, NotedStep
  <1> QED  BY <1>1, <1>2 DEF DoAbortInvocation

LEMMA AbortInvocationStep ==
    ASSUME RInv, NEW i \in Ids, AbortInvocation (i)
    PROVE  RInv'
  <1>1. /\ dead = "no" /\ rti[i].mode # "none"
        /\ UNCHANGED <<engine_stopped, temp_breakpoint, rti_stack, nested_break_stack, dead>>
    BY DEF AbortInvocation, stacks
  <1>2. i <= next_id
    <2>1. ~(next_id < i)
      BY <1>1 DEF RInv, FreshIds, NoRti
    <2> QED  BY <2>1, RuntimeInvokeAssumption DEF RInv, Scalars, Ids
  <1>3. CASE /\ sigstop' = TRUE /\ abort_requested' = i
             /\ UNCHANGED <<state, callback_stack, ops, rti, next_id>>
    <2>1. UNCHANGED <<state, callback_stack, engine, rti_stack, next_id, dead>>
      BY <1>1, <1>3 DEF engine
    <2>2. sigstop' \in BOOLEAN /\ abort_requested' \in 0 .. next_id
      BY <1>2, <1>3, RuntimeInvokeAssumption DEF Ids
    <2> QED  BY <2>1, <2>2, QuietStep
  <1>4. CASE DoAbortInvocation (i) /\ UNCHANGED <<sigstop, abort_requested>>
    <2>1. sigstop' \in BOOLEAN /\ abort_requested' \in {abort_requested, NoId}
      BY <1>4 DEF RInv, Scalars
    <2> QED  BY <1>1, <1>2, <1>4, <2>1, DoAbortStep
  <1> QED  BY <1>3, <1>4 DEF AbortInvocation

-----------------------------------------------------------------------------
(* The events of the thread.                                                *)

(* The current operation is completed and nothing was noted before.         *)
LEMMA PlainToldStep ==
    ASSUME RInv, dead = "no", ops # <<>>, UNCHANGED <<rti_stack, next_id, nested_break_stack>>,
           ops' = <<>>, engine_stopped' = TRUE, temp_breakpoint' = NoId,
           rti' = Told (rti, current_operation),
           CallsOK',
           \A i \in Ids : (OnCalls (i)' => OnCalls (i)) /\ (IsFrame (i)' <=> IsFrame (i)),
           state' \in {"stopped", "running", "unseen"}, sigstop' \in BOOLEAN,
           abort_requested' \in {abort_requested, NoId}
    PROVE  RInv'
  <1>1. rti \in [Ids -> Rtis]
    BY DEF RInv, Scalars
  <1>2. \A i \in Ids :
          /\ rti[i].mode = rti[i].mode /\ rti[i].stage = rti[i].stage
          /\ rti[i].IsSuspended = rti[i].IsSuspended /\ rti[i].completed = rti[i].completed
          /\ rti[i].done => rti[i].done \/ (IsCurrent (i) /\ ~OnCalls (i)')
          /\ ~IsCurrent (i) => rti[i] = rti[i]
    OBVIOUS
  <1> QED  BY <1>1, <1>2, ToldStep

(* The current operation ends where the thread stands: it is suspended or   *)
(* completed.                                                               *)
LEMMA EndedStep ==
    ASSUME RInv, dead = "no", ops # <<>>, UNCHANGED <<rti_stack, next_id, callback_stack>>,
           ops' = <<>>, engine_stopped' = TRUE, temp_breakpoint' = NoId,
           \/ /\ current_operation.op = "rti"
              /\ rti' = [rti EXCEPT ![current_operation.id].IsSuspended = TRUE]
              /\ nested_break_stack' = Append (nested_break_stack, current_operation.id)
           \/ /\ rti' = Told (rti, current_operation)
              /\ UNCHANGED nested_break_stack,
           state' \in {"stopped", "running", "unseen"}, sigstop' \in BOOLEAN,
           abort_requested' \in {abort_requested, NoId}
    PROVE  RInv'
  <1>1. CASE /\ current_operation.op = "rti"
             /\ rti' = [rti EXCEPT ![current_operation.id].IsSuspended = TRUE]
             /\ nested_break_stack' = Append (nested_break_stack, current_operation.id)
    BY <1>1, SuspendedStep
  <1>2. CASE rti' = Told (rti, current_operation) /\ UNCHANGED nested_break_stack
    <2>1. /\ CallsOK'
          /\ \A i \in Ids : (OnCalls (i)' => OnCalls (i)) /\ (IsFrame (i)' <=> IsFrame (i))
      BY CallsKept DEF RInv
    <2> QED  BY <1>2, <2>1, PlainToldStep
  <1> QED  BY <1>1, <1>2

LEMMA HitBreakpointStep == RInv /\ HitBreakpoint => RInv'
  <1> SUFFICES ASSUME RInv, HitBreakpoint PROVE RInv'
    OBVIOUS
  <1>1. /\ dead = "no" /\ sigstop' \in BOOLEAN /\ abort_requested' = abort_requested
        /\ UNCHANGED <<sigstop, callback_stack, rti_stack, next_id>>
    BY DEF HitBreakpoint, Running, RInv, Scalars
  <1>2. CASE ops = <<>>
    <2>1. dead' # "no" /\ UNCHANGED engine /\ state' = "stopped"
      BY <1>2 DEF HitBreakpoint, Crash
    <2>2. CallsOK' /\ RtisOK' /\ \A i \in Ids : OnCalls (i)' => OnCalls (i)
      BY <1>1, CallsKept, RtisKept DEF RInv
    <2> QED  BY <1>1, <2>1, <2>2, DeadStep DEF engine
  <1>3. CASE ops # <<>> /\ UNCHANGED <<state, engine, dead>>
    <2>1. abort_requested' \in 0 .. next_id
      BY <1>1 DEF RInv, Scalars
    <2> QED  BY <1>1, <1>3, <2>1, QuietStep
  <1>4. CASE ops # <<>> /\ state' = "stopped" /\ Completed (rti, Last (ops).op = "rti")
    <2>1. Last (ops).op = "rti" => current_operation = Last (ops)
      BY <1>4, OpsFacts DEF RInv
    <2>2. /\ ops' = <<>> /\ engine_stopped' = TRUE /\ temp_breakpoint' = NoId
          /\ \/ /\ current_operation.op = "rti"
                /\ rti' = [rti EXCEPT ![current_operation.id].IsSuspended = TRUE]
                /\ nested_break_stack' = Append (nested_break_stack, current_operation.id)
             \/ /\ rti' = Told (rti, current_operation)
                /\ UNCHANGED nested_break_stack
      BY <1>4, <2>1 DEF Completed, OperationCompleted
    <2> QED  BY <1>1, <1>4, <2>2, EndedStep
  <1> QED  BY <1>2, <1>3, <1>4 DEF HitBreakpoint

LEMMA SignalledStep == RInv /\ Signalled => RInv'
  <1> SUFFICES ASSUME RInv, Signalled PROVE RInv'
    OBVIOUS
  <1>1. /\ dead = "no" /\ sigstop' \in BOOLEAN /\ abort_requested' = abort_requested
        /\ UNCHANGED <<sigstop, callback_stack, rti_stack, next_id>> /\ state' = "stopped"
    BY DEF Signalled, Running, RInv, Scalars
  <1>2. CASE ops = <<>>
    <2>1. dead' # "no" /\ UNCHANGED engine
      BY <1>2 DEF Signalled, Crash
    <2>2. CallsOK' /\ RtisOK' /\ \A i \in Ids : OnCalls (i)' => OnCalls (i)
      BY <1>1, CallsKept, RtisKept DEF RInv
    <2> QED  BY <1>1, <2>1, <2>2, DeadStep DEF engine
  <1>3. CASE ops # <<>>
    <2>1. /\ ops' = <<>> /\ engine_stopped' = TRUE /\ temp_breakpoint' = NoId
          /\ \/ /\ current_operation.op = "rti"
                /\ rti' = [rti EXCEPT ![current_operation.id].IsSuspended = TRUE]
                /\ nested_break_stack' = Append (nested_break_stack, current_operation.id)
             \/ /\ rti' = Told (rti, current_operation)
                /\ UNCHANGED nested_break_stack
      BY <1>3 DEF Signalled, Completed, OperationCompleted
    <2> QED  BY <1>1, <1>3, <2>1, EndedStep
  <1> QED  BY <1>2, <1>3

LEMMA InterruptedStep == RInv /\ Interrupted => RInv'
  <1> SUFFICES ASSUME RInv, Interrupted PROVE RInv'
    OBVIOUS
  <1>1. /\ dead = "no" /\ sigstop' = FALSE /\ sigstop' \in BOOLEAN /\ state = "running"
        /\ UNCHANGED <<rti_stack, dead>>
    BY DEF Interrupted, Running
  <1>2. CASE /\ ops = <<>> /\ state' = "unseen"
             /\ UNCHANGED <<callback_stack, engine, abort_requested, next_id>>
    <2>1. OpsOK' /\ NestedOK' /\ CallsOK' /\ RtisOK'
      BY <1>1, <1>2, OpsKept, NestedKept, CallsKept, RtisKept DEF RInv, engine
    <2>2. Scalars' /\ FreshIds'
      BY <1>1, <1>2 DEF RInv, Scalars, FreshIds, engine
    <2>3. /\ \A i : ~IsCurrent (i)' /\ ~IsCurrent (i) /\ (OnNested (i)' <=> OnNested (i))
          /\ \A i : (OnRti (i)' <=> OnRti (i)) /\ (RtiTop (i)' <=> RtiTop (i))
          /\ \A i : (OnCalls (i)' <=> OnCalls (i)) /\ (IsFrame (i)' <=> IsFrame (i))
      BY <1>1, <1>2 DEF IsCurrent, OnNested, OnRti, RtiTop, OnCalls, IsFrame, engine
    <2>4. Current' /\ Waiting' /\ Temporary' /\ FramesAgree' /\ SuspendedAgree' /\ DoneGone'
      BY <1>1, <1>2, <2>3
         DEF RInv, Current, Waiting, Temporary, FramesAgree, SuspendedAgree, DoneGone, engine
    <2> QED  BY <2>1, <2>2, <2>4 DEF RInv
  <1>3. CASE /\ abort_requested # NoId /\ abort_requested' = NoId
             /\ DoAbortInvocation (abort_requested)
             /\ UNCHANGED <<engine_stopped, temp_breakpoint, nested_break_stack>>
    <2>1. abort_requested \in Ids /\ abort_requested <= next_id
      BY <1>3, RuntimeInvokeAssumption DEF RInv, Scalars, Ids, NoId
    <2> QED  BY <1>1, <1>3, <2>1, DoAbortStep
  <1>4. CASE /\ ops # <<>> /\ state' = "stopped" /\ Completed (rti, FALSE)
             /\ UNCHANGED <<callback_stack, abort_requested, next_id>>
    <2>1. /\ ops' = <<>> /\ engine_stopped' = TRUE /\ temp_breakpoint' = NoId
          /\ rti' = Told (rti, current_operation) /\ UNCHANGED nested_break_stack
      BY <1>4 DEF Completed, OperationCompleted
    <2> QED  BY <1>1, <1>4, <2>1, EndedStep
  <1> QED  BY <1>2, <1>3, <1>4 DEF Interrupted

(* A call that is not an invocation returns.                                *)
LEMMA CallbackPopped ==
    ASSUME RInv, ~InManaged, UNCHANGED next_id, callback_stack' = Front (callback_stack)
    PROVE  /\ callback_stack # <<>> /\ Last (callback_stack).id \in Ids
           /\ CallsOK'
           /\ \A i \in Ids : OnCalls (i)' <=> OnCalls (i) /\ i # Last (callback_stack).id
           /\ \A i \in Ids : IsFrame (i)' <=> IsFrame (i)
  <1> DEFINE l == Last (callback_stack)
  <1>1. callback_stack # <<>> /\ ~l.is_rti
    BY DEF InManaged
  <1>2. /\ CallsOK' /\ l \in Calls
        /\ \A i \in Ids : OnCalls (i)' <=> OnCalls (i) /\ i # l.id
        /\ \A i \in Ids : IsFrame (i)' <=> IsFrame (i) /\ i # l.id
        /\ IsFrame (l.id) <=> l.is_rti
    BY <1>1, CallPopped DEF RInv
  <1>3. l.id \in Ids
    BY <1>2 DEF Calls
  <1> HIDE DEF l
  <1>4. \A i \in Ids : IsFrame (i)' <=> IsFrame (i)
    BY <1>1, <1>2
  <1> QED  BY <1>1, <1>2, <1>3, <1>4 DEF l

LEMMA CallbackReturnedStep == RInv /\ CallbackReturned => RInv'
  <1> SUFFICES ASSUME RInv, CallbackReturned PROVE RInv'
    OBVIOUS
  <1>1. /\ dead = "no" /\ state = "running" /\ sigstop' \in BOOLEAN
        /\ abort_requested' = abort_requested /\ ~InManaged
        /\ UNCHANGED <<sigstop, rti_stack, next_id>> /\ callback_stack' = Front (callback_stack)
    BY DEF CallbackReturned, Running, RInv, Scalars
  <1>2. /\ CallsOK' /\ RtisOK'
        /\ \A i \in Ids : (OnCalls (i)' => OnCalls (i)) /\ (IsFrame (i)' <=> IsFrame (i))
        /\ \A i : (OnRti (i)' <=> OnRti (i)) /\ (RtiTop (i)' <=> RtiTop (i))
    BY <1>1, CallbackPopped, RtisKept DEF RInv
  <1>3. CASE ops = <<>>
    <2>1. dead' # "no" /\ UNCHANGED engine /\ state' = "stopped"
      BY <1>3 DEF CallbackReturned, Crash
    <2> QED  BY <1>1, <1>2, <2>1, DeadStep DEF engine
  <1>4. CASE UNCHANGED <<state, engine, dead>>
    <2>1. OpsOK' /\ NestedOK'
      BY <1>4, OpsKept, NestedKept DEF RInv, engine
    <2>2. Scalars' /\ FreshIds'
      BY <1>1, <1>4 DEF RInv, Scalars, FreshIds, engine
    <2>3. \A i : (IsCurrent (i)' <=> IsCurrent (i)) /\ (OnNested (i)' <=> OnNested (i))
      BY <1>4 DEF IsCurrent, OnNested, engine
    <2>4. Current' /\ Waiting' /\ Temporary' /\ FramesAgree' /\ SuspendedAgree' /\ DoneGone'
      BY <1>2, <1>4, <2>3
         DEF RInv, Current, Waiting, Temporary, FramesAgree, SuspendedAgree, DoneGone, engine
    <2> QED  BY <1>2, <2>1, <2>2, <2>4 DEF RInv
  <1>5. CASE ops # <<>> /\ state' = "stopped" /\ Completed (rti, FALSE)
    <2>1. /\ ops' = <<>> /\ engine_stopped' = TRUE /\ temp_breakpoint' = NoId
          /\ rti' = Told (rti, current_operation) /\ UNCHANGED nested_break_stack
      BY <1>5 DEF Completed, OperationCompleted
    <2> QED  BY <1>1, <1>2, <1>5, <2>1, PlainToldStep
  <1> QED  BY <1>3, <1>4, <1>5 DEF CallbackReturned

LEMMA InvokeEnteredStep ==
    ASSUME RInv, NEW breakpoint \in BOOLEAN, InvokeEntered (breakpoint)
    PROVE  RInv'
  <1>1. /\ dead = "no" /\ state = "running" /\ temp_breakpoint # NoId
        /\ sigstop' \in BOOLEAN /\ abort_requested' = abort_requested
        /\ UNCHANGED <<sigstop, callback_stack, rti_stack, next_id, dead>>
    BY DEF InvokeEntered, Running, RInv, Scalars
  <1>2. temp_breakpoint \in Ids /\ IsCurrent (temp_breakpoint) /\ ops # <<>>
    BY <1>1 DEF RInv, Temporary, Scalars, IsCurrent
  <1>3. current_operation.op = "rti"
    BY <1>2 DEF IsCurrent, current_operation, Op
  <1>4. CASE /\ state' = "stopped"
             /\ ops' = <<>> /\ engine_stopped' = TRUE /\ temp_breakpoint' = NoId
             /\ \/ /\ rti' = [rti EXCEPT ![current_operation.id].IsSuspended = TRUE]
                   /\ nested_break_stack' = Append (nested_break_stack, current_operation.id)
                \/ /\ rti' = Told (rti, current_operation)
                   /\ UNCHANGED nested_break_stack
    BY <1>1, <1>2, <1>3, <1>4, EndedStep
  <1>5. CASE /\ temp_breakpoint' = NoId
             /\ ops' = <<current_operation>> \/ ops' = ops
             /\ UNCHANGED <<state, engine_stopped, rti, nested_break_stack>>
    <2>1. OpsOK' /\ \A i \in Ids : IsCurrent (i)' <=> IsCurrent (i)
      BY <1>2, <1>5, OpsEntered, OpsKept DEF RInv
    <2>2. CallsOK' /\ RtisOK' /\ NestedOK'
      BY <1>1, <1>5, CallsKept, RtisKept, NestedKept DEF RInv
    <2>3. /\ \A i : (OnRti (i)' <=> OnRti (i)) /\ (RtiTop (i)' <=> RtiTop (i))
          /\ \A i : (OnCalls (i)' <=> OnCalls (i)) /\ (IsFrame (i)' <=> IsFrame (i))
          /\ \A i : OnNested (i)' <=> OnNested (i)
      BY <1>1, <1>5 DEF OnNested, OnRti, RtiTop, OnCalls, IsFrame
    <2>4. Scalars' /\ FreshIds'
      BY <1>1, <1>5 DEF RInv, Scalars, FreshIds
    <2>5. Current' /\ Waiting' /\ Temporary' /\ FramesAgree' /\ SuspendedAgree' /\ DoneGone'
      BY <1>1, <1>5, <2>1, <2>3
         DEF RInv, Current, Waiting, Temporary, FramesAgree, SuspendedAgree, DoneGone
    <2> QED  BY <2>1, <2>2, <2>4, <2>5 DEF RInv
  <1>6. \/ /\ state' = "stopped"
           /\ ops' = <<>> /\ engine_stopped' = TRUE /\ temp_breakpoint' = NoId
           /\ \/ /\ rti' = [rti EXCEPT ![current_operation.id].IsSuspended = TRUE]
                 /\ nested_break_stack' = Append (nested_break_stack, current_operation.id)
              \/ /\ rti' = Told (rti, current_operation)
                 /\ UNCHANGED nested_break_stack
        \/ /\ temp_breakpoint' = NoId
           /\ ops' = <<current_operation>> \/ ops' = ops
           /\ UNCHANGED <<state, engine_stopped, rti, nested_break_stack>>
    BY DEF InvokeEntered, Completed, OperationCompleted
  <1> QED  BY <1>4, <1>5, <1>6

(* What the helper's handlers find.                                         *)
LEMMA HelperFacts ==
    ASSUME RInv, NEW i \in Ids, NEW stage, HelperCallback (i, stage)
    PROVE  /\ dead = "no" /\ state = "running" /\ ~InManaged /\ ops # <<>>
           /\ IsCurrent (i) /\ Last (callback_stack).id = i /\ rti[i].stage = stage
           /\ callback_stack # <<>>
           /\ sigstop' \in BOOLEAN /\ abort_requested' = abort_requested
           /\ UNCHANGED <<sigstop, rti_stack, next_id>>
  <1>1. /\ dead = "no" /\ state = "running" /\ ~InManaged /\ ops # <<>>
        /\ Last (ops) = Op ("helper", i) /\ Last (callback_stack).id = i /\ rti[i].stage = stage
        /\ UNCHANGED <<sigstop, abort_requested, rti_stack, next_id>>
    BY DEF HelperCallback, Running
  <1>2. Last (ops).op = "helper" /\ Last (ops).id = i
    BY <1>1 DEF Op
  <1>3. IsCurrent (i)
    BY <1>1, <1>2, OpsFacts DEF RInv
  <1>4. callback_stack # <<>> /\ sigstop' \in BOOLEAN
    BY <1>1 DEF InManaged, RInv, Scalars
  <1> QED  BY <1>1, <1>3, <1>4

(* The helper's invocation is given up, after its call has returned.        *)
LEMMA GivenUpStep ==
    ASSUME RInv, NEW i \in Ids, NEW stage, HelperCallback (i, stage),
           callback_stack' = Front (callback_stack), state' = "stopped",
           NEW x \in Rtis, x.mode = rti[i].mode, x.stage = rti[i].stage,
           x.completed = rti[i].completed, x.IsSuspended = rti[i].IsSuspended,
           Completed ([rti EXCEPT ![i] = x], FALSE)
    PROVE  RInv'
  <1> DEFINE r == [rti EXCEPT ![i] = x]
  <1>1. /\ dead = "no" /\ state = "running" /\ ~InManaged /\ ops # <<>>
        /\ IsCurrent (i) /\ Last (callback_stack).id = i
        /\ sigstop' \in BOOLEAN /\ abort_requested' = abort_requested
        /\ UNCHANGED <<sigstop, rti_stack, next_id>>
    BY HelperFacts
  <1>2. /\ CallsOK'
        /\ \A j \in Ids : OnCalls (j)' <=> OnCalls (j) /\ j # i
        /\ \A j \in Ids : IsFrame (j)' <=> IsFrame (j)
    BY <1>1, CallbackPopped
  <1>3. r \in [Ids -> Rtis] /\ r[i] = x /\ \A j \in Ids : j # i => r[j] = rti[j]
    BY Update DEF RInv, Scalars
  <1>4. /\ ops' = <<>> /\ engine_stopped' = TRUE /\ temp_breakpoint' = NoId
        /\ rti' = Told (r, current_operation) /\ UNCHANGED nested_break_stack
    BY DEF Completed, OperationCompleted
  <1> HIDE DEF r
  <1>5. ASSUME NEW j \in Ids
        PROVE  /\ r[j].mode = rti[j].mode /\ r[j].stage = rti[j].stage
               /\ r[j].IsSuspended = rti[j].IsSuspended /\ r[j].completed = rti[j].completed
               /\ r[j].done => rti[j].done \/ (IsCurrent (j) /\ ~OnCalls (j)')
               /\ ~IsCurrent (j) => r[j] = rti[j]
    <2>1. CASE j = i
      BY <2>1, <1>1, <1>2, <1>3
    <2>2. CASE j # i
      BY <2>2, <1>3
    <2> QED  BY <2>1, <2>2
  <1>6. \A j \in Ids : (OnCalls (j)' => OnCalls (j)) /\ (IsFrame (j)' <=> IsFrame (j))
    BY <1>2
  <1>7. /\ state' \in {"stopped", "running", "unseen"}
        /\ abort_requested' \in {abort_requested, NoId}
    BY <1>1
  <1> QED  BY <1>1, <1>2, <1>3, <1>4, <1>5, <1>6, <1>7, ToldStep

LEMMA HelperAbortedStep ==
    ASSUME RInv, NEW i \in Ids, HelperAborted (i)
    PROVE  RInv'
  <1>1. PICK stage \in {"prepare", "compile"} : HelperCallback (i, stage)
    BY DEF HelperAborted
  <1> DEFINE x == [rti[i] EXCEPT !.done = TRUE]
  <1>2. /\ callback_stack' = Front (callback_stack) /\ state' = "stopped"
        /\ Completed ([rti EXCEPT ![i] = x], FALSE)
    BY DEF HelperAborted
  <1>3. rti[i] \in Rtis
    BY DEF RInv, Scalars
  <1>4. /\ x \in Rtis /\ x.mode = rti[i].mode /\ x.stage = rti[i].stage
        /\ x.completed = rti[i].completed /\ x.IsSuspended = rti[i].IsSuspended
    BY <1>3 DEF Rtis
  <1> HIDE DEF x
  <1> QED  BY <1>1, <1>2, <1>4, GivenUpStep

LEMMA HelperPreparedStep ==
    ASSUME RInv, NEW i \in Ids, HelperPrepared (i)
    PROVE  RInv'
  <1>1. HelperCallback (i, "prepare")
    BY DEF HelperPrepared
  <1>2. /\ dead = "no" /\ state = "running" /\ ops # <<>> /\ IsCurrent (i)
        /\ rti[i].stage = "prepare"
        /\ sigstop' \in BOOLEAN /\ abort_requested' = abort_requested
        /\ UNCHANGED <<sigstop, rti_stack, next_id>>
    BY <1>1, HelperFacts
  <1>3. rti[i] \in Rtis
    BY DEF RInv, Scalars
  <1>4. ASSUME NEW stage \in {"prepare", "compile"}, rti' = [rti EXCEPT ![i].stage = stage],
               UNCHANGED <<target, ops, engine_stopped, temp_breakpoint, nested_break_stack, dead>>
        PROVE  RInv'
    <2> DEFINE x == [rti[i] EXCEPT !.stage = stage]
    <2>1. /\ x \in Rtis /\ x.mode = rti[i].mode /\ x.done = rti[i].done
          /\ x.completed = rti[i].completed /\ x.IsSuspended = rti[i].IsSuspended
          /\ x.stage = stage
      BY <1>3 DEF Rtis, Stages
    <2>2. rti' = [rti EXCEPT ![i] = x]
      BY <1>4
    <2> HIDE DEF x
    <2>3. x.stage = "invoked" <=> rti[i].stage = "invoked"
      BY <2>1, <1>2
    <2>4. i <= next_id
      BY <1>2, CurrentFacts
    <2>5. /\ UNCHANGED <<state, callback_stack, ops, engine_stopped, temp_breakpoint>>
          /\ UNCHANGED <<rti_stack, nested_break_stack, next_id, dead>>
      BY <1>2, <1>4 DEF target
    <2> QED  BY <1>2, <2>1, <2>2, <2>3, <2>4, <2>5, NotedStep
  <1>5. ASSUME NEW done \in BOOLEAN, Completed ([rti EXCEPT ![i].done = done], FALSE),
               callback_stack' = Front (callback_stack), state' = "stopped"
        PROVE  RInv'
    <2> DEFINE x == [rti[i] EXCEPT !.done = done]
    <2>1. /\ x \in Rtis /\ x.mode = rti[i].mode /\ x.stage = rti[i].stage
          /\ x.completed = rti[i].completed /\ x.IsSuspended = rti[i].IsSuspended
      BY <1>3 DEF Rtis
    <2>2. Completed ([rti EXCEPT ![i] = x], FALSE)
      BY <1>5
    <2> HIDE DEF x
    <2> QED  BY <1>1, <1>5, <2>1, <2>2, GivenUpStep
  <1>6. ASSUME Completed (rti, FALSE), UNCHANGED <<callback_stack, state>>
        PROVE  RInv'
    <2>1. /\ ops' = <<>> /\ engine_stopped' = TRUE /\ temp_breakpoint' = NoId
          /\ rti' = Told (rti, current_operation) /\ UNCHANGED nested_break_stack
      BY <1>6 DEF Completed, OperationCompleted
    <2> QED  BY <1>2, <1>6, <2>1, EndedStep
  <1> QED  BY <1>4, <1>5, <1>6 DEF HelperPrepared

LEMMA HelperCompiledStep ==
    ASSUME RInv, NEW i \in Ids, HelperCompiled (i)
    PROVE  RInv'
  <1> DEFINE y == [rti[i] EXCEPT !.HasStarted = TRUE]
             x == [y EXCEPT !.stage = "invoked"]
  <1>1. HelperCallback (i, "compile") /\ UNCHANGED dead
    BY DEF HelperCompiled
  <1>2. /\ dead = "no" /\ state = "running" /\ ~InManaged /\ callback_stack # <<>>
        /\ IsCurrent (i) /\ Last (callback_stack).id = i
        /\ sigstop' \in BOOLEAN /\ abort_requested' = abort_requested
        /\ UNCHANGED <<sigstop, rti_stack, next_id>>
    BY <1>1, HelperFacts
  <1>3. rti[i] \in Rtis /\ rti \in [Ids -> Rtis]
    BY DEF RInv, Scalars
  <1>4. /\ y \in Rtis /\ y.mode = rti[i].mode /\ y.stage = rti[i].stage
        /\ y.completed = rti[i].completed /\ y.IsSuspended = rti[i].IsSuspended
        /\ y.done = rti[i].done
    BY <1>3 DEF Rtis
  <1>5. /\ x \in Rtis /\ x.mode = rti[i].mode /\ x.stage = "invoked" /\ x.done = rti[i].done
        /\ x.completed = rti[i].completed /\ x.IsSuspended = rti[i].IsSuspended
    BY <1>3 DEF Rtis, Stages
  <1>6. CASE /\ rti' = [[rti EXCEPT ![i].HasStarted = TRUE] EXCEPT ![i].stage = "invoked"]
             /\ temp_breakpoint' = i
             /\ callback_stack' = Append (Front (callback_stack), Call (i, TRUE))
             /\ UNCHANGED <<state, ops, engine_stopped, nested_break_stack>>
    <2>1. rti' = [rti EXCEPT ![i] = x]
      <3>1. [rti EXCEPT ![i].HasStarted = TRUE] = [rti EXCEPT ![i] = y]
        OBVIOUS
      <3> HIDE DEF y
      <3> QED  BY <1>3, <1>6, <3>1
    <2> HIDE DEF x, y
    <2>2. rti' \in [Ids -> Rtis] /\ rti'[i] = x /\ \A j \in Ids : j # i => rti'[j] = rti[j]
      BY <1>3, <1>5, <2>1
    <2>3. \A j \in Ids : /\ rti'[j].mode = rti[j].mode /\ rti'[j].done = rti[j].done
                         /\ rti'[j].completed = rti[j].completed
                         /\ rti'[j].IsSuspended = rti[j].IsSuspended
                         /\ j # i => rti'[j].stage = rti[j].stage
      BY <1>5, <2>2
    <2>4. /\ CallsOK'
          /\ \A j \in Ids : OnCalls (j)' <=> OnCalls (j)
          /\ \A j \in Ids : IsFrame (j)' <=> IsFrame (j) \/ j = i
      BY <1>2, <1>6, CallReplaced DEF RInv
    <2>5. /\ OpsOK' /\ NestedOK' /\ RtisOK'
          /\ \A j : (IsCurrent (j)' <=> IsCurrent (j)) /\ (OnNested (j)' <=> OnNested (j))
          /\ \A j : (OnRti (j)' <=> OnRti (j)) /\ (RtiTop (j)' <=> RtiTop (j))
      BY <1>2, <1>6, OpsKept, NestedKept, RtisKept DEF RInv
    <2>6. OnRti (i) /\ i <= next_id
      BY <1>2, CurrentFacts
    <2>7. Scalars'
      BY <1>2, <1>6, <2>2 DEF RInv, Scalars
    <2>8. FreshIds'
      <3>1. \A j \in Ids : next_id < j => j # i
        BY <2>6, RuntimeInvokeAssumption DEF RInv, Scalars, Ids
      <3> QED  BY <1>2, <2>2, <3>1 DEF RInv, FreshIds
    <2>9. Current' /\ Waiting' /\ SuspendedAgree' /\ DoneGone'
      <3>1. Current'
        BY <1>1, <1>6, <2>3, <2>5 DEF RInv, Current
      <3>2. Waiting'
        BY <1>1, <1>6, <2>3, <2>5 DEF RInv, Waiting
      <3>3. SuspendedAgree'
        BY <1>1, <2>3, <2>5 DEF RInv, SuspendedAgree
      <3>4. DoneGone'
        BY <2>3, <2>4 DEF RInv, DoneGone
      <3> QED  BY <3>1, <3>2, <3>3, <3>4
    <2>10. Temporary'
      BY <1>2, <1>6, <2>5 DEF Temporary
    <2>11. FramesAgree'
      <3> SUFFICES ASSUME NEW j \in Ids
                   PROVE  IsFrame (j)' <=> OnRti (j)' /\ rti'[j].stage = "invoked"
        BY DEF FramesAgree
      <3>1. CASE j = i
        BY <3>1, <1>5, <2>2, <2>4, <2>5, <2>6
      <3>2. CASE j # i
        BY <3>2, <1>2, <2>3, <2>4, <2>5 DEF RInv, FramesAgree
      <3> QED  BY <3>1, <3>2
    <2> QED  BY <2>4, <2>5, <2>7, <2>8, <2>9, <2>10, <2>11 DEF RInv
  <1>7. CASE /\ Completed ([rti EXCEPT ![i].HasStarted = TRUE], FALSE)
             /\ callback_stack' = Front (callback_stack) /\ state' = "stopped"
    <2>1. Completed ([rti EXCEPT ![i] = y], FALSE)
      BY <1>7
    <2> HIDE DEF x, y
    <2> QED  BY <1>1, <1>4, <1>7, <2>1, GivenUpStep
  <1> QED  BY <1>6, <1>7 DEF HelperCompiled

(* The innermost invocation and the current operation are both completed.   *)
BothTold (i) ==
    Told (Told ([rti EXCEPT ![i].done = TRUE], current_operation), Op ("rti", i))

ReturnNoted (t, i) ==
    /\ t \in [Ids -> Rtis]
    /\ \A j \in Ids :
        /\ t[j].mode = rti[j].mode /\ t[j].stage = rti[j].stage
        /\ t[j].IsSuspended = rti[j].IsSuspended
        /\ t[j].done => rti[j].done \/ j = i
        /\ (rti[j].completed \/ j = i \/ IsCurrent (j)) => t[j].completed
        /\ (j # i /\ ~IsCurrent (j)) => t[j] = rti[j]

LEMMA ToldTwice ==
    ASSUME RInv, ops # <<>>, NEW i \in Ids
    PROVE  ReturnNoted (BothTold (i), i)
  <1> DEFINE t == BothTold (i)
             o == current_operation
             r == [rti EXCEPT ![i].done = TRUE]
             q == Told (r, o)
  <1>1. /\ o \in Operations
        /\ o.op = "rti" => o.id \in Ids
        /\ \A j : IsCurrent (j) <=> o = Op ("rti", j)
    BY OpsFacts DEF RInv
  <1>2. \A j : IsCurrent (j) <=> o.op = "rti" /\ o.id = j
    <2> HIDE DEF o
    <2> QED  BY <1>1 DEF Op, Operations
  <1>3. /\ r \in [Ids -> Rtis]
        /\ r[i] = [rti[i] EXCEPT !.done = TRUE] /\ \A j \in Ids : j # i => r[j] = rti[j]
    <2> DEFINE x == [rti[i] EXCEPT !.done = TRUE]
    <2>1. rti \in [Ids -> Rtis] /\ rti[i] \in Rtis
      BY DEF RInv, Scalars
    <2>2. x \in Rtis /\ r = [rti EXCEPT ![i] = x]
      BY <2>1 DEF Rtis
    <2> HIDE DEF x, r
    <2>3. r \in [Ids -> Rtis] /\ r[i] = x /\ \A j \in Ids : j # i => r[j] = rti[j]
      BY <2>1, <2>2
    <2> QED  BY <2>3 DEF x
  <1>4. /\ q = IF o.op = "rti" THEN [r EXCEPT ![o.id].completed = TRUE] ELSE r
        /\ t = [q EXCEPT ![i].completed = TRUE]
    BY DEF BothTold, Told, Op
  <1> HIDE DEF o, r, q, t
  <1>5. /\ q \in [Ids -> Rtis]
        /\ \A j \in Ids : IsCurrent (j) => q[j] = [r[j] EXCEPT !.completed = TRUE]
        /\ \A j \in Ids : ~IsCurrent (j) => q[j] = r[j]
    <2>1. CASE o.op = "rti"
      <3> DEFINE c == o.id
                 x == [r[c] EXCEPT !.completed = TRUE]
      <3>1. c \in Ids /\ q = [r EXCEPT ![c] = x] /\ r[c] \in Rtis
        BY <2>1, <1>1, <1>3, <1>4
      <3>2. x \in Rtis
        BY <3>1 DEF Rtis
      <3>3. q \in [Ids -> Rtis] /\ q[c] = x /\ \A j \in Ids : j # c => q[j] = r[j]
        <4> HIDE DEF c, x
        <4> QED  BY <3>1, <3>2, <1>3
      <3> QED  BY <2>1, <3>1, <3>3, <1>2
    <2>2. CASE o.op # "rti"
      BY <2>2, <1>2, <1>3, <1>4
    <2> QED  BY <2>1, <2>2
  <1>6. /\ t \in [Ids -> Rtis]
        /\ t[i] = [q[i] EXCEPT !.completed = TRUE] /\ \A j \in Ids : j # i => t[j] = q[j]
    <2> DEFINE x == [q[i] EXCEPT !.completed = TRUE]
    <2>1. q[i] \in Rtis
      BY <1>5
    <2>2. x \in Rtis
      BY <2>1 DEF Rtis
    <2>3. t = [q EXCEPT ![i] = x] /\ q \in [Ids -> Rtis]
      BY <1>4, <1>5
    <2> HIDE DEF x
    <2>4. t \in [Ids -> Rtis] /\ t[i] = x /\ \A j \in Ids : j # i => t[j] = q[j]
      BY <2>2, <2>3
    <2> QED  BY <2>4 DEF x
  <1>7. ASSUME NEW j \in Ids
        PROVE  /\ t[j].mode = rti[j].mode /\ t[j].stage = rti[j].stage
               /\ t[j].IsSuspended = rti[j].IsSuspended
               /\ t[j].done => rti[j].done \/ j = i
               /\ (rti[j].completed \/ j = i \/ IsCurrent (j)) => t[j].completed
               /\ (j # i /\ ~IsCurrent (j)) => t[j] = rti[j]
    <2>1. /\ r[j].mode = rti[j].mode /\ r[j].stage = rti[j].stage
          /\ r[j].IsSuspended = rti[j].IsSuspended /\ r[j].completed = rti[j].completed
          /\ r[j].done => rti[j].done \/ j = i
      <3>1. CASE j = i
        <4>1. rti[i] \in Rtis
          BY DEF RInv, Scalars
        <4> QED  BY <3>1, <4>1, <1>3 DEF Rtis
      <3>2. CASE j # i
        BY <3>2, <1>3
      <3> QED  BY <3>1, <3>2
    <2>2. /\ q[j].mode = r[j].mode /\ q[j].stage = r[j].stage
          /\ q[j].IsSuspended = r[j].IsSuspended /\ q[j].done = r[j].done
          /\ (r[j].completed \/ IsCurrent (j)) => q[j].completed
      <3>1. CASE IsCurrent (j)
        <4>1. r[j] \in Rtis /\ q[j] = [r[j] EXCEPT !.completed = TRUE]
          BY <3>1, <1>3, <1>5
        <4> QED  BY <4>1 DEF Rtis
      <3>2. CASE ~IsCurrent (j)
        BY <3>2, <1>5
      <3> QED  BY <3>1, <3>2
    <2>3. /\ t[j].mode = q[j].mode /\ t[j].stage = q[j].stage
          /\ t[j].IsSuspended = q[j].IsSuspended /\ t[j].done = q[j].done
          /\ (q[j].completed \/ j = i) => t[j].completed
      <3>1. CASE j = i
        <4>1. q[i] \in Rtis
          BY <1>5
        <4> QED  BY <3>1, <4>1, <1>6 DEF Rtis
      <3>2. CASE j # i
        BY <3>2, <1>6
      <3> QED  BY <3>1, <3>2
    <2>4. (j # i /\ ~IsCurrent (j)) => t[j] = rti[j]
      BY <1>3, <1>5, <1>6
    <2> QED  BY <2>1, <2>2, <2>3, <2>4
  <1> QED  BY <1>6, <1>7 DEF ReturnNoted, t

(* The innermost invocation has returned, and the engine has found it.      *)
LEMMA InvokeFinishedStep ==
    ASSUME RInv, dead = "no", UNCHANGED <<sigstop, abort_requested, next_id, dead>>,
           callback_stack # <<>>, Last (callback_stack).is_rti,
           callback_stack' = Front (callback_stack), state' = "stopped",
           NEW i \in Ids, Last (callback_stack).id = i,
           RtiTop (i), rti_stack' = Front (rti_stack),
           ops' = <<>>, engine_stopped' = TRUE, temp_breakpoint' = NoId,
           ReturnNoted (rti', i),
           \/ /\ rti[i].IsSuspended
              /\ nested_break_stack # <<>> /\ Last (nested_break_stack) = i
              /\ nested_break_stack' = Front (nested_break_stack)
           \/ ~rti[i].IsSuspended /\ UNCHANGED nested_break_stack
    PROVE  RInv'
  <1> USE DEF ReturnNoted
  <1>1. /\ CallsOK' /\ Last (callback_stack) \in Calls
        /\ \A j \in Ids : OnCalls (j)' <=> OnCalls (j) /\ j # i
        /\ \A j \in Ids : IsFrame (j)' <=> IsFrame (j) /\ j # i
        /\ OnCalls (i)
    BY CallPopped DEF RInv
  <1>2. RtisOK' /\ \A j \in Ids : OnRti (j)' <=> OnRti (j) /\ j # i
    BY RtiPopped DEF RInv
  <1>3. OpsOK' /\ \A j : ~IsCurrent (j)'
    BY OpsCleared
  <1>4. NestedOK' /\ \A j \in Ids : OnNested (j)' <=> OnNested (j) /\ j # i
    <2>1. CASE /\ rti[i].IsSuspended
               /\ nested_break_stack # <<>> /\ Last (nested_break_stack) = i
               /\ nested_break_stack' = Front (nested_break_stack)
      BY <2>1, NestedPopped DEF RInv
    <2>2. CASE ~rti[i].IsSuspended /\ UNCHANGED nested_break_stack
      <3>1. ~OnNested (i)
        BY <2>2 DEF RInv, SuspendedAgree
      <3> QED  BY <2>2, <3>1, NestedKept DEF RInv
    <2> QED  BY <2>1, <2>2
  <1>5. Scalars'
    BY DEF RInv, Scalars
  <1>6. FreshIds'
    <2> SUFFICES ASSUME NEW j \in Ids, next_id < j
                 PROVE  rti'[j] = NoRti
      BY DEF FreshIds
    <2>1. ~(j <= next_id)
      BY RuntimeInvokeAssumption DEF RInv, Scalars, Ids
    <2>2. i <= next_id
      BY <1>1 DEF RInv, CallsOK, OnCalls
    <2>3. ~IsCurrent (j)
      BY <2>1, CurrentFacts
    <2>4. rti'[j] = rti[j]
      BY <2>1, <2>2, <2>3
    <2> QED  BY <2>4 DEF RInv, FreshIds
  <1>7. Current' /\ Temporary'
    BY <1>3 DEF Current, Temporary
  <1>8. Waiting'
    <2> SUFFICES ASSUME NEW j \in Ids, rti'[j].mode # "none"
                 PROVE  rti'[j].completed \/ (rti'[j].IsSuspended /\ ~rti'[j].done)
      BY DEF Waiting
    <2>1. rti[j].completed \/ (rti[j].IsSuspended /\ ~rti[j].done) \/ IsCurrent (j)
      BY DEF RInv, Waiting
    <2> QED  BY <2>1
  <1>9. FramesAgree' /\ SuspendedAgree'
    BY <1>1, <1>2, <1>4 DEF RInv, FramesAgree, SuspendedAgree
  <1>10. DoneGone'
    BY <1>1 DEF RInv, DoneGone
  <1> QED  BY <1>1, <1>2, <1>3, <1>4, <1>5, <1>6, <1>7, <1>8, <1>9, <1>10 DEF RInv

LEMMA InvokeDoneStep == RInv /\ InvokeDone => RInv'
  <1> SUFFICES ASSUME RInv, InvokeDone PROVE RInv'
    OBVIOUS
  <1> DEFINE i == Last (callback_stack).id
             r == [rti EXCEPT ![i].done = TRUE]
  <1>1. /\ dead = "no" /\ callback_stack # <<>> /\ Last (callback_stack).is_rti
        /\ callback_stack' = Front (callback_stack) /\ state' = "stopped"
        /\ UNCHANGED <<sigstop, abort_requested, next_id>>
    BY DEF InvokeDone, Running
  <1>2. CallsOK' /\ \A j \in Ids : OnCalls (j)' => OnCalls (j)
    BY <1>1, CallPopped DEF RInv
  <1>3. sigstop' \in BOOLEAN /\ abort_requested' \in {abort_requested, NoId}
    BY <1>1 DEF RInv, Scalars
  <1>4. CASE /\ UNCHANGED engine /\ dead' # "no"
             /\ UNCHANGED rti_stack \/ (RtiTop (i) /\ rti_stack' = Front (rti_stack))
    <2>1. RtisOK'
      BY <1>1, <1>4, RtisKept, RtiPopped DEF RInv
    <2> QED  BY <1>1, <1>2, <1>3, <1>4, <2>1, DeadStep DEF engine
  <1>5. CASE /\ RtiTop (i) /\ rti_stack' = Front (rti_stack) /\ ops # <<>>
             /\ UNCHANGED dead
             /\ rti[i].IsSuspended => nested_break_stack # <<>> /\ Last (nested_break_stack) = i
             /\ OperationCompleted (Op ("rti", i), Told (r, current_operation),
                    IF rti[i].IsSuspended THEN Front (nested_break_stack) ELSE nested_break_stack,
                    FALSE)
    <2>1. /\ ops' = <<>> /\ engine_stopped' = TRUE /\ temp_breakpoint' = NoId
          /\ rti' = Told (Told (r, current_operation), Op ("rti", i))
      BY <1>5 DEF OperationCompleted
    <2>2. \/ /\ rti[i].IsSuspended
             /\ nested_break_stack # <<>> /\ Last (nested_break_stack) = i
             /\ nested_break_stack' = Front (nested_break_stack)
          \/ ~rti[i].IsSuspended /\ UNCHANGED nested_break_stack
      BY <1>5 DEF OperationCompleted
    <2>3. i \in Ids
      <3>1. Last (callback_stack) \in Calls
        BY <1>1, CallPopped DEF RInv
      <3> QED  BY <3>1 DEF Calls
    <2>4. ops # <<>> /\ rti' = BothTold (i)
      BY <1>5, <2>1 DEF BothTold
    <2>5. ReturnNoted (rti', i)
      <3> HIDE DEF i
      <3> QED  BY <2>3, <2>4, ToldTwice
    <2> HIDE DEF i
    <2> QED  BY <1>1, <1>5, <2>1, <2>2, <2>3, <2>5, InvokeFinishedStep DEF i
  <1>6. \/ /\ UNCHANGED engine /\ dead' # "no"
           /\ UNCHANGED rti_stack \/ (RtiTop (i) /\ rti_stack' = Front (rti_stack))
        \/ /\ RtiTop (i) /\ rti_stack' = Front (rti_stack) /\ ops # <<>>
           /\ UNCHANGED dead
           /\ rti[i].IsSuspended => nested_break_stack # <<>> /\ Last (nested_break_stack) = i
           /\ OperationCompleted (Op ("rti", i), Told (r, current_operation),
                  IF rti[i].IsSuspended THEN Front (nested_break_stack) ELSE nested_break_stack,
                  FALSE)
    BY DEF InvokeDone, Crash, RtiTop
  <1> QED  BY <1>4, <1>5, <1>6

-----------------------------------------------------------------------------
(* The theorems.                                                            *)

LEMMA NextStep == RInv /\ [Next]_vars => RInv'
  <1> SUFFICES ASSUME RInv, [Next]_vars PROVE RInv'
    OBVIOUS
  <1>1. ASSUME NEW mode \in Modes, RuntimeInvoke (mode) PROVE RInv'
    BY <1>1, RuntimeInvokeStep
  <1>2. CASE Run
    BY <1>2, RunStep
  <1>3. CASE Stop
    BY <1>3, StopStep
  <1>4. CASE Return
    BY <1>4, ReturnStep
  <1>5. ASSUME NEW i \in Ids, AbortInvocation (i) PROVE RInv'
    BY <1>5, AbortInvocationStep
  <1>6. ASSUME NEW breakpoint \in BOOLEAN, InvokeEntered (breakpoint) PROVE RInv'
    BY <1>6, InvokeEnteredStep
  <1>7. CASE HitBreakpoint
    BY <1>7, HitBreakpointStep
  <1>8. CASE Signalled
    BY <1>8, SignalledStep
  <1>9. CASE Interrupted
    BY <1>9, InterruptedStep
  <1>10. CASE CallbackReturned
    BY <1>10, CallbackReturnedStep
  <1>11. CASE InvokeDone
    BY <1>11, InvokeDoneStep
  <1>12. ASSUME NEW i \in Ids, HelperAborted (i) PROVE RInv'
    BY <1>12, HelperAbortedStep
  <1>13. ASSUME NEW i \in Ids, HelperPrepared (i) PROVE RInv'
    BY <1>13, HelperPreparedStep
  <1>14. ASSUME NEW i \in Ids, HelperCompiled (i) PROVE RInv'
    BY <1>14, HelperCompiledStep
  <1>15. CASE UNCHANGED vars
    <2>1. /\ UNCHANGED <<state, callback_stack, engine, rti_stack, next_id, dead>>
          /\ UNCHANGED <<sigstop, abort_requested>>
      BY <1>15 DEF vars, target, stacks, engine
    <2> QED  BY <2>1, QuietStep DEF RInv, Scalars
  <1> QED  BY <1>1, <1>2, <1>3, <1>4, <1>5, <1>6, <1>7, <1>8, <1>9, <1>10, <1>11, <1>12, <1>13,
              <1>14, <1>15 DEF Next

(* The inductive invariant holds, for any number of calls.                  *)
THEOREM InvocationInvariant == Spec => []RInv
  BY InitStep, NextStep, PTL DEF Spec

(* Every variable has its type, and a step is never pushed on an operation  *)
(* that is under way (ExecuteOperation).                                    *)
THEOREM InvocationTypes == Spec => []TypeOK
  <1>1. RInv => TypeOK
    <2> SUFFICES ASSUME RInv PROVE TypeOK
      OBVIOUS
    <2>1. /\ callback_stack \in Seq ([id : Ids, is_rti : BOOLEAN])
          /\ ops \in Seq ([op : {"run", "rti", "helper", "abort"}, id : Ids \cup {NoId}])
          /\ rti_stack \in Seq (Ids) /\ nested_break_stack \in Seq (Ids)
      BY DEF RInv, CallsOK, OpsOK, RtisOK, NestedOK, Calls, Operations
    <2>2. \A k \in 2 .. Len (ops) : ops[k].op # "run"
      BY DEF RInv, OpsOK
    <2>3. abort_requested \in Ids \cup {NoId}
      BY RuntimeInvokeAssumption DEF RInv, Scalars, Ids, NoId
    <2>4. ASSUME NEW i \in Ids
          PROVE  /\ rti[i].mode \in Modes \cup {"none"}
                 /\ rti[i].stage \in {"none", "prepare", "compile", "invoked"}
                 /\ \A f \in {"HasStarted", "AbortRequested", "IsSuspended", "done",
                              "completed"} : rti[i][f] \in BOOLEAN
      <3>1. rti[i] \in Rtis
        BY DEF RInv, Scalars
      <3> QED  BY <3>1 DEF Rtis, Stages
    <2> QED  BY <2>1, <2>2, <2>3, <2>4 DEF TypeOK, RInv, Scalars
  <1> QED  BY <1>1, InvocationInvariant, PTL

(* The invocations that the thread is executing are those that the engine   *)
(* knows to be under way, in the same order.                                *)
THEOREM StacksAlwaysAgree == Spec => []StacksAgree
  <1>1. RInv => StacksAgree
    <2> SUFFICES ASSUME RInv, dead = "no"
                 PROVE  /\ {c.id : c \in {c \in ToSet (callback_stack) : c.is_rti}}
                             = {i \in ToSet (rti_stack) : Invoked (i)}
                        /\ Ascending (CallIds) /\ Ascending (rti_stack)
      BY DEF StacksAgree
    <2>1. Ascending (CallIds) /\ Ascending (rti_stack)
      BY DEF RInv, CallsOK, RtisOK
    <2>2. /\ \A k \in DOMAIN callback_stack : callback_stack[k].id \in Ids
          /\ \A k \in DOMAIN rti_stack : rti_stack[k] \in Ids
      <3>1. /\ \A k \in DOMAIN callback_stack : callback_stack[k] \in Calls
            /\ \A k \in DOMAIN rti_stack : rti_stack[k] \in Ids
        BY DEF RInv, CallsOK, RtisOK
      <3> QED  BY <3>1 DEF Calls
    <2>3. \A i : i \in {c.id : c \in {c \in ToSet (callback_stack) : c.is_rti}}
                   <=> i \in Ids /\ IsFrame (i)
      BY <2>2 DEF ToSet, IsFrame
    <2>4. \A i : i \in {j \in ToSet (rti_stack) : Invoked (j)}
                   <=> i \in Ids /\ OnRti (i) /\ rti[i].stage = "invoked"
      BY <2>2 DEF ToSet, OnRti, Invoked
    <2>5. \A i \in Ids : IsFrame (i) <=> OnRti (i) /\ rti[i].stage = "invoked"
      BY DEF RInv, FramesAgree
    <2> QED  BY <2>1, <2>3, <2>4, <2>5
  <1> QED  BY <1>1, InvocationInvariant, PTL

(* The nested break states that were announced and not yet left are those   *)
(* of the suspended invocations, innermost last.                            *)
THEOREM NestedAlwaysAgree == Spec => []NestedAgree
  <1>1. RInv => NestedAgree
    <2> SUFFICES ASSUME RInv, dead = "no"
                 PROVE  /\ ToSet (nested_break_stack) = {i \in ToSet (rti_stack) : Suspended (i)}
                        /\ Ascending (nested_break_stack)
      BY DEF NestedAgree
    <2>1. Ascending (nested_break_stack)
      BY DEF RInv, NestedOK
    <2>2. /\ \A k \in DOMAIN nested_break_stack : nested_break_stack[k] \in Ids
          /\ \A k \in DOMAIN rti_stack : rti_stack[k] \in Ids
      BY DEF RInv, NestedOK, RtisOK
    <2>3. \A i : i \in ToSet (nested_break_stack) <=> i \in Ids /\ OnNested (i)
      BY <2>2 DEF ToSet, OnNested
    <2>4. \A i : i \in {j \in ToSet (rti_stack) : Suspended (j)}
                   <=> i \in Ids /\ OnRti (i) /\ rti[i].IsSuspended
      BY <2>2 DEF ToSet, OnRti, Suspended
    <2>5. \A i \in Ids : OnNested (i) <=> OnRti (i) /\ rti[i].IsSuspended
      BY DEF RInv, SuspendedAgree
    <2> QED  BY <2>1, <2>3, <2>4, <2>5
  <1> QED  BY <1>1, InvocationInvariant, PTL

(* A result that says `completed' or `aborted' is about an invocation that  *)
(* the thread is no longer executing.                                       *)
THEOREM DoneIsAlwaysGone == Spec => []DoneIsGone
  <1>1. RInv => DoneIsGone
    BY DEF RInv, DoneGone, OnCalls, DoneIsGone
  <1> QED  BY <1>1, InvocationInvariant, PTL

(* When the thread has stopped, whoever waits for the result of an          *)
(* invocation has been told, or it is suspended and not finished.           *)
THEOREM NobodyEverWaits == Spec => []NobodyWaits
  <1>1. RInv => NobodyWaits
    BY DEF RInv, Waiting, NobodyWaits, Suspended
  <1> QED  BY <1>1, InvocationInvariant, PTL

(* The temporary breakpoint is that of the invocation being entered.        *)
THEOREM TemporaryAlwaysOwned == Spec => []TemporaryOwned
  <1>1. RInv => TemporaryOwned
    BY DEF RInv, Temporary, TemporaryOwned, IsCurrent, current_operation
  <1> QED  BY <1>1, InvocationInvariant, PTL
=============================================================================
