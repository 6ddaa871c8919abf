------------------------- MODULE CountingQueueProofs -------------------------
(***************************************************************************)
(* Proofs about CountingQueue for every number of threads, every capacity  *)
(* and every set of values: its types and capacity, that no wakeup is      *)
(* lost, and that it implements BoundedChannel (safety part).              *)
(***************************************************************************)
EXTENDS CountingQueue, TLAPS

-----------------------------------------------------------------------------
(* Calls. *)

\* A call is idle, a pop or a push of a value; the name tells which.
LEMMA CallCases ==
    ASSUME NEW c \in Calls
    PROVE  /\ c.name = "idle" => c = Idle
           /\ c.name = "pop" => c = PopCall
           /\ c.name = "push" => c.value \in Values
           /\ c.name \in {"idle", "pop", "push"}
  BY DEF Calls, Idle, PopCall, PushCall

\* The idle call is a call, and no other call has its name.
LEMMA IdleIsCall == Idle \in Calls
  BY DEF Calls

-----------------------------------------------------------------------------
(* Types. *)

\* The initial state has the types.
LEMMA InitTypeOK == Init => TypeOK
<1> SUFFICES ASSUME Init PROVE TypeOK
  OBVIOUS
<1>1. mQueue \in Seq(Values) /\ Len(mQueue) \in 0..MaxCount
  BY QueueAssumption DEF Init
<1>2. mAbort \in BOOLEAN /\ waiting \subseteq Threads
  BY DEF Init
<1>3. call \in [Threads -> Calls] /\ ret \in [Threads -> Values \cup {NoValue}]
  BY IdleIsCall DEF Init
<1> QED BY <1>1, <1>2, <1>3 DEF TypeOK

\* Every step keeps the types and the capacity: push() adds only below it.
LEMMA NextTypeOK == TypeOK /\ [Next]_vars => TypeOK'
<1> SUFFICES ASSUME TypeOK, [Next]_vars PROVE TypeOK'
  OBVIOUS
<1> USE QueueAssumption
<1>1. ASSUME NEW t \in Threads, NEW c \in Calls \ {Idle}, Begin(t, c)
      PROVE  TypeOK'
  BY <1>1 DEF TypeOK, Begin
<1>2. ASSUME NEW t \in Threads, Wait(t)
      PROVE  TypeOK'
  BY <1>2 DEF TypeOK, Wait
<1>3. ASSUME NEW t \in Threads, Push(t)
      PROVE  TypeOK'
  <2>1. call[t].value \in Values
    BY <1>3, CallCases DEF TypeOK, Push
  <2>2. CASE mAbort
    BY <1>3, <2>2, IdleIsCall DEF TypeOK, Push
  <2>3. CASE ~mAbort
    <3>1. Len(mQueue) < MaxCount
      BY <1>3, <2>3 DEF TypeOK, Push, CanPush
    <3>2. mQueue' \in Seq(Values) /\ Len(mQueue') = Len(mQueue) + 1
      BY <1>3, <2>1, <2>3 DEF TypeOK, Push
    <3> QED BY <1>3, <2>3, <3>1, <3>2, IdleIsCall DEF TypeOK, Push, NotifyAll
  <2> QED BY <2>2, <2>3 DEF TypeOK
<1>4. ASSUME NEW t \in Threads, Pop(t)
      PROVE  TypeOK'
  <2>1. CASE mAbort
    BY <1>4, <2>1, IdleIsCall DEF TypeOK, Pop
  <2>2. CASE ~mAbort
    <3>1. mQueue # <<>>
      BY <1>4, <2>2 DEF TypeOK, Pop, CanPop
    <3>2. /\ Head(mQueue) \in Values
          /\ Tail(mQueue) \in Seq(Values)
          /\ Len(Tail(mQueue)) = Len(mQueue) - 1
      BY <3>1 DEF TypeOK
    <3>3. mQueue' = Tail(mQueue) /\ Len(mQueue') \in 0..MaxCount
      BY <1>4, <2>2, <3>1, <3>2 DEF TypeOK, Pop
    <3>4. ret' \in [Threads -> Values \cup {NoValue}] /\ call' \in [Threads -> Calls]
      BY <1>4, <2>2, <3>2, IdleIsCall DEF TypeOK, Pop
    <3>5. UNCHANGED mAbort /\ waiting' = {}
      BY <1>4, <2>2 DEF Pop, NotifyAll
    <3> QED BY <3>2, <3>3, <3>4, <3>5 DEF TypeOK
  <2> QED BY <2>1, <2>2 DEF TypeOK
<1>5. CASE Abort
  <2>1. mQueue' \in Seq(Values) /\ Len(mQueue') \in 0..MaxCount
    BY <1>5 DEF Abort
  <2> QED BY <1>5, <2>1 DEF TypeOK, Abort, NotifyAll
<1>6. CASE Reopen
  BY <1>6 DEF TypeOK, Reopen
<1>7. ASSUME NEW t \in Threads, SpuriousWakeup(t)
      PROVE  TypeOK'
  BY <1>7 DEF TypeOK, SpuriousWakeup
<1>8. CASE UNCHANGED vars
  BY <1>8 DEF TypeOK, vars
<1> QED
  BY <1>1, <1>2, <1>3, <1>4, <1>5, <1>6, <1>7, <1>8 DEF Next, Step

\* The types, and with them the capacity of push(), hold always.
THEOREM TypeCorrect == Spec => []TypeOK
  BY InitTypeOK, NextTypeOK, PTL DEF Spec

-----------------------------------------------------------------------------
(* No lost wakeup. *)

\* A step that leaves the queue and the flag alone leaves the predicates alone.
LEMMA PredicatesDependOnQueue ==
    ASSUME UNCHANGED <<mQueue, mAbort>>
    PROVE  (CanPush' <=> CanPush) /\ (CanPop' <=> CanPop)
  BY DEF CanPush, CanPop

\* Clearing the abort flag makes no predicate true.
LEMMA ReopenEnablesNothing ==
    ASSUME Reopen
    PROVE  (CanPush' => CanPush) /\ (CanPop' => CanPop)
  BY DEF Reopen, CanPush, CanPop

\* Every step keeps the sleepers rightly asleep: it changes what they wait for
\* only together with a notify_all, or, like init(), to make them wait longer.
LEMMA NextNoLostWakeup ==
    TypeOK /\ NoLostWakeup /\ [Next]_vars => NoLostWakeup'
<1> SUFFICES ASSUME TypeOK, NoLostWakeup, [Next]_vars,
                    NEW s \in waiting'
             PROVE  (call[s] # Idle /\ ~Ready(call[s]))'
  BY DEF NoLostWakeup
<1>1. ASSUME NEW t \in Threads, NEW c \in Calls \ {Idle}, Begin(t, c)
      PROVE  (call[s] # Idle /\ ~Ready(call[s]))'
  <2>1. s \in waiting /\ s # t
    BY <1>1 DEF Begin, NoLostWakeup
  <2>2. call'[s] = call[s]
    BY <1>1, <2>1 DEF Begin, TypeOK
  <2> QED BY <1>1, <2>1, <2>2, PredicatesDependOnQueue DEF Begin, NoLostWakeup, Ready
<1>2. ASSUME NEW t \in Threads, Wait(t)
      PROVE  (call[s] # Idle /\ ~Ready(call[s]))'
  BY <1>2, PredicatesDependOnQueue DEF Wait, NoLostWakeup, Ready
<1>3. ASSUME NEW t \in Threads, Push(t) \/ Pop(t)
      PROVE  (call[s] # Idle /\ ~Ready(call[s]))'
  <2>1. UNCHANGED <<mQueue, mAbort, waiting>>
    BY <1>3 DEF Push, Pop, NotifyAll
  <2>2. s \in waiting /\ s # t
    BY <1>3, <2>1 DEF Push, Pop
  <2>3. call'[s] = call[s]
    BY <1>3, <2>2 DEF Push, Pop, TypeOK
  <2> QED BY <2>1, <2>2, <2>3, PredicatesDependOnQueue DEF NoLostWakeup, Ready
<1>4. CASE Abort
  BY <1>4 DEF Abort, NotifyAll
<1>5. CASE Reopen
  BY <1>5, ReopenEnablesNothing DEF Reopen, NoLostWakeup, Ready
<1>6. ASSUME NEW t \in Threads, SpuriousWakeup(t)
      PROVE  (call[s] # Idle /\ ~Ready(call[s]))'
  BY <1>6, PredicatesDependOnQueue DEF SpuriousWakeup, NoLostWakeup, Ready
<1>7. CASE UNCHANGED vars
  BY <1>7, PredicatesDependOnQueue DEF vars, NoLostWakeup, Ready
<1> QED
  BY <1>1, <1>2, <1>3, <1>4, <1>5, <1>6, <1>7 DEF Next, Step

\* No thread sleeps in push() or pop() while it has something to do.
THEOREM NoWakeupIsLost == Spec => []NoLostWakeup
<1>1. Init => NoLostWakeup
  BY DEF Init, NoLostWakeup
<1> QED BY <1>1, InitTypeOK, NextTypeOK, NextNoLostWakeup, PTL DEF Spec

-----------------------------------------------------------------------------
(* The monitor implements the channel. *)

\* Each critical section is a step of the channel or leaves it unchanged.
LEMMA StepSimulates ==
    TypeOK /\ [Next]_vars => [Channel!Next]_(Channel!channelVars)
<1> SUFFICES ASSUME TypeOK, [Next]_vars
             PROVE  Channel!Next \/ UNCHANGED Channel!channelVars
  OBVIOUS
<1> USE DEF Idle, PopCall, PushCall, Calls,
            Channel!Idle, Channel!PopCall, Channel!PushCall, Channel!Calls
<1>1. ASSUME NEW t \in Threads, NEW c \in Calls \ {Idle}, Begin(t, c)
      PROVE  Channel!Next
  BY <1>1 DEF Begin, Channel!Begin, Channel!Next
<1>2. ASSUME NEW t \in Threads, Wait(t)
      PROVE  UNCHANGED Channel!channelVars
  BY <1>2 DEF Wait, Channel!channelVars
<1>3. ASSUME NEW t \in Threads, Push(t)
      PROVE  Channel!Return(t)
  <2>1. CASE mAbort
    BY <1>3, <2>1 DEF Push, Channel!Refuse, Channel!Return
  <2>2. CASE ~mAbort
    BY <1>3, <2>2 DEF Push, CanPush, Channel!Insert, Channel!Return, TypeOK
  <2> QED BY <2>1, <2>2
<1>4. ASSUME NEW t \in Threads, Pop(t)
      PROVE  Channel!Return(t)
  <2>1. CASE mAbort
    BY <1>4, <2>1 DEF Pop, Channel!Refuse, Channel!Return
  <2>2. CASE ~mAbort
    BY <1>4, <2>2 DEF Pop, CanPop, Channel!Remove, Channel!Return, TypeOK
  <2> QED BY <2>1, <2>2
<1>5. CASE Abort
  BY <1>5 DEF Abort, Channel!Abort, Channel!Next
<1>6. CASE Reopen
  BY <1>6 DEF Reopen, Channel!Reopen, Channel!Next
<1>7. ASSUME NEW t \in Threads, SpuriousWakeup(t)
      PROVE  UNCHANGED Channel!channelVars
  BY <1>7 DEF SpuriousWakeup, Channel!channelVars
<1>8. CASE UNCHANGED vars
  BY <1>8 DEF vars, Channel!channelVars
<1> QED
  BY <1>1, <1>2, <1>3, <1>4, <1>5, <1>6, <1>7, <1>8
     DEF Next, Step, Channel!Next

\* Every behaviour of the monitor is one of the channel, progress left aside:
\* what push, pop, abort and init do can be read off BoundedChannel.
THEOREM ImplementsChannelSafety ==
    Spec => Channel!Init /\ [][Channel!Next]_(Channel!channelVars)
<1>1. Init => Channel!Init
  BY DEF Init, Channel!Init, Idle, Channel!Idle
<1> QED BY <1>1, TypeCorrect, StepSimulates, PTL DEF Spec
=============================================================================
