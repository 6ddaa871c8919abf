---------------------------- MODULE CountingQueue ----------------------------
(***************************************************************************)
(* CountingQueue<T>, the monitor (one mutex, one condition variable, one   *)
(* abort flag) through which every pipeline of the program moves packets   *)
(* and frames.  A critical section is one action: the mutex is held from   *)
(* its first to its last access.  mCv.wait() with a predicate is the       *)
(* critical section repeated: when the predicate is false the thread       *)
(* joins "waiting" and the section is tried again only after a notify_all  *)
(* (or a spurious wakeup) took the thread out of it.                       *)
(*                                                                         *)
(* empty(), size() and isAbort() change nothing and are left out.          *)
(***************************************************************************)
EXTENDS Naturals, Sequences

CONSTANTS Threads, Values, MaxCount, NoValue

ASSUME QueueAssumption == MaxCount \in Nat \ {0} /\ NoValue \notin Values

VARIABLES mQueue,     \* the queued values, oldest first
          mAbort,     \* the abort flag
          waiting,    \* threads asleep in mCv.wait()
          call,       \* the call each thread is in
          ret         \* what the last pop() of each thread delivered

vars == <<mQueue, mAbort, waiting, call, ret>>

Channel == INSTANCE BoundedChannel WITH content <- mQueue, aborted <- mAbort

Idle == [name |-> "idle"]
PopCall == [name |-> "pop"]
PushCall(v) == [name |-> "push", value |-> v]
Calls == {Idle, PopCall} \cup {PushCall(v) : v \in Values}

\* Mutant: notify_one() on the condition variable both sides share.
NotifyOne == IF waiting = {} THEN UNCHANGED waiting
             ELSE \E t \in waiting : waiting' = waiting \ {t}

NotifyAll == waiting' = {}

Init == /\ mQueue = <<>>
        /\ mAbort = FALSE
        /\ waiting = {}
        /\ call = [t \in Threads |-> Idle]
        /\ ret = [t \in Threads |-> NoValue]

Begin(t, c) == /\ call[t] = Idle
               /\ call' = [call EXCEPT ![t] = c]
               /\ ret' = [ret EXCEPT ![t] = NoValue]
               /\ UNCHANGED <<mQueue, mAbort, waiting>>

\* The predicates of the two waits.
CanPush == Len(mQueue) < MaxCount \/ mAbort
CanPop == mQueue # <<>> \/ mAbort

Ready(c) == \/ c.name = "push" /\ CanPush
            \/ c.name = "pop" /\ CanPop

\* The predicate is false: mCv.wait() releases the mutex and sleeps.
Wait(t) == /\ call[t] # Idle
           /\ t \notin waiting
           /\ ~Ready(call[t])
           /\ waiting' = waiting \cup {t}
           /\ UNCHANGED <<mQueue, mAbort, call, ret>>

\* push() past its wait; an aborted queue drops the value and wakes nobody.
Push(t) == /\ call[t].name = "push"
           /\ t \notin waiting
           /\ CanPush
           /\ IF mAbort
              THEN UNCHANGED <<mQueue, waiting>>
              ELSE mQueue' = Append(mQueue, call[t].value) /\ NotifyAll
           /\ call' = [call EXCEPT ![t] = Idle]
           /\ UNCHANGED <<mAbort, ret>>

\* pop() past its wait; on an aborted queue it returns false.
Pop(t) == /\ call[t].name = "pop"
          /\ t \notin waiting
          /\ CanPop
          /\ IF mAbort
             THEN UNCHANGED <<mQueue, waiting, ret>>
             ELSE /\ ret' = [ret EXCEPT ![t] = Head(mQueue)]
                  /\ mQueue' = Tail(mQueue)
                  /\ NotifyAll
          /\ call' = [call EXCEPT ![t] = Idle]
          /\ UNCHANGED mAbort

\* Mutant: abort() wakes nobody.
AbortSilently == /\ mQueue' = <<>>
                 /\ mAbort' = TRUE
                 /\ UNCHANGED <<waiting, call, ret>>

\* abort(), called by a third thread and by the destructor.
Abort == /\ mQueue' = <<>>
         /\ mAbort' = TRUE
         /\ NotifyAll
         /\ UNCHANGED <<call, ret>>

\* init() clears the flag and notifies nobody.
Reopen == /\ mAbort' = FALSE
          /\ UNCHANGED <<mQueue, waiting, call, ret>>

\* The C++ standard lets a wait return without a notification.
SpuriousWakeup(t) == /\ t \in waiting
                     /\ waiting' = waiting \ {t}
                     /\ UNCHANGED <<mQueue, mAbort, call, ret>>

Step(t) == Wait(t) \/ Push(t) \/ Pop(t)

Next == \/ \E t \in Threads : \/ Step(t)
                              \/ SpuriousWakeup(t)
                              \/ \E c \in Calls \ {Idle} : Begin(t, c)
        \/ Abort
        \/ Reopen

Spec == Init /\ [][Next]_vars

\* The scheduler runs every thread that is not asleep; nothing makes a
\* spurious wakeup, a call, an abort or a reopening happen.
FairSpec == Spec /\ \A t \in Threads : WF_vars(Step(t))

-----------------------------------------------------------------------------
\* Types, the capacity of push() (line 20) included.
TypeOK == /\ mQueue \in Seq(Values)
          /\ Len(mQueue) \in 0..MaxCount
          /\ mAbort \in BOOLEAN
          /\ waiting \subseteq Threads
          /\ call \in [Threads -> Calls]
          /\ ret \in [Threads -> Values \cup {NoValue}]

\* No wakeup is lost: a thread asleep in push() or pop() (lines 20, 29) has
\* nothing to do.  One condition variable serves both sides, so this rests on
\* every change that can make a predicate true being announced to everybody.
NoLostWakeup == \A t \in waiting : call[t] # Idle /\ ~Ready(call[t])

\* The monitor implements the channel, progress of its callers included: a push
\* or pop that can go on returns, so an abort that stays releases every caller,
\* which handleSeek() and ScreenRecorder::stop() count on when they join the
\* threads that use a queue (lines 18-37, 65-72).
ImplementsChannel == Channel!Spec
=============================================================================
