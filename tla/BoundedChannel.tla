--------------------------- MODULE BoundedChannel ---------------------------
(***************************************************************************)
(* What CountingQueue<T> (foundation/CountingQueue.h) promises to the      *)
(* threads that share it, without mutex and condition variable: a bounded  *)
(* channel whose calls take effect at one instant between call and return. *)
(* A call waits while it can neither take effect nor be refused.  abort()  *)
(* empties the channel and makes every call return without effect until    *)
(* init() reopens it.                                                      *)
(***************************************************************************)
EXTENDS Naturals, Sequences

CONSTANTS Threads,    \* the threads that call push() and pop()
          Values,     \* what is queued (packets, frames)
          MaxCount,   \* capacity, mMaxCount in the code
          NoValue     \* what a caller holds when nothing was delivered

VARIABLES content,    \* the values in the channel, oldest first
          aborted,    \* abort() was called after the last init()
          call,       \* the call each thread is in
          ret         \* what the last pop() of each thread delivered

channelVars == <<content, aborted, call, ret>>

Idle == [name |-> "idle"]
PopCall == [name |-> "pop"]
PushCall(v) == [name |-> "push", value |-> v]
Calls == {Idle, PopCall} \cup {PushCall(v) : v \in Values}

Init == /\ content = <<>>
        /\ aborted = FALSE
        /\ call = [t \in Threads |-> Idle]
        /\ ret = [t \in Threads |-> NoValue]

Begin(t, c) == /\ call[t] = Idle
               /\ call' = [call EXCEPT ![t] = c]
               /\ ret' = [ret EXCEPT ![t] = NoValue]
               /\ UNCHANGED <<content, aborted>>

Insert(t) == /\ call[t].name = "push"
             /\ ~aborted
             /\ Len(content) < MaxCount
             /\ content' = Append(content, call[t].value)
             /\ call' = [call EXCEPT ![t] = Idle]
             /\ UNCHANGED <<aborted, ret>>

Remove(t) == /\ call[t].name = "pop"
             /\ ~aborted
             /\ content # <<>>
             /\ ret' = [ret EXCEPT ![t] = Head(content)]
             /\ content' = Tail(content)
             /\ call' = [call EXCEPT ![t] = Idle]
             /\ UNCHANGED aborted

\* While the channel is aborted, a pushed value is dropped and a pop fails.
Refuse(t) == /\ call[t] # Idle
             /\ aborted
             /\ call' = [call EXCEPT ![t] = Idle]
             /\ UNCHANGED <<content, aborted, ret>>

Return(t) == Insert(t) \/ Remove(t) \/ Refuse(t)

Abort == /\ content' = <<>>
         /\ aborted' = TRUE
         /\ UNCHANGED <<call, ret>>

Reopen == /\ aborted' = FALSE
          /\ UNCHANGED <<content, call, ret>>

Next == \/ \E t \in Threads : Return(t) \/ \E c \in Calls \ {Idle} : Begin(t, c)
        \/ Abort
        \/ Reopen

\* A call that can take effect or be refused does not wait for ever.
Spec == /\ Init
        /\ [][Next]_channelVars
        /\ \A t \in Threads : WF_channelVars(Return(t))
=============================================================================
