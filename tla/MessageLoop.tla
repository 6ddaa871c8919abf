----------------------------- MODULE MessageLoop -----------------------------
(***************************************************************************)
(* How the player is driven: callers post messages into mMessageQueue and  *)
(* release mMessageSemaphore, the message thread acquires the semaphore    *)
(* and handles the oldest message.  The semaphore (foundation/Semaphore)   *)
(* is a mutex and a condition variable; each of its critical sections is   *)
(* one action.                                                             *)
(*                                                                         *)
(* The queue has no lock of its own, and push(), run by the user's thread  *)
(* and by the extract thread, may overlap with another push() or with the  *)
(* pop() of the message thread.  Each access is therefore a begin and an   *)
(* end.  std::queue keeps its length in a plain integer: an access that    *)
(* overlapped with another one may lose its update.  "torn" records that   *)
(* two accesses overlapped.                                                *)
(*                                                                         *)
(* MaxPosts bounds the messages posted in a behaviour.                     *)
(***************************************************************************)
EXTENDS Naturals, Sequences, FiniteSets

CONSTANTS Posters,       \* threads that call postMessage()
          Destroyer,     \* the one of them that runs the destructor
          Messages,      \* kWhatStart, kWhatPause, kWhatSeek
          InitialCount,  \* tokens the semaphore starts with: Semaphore(5)
          MaxPosts

ASSUME LoopAssumption == /\ IsFiniteSet(Posters)
                         /\ Destroyer \in Posters
                         /\ InitialCount \in Nat
                         /\ MaxPosts \in Nat

VARIABLES mMessageQueue,       \* posted messages, oldest first
          mCount,              \* tokens of the semaphore
          mMessageThreadExit,  \* set by the destructor
          posterPc,            \* "idle", "pushing", "pushed", "leaving", "left"
          posting,             \* the message each poster has in hand
          loopPc,              \* "acquire", "asleep", "acquired", "popping", "handle", "done"
          current,             \* messages taken and not yet handled: none or one
          torn,                \* two accesses to mMessageQueue overlapped
          posted, handled      \* the messages so far, in order

vars == <<mMessageQueue, mCount, mMessageThreadExit, posterPc, posting, loopPc,
          current, torn, posted, handled>>

Init == /\ mMessageQueue = <<>>
        /\ mCount = InitialCount
        /\ mMessageThreadExit = FALSE
        /\ posterPc = [p \in Posters |-> "idle"]
        /\ posting = [p \in Posters |-> <<>>]
        /\ loopPc = "acquire"
        /\ current = <<>>
        /\ torn = FALSE
        /\ posted = <<>>
        /\ handled = <<>>

-----------------------------------------------------------------------------
(* Semaphore *)

\* Mutant: a binary semaphore.
ReleaseBinary == /\ mCount' = 1
                 /\ loopPc' = IF loopPc = "asleep" THEN "acquire" ELSE loopPc

\* release(): mCount++ and notify_one; the message thread is the only waiter.
Release == /\ mCount' = mCount + 1
           /\ loopPc' = IF loopPc = "asleep" THEN "acquire" ELSE loopPc

\* acquire(): take a token, or sleep until a release.
Acquire == /\ loopPc = "acquire"
           /\ IF mCount > 0
              THEN mCount' = mCount - 1 /\ loopPc' = "acquired"
              ELSE UNCHANGED mCount /\ loopPc' = "asleep"
           /\ UNCHANGED <<mMessageQueue, mMessageThreadExit, posterPc, posting,
                          current, torn, posted, handled>>

-----------------------------------------------------------------------------
(* The unlocked queue *)

Pushing == {p \in Posters : posterPc[p] = "pushing"}

\* What an access leaves behind: its effect, or nothing when it was torn.
Outcomes(before, after) == IF torn THEN {before, after} ELSE {after}

-----------------------------------------------------------------------------
(* postMessage() *)

BeginPush(p) ==
    /\ posterPc[p] = "idle"
    /\ Len(posted) + Cardinality(Pushing) < MaxPosts
    /\ \E m \in Messages : posting' = [posting EXCEPT ![p] = <<m>>]
    /\ posterPc' = [posterPc EXCEPT ![p] = "pushing"]
    /\ torn' = (torn \/ Pushing # {} \/ loopPc = "popping")
    /\ UNCHANGED <<mMessageQueue, mCount, mMessageThreadExit, loopPc, current,
                   posted, handled>>

EndPush(p) ==
    /\ posterPc[p] = "pushing"
    /\ mMessageQueue' \in Outcomes(mMessageQueue, mMessageQueue \o posting[p])
    /\ posted' = posted \o posting[p]
    /\ posting' = [posting EXCEPT ![p] = <<>>]
    /\ posterPc' = [posterPc EXCEPT ![p] = "pushed"]
    /\ UNCHANGED <<mCount, mMessageThreadExit, loopPc, current, torn, handled>>

ReleaseAfterPush(p) ==
    /\ posterPc[p] = "pushed"
    /\ Release
    /\ posterPc' = [posterPc EXCEPT ![p] = "idle"]
    /\ UNCHANGED <<mMessageQueue, mMessageThreadExit, posting, current, torn,
                   posted, handled>>

\* The destructor sets the flag and then releases, so that the thread sees it.
RequestExit ==
    /\ posterPc[Destroyer] = "idle"
    /\ mMessageThreadExit' = TRUE
    /\ posterPc' = [posterPc EXCEPT ![Destroyer] = "leaving"]
    /\ UNCHANGED <<mMessageQueue, mCount, posting, loopPc, current, torn, posted,
                   handled>>

\* Mutant: the destructor joins the thread without releasing the semaphore.
LeaveWithoutRelease ==
    /\ posterPc[Destroyer] = "leaving"
    /\ posterPc' = [posterPc EXCEPT ![Destroyer] = "left"]
    /\ UNCHANGED <<mMessageQueue, mCount, mMessageThreadExit, posting, loopPc,
                   current, torn, posted, handled>>

ReleaseForExit ==
    /\ posterPc[Destroyer] = "leaving"
    /\ Release
    /\ posterPc' = [posterPc EXCEPT ![Destroyer] = "left"]
    /\ UNCHANGED <<mMessageQueue, mMessageThreadExit, posting, current, torn,
                   posted, handled>>

-----------------------------------------------------------------------------
(* messageHandleThread() *)

\* Mutant: a token is taken for a message, without the test of empty().
ExamineOnTrust ==
    /\ loopPc = "acquired"
    /\ loopPc' = IF mMessageThreadExit THEN "done" ELSE "popping"
    /\ torn' = (torn \/ (loopPc' = "popping" /\ Pushing # {}))
    /\ UNCHANGED <<mMessageQueue, mCount, mMessageThreadExit, posterPc, posting,
                   current, posted, handled>>

\* Mutant: the thread takes a token without a message for the end.
ExamineLeavesWhenEmpty ==
    /\ loopPc = "acquired"
    /\ loopPc' = IF mMessageThreadExit \/ mMessageQueue = <<>> THEN "done"
                 ELSE "popping"
    /\ torn' = (torn \/ (loopPc' = "popping" /\ Pushing # {}))
    /\ UNCHANGED <<mMessageQueue, mCount, mMessageThreadExit, posterPc, posting,
                   current, posted, handled>>

\* With a token in hand: leave, go on when the queue is empty, or pop.
Examine ==
    /\ loopPc = "acquired"
    /\ loopPc' = IF mMessageThreadExit THEN "done"
                 ELSE IF mMessageQueue = <<>> THEN "acquire" ELSE "popping"
    /\ torn' = (torn \/ (loopPc' = "popping" /\ Pushing # {}))
    /\ UNCHANGED <<mMessageQueue, mCount, mMessageThreadExit, posterPc, posting,
                   current, posted, handled>>

\* Mutant: front() without pop().
PopWithoutRemoval ==
    /\ loopPc = "popping"
    /\ current' = <<Head(mMessageQueue)>>
    /\ loopPc' = "handle"
    /\ UNCHANGED <<mMessageQueue, mCount, mMessageThreadExit, posterPc, posting,
                   torn, posted, handled>>

Pop ==
    /\ loopPc = "popping"
    /\ current' = <<Head(mMessageQueue)>>
    /\ mMessageQueue' \in Outcomes(mMessageQueue, Tail(mMessageQueue))
    /\ loopPc' = "handle"
    /\ UNCHANGED <<mCount, mMessageThreadExit, posterPc, posting, torn, posted,
                   handled>>

\* The handler, which always returns here; what it does is module Player.
Handle ==
    /\ loopPc = "handle"
    /\ handled' = handled \o current
    /\ current' = <<>>
    /\ loopPc' = "acquire"
    /\ UNCHANGED <<mMessageQueue, mCount, mMessageThreadExit, posterPc, posting,
                   torn, posted>>

-----------------------------------------------------------------------------
PosterStep(p) == EndPush(p) \/ ReleaseAfterPush(p)
LoopStep == Acquire \/ Examine \/ Pop \/ Handle

Next == \/ \E p \in Posters : BeginPush(p) \/ PosterStep(p)
        \/ RequestExit
        \/ ReleaseForExit
        \/ LoopStep

Spec == Init /\ [][Next]_vars

\* A call of postMessage() or of the destructor, once begun, runs on; the
\* message thread is scheduled whenever it is not asleep.
FairSpec == /\ Spec
            /\ \A p \in Posters : WF_vars(PosterStep(p))
            /\ WF_vars(ReleaseForExit)
            /\ WF_vars(LoopStep)

-----------------------------------------------------------------------------
\* Types.
TypeOK == /\ mMessageQueue \in Seq(Messages)
          /\ mCount \in Nat
          /\ mMessageThreadExit \in BOOLEAN
          /\ posterPc \in [Posters -> {"idle", "pushing", "pushed", "leaving", "left"}]
          /\ posting \in [Posters -> Seq(Messages)]
          /\ loopPc \in {"acquire", "asleep", "acquired", "popping", "handle", "done"}
          /\ current \in Seq(Messages)
          /\ torn \in BOOLEAN
          /\ posted \in Seq(Messages)
          /\ handled \in Seq(Messages)

\* The message thread never takes the front of an empty queue (lines 227-229),
\* whatever became of overlapping accesses: only it removes messages.
PopFindsMessage == loopPc = "popping" => mMessageQueue # <<>>

\* A token in the hand of the message thread.
Held == IF loopPc \in {"acquired", "popping"} THEN 1 ELSE 0

\* Posters between push() and release() (Player.cpp 109-110).
Unreleased == {p \in Posters : posterPc[p] = "pushed"}

\* Every queued message has a token: in the semaphore, in the hand of the
\* message thread or about to be released.  The five tokens of line 30 are
\* spent on an empty queue (line 227) without taking one from a message.
TokensCoverMessages ==
    ~torn /\ loopPc # "done" =>
        Len(mMessageQueue) <= mCount + Held + Cardinality(Unreleased)

\* The message thread does not sleep on a message whose postMessage() returned.
NoMessageStranded ==
    ~torn /\ loopPc = "asleep" /\ Unreleased = {} => mMessageQueue = <<>>

\* As long as accesses do not overlap, messages are handled once, in order.
HandledInOrder == ~torn => posted = handled \o current \o mMessageQueue

\* While no accesses overlap, every posted message is handled, unless the
\* player is destroyed first.
EveryMessageHandled ==
    \A n \in 1..MaxPosts :
        Len(posted) >= n ~> (Len(handled) >= n \/ torn \/ mMessageThreadExit)

\* The destructor's join of the message thread (line 51) returns, even when
\* the thread was asleep and no message comes any more.
ExitIsSeen == mMessageThreadExit ~> loopPc = "done"
=============================================================================
