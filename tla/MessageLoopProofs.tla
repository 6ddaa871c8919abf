-------------------------- MODULE MessageLoopProofs --------------------------
(***************************************************************************)
(* Proofs about MessageLoop for any number of posters, messages and        *)
(* initial tokens: types, that tokens cover messages, that the message     *)
(* thread never sleeps on a posted message, and that messages are handled  *)
(* once and in the order they were queued while accesses do not overlap.   *)
(***************************************************************************)
EXTENDS MessageLoop, FiniteSetTheorems, SequenceTheorems, TLAPS

-----------------------------------------------------------------------------
(* Types. *)

\* release() leaves a token count and a state of the message thread.
LEMMA ReleaseType ==
    ASSUME TypeOK, Release
    PROVE  /\ mCount' = mCount + 1
           /\ mCount' \in Nat
           /\ loopPc' \in {"acquire", "acquired", "popping", "handle", "done"}
  BY DEF TypeOK, Release

\* The initial state has the types.
LEMMA InitTypeOK == Init => TypeOK
<1> SUFFICES ASSUME Init PROVE TypeOK
  OBVIOUS
<1>1. mCount \in Nat
  BY LoopAssumption DEF Init
<1>2. torn \in BOOLEAN /\ mMessageThreadExit \in BOOLEAN
  BY DEF Init
<1>3. posterPc \in [Posters -> {"idle", "pushing", "pushed", "leaving", "left"}]
  BY DEF Init
<1>4. posting \in [Posters -> Seq(Messages)]
  BY DEF Init
<1> QED BY <1>1, <1>2, <1>3, <1>4 DEF Init, TypeOK

\* Every step keeps the types; a pop needs a message for that.
LEMMA NextTypeOK == TypeOK /\ PopFindsMessage /\ [Next]_vars => TypeOK'
<1> SUFFICES ASSUME TypeOK, PopFindsMessage, [Next]_vars PROVE TypeOK'
  OBVIOUS
<1>1. ASSUME NEW p \in Posters, BeginPush(p) PROVE TypeOK'
  <2>1. torn' \in BOOLEAN
    BY <1>1 DEF BeginPush
  <2>2. posting' \in [Posters -> Seq(Messages)]
    BY <1>1 DEF BeginPush, TypeOK
  <2> QED BY <1>1, <2>1, <2>2 DEF BeginPush, TypeOK
<1>2. ASSUME NEW p \in Posters, EndPush(p) PROVE TypeOK'
  <2>1. posting[p] \in Seq(Messages)
    BY DEF TypeOK
  <2>2. /\ mMessageQueue \o posting[p] \in Seq(Messages)
        /\ posted \o posting[p] \in Seq(Messages)
    BY <2>1, ConcatProperties DEF TypeOK
  <2>3. mMessageQueue' \in Seq(Messages) /\ posted' \in Seq(Messages)
    BY <1>2, <2>2 DEF EndPush, Outcomes, TypeOK
  <2> QED BY <1>2, <2>3 DEF EndPush, TypeOK
<1>3. ASSUME NEW p \in Posters, ReleaseAfterPush(p) PROVE TypeOK'
  BY <1>3, ReleaseType DEF ReleaseAfterPush, TypeOK
<1>4. CASE RequestExit
  BY <1>4 DEF RequestExit, TypeOK
<1>5. CASE ReleaseForExit
  BY <1>5, ReleaseType DEF ReleaseForExit, TypeOK
<1>6. CASE Acquire
  BY <1>6 DEF Acquire, TypeOK
<1>7. CASE Examine
  <2>1. torn' \in BOOLEAN
    BY <1>7 DEF Examine
  <2> QED BY <1>7, <2>1 DEF Examine, TypeOK
<1>8. CASE Pop
  <2>1. Head(mMessageQueue) \in Messages /\ Tail(mMessageQueue) \in Seq(Messages)
    <3>1. mMessageQueue \in Seq(Messages) /\ mMessageQueue # <<>>
      BY <1>8 DEF TypeOK, Pop, PopFindsMessage
    <3> QED BY <3>1, HeadTailProperties
  <2>2. current' \in Seq(Messages)
    BY <1>8, <2>1 DEF Pop
  <2>3. mMessageQueue' = mMessageQueue \/ mMessageQueue' = Tail(mMessageQueue)
    BY <1>8, Zenon DEF Pop, Outcomes
  <2>4. mMessageQueue' \in Seq(Messages)
    BY <2>1, <2>3 DEF TypeOK
  <2> QED BY <1>8, <2>2, <2>4 DEF Pop, TypeOK
<1>9. CASE Handle
  <2>1. handled \o current \in Seq(Messages)
    BY ConcatProperties DEF TypeOK
  <2> QED BY <1>9, <2>1 DEF Handle, TypeOK
<1>10. CASE UNCHANGED vars
  BY <1>10 DEF vars, TypeOK
<1> QED
  BY <1>1, <1>2, <1>3, <1>4, <1>5, <1>6, <1>7, <1>8, <1>9, <1>10
     DEF Next, PosterStep, LoopStep

\* Every step keeps a message for the pop under way: only that pop removes one.
LEMMA NextPopFindsMessage ==
    TypeOK /\ PopFindsMessage /\ [Next]_vars => PopFindsMessage'
<1> SUFFICES ASSUME TypeOK, PopFindsMessage, [Next]_vars, loopPc' = "popping"
             PROVE  mMessageQueue' # <<>>
  BY DEF PopFindsMessage
<1>1. ASSUME NEW p \in Posters, EndPush(p) PROVE mMessageQueue' # <<>>
  <2>1. posting[p] \in Seq(Messages) /\ mMessageQueue # <<>>
    BY <1>1 DEF TypeOK, EndPush, PopFindsMessage
  <2>2. mMessageQueue \o posting[p] # <<>>
    BY <2>1, ConcatEqualIffEmpty DEF TypeOK
  <2> QED BY <1>1, <2>1, <2>2 DEF EndPush, Outcomes
<1>2. ASSUME NEW p \in Posters, BeginPush(p) \/ ReleaseAfterPush(p)
      PROVE  mMessageQueue' # <<>>
  BY <1>2 DEF BeginPush, ReleaseAfterPush, Release, PopFindsMessage
<1>3. CASE RequestExit \/ ReleaseForExit
  BY <1>3 DEF RequestExit, ReleaseForExit, Release, PopFindsMessage
<1>4. CASE LoopStep
  BY <1>4 DEF LoopStep, Acquire, Examine, Pop, Handle
<1>5. CASE UNCHANGED vars
  BY <1>5 DEF vars, PopFindsMessage
<1> QED BY <1>1, <1>2, <1>3, <1>4, <1>5 DEF Next, PosterStep

\* The types hold always, and the message thread never pops an empty queue.
THEOREM TypeCorrect == Spec => [](TypeOK /\ PopFindsMessage)
<1>1. Init => PopFindsMessage
  BY DEF Init, PopFindsMessage
<1> QED BY <1>1, InitTypeOK, NextTypeOK, NextPopFindsMessage, PTL DEF Spec

-----------------------------------------------------------------------------
(* Tokens. *)

\* The strengthening: a sleeping message thread left no token behind, and a
\* poster pushes at most one message.
TokenInv == /\ TokensCoverMessages
            /\ loopPc = "asleep" => mCount = 0
            /\ \A p \in Posters : Len(posting[p]) <= 1

\* The unreleased posters are finitely many.
LEMMA UnreleasedFinite ==
    IsFiniteSet(Unreleased) /\ Cardinality(Unreleased) \in Nat
  BY LoopAssumption, FS_Subset, FS_CardinalityType DEF Unreleased

\* Ending a push adds one to the unreleased posters, a release takes one away,
\* and nothing else a step does changes their number.
LEMMA UnreleasedSteps ==
    ASSUME TypeOK, NEW p \in Posters
    PROVE  /\ EndPush(p) => Cardinality(Unreleased)' = Cardinality(Unreleased) + 1
           /\ ReleaseAfterPush(p) =>
                Cardinality(Unreleased)' = Cardinality(Unreleased) - 1
           /\ BeginPush(p) => Unreleased' = Unreleased
<1>1. ASSUME EndPush(p)
      PROVE  Cardinality(Unreleased)' = Cardinality(Unreleased) + 1
  <2>1. Unreleased' = Unreleased \cup {p} /\ p \notin Unreleased
    BY <1>1 DEF EndPush, Unreleased, TypeOK
  <2> QED BY <2>1, UnreleasedFinite, FS_AddElement
<1>2. ASSUME ReleaseAfterPush(p)
      PROVE  Cardinality(Unreleased)' = Cardinality(Unreleased) - 1
  <2>1. Unreleased' = Unreleased \ {p} /\ p \in Unreleased
    BY <1>2 DEF ReleaseAfterPush, Unreleased, TypeOK
  <2> QED BY <2>1, UnreleasedFinite, FS_RemoveElement
<1>3. ASSUME BeginPush(p) PROVE Unreleased' = Unreleased
  BY <1>3 DEF BeginPush, Unreleased, TypeOK
<1> QED BY <1>1, <1>2, <1>3

\* Every step keeps the tokens covering the messages.
LEMMA NextTokenInv ==
    TypeOK /\ PopFindsMessage /\ TokenInv /\ [Next]_vars => TokenInv'
<1> SUFFICES ASSUME TypeOK, PopFindsMessage, TokenInv, [Next]_vars
             PROVE  TokenInv'
  OBVIOUS
<1> DEFINE K == Cardinality(Unreleased)
<1>n. K \in Nat /\ Len(mMessageQueue) \in Nat /\ mCount \in Nat
  BY UnreleasedFinite DEF TypeOK
<1>i. /\ ~torn /\ loopPc # "done" => Len(mMessageQueue) <= mCount + Held + K
      /\ loopPc = "asleep" => mCount = 0
      /\ \A p \in Posters : Len(posting[p]) <= 1
  BY DEF TokenInv, TokensCoverMessages
<1>s. SUFFICES /\ ~torn' /\ loopPc' # "done" =>
                    Len(mMessageQueue') <= mCount' + Held' + K'
               /\ loopPc' = "asleep" => mCount' = 0
               /\ \A p \in Posters : Len(posting'[p]) <= 1
  BY DEF TokenInv, TokensCoverMessages
<1> HIDE DEF K
<1>1. ASSUME NEW p \in Posters, BeginPush(p) PROVE <1>s!1
  <2>1. K' = K
    BY <1>1, UnreleasedSteps DEF K
  <2>2. \A q \in Posters : Len(posting'[q]) <= 1
    BY <1>1, <1>i DEF BeginPush, TypeOK
  <2> QED BY <1>1, <1>n, <1>i, <2>1, <2>2 DEF BeginPush, Held
<1>2. ASSUME NEW p \in Posters, EndPush(p) PROVE <1>s!1
  <2>1. K' = K + 1
    BY <1>2, UnreleasedSteps DEF K
  <2>2. \A q \in Posters : Len(posting'[q]) <= 1
    BY <1>2, <1>i DEF EndPush, TypeOK
  <2>3. ASSUME ~torn' PROVE Len(mMessageQueue') <= Len(mMessageQueue) + 1
    <3>1. mMessageQueue' = mMessageQueue \o posting[p]
      BY <1>2, <2>3 DEF EndPush, Outcomes
    <3>2. posting[p] \in Seq(Messages) /\ Len(posting[p]) <= 1
      BY <1>i DEF TypeOK
    <3> QED BY <3>1, <3>2, ConcatProperties DEF TypeOK
  <2>4. Len(mMessageQueue') \in Nat
    BY NextTypeOK DEF TypeOK
  <2> QED BY <1>2, <1>n, <1>i, <2>1, <2>2, <2>3, <2>4 DEF EndPush, Held
<1>3. ASSUME NEW p \in Posters, ReleaseAfterPush(p) PROVE <1>s!1
  <2>1. K' = K - 1
    BY <1>3, UnreleasedSteps DEF K
  <2>2. /\ mCount' = mCount + 1
        /\ loopPc' # "asleep"
        /\ Held' = Held
        /\ loopPc' # "done" => loopPc # "done"
    BY <1>3 DEF ReleaseAfterPush, Release, Held
  <2> QED BY <1>3, <1>n, <1>i, <2>1, <2>2 DEF ReleaseAfterPush, Held
<1>4. CASE RequestExit
  <2>1. K' = K
    BY <1>4, LoopAssumption DEF RequestExit, K, Unreleased, TypeOK
  <2> QED BY <1>4, <1>n, <1>i, <2>1 DEF RequestExit, Held
<1>5. CASE ReleaseForExit
  <2>1. K' = K
    BY <1>5, LoopAssumption DEF ReleaseForExit, K, Unreleased, TypeOK
  <2>2. mCount' = mCount + 1 /\ loopPc' # "asleep" /\ Held' = Held
    BY <1>5 DEF ReleaseForExit, Release, Held
  <2> QED BY <1>5, <1>n, <1>i, <2>1, <2>2 DEF ReleaseForExit, Release, Held
<1>6. CASE LoopStep
  <2>1. K' = K
    BY <1>6 DEF LoopStep, Acquire, Examine, Pop, Handle, K, Unreleased
  <2>2. CASE Acquire
    BY <2>2, <1>n, <1>i, <2>1 DEF Acquire, Held
  <2>3. CASE Examine
    <3>1. mMessageQueue = <<>> => Len(mMessageQueue) = 0
      OBVIOUS
    <3>2. (~torn' => ~torn) /\ UNCHANGED <<mMessageQueue, mCount, posting>>
      BY <2>3 DEF Examine
    <3>3. /\ loopPc' \in {"done", "acquire", "popping"}
          /\ loopPc' = "acquire" => mMessageQueue = <<>>
          /\ loopPc = "acquired" /\ Held = 1
      BY <2>3 DEF Examine, Held
    <3> QED BY <1>n, <1>i, <2>1, <3>1, <3>2, <3>3 DEF Held
  <2>4. CASE Pop
    <3>1. mMessageQueue \in Seq(Messages) /\ mMessageQueue # <<>>
      BY <2>4 DEF TypeOK, Pop, PopFindsMessage
    <3>2. Len(Tail(mMessageQueue)) = Len(mMessageQueue) - 1
      BY <3>1, HeadTailProperties
    <3>3. ~torn' => Len(mMessageQueue') = Len(mMessageQueue) - 1
      BY <2>4, <3>2 DEF Pop, Outcomes
    <3> QED BY <2>4, <1>n, <1>i, <2>1, <3>3 DEF Pop, Held
  <2>5. CASE Handle
    BY <2>5, <1>n, <1>i, <2>1 DEF Handle, Held
  <2> QED BY <1>6, <2>2, <2>3, <2>4, <2>5 DEF LoopStep
<1>7. CASE UNCHANGED vars
  <2>1. K' = K
    BY <1>7 DEF vars, K, Unreleased
  <2> QED BY <1>7, <1>i, <2>1 DEF vars, Held
<1> QED
  BY <1>1, <1>2, <1>3, <1>4, <1>5, <1>6, <1>7 DEF Next, PosterStep

\* Every queued message has its token.
THEOREM TokensAlwaysCover == Spec => []TokensCoverMessages
<1>1. Init => TokenInv
  <2> SUFFICES ASSUME Init PROVE TokenInv
    OBVIOUS
  <2>1. mCount \in Nat /\ mMessageQueue = <<>> /\ Held = 0 /\ loopPc # "asleep"
    BY LoopAssumption DEF Init, Held
  <2>2. \A p \in Posters : Len(posting[p]) <= 1
    BY DEF Init
  <2> QED BY <2>1, <2>2, UnreleasedFinite DEF TokenInv, TokensCoverMessages
<1>2. Init => PopFindsMessage
  BY DEF Init, PopFindsMessage
<1>3. TokenInv => TokensCoverMessages
  BY DEF TokenInv
<1> QED
  BY <1>1, <1>2, <1>3, InitTypeOK, NextTypeOK, NextPopFindsMessage, NextTokenInv,
     PTL DEF Spec

\* A message whose postMessage() returned does not wait for the next one: the
\* sleeping message thread has no message to handle.
THEOREM NoMessageIsStranded == Spec => []NoMessageStranded
<1>1. Init => TokenInv
  <2> SUFFICES ASSUME Init PROVE TokenInv
    OBVIOUS
  <2>1. mCount \in Nat /\ mMessageQueue = <<>> /\ Held = 0 /\ loopPc # "asleep"
    BY LoopAssumption DEF Init, Held
  <2>2. \A p \in Posters : Len(posting[p]) <= 1
    BY DEF Init
  <2> QED BY <2>1, <2>2, UnreleasedFinite DEF TokenInv, TokensCoverMessages
<1>2. Init => PopFindsMessage
  BY DEF Init, PopFindsMessage
<1>3. TypeOK /\ TokenInv => NoMessageStranded
  <2> SUFFICES ASSUME TypeOK, TokenInv, ~torn, loopPc = "asleep", Unreleased = {}
               PROVE  mMessageQueue = <<>>
    BY DEF NoMessageStranded
  <2>1. Cardinality(Unreleased) = 0
    BY FS_EmptySet
  <2>2. mCount = 0 /\ Held = 0
    BY DEF TokenInv, Held
  <2>3. Len(mMessageQueue) <= 0
    BY <2>1, <2>2 DEF TokenInv, TokensCoverMessages
  <2> QED BY <2>3 DEF TypeOK
<1> QED
  BY <1>1, <1>2, <1>3, InitTypeOK, NextTypeOK, NextPopFindsMessage, NextTokenInv,
     PTL DEF Spec

-----------------------------------------------------------------------------
(* Order. *)

\* The strengthening: the message thread has a message in hand only while it
\* handles it.
OrderInv == /\ HandledInOrder
            /\ loopPc # "handle" => current = <<>>

\* Every step keeps the messages in order.
LEMMA NextOrderInv ==
    TypeOK /\ PopFindsMessage /\ OrderInv /\ [Next]_vars => OrderInv'
<1> SUFFICES ASSUME TypeOK, PopFindsMessage, OrderInv, [Next]_vars
             PROVE  OrderInv'
  OBVIOUS
<1>t. /\ mMessageQueue \in Seq(Messages) /\ current \in Seq(Messages)
      /\ handled \in Seq(Messages) /\ posted \in Seq(Messages)
      /\ handled \o current \in Seq(Messages)
  BY ConcatProperties DEF TypeOK
<1>i. /\ ~torn => posted = (handled \o current) \o mMessageQueue
      /\ loopPc # "handle" => current = <<>>
  BY DEF OrderInv, HandledInOrder
<1>s. SUFFICES /\ ~torn' => posted' = (handled' \o current') \o mMessageQueue'
               /\ loopPc' # "handle" => current' = <<>>
  BY DEF OrderInv, HandledInOrder
<1>1. ASSUME NEW p \in Posters, EndPush(p) PROVE <1>s!1
  <2>1. posting[p] \in Seq(Messages)
    BY DEF TypeOK
  <2>2. ((handled \o current) \o mMessageQueue) \o posting[p]
          = (handled \o current) \o (mMessageQueue \o posting[p])
    <3> DEFINE before == handled \o current
               message == posting[p]
    <3>1. before \in Seq(Messages) /\ message \in Seq(Messages)
      BY <1>t, <2>1
    <3>2. mMessageQueue \in Seq(Messages)
      BY <1>t
    <3> HIDE DEF before, message
    <3>3. (before \o mMessageQueue) \o message = before \o (mMessageQueue \o message)
      BY <3>1, <3>2, ConcatAssociative
    <3> QED BY <3>3 DEF before, message
  <2>3. UNCHANGED <<torn, loopPc, current, handled>> /\ posted' = posted \o posting[p]
    BY <1>1 DEF EndPush
  <2>4. ~torn => mMessageQueue' = mMessageQueue \o posting[p]
    BY <1>1 DEF EndPush, Outcomes
  <2> QED BY <1>i, <2>2, <2>3, <2>4
<1>2. ASSUME NEW p \in Posters, BeginPush(p) \/ ReleaseAfterPush(p)
      PROVE  <1>s!1
  <2>1. /\ UNCHANGED <<mMessageQueue, current, handled, posted>>
        /\ loopPc' # "handle" => loopPc # "handle"
    BY <1>2 DEF BeginPush, ReleaseAfterPush, Release
  <2>2. ~torn' => ~torn
    BY <1>2, Zenon DEF BeginPush, ReleaseAfterPush
  <2> QED BY <1>i, <2>1, <2>2
<1>3. CASE RequestExit \/ ReleaseForExit
  <2>1. /\ UNCHANGED <<mMessageQueue, current, handled, posted, torn>>
        /\ loopPc' # "handle" => loopPc # "handle"
    BY <1>3 DEF RequestExit, ReleaseForExit, Release
  <2> QED BY <1>i, <2>1
<1>4. CASE Acquire \/ Examine
  <2>1. UNCHANGED <<mMessageQueue, current, handled, posted>> /\ loopPc # "handle"
    BY <1>4 DEF Acquire, Examine
  <2>2. ~torn' => ~torn
    BY <1>4, Zenon DEF Acquire, Examine
  <2> QED BY <1>i, <2>1, <2>2
<1>5. CASE Pop
  <2>1. mMessageQueue # <<>> /\ current = <<>>
    BY <1>5, <1>i DEF Pop, PopFindsMessage
  <2>2. /\ Head(mMessageQueue) \in Messages
        /\ Tail(mMessageQueue) \in Seq(Messages)
        /\ mMessageQueue = <<Head(mMessageQueue)>> \o Tail(mMessageQueue)
    BY <2>1, <1>t, HeadTailProperties
  <2>3. <<Head(mMessageQueue)>> \in Seq(Messages)
    BY <2>2
  <2>4. handled \o (<<Head(mMessageQueue)>> \o Tail(mMessageQueue))
          = (handled \o <<Head(mMessageQueue)>>) \o Tail(mMessageQueue)
    BY <1>t, <2>2, <2>3, ConcatAssociative
  <2>5. handled \o current = handled
    BY <1>t, <2>1, ConcatEmptySeq
  <2>6. /\ UNCHANGED <<handled, posted, torn>>
        /\ current' = <<Head(mMessageQueue)>>
        /\ loopPc' = "handle"
    BY <1>5 DEF Pop
  <2>7. ~torn => mMessageQueue' = Tail(mMessageQueue)
    BY <1>5 DEF Pop, Outcomes
  <2> QED BY <1>i, <2>2, <2>4, <2>5, <2>6, <2>7
<1>6. CASE Handle
  <2>1. (handled \o current) \o <<>> = handled \o current
    BY <1>t, ConcatEmptySeq
  <2>2. /\ handled' = handled \o current /\ current' = <<>>
        /\ UNCHANGED <<mMessageQueue, posted, torn>>
    BY <1>6 DEF Handle
  <2> QED BY <1>i, <2>1, <2>2
<1>7. CASE UNCHANGED vars
  BY <1>7, <1>i DEF vars
<1> QED
  BY <1>1, <1>2, <1>3, <1>4, <1>5, <1>6, <1>7 DEF Next, PosterStep, LoopStep

\* As long as accesses to the queue do not overlap, no message is lost,
\* repeated or overtaken.
THEOREM MessagesHandledInOrder == Spec => []HandledInOrder
<1>1. Init => OrderInv
  <2>1. <<>> \o <<>> = <<>>
    OBVIOUS
  <2> QED BY <2>1 DEF Init, OrderInv, HandledInOrder
<1>2. Init => PopFindsMessage
  BY DEF Init, PopFindsMessage
<1>3. OrderInv => HandledInOrder
  BY DEF OrderInv
<1> QED
  BY <1>1, <1>2, <1>3, InitTypeOK, NextTypeOK, NextPopFindsMessage, NextOrderInv,
     PTL DEF Spec
=============================================================================
