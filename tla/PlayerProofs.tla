----------------------------- MODULE PlayerProofs -----------------------------
(***************************************************************************)
(* Proofs about Player and its Render, for every file, every capacity and  *)
(* any number of calls: the types; that threads, their objects and their   *)
(* queues are there when the handlers and the destructor use them; and     *)
(* when a null pointer can be met.  PlayerPlaybackProofs goes on.          *)
(***************************************************************************)
EXTENDS PlayerProperties, SequenceTheorems, TLAPS

-----------------------------------------------------------------------------
(* Types.                                                                *)

\* A decoder thread has a packet in hand exactly while it decodes it.
PacketInHand ==
    \A m \in Media : decodePc[m] \in {"decode", "push"} <=> decoding[m] # <<>>

\* The types, the bound of seek() and what the decoder threads hold, together
\* inductive: Head of what a thread holds is a frame.
TypeInv == PlayerTypeOK /\ calls.seek <= MaxSeek /\ PacketInHand

\* The initial state has the types.
LEMMA InitTypeInv == Init => TypeInv
<1> SUFFICES ASSUME Init PROVE TypeInv
  OBVIOUS
<1>1. RenderTypeOK
  <2>1. frameQ \in [Media -> Seq(Frames)] /\ frame \in Seq(Frames)
    BY DEF Init, RenderInit
  <2>2. \A m \in Media : Len(frameQ[m]) <= FrameMax
    BY RenderAssumption DEF Init, RenderInit
  <2>3. frameAbort \in [Media -> BOOLEAN] /\ mAudioDevID \in BOOLEAN /\ devicePaused \in BOOLEAN
        /\ mPaused \in BOOLEAN /\ mRenderThreadExit \in BOOLEAN /\ openFailed \in BOOLEAN
    BY Zenon DEF Init, RenderInit
  <2> QED BY <2>1, <2>2, <2>3 DEF Init, RenderInit, RenderTypeOK, CallSteps
<1>2. PlayerTypeOK
  <2>1. packetQ \in [Media -> Seq(0..MaxSeek)] /\ decoding \in [Media -> Seq(0..MaxSeek)]
    BY DEF Init
  <2>2. \A m \in Media : Len(packetQ[m]) <= PacketMax
    BY PlayerAssumption DEF Init
  <2>3. packetAbort \in [Media -> BOOLEAN] /\ context \in [Media -> BOOLEAN]
         /\ decodeExit \in [Media -> BOOLEAN] /\ mMessageThreadExit \in BOOLEAN /\ mExtractThreadExit \in BOOLEAN
         /\ seekFailed \in BOOLEAN
    BY Zenon DEF Init
  <2> QED BY <1>1, <2>1, <2>2, <2>3, PlayerAssumption DEF Init, PlayerTypeOK, Media,
     MessagePcs
<1> QED BY <1>2, PlayerAssumption DEF Init, TypeInv, PacketInHand

\* A queue that gives its first element away keeps its type and gets no longer.
LEMMA TailShorter ==
    ASSUME NEW S, NEW s \in Seq(S), s # <<>>, NEW n \in Nat, Len(s) <= n
    PROVE  /\ Head(s) \in S /\ Tail(s) \in Seq(S)
           /\ Len(Tail(s)) <= n
<1>1. Head(s) \in S /\ Tail(s) \in Seq(S) /\ Len(Tail(s)) = Len(s) - 1
  BY HeadTailProperties
<1> QED BY <1>1

\* Counting a call keeps the type of the counters.
LEMMA CallsCount ==
    ASSUME NEW c \in [{"start", "pause", "seek"} -> Nat], NEW name \in {"start", "pause", "seek"}
    PROVE  LET d == [c EXCEPT ![name] = c[name] + 1]
           IN  /\ d \in [{"start", "pause", "seek"} -> Nat]
               /\ d[name] = c[name] + 1
  OBVIOUS

\* The calls of the user and the destructor keep the types; seek() counts below
\* its bound.
LEMMA UserTypeInv == TypeInv /\ (UserCall \/ UserStep) => TypeInv'
<1> SUFFICES ASSUME TypeInv, UserCall \/ UserStep PROVE TypeInv'
  OBVIOUS
<1> USE DEF TypeInv, PlayerTypeOK, RenderTypeOK, PacketInHand, CallOnly, JoinOnly,
            UserOnly, renderState, deviceVars, packetVars
<1>1. CASE UserStart
  <2>1. overlap' \subseteq {"start", "seek"}
    BY <1>1 DEF UserStart
  <2> QED BY <1>1, <2>1 DEF UserStart, UserPosts, Post
<1>2. CASE UserPause
  BY <1>2 DEF UserPause, UserPosts, Post
<1>3. CASE UserSetsSeekTime
  <2>1. calls.seek \in Nat /\ MaxSeek \in Nat /\ calls.seek < MaxSeek
    BY <1>3, PlayerAssumption DEF UserSetsSeekTime
  <2>2. calls' \in [{"start", "pause", "seek"} -> Nat] /\ calls'.seek = calls.seek + 1
    <3>1. calls' = [calls EXCEPT !["seek"] = calls["seek"] + 1]
      BY <1>3 DEF UserSetsSeekTime
    <3> QED BY <3>1, CallsCount
  <2>3. mSeekTime' \in -1..MaxSeek /\ calls'.seek <= MaxSeek
    BY <1>3, <2>1, <2>2 DEF UserSetsSeekTime
  <2>4. overlap' \subseteq {"start", "seek"}
    BY <1>3 DEF UserSetsSeekTime
  <2> QED BY <1>3, <2>2, <2>3, <2>4 DEF UserSetsSeekTime
<1>4. CASE UserPostsSeek
  BY <1>4 DEF UserPostsSeek, Post
<1>5. CASE Destroy
  <2>1. mMessageThreadExit' \in BOOLEAN
    BY <1>5 DEF Destroy
  <2> QED BY <1>5, <2>1 DEF Destroy
<1>6. CASE JoinMessage
  <2>1. mExtractThreadExit' \in BOOLEAN
    BY <1>6 DEF JoinMessage
  <2> QED BY <1>6, <2>1 DEF JoinMessage
<1>a. ASSUME NEW m \in Media, TellDecoder(m) PROVE decodeExit' \in [Media -> BOOLEAN]
  BY <1>a, Zenon DEF TellDecoder
<1>7. CASE JoinExtract
  <2>1. decodeExit' \in [Media -> BOOLEAN]
    BY <1>7, <1>a DEF JoinExtract, Media
  <2> QED BY <1>7, <2>1 DEF JoinExtract, TellDecoder
<1>8. CASE JoinVideo
  <2>1. decodeExit' \in [Media -> BOOLEAN]
    BY <1>8, <1>a DEF JoinVideo, Media
  <2> QED BY <1>8, <2>1 DEF JoinVideo, TellDecoder
<1>9. CASE JoinAudio
  <2>1. context' \in [Media -> BOOLEAN]
    BY <1>9, Zenon DEF JoinAudio
  <2>2. renderCall' \in CallSteps
    <3>1. renderCall' \in {"close", "stopAudio"}
      BY <1>9, Zenon DEF JoinAudio, DestroyEntry
    <3> QED BY <3>1 DEF CallSteps
  <2>3. sleepers' = {} /\ userPc' = "gone"
    BY <1>9, Zenon DEF JoinAudio, NotifyState
  <2>4. UserOnly /\ UNCHANGED <<mExtractThreadExit, decodeExit, mSeekTime, mMessageQueue,
                               mMessageThreadExit, calls, overlap>>
    BY <1>9, Zenon DEF JoinAudio
  <2> QED BY <2>1, <2>2, <2>3, <2>4
<1> QED BY <1>1, <1>2, <1>3, <1>4, <1>5, <1>6, <1>7, <1>8, <1>9 DEF UserCall, UserStep

\* The handlers keep the types; a join takes the packet of no decoder thread away.
LEMMA MessageTypeInv == TypeInv /\ MessageStep => TypeInv'
<1> SUFFICES ASSUME TypeInv, MessageStep PROVE TypeInv'
  OBVIOUS
<1> USE DEF TypeInv, PlayerTypeOK, RenderTypeOK, PacketInHand, HandlerOnly, MessageOnly,
            renderState, deviceVars, stateVars, packetVars, userVars
<1>1. CASE TakeMessage
  <2>1. /\ Head(mMessageQueue) \in {"kWhatStart", "kWhatPause", "kWhatSeek"}
        /\ Tail(mMessageQueue) \in Seq({"kWhatStart", "kWhatPause", "kWhatSeek"})
    BY <1>1, HeadTailProperties DEF TakeMessage
  <2> QED BY <1>1, <2>1 DEF TakeMessage, MessagePcs
<1>2. CASE LeaveMessageThread
  BY <1>2 DEF LeaveMessageThread, MessagePcs
<1>3. CASE BeginStart
  <2>1. renderCall' \in CallSteps
    <3>1. renderCall' \in {"unpause", "open", renderCall}
      BY <1>3, Zenon DEF BeginStart, StartEntry
    <3> QED BY <3>1 DEF CallSteps
  <2>2. /\ mState' \in {"PLAYING", mState} /\ stateLock' = "message"
        /\ sleepers' \in {{}, sleepers}
        /\ messagePc' \in {"createExtract", "createVideo"}
    BY <1>3, Zenon DEF BeginStart, GoTo, Lock, NotifyState
  <2>3. HandlerOnly
    BY <1>3, Zenon DEF BeginStart
  <2> QED BY <2>1, <2>2, <2>3 DEF MessagePcs
<1>4. CASE CreateExtract
  <2>1. mExtractThreadExit' \in BOOLEAN
    BY <1>4, Zenon DEF CreateExtract
  <2> QED BY <1>4, <2>1 DEF CreateExtract, GoTo, MessagePcs
<1>5. CASE CreateDecoders
  <2>1. ASSUME NEW m \in Media, CreateDecoder(m)
        PROVE  /\ packetAbort' \in [Media -> BOOLEAN] /\ decodeExit' \in [Media -> BOOLEAN]
    BY <2>1, Zenon DEF CreateDecoder
  <2>2. ASSUME NEW m \in Media, CreateDecoder(m)
        PROVE  /\ decodePc' \in [Media -> {"none", "top", "wait", "pop", "decode", "push", "done"}]
               /\ PacketInHand'
    BY <2>2 DEF CreateDecoder
  <2>3. /\ messagePc' \in {"createAudio", "acquire"}
        /\ stateLock' \in {stateLock, "free"}
        /\ CreateDecoder("video") \/ CreateDecoder("audio")
    BY <1>5, Zenon DEF CreateDecoders, GoTo, Unlock
  <2>4. /\ packetAbort' \in [Media -> BOOLEAN] /\ decodeExit' \in [Media -> BOOLEAN]
        /\ decodePc' \in [Media -> {"none", "top", "wait", "pop", "decode", "push", "done"}]
        /\ PacketInHand'
    BY <2>1, <2>2, <2>3 DEF Media
  <2>5. UNCHANGED <<mState, sleepers, mMessageQueue, extractPc, mExtractThreadExit,
                   packetQ, renderCall>> /\ MessageOnly
    BY <2>3, Zenon DEF CreateDecoder
  <2> QED BY <2>3, <2>4, <2>5 DEF MessagePcs
<1>6. CASE BeginPause \/ EndPause \/ IgnoreSeek \/ BeginSeek
  <2>1. /\ messagePc' \in MessagePcs /\ renderCall' \in CallSteps
        /\ mState' \in {mState, "PAUSED", "SEEKING"} /\ stateLock' \in {stateLock, "message", "free"}
        /\ UNCHANGED sleepers
    BY <1>6 DEF BeginPause, EndPause, IgnoreSeek, BeginSeek, GoTo, Lock, Unlock, PauseEntry,
       MessagePcs, CallSteps
  <2>2. HandlerOnly
    BY <1>6, Zenon DEF BeginPause, EndPause, IgnoreSeek, BeginSeek
  <2> QED BY <2>1, <2>2
<1>7. CASE AbortPipeline
  <2>1. ASSUME NEW m \in Media, AbortPackets(m)
        PROVE  /\ packetAbort' \in [Media -> BOOLEAN]
               /\ packetQ' \in [Media -> Seq(0..MaxSeek)]
    BY <2>1 DEF AbortPackets
  <2>2. ASSUME NEW m \in Media, AbortPackets(m)
        PROVE  \A n \in Media : Len(packetQ'[n]) <= PacketMax
    BY <2>2, PlayerAssumption DEF AbortPackets
  <2>3. /\ messagePc' \in {"abortAudio", "stopDecoders"}
        /\ renderCall' \in {renderCall, "abortAudio"}
        /\ AbortPackets("video") \/ AbortPackets("audio")
    BY <1>7, Zenon DEF AbortPipeline, GoTo, FlushEntry
  <2>4. /\ packetAbort' \in [Media -> BOOLEAN]
        /\ packetQ' \in [Media -> Seq(0..MaxSeek)]
        /\ \A n \in Media : Len(packetQ'[n]) <= PacketMax
    BY <2>1, <2>2, <2>3 DEF Media
  <2>5. UNCHANGED <<stateVars, mMessageQueue, extractPc, mExtractThreadExit,
                   decodePc, decodeExit>> /\ MessageOnly
    BY <2>3, Zenon DEF AbortPackets
  <2> QED BY <2>3, <2>4, <2>5 DEF MessagePcs, CallSteps
<1>8. CASE StopDecoders
  <2>1. decodeExit' \in [Media -> BOOLEAN]
    BY <1>8, Zenon DEF StopDecoders
  <2> QED BY <1>8, <2>1 DEF StopDecoders, GoTo, Unlock, NotifyState, MessagePcs
<1>9. CASE JoinDecoders
  <2>1. ASSUME NEW m \in Media, JoinDecoder(m)
        PROVE  /\ decodePc' \in [Media -> {"none", "top", "wait", "pop", "decode", "push", "done"}]
               /\ PacketInHand'
    BY <2>1 DEF JoinDecoder
  <2>2. /\ messagePc' \in {"seekJoinAudio", "flushCodecs"}
        /\ JoinDecoder("video") \/ JoinDecoder("audio")
    BY <1>9, Zenon DEF JoinDecoders, GoTo
  <2>3. /\ decodePc' \in [Media -> {"none", "top", "wait", "pop", "decode", "push", "done"}]
        /\ PacketInHand'
    BY <2>1, <2>2 DEF Media
  <2>4. MessageOnly /\ UNCHANGED <<stateVars, mMessageQueue, extractPc, mExtractThreadExit,
                                   packetVars, decodeExit, renderCall>>
    BY <2>2, Zenon DEF JoinDecoder
  <2> QED BY <2>2, <2>3, <2>4 DEF MessagePcs
<1>10. CASE FlushCodecs
  <2>1. messagePc' \in {"acquire", "crashed"} /\ HandlerOnly /\ UNCHANGED <<stateVars, renderCall>>
    BY <1>10, Zenon DEF FlushCodecs, GoTo
  <2> QED BY <2>1 DEF MessagePcs
<1> QED BY <1>1, <1>2, <1>3, <1>4, <1>5, <1>6, <1>7, <1>8, <1>9, <1>10, Zenon DEF
   MessageStep

\* The contexts the extract thread opens are a set of media.
LEMMA StreamsType == [m \in Media |-> m \in FileStreams] \in [Media -> BOOLEAN]
  OBVIOUS

\* The extract thread keeps the types: a packet is pushed below the capacity of
\* its queue (Player.cpp 352-372).
LEMMA ExtractTypeInv == TypeInv /\ ExtractStep => TypeInv'
<1> SUFFICES ASSUME TypeInv, ExtractStep PROVE TypeInv'
  OBVIOUS
<1> USE DEF TypeInv, PlayerTypeOK, RenderTypeOK, PacketInHand, ExtractOnly, renderVars,
            renderState, deviceVars, stateVars, packetVars, userVars, decodeVars,
            messageVars
<1>1. CASE OpenFile
  <2>1. context' \in [Media -> BOOLEAN]
    <3>1. \/ UNCHANGED context
          \/ context' = [m \in Media |-> m \in FileStreams]
      BY <1>1, Zenon DEF OpenFile
    <3> QED BY <3>1, StreamsType
  <2>2. extractPc' \in {"done", "top"}
    BY <1>1, Zenon DEF OpenFile
  <2> QED BY <1>1, <2>1, <2>2 DEF OpenFile
<1>2. CASE ExtractTop
  <2>1. extractPc' \in {"done", "seek", "read"}
    BY <1>2, Zenon DEF ExtractTop
  <2> QED BY <1>2, <2>1 DEF ExtractTop
<1>3. CASE ExtractSeek
  <2>1. seekFailed' \in BOOLEAN
    BY <1>3, Zenon DEF ExtractSeek
  <2> QED BY <1>3, <2>1, PlayerAssumption DEF ExtractSeek, AwaitSeekEnd
<1>4. CASE ExtractSeeked \/ ExtractPosts
  <2>1. mSeekTime' \in -1..MaxSeek
    BY <1>4, PlayerAssumption DEF ExtractSeeked, ExtractPosts
  <2>2. mMessageQueue' \in Seq({"kWhatStart", "kWhatPause", "kWhatSeek"})
    <3>1. mMessageQueue' \in {mMessageQueue, Append(mMessageQueue, "kWhatStart")}
      BY <1>4, Zenon DEF ExtractSeeked, ExtractPosts, Post, messageVars
    <3>2. Append(mMessageQueue, "kWhatStart") \in Seq({"kWhatStart", "kWhatPause", "kWhatSeek"})
      OBVIOUS
    <3> QED BY <3>1, <3>2
  <2>3. /\ extractPc' \in {"post", "top"} /\ stateLock' \in {stateLock, "free"}
        /\ UNCHANGED <<mState, sleepers, mMessageThreadExit, messagePc, mExtractThreadExit, packetFor,
                       position, seekFailed, packetVars, decodeVars, userVars, renderVars>>
    BY <1>4, Zenon DEF ExtractSeeked, ExtractPosts, messageVars
  <2> QED BY <2>1, <2>2, <2>3
<1>5. CASE ExtractWoken
  BY <1>5 DEF ExtractWoken, AwaitSeekEnd
<1>6. CASE ReadPacket
  <2>1. mExtractThreadExit' \in BOOLEAN
    BY <1>6, Zenon DEF ReadPacket
  <2>2. packetFor' \in Media
    BY <1>6, PlayerAssumption DEF ReadPacket
  <2>3. extractPc' \in {"push", "top"}
    BY <1>6, Zenon DEF ReadPacket
  <2>4. ExtractOnly /\ UNCHANGED <<sleepers, mSeekTime, mMessageQueue, position, seekFailed, packetVars, decodeVars>>
    BY <1>6, Zenon DEF ReadPacket
  <2> QED BY <2>1, <2>2, <2>3, <2>4
<1>7. CASE PushPacket
  <2>1. /\ packetQ' \in [Media -> Seq(0..MaxSeek)]
    BY <1>7 DEF PushPacket
  <2>2. \A n \in Media : Len(packetQ'[n]) <= PacketMax
    BY <1>7, PlayerAssumption DEF PushPacket
  <2> QED BY <1>7, <2>1, <2>2 DEF PushPacket
<1> QED BY <1>1, <1>2, <1>3, <1>4, <1>5, <1>6, <1>7, Zenon DEF ExtractStep

\* A decoder thread keeps the types: it takes a packet from a queue that has one,
\* and pushes a frame below the capacity of Render's queue.
LEMMA DecodeTypeInv == ASSUME NEW m \in Media PROVE TypeInv /\ DecodeStep(m) => TypeInv'
<1> SUFFICES ASSUME TypeInv, DecodeStep(m) PROVE TypeInv'
  OBVIOUS
<1> USE DEF TypeInv, PlayerTypeOK, RenderTypeOK, PacketInHand, DecodeOnly, renderVars,
            renderState, deviceVars, stateVars, packetVars, userVars, extractVars,
            messageVars
<1>1. CASE DecodeTop(m)
  BY <1>1 DEF DecodeTop
<1>2. CASE DecodeWait(m)
  <2>1. sleepers' \in {sleepers, sleepers \cup {m}}
    BY <1>2, Zenon DEF DecodeWait
  <2>2. \/ UNCHANGED decodePc
        \/ \E pc \in {"done", "pop"} : decodePc' = [decodePc EXCEPT ![m] = pc]
    BY <1>2 DEF DecodeWait
  <2>3. decodePc[m] = "wait" /\ DecodeOnly /\ UNCHANGED <<packetQ, decoding, renderVars>>
    BY <1>2, Zenon DEF DecodeWait
  <2>4. sleepers' \subseteq Media \cup {"extract"}
    BY <2>1
  <2>5. /\ decodePc' \in [Media -> {"none", "top", "wait", "pop", "decode", "push", "done"}]
        /\ PacketInHand'
    <3>1. CASE UNCHANGED decodePc
      BY <2>3, <3>1
    <3>2. ASSUME NEW pc \in {"done", "pop"}, decodePc' = [decodePc EXCEPT ![m] = pc]
          PROVE  /\ decodePc' \in [Media -> {"none", "top", "wait", "pop", "decode", "push", "done"}]
                 /\ PacketInHand'
      BY <2>3, <3>2
    <3> QED BY <2>2, <3>1, <3>2
  <2> QED BY <2>3, <2>4, <2>5
<1>3. CASE DecodePop(m)
  <2>1. CASE packetAbort[m]
    <3>1. /\ decodePc[m] = "pop" /\ decodePc' = [decodePc EXCEPT ![m] = "done"]
          /\ DecodeOnly /\ UNCHANGED <<packetQ, decoding, sleepers, renderVars>>
      BY <1>3, <2>1, Zenon DEF DecodePop
    <3> QED BY <3>1
  <2>2. CASE ~packetAbort[m]
    <3>1. packetQ[m] # <<>> /\ packetQ[m] \in Seq(0..MaxSeek)
      BY <1>3, <2>2 DEF DecodePop
    <3>2. Head(packetQ[m]) \in 0..MaxSeek /\ Tail(packetQ[m]) \in Seq(0..MaxSeek)
          /\ Len(Tail(packetQ[m])) <= PacketMax
      BY <3>1, TailShorter, PlayerAssumption
    <3>3. decodePc' = [decodePc EXCEPT ![m] = "decode"]
          /\ decoding' = [decoding EXCEPT ![m] = <<Head(packetQ[m])>>]
          /\ packetQ' = [packetQ EXCEPT ![m] = Tail(packetQ[m])]
      BY <1>3, <2>2 DEF DecodePop
    <3>4. decoding' \in [Media -> Seq(0..MaxSeek)] /\ PacketInHand'
      BY <3>2, <3>3
    <3>5. packetQ' \in [Media -> Seq(0..MaxSeek)] /\ \A n \in Media : Len(packetQ'[n]) <= PacketMax
      BY <3>2, <3>3
    <3>6. DecodeOnly /\ UNCHANGED <<sleepers, renderVars>>
      BY <1>3, Zenon DEF DecodePop
    <3>7. decodePc' \in [Media -> {"none", "top", "wait", "pop", "decode", "push", "done"}]
      BY <3>3
    <3> QED BY <3>4, <3>5, <3>6, <3>7
  <2> QED BY <2>1, <2>2
<1>4. CASE ReceiveFrame(m)
  BY <1>4 DEF ReceiveFrame
<1>5. CASE PushFrame(m)
  <2>1. Head(decoding[m]) \in Frames
    BY <1>5, PlayerAssumption, HeadTailProperties DEF PushFrame
  <2>2. frameQ' \in [Media -> Seq(Frames)]
    BY <1>5, <2>1 DEF PushFrame, QueueFrame
  <2>3. \A n \in Media : Len(frameQ'[n]) <= FrameMax
    BY <1>5, <2>1, RenderAssumption DEF PushFrame, QueueFrame
  <2> QED BY <1>5, <2>2, <2>3 DEF PushFrame, QueueFrame
<1>6. CASE EndPacket(m)
  BY <1>6 DEF EndPacket
<1> QED BY <1>1, <1>2, <1>3, <1>4, <1>5, <1>6, Zenon DEF DecodeStep

\* The first frame of a queue is taken.
TakesFrame(m) == frameQ[m] # <<>> /\ frameQ' = [frameQ EXCEPT ![m] = Tail(@)]

\* Taking a frame keeps the type and the capacity of the frame queues.
LEMMA TakesFrameType ==
    ASSUME NEW m \in Media, RenderTypeOK, TakesFrame(m)
    PROVE  /\ Head(frameQ[m]) \in Frames
           /\ frameQ' \in [Media -> Seq(Frames)]
           /\ \A n \in Media : Len(frameQ'[n]) <= FrameMax
<1>1. /\ Head(frameQ[m]) \in Frames
      /\ Tail(frameQ[m]) \in Seq(Frames)
      /\ Len(Tail(frameQ[m])) <= FrameMax
  BY TailShorter, RenderAssumption DEF TakesFrame, RenderTypeOK
<1> QED BY <1>1 DEF TakesFrame, RenderTypeOK

\* Render's own steps keep the types.
LEMMA RenderTypeInv == TypeInv /\ RenderStep /\ OutsideRender => TypeInv'
<1>0. RenderTypeOK /\ RenderStep => RenderTypeOK'
  <2> SUFFICES ASSUME RenderTypeOK, RenderStep PROVE RenderTypeOK'
    OBVIOUS
  <2> USE DEF RenderTypeOK, deviceVars
  <2>1. CASE CallbackBegin
    BY <2>1 DEF CallbackBegin
  <2>2. CASE CallbackDequeue
    <3>1. /\ callback' = "out" /\ mAudioClock' \in {"garbage", "pts"}
          /\ UNCHANGED <<frameAbort, deviceVars, mPaused, renderPc, frame,
                         mRenderThreadExit, renderCall>>
      BY <2>2, Zenon DEF CallbackDequeue
    <3>2. \/ UNCHANGED frameQ
          \/ TakesFrame("audio")
      BY <2>2 DEF CallbackDequeue, TakesFrame
    <3>3. /\ frameQ' \in [Media -> Seq(Frames)]
          /\ \A n \in Media : Len(frameQ'[n]) <= FrameMax
      BY <3>2, TakesFrameType DEF Media
    <3> QED BY <3>1, <3>3
  <2>3. CASE RenderTop \/ RenderWait
    BY <2>3 DEF RenderTop, RenderWait
  <2>4. CASE RenderDequeue
    <3>1. UNCHANGED <<frameAbort, deviceVars, callback, mAudioClock,
                                mPaused, mRenderThreadExit, renderCall>>
          /\ renderPc' \in {"top", "show"}
      BY <2>4, Zenon DEF RenderDequeue
    <3>2. \/ UNCHANGED <<frameQ, frame>>
          \/ TakesFrame("video") /\ frame' = <<Head(frameQ["video"])>>
      BY <2>4 DEF RenderDequeue, TakesFrame
    <3>3. /\ frameQ' \in [Media -> Seq(Frames)]
          /\ \A n \in Media : Len(frameQ'[n]) <= FrameMax
          /\ frame' \in Seq(Frames)
      <4>1. CASE UNCHANGED <<frameQ, frame>>
        BY <4>1
      <4>2. CASE TakesFrame("video") /\ frame' = <<Head(frameQ["video"])>>
        BY <4>2, TakesFrameType DEF Media
      <4> QED BY <3>2, <4>1, <4>2
    <3> QED BY <3>1, <3>3
  <2>5. CASE RenderShow
    BY <2>5 DEF RenderShow
  <2>6. CASE OpenDevice
    BY <2>6 DEF OpenDevice, CallSteps
  <2>7. CASE CreateRenderThread
    BY <2>7 DEF CreateRenderThread, CallSteps, GoOn
  <2>8. CASE UnpauseDevice \/ PauseDevice
    <3>1. renderCall' \in {"spawn", "initAudio", "clearClock"} /\ devicePaused' \in {TRUE, FALSE, devicePaused}
          /\ UNCHANGED <<frameQ, frameAbort, mAudioDevID, openFailed, callback,
                   mAudioClock, mPaused, renderPc, frame, mRenderThreadExit>>
      BY <2>8, Zenon DEF UnpauseDevice, PauseDevice, SetDevicePaused, GoOn
    <3>2. renderCall' \in CallSteps
      BY <3>1 DEF CallSteps
    <3>3. devicePaused' \in BOOLEAN
      BY <3>1, Zenon
    <3> QED BY <3>1, <3>2, <3>3, Zenon
  <2>9. CASE InitQueues
    <3>1. /\ renderCall' \in {"initVideo", "resume"}
          /\ frameAbort' \in [Media -> BOOLEAN]
          /\ UNCHANGED <<frameQ, deviceVars, callback, mAudioClock, mPaused, renderPc,
                   frame, mRenderThreadExit>>
      BY <2>9, Zenon DEF InitQueues, InitFrames, GoOn
    <3> QED BY <3>1 DEF CallSteps
  <2>10. CASE Resume
    BY <2>10 DEF Resume, GoOn, CallSteps
  <2>11. CASE ClearClock
    BY <2>11 DEF ClearClock, GoOn, CallSteps
  <2>12. CASE SetPaused
    BY <2>12 DEF SetPaused, GoOn, CallSteps
  <2>13. CASE AbortQueues
    <3>1. ASSUME NEW m \in Media, AbortFrames(m)
          PROVE  frameAbort' \in [Media -> BOOLEAN]
      BY <3>1, Zenon DEF AbortFrames
    <3>2. ASSUME NEW m \in Media, AbortFrames(m)
          PROVE  frameQ' \in [Media -> Seq(Frames)] /\ \A n \in Media : Len(frameQ'[n]) <= FrameMax
      BY <3>2, RenderAssumption DEF AbortFrames
    <3>3. /\ renderCall' \in {"abortVideo", "pauseDevice", "stopVideo", "exit"}
          /\ AbortFrames("video") \/ AbortFrames("audio")
          /\ UNCHANGED <<deviceVars, callback, mAudioClock, mPaused, renderPc, frame,
                   mRenderThreadExit>>
      BY <2>13, Zenon DEF AbortQueues, AbortQueue, PauseEntry, GoOn
    <3> QED BY <3>1, <3>2, <3>3 DEF CallSteps, Media
  <2>14. CASE CloseDevice
    BY <2>14 DEF CloseDevice, GoOn, CallSteps
  <2>15. CASE RequestRenderExit
    <3>1. mRenderThreadExit' \in BOOLEAN /\ renderCall' = "joinRender"
      BY <2>15, Zenon DEF RequestRenderExit, GoOn
    <3> QED BY <2>15, <3>1 DEF RequestRenderExit, CallSteps
  <2>16. CASE JoinRender
    BY <2>16 DEF JoinRender, renderState, GoOn, CallSteps
  <2> QED BY <2>1, <2>2, <2>3, <2>4, <2>5, <2>6, <2>7, <2>8, <2>9, <2>10, <2>11, <2>12,
     <2>13, <2>14, <2>15, <2>16, Zenon
          DEF RenderStep, RenderThread, RenderCaller
<1> QED BY <1>0 DEF TypeInv, PlayerTypeOK, PacketInHand, OutsideRender, stateVars,
   packetVars, userVars, decodeVars, extractVars, messageVars

\* A step of nobody keeps the types.
LEMMA StutterTypeInv == TypeInv /\ UNCHANGED vars => TypeInv'
  BY DEF vars, stateVars, messageVars, extractVars, packetVars, decodeVars,
         userVars, renderVars, renderState, deviceVars, TypeInv, PlayerTypeOK,
         RenderTypeOK, PacketInHand

\* Every step keeps the types.
LEMMA NextTypeInv == TypeInv /\ [Next]_vars => TypeInv'
  BY UserTypeInv, MessageTypeInv, ExtractTypeInv, DecodeTypeInv, RenderTypeInv,
     StutterTypeInv, Zenon DEF Next, Running

\* The types of Player's and Render's state hold always: packet and frame queues
\* never exceed their capacity, and every place of the file is one that was asked
\* for.
THEOREM TypesCorrect == Spec => []PlayerTypeOK
<1>1. TypeInv => PlayerTypeOK
  BY DEF TypeInv
<1> QED BY InitTypeInv, NextTypeInv, <1>1, PTL DEF Spec

-----------------------------------------------------------------------------
(* What the steps of each thread leave alone. *)

\* The extract thread leaves the state, the handlers, the decoder threads and
\* Render alone.
LEMMA ExtractFrame ==
    ExtractStep => UNCHANGED <<mState, mMessageThreadExit, messagePc, packetAbort, decodePc,
                               decoding, decodeExit, userPc, calls, overlap, renderVars>>
  BY Zenon DEF ExtractStep, OpenFile, ExtractTop, ExtractSeek, ExtractSeeked, ExtractPosts,
     ExtractWoken, ReadPacket, PushPacket, ExtractOnly, messageVars, packetVars, decodeVars,
     userVars

\* A decoder thread moves packets and frames, and sleeps.
LEMMA DecodeFrame ==
    ASSUME NEW m \in Media, DecodeStep(m)
    PROVE  /\ DecodeOnly
           /\ UNCHANGED <<frameAbort, deviceVars, callback, mAudioClock,
                          mPaused, renderPc, frame, mRenderThreadExit, renderCall>>
  BY Zenon DEF DecodeStep, DecodeTop, DecodeWait, DecodePop, ReceiveFrame, PushFrame,
     EndPacket, QueueFrame, renderVars, renderState

\* A step of the user's thread.
LEMMA UserFrame == UserCall \/ UserStep => UserOnly
  BY Zenon DEF UserCall, UserStep, UserStart, UserPause, UserPosts, UserSetsSeekTime,
     UserPostsSeek, Destroy, CallOnly, JoinMessage, JoinExtract, JoinVideo, JoinAudio,
     TellDecoder, JoinOnly

\* A step of the message thread.
LEMMA MessageFrame == MessageStep => MessageOnly
  BY Zenon DEF MessageStep, TakeMessage, LeaveMessageThread, BeginStart, CreateExtract,
     CreateDecoders, CreateDecoder, BeginPause, EndPause, IgnoreSeek, BeginSeek,
     AbortPipeline, AbortPackets, StopDecoders, JoinDecoders, JoinDecoder, FlushCodecs,
     HandlerOnly

-----------------------------------------------------------------------------

\* The steps of Render's calls, and of the handlers, by what they belong to.
StartSteps == {"open", "unpauseNew", "spawn", "unpause", "initAudio", "initVideo", "resume"}
PauseSteps == {"pauseDevice", "clearClock", "setPaused"}
FlushSteps == {"abortAudio", "abortVideo"}
StopSteps == {"close", "stopAudio", "stopVideo", "exit", "joinRender", "destroyed"}
Creating == {"createExtract", "createVideo", "createAudio"}
Emptying == {"abortVideo", "abortAudio", "stopDecoders", "seekJoinVideo", "seekJoinAudio"}

\* Where the message thread is, the state it has set, and which call of Render it
\* is in (Player.cpp 101-219); the destructor goes on only when it has ended.
ControlInv ==
    /\ messagePc \in Creating => mState = "PLAYING"
    /\ messagePc = "unlock" => mState = "PAUSED"
    /\ messagePc \in Emptying \cup {"flushCodecs"} => mState = "SEEKING"
    /\ renderCall \in StartSteps => messagePc \in {"createExtract", "createVideo"}
    /\ renderCall \in PauseSteps => messagePc \in {"unlock", "stopDecoders"}
    /\ renderCall \in FlushSteps => messagePc = "stopDecoders"
    /\ renderCall \in StopSteps <=> userPc = "gone"
    /\ userPc \in {"joinExtract", "joinVideo", "joinAudio", "gone"} => messagePc = "done"

\* Every step keeps the handlers, the state and the calls of Render in agreement.
LEMMA NextControlInv == TypeInv /\ ControlInv /\ [Next]_vars => ControlInv'
<1> SUFFICES ASSUME TypeInv, ControlInv, [Next]_vars PROVE ControlInv'
  OBVIOUS
<1>0. /\ messagePc \in MessagePcs /\ renderCall \in CallSteps
      /\ mMessageQueue \in Seq({"kWhatStart", "kWhatPause", "kWhatSeek"})
  BY DEF TypeInv, PlayerTypeOK, RenderTypeOK
<1> USE DEF ControlInv, Creating, Emptying, StartSteps, PauseSteps, FlushSteps, StopSteps
<1>1. CASE UserCall \/ UserStep
  <2>1. UNCHANGED <<mState, messagePc>>
    BY <1>1, UserFrame, Zenon DEF UserOnly
  <2>2. CASE JoinAudio
    <3>1. /\ renderCall' \in {"close", "stopAudio"} /\ userPc = "joinAudio" /\ userPc' = "gone"
      BY <2>2, Zenon DEF JoinAudio, DestroyEntry
    <3> QED BY <2>1, <3>1
  <2>3. CASE ~JoinAudio
    <3>1. UNCHANGED renderCall
      BY <1>1, <2>3, Zenon DEF UserCall, UserStep, UserStart, UserPause, UserPosts,
         UserSetsSeekTime, UserPostsSeek, Destroy, CallOnly, JoinMessage, JoinExtract,
         JoinVideo, TellDecoder
    <3>2. userPc # "gone" /\ userPc' # "gone"
      BY <1>1, <2>3 DEF UserCall, UserStep, UserStart, UserPause, UserPosts,
         UserSetsSeekTime, UserPostsSeek, Destroy, JoinMessage, JoinExtract, JoinVideo
    <3>3. userPc' \in {"joinExtract", "joinVideo", "joinAudio"} => messagePc = "done"
      BY <1>1, <2>3 DEF UserCall, UserStep, UserStart, UserPause, UserPosts,
         UserSetsSeekTime, UserPostsSeek, Destroy, JoinMessage, JoinExtract, JoinVideo
    <3> QED BY <2>1, <3>1, <3>2, <3>3
  <2> QED BY <2>2, <2>3
<1>2. CASE MessageStep
  <2>1. UNCHANGED userPc
    BY <1>2, MessageFrame, Zenon DEF MessageOnly, userVars
  <2>2. CASE TakeMessage
    <3>1. messagePc' \in {"kWhatStart", "kWhatPause", "kWhatSeek"}
      BY <1>0, <2>2, HeadTailProperties DEF TakeMessage
    <3> QED BY <2>1, <2>2, <3>1 DEF TakeMessage, stateVars
  <2>3. CASE LeaveMessageThread
    BY <2>1, <2>3 DEF LeaveMessageThread, stateVars
  <2>4. CASE BeginStart
    <3>1. messagePc = "kWhatStart" /\ mState' = "PLAYING" /\ messagePc' \in {"createExtract", "createVideo"}
          /\ renderCall' \in {"none", "open", "unpause"} /\ renderCall = "none"
      BY <2>4, Zenon DEF BeginStart, GoTo, StartEntry
    <3> QED BY <1>0, <2>1, <3>1
  <2>5. CASE CreateExtract
    BY <2>1, <2>5 DEF CreateExtract, GoTo, stateVars
  <2>6. CASE CreateDecoders
    BY <2>1, <2>6 DEF CreateDecoders, CreateDecoder, GoTo
  <2>7. CASE BeginPause
    BY <2>1, <2>7 DEF BeginPause, GoTo, PauseEntry
  <2>8. CASE EndPause \/ IgnoreSeek \/ BeginSeek
    BY <2>1, <2>8 DEF EndPause, IgnoreSeek, BeginSeek, GoTo, stateVars
  <2>9. CASE AbortPipeline
    BY <2>1, <2>9 DEF AbortPipeline, AbortPackets, FlushEntry, GoTo, stateVars
  <2>10. CASE StopDecoders
    BY <2>1, <2>10 DEF StopDecoders, GoTo
  <2>11. CASE JoinDecoders
    BY <2>1, <2>11 DEF JoinDecoders, JoinDecoder, GoTo, stateVars
  <2>12. CASE FlushCodecs
    <3>1. messagePc = "flushCodecs" /\ messagePc' \in {"acquire", "crashed"} /\ UNCHANGED <<mState, renderCall>>
          /\ renderCall = "none"
      BY <2>12, Zenon DEF FlushCodecs, GoTo, stateVars
    <3> QED BY <2>1, <3>1
  <2> QED BY <1>2, <2>2, <2>3, <2>4, <2>5, <2>6, <2>7, <2>8, <2>9, <2>10, <2>11, <2>12,
     Zenon DEF MessageStep
<1>3. CASE ExtractStep
  BY <1>3, ExtractFrame, Zenon DEF renderVars
<1>4. ASSUME NEW m \in Media, DecodeStep(m) PROVE ControlInv'
  BY <1>4, DecodeFrame, Zenon DEF DecodeOnly, userVars, messageVars
<1>5. CASE RenderStep /\ OutsideRender
  <2>1. UNCHANGED <<mState, messagePc, userPc>>
    BY <1>5, Zenon DEF OutsideRender, stateVars, messageVars, userVars
  <2>2. CASE CallbackBegin \/ CallbackDequeue \/ RenderThread
    BY <2>1, <2>2, Zenon DEF CallbackBegin, CallbackDequeue, RenderThread, RenderTop,
       RenderWait, RenderDequeue, RenderShow
  <2>3. CASE RenderCaller
    <3>1. CASE OpenDevice
      BY <2>1, <3>1 DEF OpenDevice
    <3>2. CASE CreateRenderThread \/ Resume
      BY <2>1, <3>2 DEF CreateRenderThread, Resume, GoOn
    <3>3. CASE UnpauseDevice \/ PauseDevice
      <4>1. \/ renderCall = "unpauseNew" /\ renderCall' = "spawn"
            \/ renderCall = "unpause" /\ renderCall' = "initAudio"
            \/ renderCall = "pauseDevice" /\ renderCall' = "clearClock"
        BY <3>3, Zenon DEF UnpauseDevice, PauseDevice, SetDevicePaused, GoOn
      <4> QED BY <2>1, <4>1
    <3>4. CASE InitQueues
      BY <2>1, <3>4 DEF InitQueues, InitFrames, GoOn
    <3>5. CASE ClearClock \/ SetPaused
      BY <2>1, <3>5 DEF ClearClock, SetPaused, GoOn
    <3>6. CASE AbortQueues
      BY <2>1, <3>6 DEF AbortQueues, AbortQueue, GoOn, PauseEntry
    <3>7. CASE CloseDevice \/ RequestRenderExit \/ JoinRender
      <4>1. \/ renderCall = "close" /\ renderCall' = "stopAudio"
            \/ renderCall = "exit" /\ renderCall' = "joinRender"
            \/ renderCall = "joinRender" /\ renderCall' = "destroyed"
        BY <3>7, Zenon DEF CloseDevice, RequestRenderExit, JoinRender, GoOn
      <4> QED BY <2>1, <4>1
    <3> QED BY <2>3, <3>1, <3>2, <3>3, <3>4, <3>5, <3>6, <3>7, Zenon DEF RenderCaller
  <2> QED BY <1>5, <2>2, <2>3, Zenon DEF RenderStep
<1>6. CASE UNCHANGED vars
  BY <1>6, Zenon DEF vars, stateVars, messageVars, userVars, renderVars
<1> QED BY <1>1, <1>2, <1>3, <1>4, <1>5, <1>6, Zenon DEF Next, Running
-----------------------------------------------------------------------------

\* The extract thread, once done, does nothing, and is never again not created.
LEMMA ExtractMoves ==
    ExtractStep => extractPc \notin {"none", "done", "crashed"} /\ extractPc' # "none"
<1>1. ExtractSeek => extractPc = "seek" /\ extractPc' \in {"seeked", "crashed", "wait", "read"}
  BY Zenon DEF ExtractSeek, AwaitSeekEnd
<1>2. ExtractTop => extractPc = "top" /\ extractPc' \in {"done", "seek", "read"}
  BY Zenon DEF ExtractTop
<1>3. ExtractWoken => extractPc = "wait" /\ extractPc' \in {"wait", "read"}
  BY Zenon DEF ExtractWoken, AwaitSeekEnd
<1> QED BY <1>1, <1>2, <1>3 DEF ExtractStep, OpenFile, ExtractSeeked, ExtractPosts,
     ReadPacket, PushPacket

\* A decoder thread, once done, does nothing; it does not remove itself.
LEMMA DecodeMoves ==
    ASSUME NEW m \in Media, DecodeStep(m)
    PROVE  /\ decodePc[m] \notin {"none", "done"}
           /\ \/ UNCHANGED decodePc
              \/ \E pc \in {"top", "wait", "pop", "decode", "push", "done"} :
                    decodePc' = [decodePc EXCEPT ![m] = pc]
<1>1. CASE DecodeTop(m)
  BY <1>1 DEF DecodeTop
<1>2. CASE DecodeWait(m)
  BY <1>2 DEF DecodeWait
<1>3. CASE DecodePop(m)
  BY <1>3 DEF DecodePop
<1>4. CASE ReceiveFrame(m) \/ PushFrame(m) \/ EndPacket(m)
  BY <1>4 DEF ReceiveFrame, PushFrame, EndPacket
<1> QED BY <1>1, <1>2, <1>3, <1>4, Zenon DEF DecodeStep

\* A decoder thread begins to decode only what its queue held.
LEMMA DecodeTakes ==
    ASSUME NEW m \in Media, DecodeStep(m), NEW n \in Media,
           decodePc \in [Media -> {"none", "top", "wait", "pop", "decode", "push", "done"}],
           decodePc'[n] \in {"decode", "push"}
    PROVE  decodePc[n] \in {"decode", "push"} \/ (n = m /\ packetQ[m] # <<>>)
<1>1. CASE DecodeTop(m) \/ DecodeWait(m)
  BY <1>1 DEF DecodeTop, DecodeWait
<1>2. CASE DecodePop(m)
  <2>1. \/ decodePc' = [decodePc EXCEPT ![m] = "done"]
        \/ decodePc' = [decodePc EXCEPT ![m] = "decode"] /\ packetQ[m] # <<>>
    BY <1>2, Zenon DEF DecodePop
  <2> QED BY <2>1
<1>3. CASE ReceiveFrame(m) \/ PushFrame(m) \/ EndPacket(m)
  BY <1>3 DEF ReceiveFrame, PushFrame, EndPacket
<1> QED BY <1>1, <1>2, <1>3, Zenon DEF DecodeStep

\* The extract thread exists once the first start is handled; the destructor goes
\* on only past a thread that has ended or never was (Player.cpp 51-78).
ThreadInv ==
    /\ extractPc = "none" <=> mState = "UNINITIALIZED" \/ messagePc = "createExtract"
    /\ userPc \in {"joinVideo", "joinAudio", "gone"} => extractPc \in {"none", "done"}
    /\ userPc \in {"joinAudio", "gone"} => decodePc["video"] \in {"none", "done"}
    /\ userPc = "gone" => decodePc["audio"] \in {"none", "done"}

\* Every step keeps what is joined joined.
LEMMA NextThreadInv == TypeInv /\ ControlInv /\ ThreadInv /\ [Next]_vars => ThreadInv'
<1> SUFFICES ASSUME TypeInv, ControlInv, ThreadInv, [Next]_vars PROVE ThreadInv'
  OBVIOUS
<1>0. decodePc \in [Media -> {"none", "top", "wait", "pop", "decode", "push", "done"}]
      /\ mMessageQueue \in Seq({"kWhatStart", "kWhatPause", "kWhatSeek"})
  BY DEF TypeInv, PlayerTypeOK
<1> USE DEF ThreadInv
<1>1. CASE UserCall \/ UserStep
  <2>1. UNCHANGED <<mState, messagePc, extractPc, decodePc>>
    BY <1>1, UserFrame, Zenon DEF UserOnly
  <2>2. \/ userPc' \in {"seek", "joinMessage", "joinExtract", "idle"}
        \/ userPc' = "joinVideo" /\ extractPc \in {"none", "done"}
        \/ userPc = "joinVideo" /\ userPc' = "joinAudio" /\ decodePc["video"] \in {"none", "done"}
        \/ userPc = "joinAudio" /\ userPc' = "gone" /\ decodePc["audio"] \in {"none", "done"}
    BY <1>1 DEF UserCall, UserStep, UserStart, UserPause, UserPosts, UserSetsSeekTime,
     UserPostsSeek, Destroy, JoinMessage, JoinExtract, JoinVideo, JoinAudio
  <2> QED BY <2>1, <2>2
<1>2. CASE MessageStep
  <2>1. /\ UNCHANGED userPc /\ messagePc # "done"
    BY <1>2, MessageFrame DEF MessageOnly, userVars, MessageStep, TakeMessage,
       LeaveMessageThread, BeginStart, CreateExtract,
     CreateDecoders, BeginPause, EndPause, IgnoreSeek, BeginSeek,
     AbortPipeline, StopDecoders, JoinDecoders, FlushCodecs, GoTo
  <2>2. userPc \notin {"joinExtract", "joinVideo", "joinAudio", "gone"}
    BY <2>1 DEF ControlInv
  <2>3. extractPc' = "none" <=> mState' = "UNINITIALIZED" \/ messagePc' = "createExtract"
    <3>1. CASE TakeMessage
      <4>1. Head(mMessageQueue) # "createExtract"
        BY <1>0, <3>1, HeadTailProperties DEF TakeMessage
      <4> QED BY <3>1, <4>1 DEF TakeMessage, stateVars
    <3>2. CASE LeaveMessageThread
      BY <3>2 DEF LeaveMessageThread, stateVars, HandlerOnly
    <3>3. CASE BeginStart
      BY <3>3 DEF BeginStart, GoTo, HandlerOnly
    <3>4. CASE CreateExtract
      BY <3>4 DEF CreateExtract, GoTo, stateVars, ControlInv, Creating
    <3>5. CASE CreateDecoders \/ JoinDecoders
      BY <3>5 DEF CreateDecoders, CreateDecoder, JoinDecoders, JoinDecoder, GoTo, stateVars
    <3>6. CASE BeginPause \/ EndPause
      BY <3>6 DEF BeginPause, EndPause, GoTo, HandlerOnly, ControlInv
    <3>7. CASE IgnoreSeek \/ BeginSeek
      BY <3>7 DEF IgnoreSeek, BeginSeek, GoTo, stateVars, HandlerOnly
    <3>8. CASE AbortPipeline \/ StopDecoders
      BY <3>8 DEF AbortPipeline, AbortPackets, StopDecoders, GoTo, stateVars
    <3>9. CASE FlushCodecs
      <4>1. messagePc = "flushCodecs" /\ messagePc' \in {"acquire", "crashed"} /\ UNCHANGED <<mState, extractPc>>
        BY <3>9, Zenon DEF FlushCodecs, GoTo, stateVars, HandlerOnly
      <4> QED BY <4>1
    <3> QED BY <1>2, <3>1, <3>2, <3>3, <3>4, <3>5, <3>6, <3>7, <3>8, <3>9, Zenon DEF
       MessageStep
  <2> QED BY <2>1, <2>2, <2>3
<1>3. CASE ExtractStep
  <2>1. UNCHANGED <<mState, messagePc, userPc, decodePc>>
    BY <1>3, ExtractFrame, Zenon
  <2> QED BY <1>3, <2>1, ExtractMoves
<1>4. ASSUME NEW m \in Media, DecodeStep(m) PROVE ThreadInv'
  <2>1. UNCHANGED <<mState, messagePc, userPc, extractPc>>
    BY <1>4, DecodeFrame, Zenon DEF DecodeOnly, userVars, messageVars, extractVars
  <2>2. \A n \in Media : decodePc[n] \in {"none", "done"} => decodePc'[n] = decodePc[n]
    BY <1>0, <1>4, DecodeMoves
  <2> QED BY <2>1, <2>2 DEF Media
<1>5. CASE OutsideRender \/ UNCHANGED vars
  BY <1>5, Zenon DEF OutsideRender, vars, stateVars, messageVars, extractVars, decodeVars,
     userVars
<1> QED BY <1>1, <1>2, <1>3, <1>4, <1>5, Zenon DEF Next, Running

\* A decoder thread exists and its queue is open; its queue is aborted only when
\* it does not exist.
Runs(m) == decodePc[m] # "none" /\ ~packetAbort[m]
Reopens(m) == packetAbort[m] => decodePc[m] = "none"

\* The decoder threads and their queues, at each place of the handlers (Player.cpp
\* 114-134, 186-214).
DecoderInv ==
    /\ mState = "UNINITIALIZED" => \A m \in Media : decodePc[m] = "none" /\ ~packetAbort[m]
    /\ messagePc \in {"createExtract", "createVideo"} => \A m \in Media : Reopens(m)
    /\ messagePc = "createAudio" => Runs("video") /\ Reopens("audio")
    /\ mState \in {"PLAYING", "PAUSED"} /\ messagePc \notin Creating =>
           \A m \in Media : Runs(m)
    /\ messagePc \in {"abortVideo", "abortAudio", "stopDecoders", "seekJoinVideo"} =>
           \A m \in Media : decodePc[m] # "none"
    /\ messagePc = "seekJoinAudio" => decodePc["video"] = "none" /\ decodePc["audio"] # "none"
    /\ mState = "SEEKING" /\ messagePc \notin Emptying => \A m \in Media : decodePc[m] = "none"
    /\ mState = "SEEKING" /\ messagePc # "abortVideo" => packetAbort["video"]
    /\ mState = "SEEKING" /\ messagePc \notin {"abortVideo", "abortAudio"} => packetAbort["audio"]

\* Every step keeps the decoder threads and the abort flags of their queues in
\* agreement with the handler.
LEMMA NextDecoderInv == TypeInv /\ ControlInv /\ DecoderInv /\ [Next]_vars => DecoderInv'
<1> SUFFICES ASSUME TypeInv, ControlInv, DecoderInv, [Next]_vars PROVE DecoderInv'
  OBVIOUS
<1>0. decodePc \in [Media -> {"none", "top", "wait", "pop", "decode", "push", "done"}]
      /\ packetAbort \in [Media -> BOOLEAN]
      /\ mMessageQueue \in Seq({"kWhatStart", "kWhatPause", "kWhatSeek"})
      /\ mState \in {"UNINITIALIZED", "PLAYING", "SEEKING", "PAUSED"}
      /\ messagePc \in MessagePcs
  BY DEF TypeInv, PlayerTypeOK
<1> USE DEF DecoderInv, Creating, Emptying, Runs, Reopens
<1>1. CASE UserCall \/ UserStep \/ ExtractStep \/ OutsideRender \/ UNCHANGED vars
  <2>1. UNCHANGED <<mState, messagePc, decodePc, packetAbort>>
    BY <1>1, UserFrame, ExtractFrame, Zenon DEF UserOnly, OutsideRender, vars, stateVars,
       messageVars, packetVars, decodeVars
  <2> QED BY <2>1, Zenon
<1>2. ASSUME NEW m \in Media, DecodeStep(m) PROVE DecoderInv'
  <2>1. UNCHANGED <<mState, messagePc, packetAbort>>
    BY <1>2, DecodeFrame, Zenon DEF DecodeOnly, messageVars
  <2>2. \A n \in Media : decodePc'[n] = "none" <=> decodePc[n] = "none"
    BY <1>0, <1>2, DecodeMoves
  <2> QED BY <2>1, <2>2 DEF Media
<1>3. CASE MessageStep
  <2>1. CASE TakeMessage
    <3>1. messagePc' \in {"kWhatStart", "kWhatPause", "kWhatSeek"} /\ messagePc = "acquire"
      BY <1>0, <2>1, HeadTailProperties DEF TakeMessage
    <3>2. UNCHANGED <<mState, decodePc, packetAbort>>
      BY <2>1, Zenon DEF TakeMessage, stateVars, packetVars
    <3> QED BY <3>1, <3>2
  <2>2. CASE LeaveMessageThread \/ EndPause \/ IgnoreSeek \/ BeginPause \/ BeginSeek \/ FlushCodecs
    <3>1. UNCHANGED <<decodePc, packetAbort>>
      BY <2>2, Zenon DEF LeaveMessageThread, EndPause, IgnoreSeek, BeginPause, BeginSeek,
         FlushCodecs, HandlerOnly, packetVars
    <3>2. \/ /\ UNCHANGED mState /\ messagePc' \in {"done", "acquire", "crashed"}
             /\ messagePc \in {"acquire", "unlock", "kWhatSeek", "kWhatPause", "flushCodecs"}
          \/ mState = "PLAYING" /\ mState' = "PAUSED" /\ messagePc = "kWhatPause" /\ messagePc' = "unlock"
          \/ mState = "PLAYING" /\ mState' = "SEEKING" /\ messagePc = "kWhatSeek" /\ messagePc' = "abortVideo"
      BY <2>2 DEF LeaveMessageThread, EndPause, IgnoreSeek, BeginPause, BeginSeek,
         FlushCodecs, GoTo, stateVars
    <3> QED BY <3>1, <3>2
  <2>3. CASE BeginStart
    <3>1. UNCHANGED <<decodePc, packetAbort>>
      BY <2>3, Zenon DEF BeginStart, HandlerOnly, packetVars
    <3>2. /\ mState' = "PLAYING" /\ messagePc = "kWhatStart" /\ messagePc' \in {"createExtract", "createVideo"}
      BY <2>3, Zenon DEF BeginStart, GoTo
    <3> QED BY <1>0, <3>1, <3>2
  <2>4. CASE CreateExtract
    BY <2>4, <1>0 DEF CreateExtract, GoTo, stateVars, packetVars
  <2>5. ASSUME NEW m \in Media, CreateDecoder(m)
        PROVE  /\ Reopens(m) => ~packetAbort'[m] /\ decodePc'[m] # "none"
               /\ \A n \in Media \ {m} : packetAbort'[n] = packetAbort[n] /\ decodePc'[n] = decodePc[n]
    <3>1. packetAbort'[m] = (packetAbort[m] /\ decodePc[m] # "none")
      BY <1>0, <2>5, Zenon DEF CreateDecoder
    <3>2. decodePc'[m] # "none"
      BY <1>0, <2>5 DEF CreateDecoder
    <3>3. \A n \in Media \ {m} : packetAbort'[n] = packetAbort[n]
      BY <1>0, <2>5, Zenon DEF CreateDecoder
    <3>4. \A n \in Media \ {m} : decodePc'[n] = decodePc[n]
      BY <1>0, <2>5 DEF CreateDecoder
    <3> QED BY <3>1, <3>2, <3>3, <3>4, Zenon
  <2>6. CASE CreateDecoders
    <3>1. CASE messagePc = "createVideo"
      <4>1. CreateDecoder("video") /\ messagePc' = "createAudio" /\ UNCHANGED mState
        BY <2>6, <3>1 DEF CreateDecoders, GoTo, CreateDecoder
      <4> QED BY <2>5, <3>1, <4>1 DEF ControlInv, Media
    <3>2. CASE messagePc = "createAudio"
      <4>1. CreateDecoder("audio") /\ messagePc' = "acquire" /\ UNCHANGED mState
        BY <2>6, <3>2 DEF CreateDecoders, GoTo, CreateDecoder
      <4> QED BY <2>5, <3>2, <4>1 DEF ControlInv, Media
    <3> QED BY <2>6, <3>1, <3>2, Zenon DEF CreateDecoders, GoTo
  <2>7. CASE AbortPipeline
    <3>1. ASSUME NEW m \in Media, AbortPackets(m)
          PROVE  packetAbort'[m] /\ \A n \in Media \ {m} : packetAbort'[n] = packetAbort[n]
      BY <1>0, <3>1, Zenon DEF AbortPackets
    <3>2. CASE messagePc = "abortVideo"
      <4>1. AbortPackets("video") /\ messagePc' = "abortAudio" /\ UNCHANGED <<mState, decodePc>>
        BY <2>7, <3>2 DEF AbortPipeline, GoTo, AbortPackets, stateVars
      <4> QED BY <3>1, <3>2, <4>1 DEF ControlInv, Media
    <3>3. CASE messagePc = "abortAudio"
      <4>1. AbortPackets("audio") /\ messagePc' = "stopDecoders" /\ UNCHANGED <<mState, decodePc>>
        BY <2>7, <3>3 DEF AbortPipeline, GoTo, AbortPackets, stateVars
      <4> QED BY <3>1, <3>3, <4>1 DEF ControlInv, Media
    <3> QED BY <2>7, <3>2, <3>3, Zenon DEF AbortPipeline, GoTo
  <2>8. CASE StopDecoders
    BY <2>8, <1>0 DEF StopDecoders, GoTo, packetVars
  <2>9. CASE JoinDecoders
    <3>1. UNCHANGED <<mState, packetAbort>>
      BY <2>9, Zenon DEF JoinDecoders, JoinDecoder, stateVars, packetVars
    <3>2. \/ /\ messagePc = "seekJoinVideo" /\ messagePc' = "seekJoinAudio"
             /\ decodePc' = [decodePc EXCEPT !["video"] = "none"]
          \/ /\ messagePc = "seekJoinAudio" /\ messagePc' = "flushCodecs"
             /\ decodePc' = [decodePc EXCEPT !["audio"] = "none"]
      BY <2>9, Zenon DEF JoinDecoders, JoinDecoder, GoTo
    <3> QED BY <1>0, <3>1, <3>2 DEF ControlInv, Media
  <2> QED BY <1>3, <2>1, <2>2, <2>3, <2>4, <2>6, <2>7, <2>8, <2>9, Zenon DEF MessageStep
<1> QED BY <1>1, <1>2, <1>3, Zenon DEF Next, Running
-----------------------------------------------------------------------------

\* The codec contexts are open while packets of theirs are under way; a crash of
\* the extract thread needs a file without video.
ContextInv ==
    /\ extractPc \in {"none", "open"} => \A m \in Media : ~context[m]
    /\ extractPc \notin {"none", "open", "done", "crashed"} => \A m \in FileStreams : context[m]
    /\ extractPc = "push" => packetFor \in FileStreams
    /\ extractPc = "crashed" => FileStreams # Media
    /\ \A m \in Media : packetQ[m] # <<>> => context[m] \/ userPc = "gone"
    /\ \A m \in Media : decodePc[m] \in {"decode", "push"} => context[m]

\* Every step keeps the contexts of the packets that are under way open.
LEMMA NextContextInv ==
    TypeInv /\ ControlInv /\ ThreadInv /\ ContextInv /\ [Next]_vars => ContextInv'
<1> SUFFICES ASSUME TypeInv, ControlInv, ThreadInv, ContextInv, [Next]_vars PROVE ContextInv'
  OBVIOUS
<1>0. /\ decodePc \in [Media -> {"none", "top", "wait", "pop", "decode", "push", "done"}]
      /\ context \in [Media -> BOOLEAN]
      /\ packetQ \in [Media -> Seq(0..MaxSeek)]
  BY DEF TypeInv, PlayerTypeOK
<1> USE DEF ContextInv
<1>1. CASE UserCall \/ UserStep
  <2>1. UNCHANGED <<extractPc, packetFor, packetQ, decodePc>>
    BY <1>1, UserFrame, Zenon DEF UserOnly, packetVars
  <2>2. CASE JoinAudio
    <3>1. /\ \A m \in Media : context'[m] => context[m]
          /\ context'["audio"] = context["audio"]
      BY <1>0, <2>2, Zenon DEF JoinAudio, Media
    <3>2. userPc = "joinAudio" /\ userPc' = "gone" /\ decodePc["audio"] \in {"none", "done"}
      BY <2>2 DEF JoinAudio
    <3>3. extractPc \in {"none", "done"} /\ decodePc["video"] \in {"none", "done"}
      BY <3>2 DEF ThreadInv
    <3> QED BY <2>1, <3>1, <3>2, <3>3 DEF Media
  <2>3. CASE ~JoinAudio
    <3>1. UNCHANGED context /\ (userPc = "gone" => userPc' = "gone")
      BY <1>1, <2>3 DEF UserCall, UserStep, UserStart, UserPause, UserPosts,
         UserSetsSeekTime, UserPostsSeek, Destroy, CallOnly, JoinMessage, JoinExtract,
         JoinVideo, TellDecoder
    <3> QED BY <2>1, <3>1
  <2> QED BY <2>2, <2>3
<1>2. CASE MessageStep
  <2>1. UNCHANGED <<context, packetFor, userPc>>
    BY <1>2, MessageFrame, Zenon DEF MessageOnly, userVars
  <2>2. \A m \in Media : decodePc'[m] \in {"decode", "push"} => decodePc[m] \in {"decode", "push"}
    BY <1>0, <1>2 DEF MessageStep, TakeMessage, LeaveMessageThread, BeginStart,
       CreateExtract, CreateDecoders,
       CreateDecoder, BeginPause, EndPause, IgnoreSeek, BeginSeek, AbortPipeline,
       AbortPackets, StopDecoders,
       JoinDecoders, JoinDecoder, FlushCodecs, HandlerOnly
  <2>3. \A m \in Media : packetQ'[m] # <<>> => packetQ[m] # <<>>
    BY <1>0, <1>2 DEF MessageStep, TakeMessage, LeaveMessageThread, BeginStart,
       CreateExtract, CreateDecoders,
       CreateDecoder, BeginPause, EndPause, IgnoreSeek, BeginSeek, AbortPipeline,
       AbortPackets, StopDecoders,
       JoinDecoders, JoinDecoder, FlushCodecs, HandlerOnly, packetVars
  <2>4. CASE CreateExtract
    <3>1. extractPc = "none" /\ extractPc' = "open"
      BY <2>4 DEF ThreadInv, CreateExtract, GoTo
    <3> QED BY <2>1, <2>2, <2>3, <3>1
  <2>5. CASE ~CreateExtract
    <3>1. UNCHANGED extractPc
      BY <1>2, <2>5, Zenon DEF MessageStep, TakeMessage, LeaveMessageThread, BeginStart,
         CreateDecoders,
       CreateDecoder, BeginPause, EndPause, IgnoreSeek, BeginSeek, AbortPipeline,
       AbortPackets, StopDecoders,
       JoinDecoders, JoinDecoder, FlushCodecs, HandlerOnly
    <3> QED BY <2>1, <2>2, <2>3, <3>1
  <2> QED BY <2>4, <2>5
<1>3. CASE ExtractStep
  <2>1. UNCHANGED <<decodePc, userPc>>
    BY <1>3, ExtractFrame, Zenon
  <2>2. CASE OpenFile
    <3>1. CASE UNCHANGED context /\ extractPc' = "done"
      BY <2>1, <2>2, <3>1 DEF OpenFile, packetVars
    <3>2. CASE context' = [m \in Media |-> m \in FileStreams] /\ extractPc' = "top"
      <4>1. \A m \in Media : ~context[m]
        BY <2>2 DEF OpenFile
      <4>2. \A m \in FileStreams : context'[m]
        BY <3>2, PlayerAssumption, Zenon
      <4>3. UNCHANGED packetQ
        BY <2>2, Zenon DEF OpenFile, packetVars
      <4> QED BY <2>1, <3>2, <4>1, <4>2, <4>3
    <3> QED BY <2>2, <3>1, <3>2, Zenon DEF OpenFile
  <2>3. CASE ExtractTop \/ ExtractSeeked \/ ExtractPosts \/ ExtractWoken
    <3>1. UNCHANGED <<context, packetQ>>
      BY <2>3, Zenon DEF ExtractTop, ExtractSeeked, ExtractPosts, ExtractWoken,
         packetVars, decodeVars
    <3>2. extractPc \notin {"none", "open", "done", "crashed"} /\ extractPc' \notin {"none", "open", "push", "crashed"}
      BY <2>3 DEF ExtractTop, ExtractSeeked, ExtractPosts, ExtractWoken, AwaitSeekEnd
    <3> QED BY <2>1, <3>1, <3>2
  <2>4. CASE ExtractSeek
    <3>1. UNCHANGED <<context, packetQ>>
      BY <2>4, Zenon DEF ExtractSeek, packetVars, decodeVars
    <3>2. extractPc = "seek" /\ extractPc' \in {"seeked", "wait", "read", "crashed"}
          /\ (extractPc' = "crashed" => "video" \notin FileStreams)
      BY <2>4 DEF ExtractSeek, AwaitSeekEnd
    <3> QED BY <2>1, <3>1, <3>2 DEF Media
  <2>5. CASE ReadPacket
    <3>1. UNCHANGED <<context, packetQ>>
      BY <2>5, Zenon DEF ReadPacket, packetVars, decodeVars
    <3>2. extractPc = "read" /\ \/ extractPc' = "top"
                                \/ extractPc' = "push" /\ packetFor' \in FileStreams
      BY <2>5, PlayerAssumption DEF ReadPacket
    <3> QED BY <2>1, <3>1, <3>2
  <2>6. CASE PushPacket
    <3>1. UNCHANGED context /\ extractPc = "push" /\ extractPc' = "top"
      BY <2>6, Zenon DEF PushPacket, decodeVars
    <3>2. \A m \in Media : m # packetFor => packetQ'[m] = packetQ[m]
      BY <1>0, <2>6 DEF PushPacket
    <3> QED BY <2>1, <3>1, <3>2, PlayerAssumption
  <2> QED BY <1>3, <2>2, <2>3, <2>4, <2>5, <2>6, Zenon DEF ExtractStep
<1>4. ASSUME NEW m \in Media, DecodeStep(m) PROVE ContextInv'
  <2>1. UNCHANGED <<context, packetFor, extractPc, userPc>>
    BY <1>4, DecodeFrame, Zenon DEF DecodeOnly, extractVars, userVars
  <2>2. \A n \in Media : packetQ'[n] # <<>> => packetQ[n] # <<>>
    <3>1. \/ UNCHANGED packetQ
          \/ packetQ[m] # <<>> /\ packetQ' = [packetQ EXCEPT ![m] = Tail(@)]
      BY <1>4, Zenon DEF DecodeStep, DecodeTop, DecodeWait, DecodePop, ReceiveFrame,
         PushFrame, EndPacket
    <3> QED BY <1>0, <3>1
  <2>3. decodePc[m] \notin {"none", "done"}
    BY <1>4, DecodeMoves
  <2>4. \A n \in Media : decodePc'[n] \in {"decode", "push"} =>
           decodePc[n] \in {"decode", "push"} \/ (n = m /\ packetQ[m] # <<>>)
    BY <1>0, <1>4, DecodeTakes
  <2>5. userPc # "gone"
    BY <2>3 DEF ThreadInv, Media
  <2> QED BY <2>1, <2>2, <2>4, <2>5
<1>5. CASE OutsideRender \/ UNCHANGED vars
  BY <1>5, Zenon DEF OutsideRender, vars, extractVars, packetVars, decodeVars, userVars
<1> QED BY <1>1, <1>2, <1>3, <1>4, <1>5, Zenon DEF Next, Running
-----------------------------------------------------------------------------

\* The inductive invariant of control and threads.
ThreadsInv == TypeInv /\ ControlInv /\ ThreadInv /\ DecoderInv /\ ContextInv

\* The types, the control, the threads and their objects agree always.
LEMMA ThreadsInvariant == Spec => []ThreadsInv
<1>1. Init => TypeInv /\ ControlInv /\ ThreadInv /\ DecoderInv /\ ContextInv
  <2> SUFFICES ASSUME Init PROVE TypeInv /\ ControlInv /\ ThreadInv /\ DecoderInv /\ ContextInv
    OBVIOUS
  <2>1. ControlInv /\ ThreadInv
    BY DEF Init, RenderInit, ControlInv, ThreadInv, Creating, Emptying, StartSteps,
       PauseSteps, FlushSteps, StopSteps
  <2>2. DecoderInv
    BY DEF Init, DecoderInv, Creating, Emptying
  <2>3. ContextInv
    BY DEF Init, ContextInv
  <2> QED BY <2>1, <2>2, <2>3, InitTypeInv
<1> QED BY <1>1, NextTypeInv, NextControlInv, NextThreadInv, NextDecoderInv,
   NextContextInv, PTL DEF Spec, ThreadsInv

\* What handlers and threads use without a test exists whenever they use it: the
\* decoder threads handleSeek() joins (Player.cpp 208, 212) and the contexts of
\* the packets a decoder thread works with (421, 500).
THEOREM ObjectsExist == Spec => []ObjectsExistWhenUsed
<1>1. ThreadsInv => ObjectsExistWhenUsed
  BY DEF ThreadsInv, DecoderInv, ContextInv, ObjectsExistWhenUsed, Media
<1> QED BY ThreadsInvariant, <1>1, PTL

\* avcodec_flush_buffers() runs when no decoder thread is there (Player.cpp
\* 204-218), whatever the order of the threads' steps.
THEOREM FlushedAlone == Spec => []CodecsFlushedAlone
<1>1. ThreadsInv => CodecsFlushedAlone
  BY DEF ThreadsInv, ControlInv, DecoderInv, CodecsFlushedAlone, Emptying
<1> QED BY ThreadsInvariant, <1>1, PTL

\* The null contexts of Player.cpp 217, 218 and the null stream of 323 are met only
\* when a seek comes before the file is open, when it could not be opened, or
\* when it has not both media.
THEOREM CrashesExplained == Spec => []CrashesKnown
<1>1. Init => CrashesKnown
  BY DEF Init, CrashesKnown, Crashed
<1>2. ThreadsInv /\ ThreadsInv' /\ CrashesKnown /\ [Next]_vars => CrashesKnown'
  <2> SUFFICES ASSUME ThreadsInv, ThreadsInv', CrashesKnown, [Next]_vars, Crashed'
               PROVE  extractPc' \in {"open", "done"} \/ FileStreams # Media
    BY DEF CrashesKnown
  <2>1. CASE extractPc' = "crashed"
    BY <2>1 DEF ThreadsInv, ContextInv
  <2>2. CASE messagePc' = "crashed" /\ ~Crashed
    <3>1. FlushCodecs
      <4>1. mMessageQueue \in Seq({"kWhatStart", "kWhatPause", "kWhatSeek"}) /\ messagePc # "crashed"
        BY <2>2 DEF ThreadsInv, TypeInv, PlayerTypeOK, Crashed
      <4>2. MessageStep
        <5>1. UNCHANGED messagePc \/ MessageStep
          BY UserFrame, ExtractFrame, DecodeFrame, Zenon DEF Next, Running, UserOnly,
             DecodeOnly, OutsideRender, vars, messageVars
        <5> QED BY <2>2, <4>1, <5>1
      <4>3. ~TakeMessage
        BY <2>2, <4>1, HeadTailProperties DEF TakeMessage
      <4> QED BY <2>2, <4>2, <4>3 DEF MessageStep, LeaveMessageThread, BeginStart,
         CreateExtract, CreateDecoders,
             BeginPause, EndPause, IgnoreSeek, BeginSeek, AbortPipeline, StopDecoders,
             JoinDecoders, GoTo
    <3>2. messagePc = "flushCodecs" /\ (~\A m \in Media : context[m]) /\ UNCHANGED extractPc
      BY <2>2, <3>1 DEF FlushCodecs, GoTo, HandlerOnly
    <3>3. mState = "SEEKING"
      BY <3>2 DEF ThreadsInv, ControlInv
    <3>4. extractPc # "none"
      BY <3>2, <3>3 DEF ThreadsInv, ThreadInv
    <3> QED BY <3>2, <3>4 DEF ThreadsInv, ContextInv
  <2>3. CASE Crashed
    <3>1. UNCHANGED extractPc
      BY <2>3, Zenon DEF Next, Running, vars, extractVars
    <3> QED BY <2>3, <3>1 DEF CrashesKnown
  <2> QED BY <2>1, <2>2, <2>3 DEF Crashed
<1> QED BY ThreadsInvariant, <1>1, <1>2, PTL DEF Spec
=============================================================================
