------------------------- MODULE PlayerPlaybackProofs -------------------------
(***************************************************************************)
(* Proofs about what Player plays, for every file, every capacity and any  *)
(* number of calls: that Render agrees with the player's state and a pause *)
(* is silent; that a seek leaves nothing of what was read before it, drops *)
(* nothing later, and ends where it was asked to; and where the player,    *)
(* its handlers and its destructor can come to rest.                       *)
(***************************************************************************)
EXTENDS PlayerProofs

(* What a step of a handler does to the state and to the call of Render. *)

QuietMove == /\ UNCHANGED <<mState, renderCall>>
             /\ messagePc # "abortAudio"
             /\ messagePc' \notin {"abortVideo", "stopDecoders", "createExtract", "unlock"}
             /\ messagePc' = "abortAudio" <=> messagePc = "abortVideo"
             /\ messagePc = "stopDecoders" => renderCall = "none"
StartMove == /\ messagePc = "kWhatStart" /\ renderCall = "none"
             /\ messagePc' \in {"createExtract", "createVideo"} /\ mState' = "PLAYING"
             /\ \/ mState = "PLAYING" /\ UNCHANGED renderCall
                \/ mState # "PLAYING" /\ renderCall' = StartEntry
PauseMove == /\ messagePc = "kWhatPause" /\ renderCall = "none" /\ mState = "PLAYING"
             /\ messagePc' = "unlock" /\ mState' = "PAUSED" /\ renderCall' = "pauseDevice"
SeekMove == /\ messagePc = "kWhatSeek" /\ renderCall = "none" /\ mState = "PLAYING"
            /\ messagePc' = "abortVideo" /\ mState' = "SEEKING" /\ UNCHANGED renderCall
FlushMove == /\ messagePc = "abortAudio" /\ renderCall = "none" /\ UNCHANGED mState
             /\ messagePc' = "stopDecoders" /\ renderCall' = "abortAudio"

\* Every step of the message thread is one of these moves.
LEMMA HandlerMoves ==
    ASSUME TypeInv, ControlInv, MessageStep
    PROVE  QuietMove \/ StartMove \/ PauseMove \/ SeekMove \/ FlushMove
<1> USE DEF QuietMove, StartMove, PauseMove, SeekMove, FlushMove
<1>1. CASE TakeMessage
  <2>1. messagePc' \in {"kWhatStart", "kWhatPause", "kWhatSeek"} /\ messagePc = "acquire"
    BY <1>1, HeadTailProperties DEF TakeMessage, TypeInv, PlayerTypeOK
  <2>2. UNCHANGED <<mState, renderCall>>
    BY <1>1, Zenon DEF TakeMessage, stateVars
  <2> QED BY <2>1, <2>2
<1>2. CASE LeaveMessageThread
  BY <1>2 DEF LeaveMessageThread, stateVars
<1>3. CASE BeginStart
  <2>1. /\ messagePc = "kWhatStart" /\ renderCall = "none"
        /\ messagePc' \in {"createExtract", "createVideo"} /\ mState' = "PLAYING"
    BY <1>3, Zenon DEF BeginStart, GoTo
  <2>2. \/ mState = "PLAYING" /\ UNCHANGED renderCall
        \/ mState # "PLAYING" /\ renderCall' = StartEntry
    BY <1>3 DEF BeginStart
  <2> QED BY <2>1, <2>2, Zenon
<1>4. CASE CreateExtract \/ CreateDecoders
  BY <1>4 DEF CreateExtract, CreateDecoders, CreateDecoder, GoTo, stateVars
<1>5. CASE BeginPause
  BY <1>5 DEF BeginPause, GoTo, PauseEntry
<1>6. CASE EndPause \/ IgnoreSeek \/ BeginSeek
  BY <1>6 DEF EndPause, IgnoreSeek, BeginSeek, GoTo, stateVars
<1>7. CASE AbortPipeline
  BY <1>7 DEF AbortPipeline, AbortPackets, GoTo, stateVars, FlushEntry
<1>8. CASE StopDecoders \/ JoinDecoders
  BY <1>8 DEF StopDecoders, JoinDecoders, JoinDecoder, GoTo, stateVars
<1>9. CASE FlushCodecs
  <2>1. /\ messagePc = "flushCodecs" /\ messagePc' \in {"acquire", "crashed"}
        /\ UNCHANGED <<mState, renderCall>>
    BY <1>9, Zenon DEF FlushCodecs, GoTo, stateVars
  <2> QED BY <2>1
<1> QED BY <1>1, <1>2, <1>3, <1>4, <1>5, <1>6, <1>7, <1>8, <1>9, Zenon DEF MessageStep

\* The user's thread leaves Render alone until it destroys it.
LEMMA UserMoves ==
    ASSUME UserCall \/ UserStep
    PROVE  /\ UserOnly
           /\ \/ UNCHANGED renderCall /\ userPc # "gone" /\ userPc' # "gone"
              \/ /\ userPc = "joinAudio" /\ userPc' = "gone"
                 /\ renderCall' \in {"close", "stopAudio"}
<1>1. CASE JoinAudio
  BY <1>1, UserFrame, Zenon DEF JoinAudio, DestroyEntry
<1>2. CASE ~JoinAudio
  <2>1. UNCHANGED renderCall
    BY <1>2, Zenon DEF UserCall, UserStep, UserStart, UserPause, UserPosts,
       UserSetsSeekTime,
       UserPostsSeek, Destroy, CallOnly, JoinMessage, JoinExtract, JoinVideo, TellDecoder
  <2>2. userPc # "gone" /\ userPc' # "gone"
    BY <1>2 DEF UserCall, UserStep, UserStart, UserPause, UserPosts, UserSetsSeekTime,
       UserPostsSeek, Destroy, JoinMessage, JoinExtract, JoinVideo
  <2> QED BY <2>1, <2>2, UserFrame
<1> QED BY <1>1, <1>2

\* The extract thread and the decoder threads do not interfere with the handlers,
\* the audio device or the pause.
LEMMA PipelineFrame ==
    ASSUME ExtractStep \/ (\E m \in Media : DecodeStep(m)) \/ UNCHANGED vars
    PROVE  UNCHANGED <<mState, messagePc, userPc, calls, frameAbort, mAudioDevID,
    devicePaused,
                       openFailed, callback, mAudioClock, mPaused, renderPc, renderCall>>
<1>1. CASE ExtractStep
  BY <1>1, ExtractFrame, Zenon DEF renderVars, renderState, deviceVars
<1>2. ASSUME NEW m \in Media, DecodeStep(m)
      PROVE UNCHANGED <<mState, messagePc, userPc, calls, frameAbort, mAudioDevID,
      devicePaused,
                       openFailed, callback, mAudioClock, mPaused, renderPc, renderCall>>
  BY <1>2, DecodeFrame, Zenon DEF DecodeOnly, userVars, messageVars, deviceVars
<1>3. CASE UNCHANGED vars
  BY <1>3, Zenon DEF vars, stateVars, messageVars, userVars, renderVars, renderState,
     deviceVars
<1> QED BY <1>1, <1>2, <1>3, Zenon

\* The render thread only takes frames, and sleeps.
LEMMA RenderThreadFrame ==
    RenderThread => UNCHANGED <<frameAbort, mAudioDevID, devicePaused,
                       openFailed, callback, mAudioClock, mPaused, renderCall>>
  BY Zenon DEF RenderThread, RenderTop, RenderWait, RenderDequeue, RenderShow, deviceVars

\* Before the first start() nobody is inside Render.
LEMMA CallsRunInHandlers ==
    ASSUME TypeInv, ControlInv, renderCall # "none", userPc # "gone"
    PROVE  mState # "UNINITIALIZED"
<1>1. renderCall \in CallSteps
  BY DEF TypeInv, PlayerTypeOK, RenderTypeOK
<1> QED BY <1>1 DEF CallSteps, ControlInv, StartSteps, PauseSteps, FlushSteps, StopSteps,
   Creating, Emptying

\* The audio device: open from the first start on unless an attempt failed, with no
\* callback while it is closed (Render.cpp 60-96, 126-140).
DeviceInv ==
    /\ ~mAudioDevID => callback = "out"
    /\ mState = "UNINITIALIZED" /\ userPc # "gone" =>
           ~mAudioDevID /\ ~mPaused /\ \A m \in Media : ~frameAbort[m]
    /\ renderCall = "open" => ~mAudioDevID
    /\ renderCall \in StartSteps \ {"open"} => mAudioDevID
    /\ mState # "UNINITIALIZED" /\ renderCall # "open" /\ userPc # "gone" => mAudioDevID \/ openFailed
    /\ mPaused /\ userPc # "gone" => mAudioDevID \/ openFailed

\* Every step keeps the device, the state and the pause in agreement.
LEMMA NextDeviceInv == ThreadsInv /\ DeviceInv /\ [Next]_vars => DeviceInv'
<1> SUFFICES ASSUME ThreadsInv, DeviceInv, [Next]_vars PROVE DeviceInv'
  OBVIOUS
<1> USE DEF DeviceInv, StartSteps
<1>1. CASE UserCall \/ UserStep
  <2>1. UNCHANGED <<mState, mAudioDevID, callback, mPaused, frameAbort, openFailed>>
    BY <1>1, UserMoves, Zenon DEF UserOnly, renderState, deviceVars
  <2> QED BY <1>1, <2>1, UserMoves
<1>2. CASE MessageStep
  <2>1. UNCHANGED <<userPc, mAudioDevID, callback, mPaused, frameAbort, openFailed>>
    BY <1>2, MessageFrame, Zenon DEF MessageOnly, userVars, renderState, deviceVars
  <2>2. StartEntry = "open" <=> ~mAudioDevID
    BY DEF StartEntry
  <2>3. StartEntry \in {"open", "unpause"}
    BY DEF StartEntry
  <2>4. TypeInv /\ ControlInv
    BY DEF ThreadsInv
  <2> QED BY <1>2, <2>1, <2>2, <2>3, <2>4, HandlerMoves DEF QuietMove, StartMove,
     PauseMove, SeekMove, FlushMove
<1>3. CASE RenderStep /\ OutsideRender
  <2>1. UNCHANGED <<mState, userPc, messagePc>>
    BY <1>3, Zenon DEF OutsideRender, stateVars, messageVars, userVars
  <2>2. renderCall # "none" /\ userPc # "gone" => mState # "UNINITIALIZED"
    BY CallsRunInHandlers DEF ThreadsInv
  <2>3. CASE CallbackBegin \/ CallbackDequeue
    BY <2>1, <2>3 DEF CallbackBegin, CallbackDequeue, deviceVars
  <2>4. CASE RenderThread
    BY <2>1, <2>4, RenderThreadFrame
  <2>5. CASE OpenDevice
    BY <2>1, <2>2, <2>5 DEF OpenDevice
  <2>6. CASE CreateRenderThread \/ Resume
    BY <2>1, <2>6 DEF CreateRenderThread, Resume, GoOn, deviceVars
  <2>7. CASE UnpauseDevice \/ PauseDevice
    <3>1. /\ \/ renderCall = "unpauseNew" /\ renderCall' = "spawn"
             \/ renderCall = "unpause" /\ renderCall' = "initAudio"
             \/ renderCall = "pauseDevice" /\ renderCall' = "clearClock"
          /\ UNCHANGED <<mAudioDevID, callback, mPaused, frameAbort, openFailed>>
      BY <2>7, Zenon DEF UnpauseDevice, PauseDevice, SetDevicePaused, GoOn
    <3> QED BY <2>1, <3>1
  <2>8. CASE InitQueues
    BY <2>1, <2>2, <2>8 DEF InitQueues, InitFrames, GoOn, deviceVars
  <2>9. CASE ClearClock \/ SetPaused
    BY <2>1, <2>2, <2>9 DEF ClearClock, SetPaused, GoOn, deviceVars
  <2>10. CASE AbortQueues
    BY <2>1, <2>2, <2>10 DEF AbortQueues, AbortQueue, AbortFrames, GoOn, deviceVars,
       PauseEntry
  <2>11. CASE CloseDevice \/ RequestRenderExit \/ JoinRender
    <3>1. userPc = "gone"
      BY <2>11 DEF CloseDevice, RequestRenderExit, JoinRender, GoOn, ThreadsInv,
         ControlInv, StopSteps
    <3> QED BY <2>1, <2>11, <3>1 DEF CloseDevice, RequestRenderExit, JoinRender, GoOn,
       renderState, deviceVars
  <2> QED BY <1>3, <2>3, <2>4, <2>5, <2>6, <2>7, <2>8, <2>9, <2>10, <2>11, Zenon DEF
     RenderStep, RenderCaller
<1>4. CASE ExtractStep \/ (\E m \in Media : DecodeStep(m)) \/ UNCHANGED vars
  BY <1>4, PipelineFrame
<1> QED BY <1>1, <1>2, <1>3, <1>4, Zenon DEF Next, Running

-----------------------------------------------------------------------------

\* On the way through pause() the device is already silent; a device that is opened
\* now serves a Render that was never paused or flushed.
PauseInv ==
    /\ renderCall \in {"clearClock", "setPaused"} =>
         (mAudioDevID => devicePaused) /\ callback = "out"
    /\ renderCall = "setPaused" => mAudioClock = "zero"
    /\ renderCall \in {"open", "unpauseNew", "spawn"} /\ ~openFailed =>
           ~mPaused /\ \A m \in Media : ~frameAbort[m]

\* Every step keeps a paused Render silent; the device is paused before the clock
\* is cleared, and no callback is under way in between.
LEMMA NextPauseInv ==
    ThreadsInv /\ DeviceInv /\ PauseInv /\ PauseIsSilent /\ [Next]_vars => PauseInv' /\ PauseIsSilent'
<1> SUFFICES ASSUME ThreadsInv, DeviceInv, PauseInv, PauseIsSilent, [Next]_vars PROVE PauseInv' /\ PauseIsSilent'
  OBVIOUS
<1> USE DEF PauseInv, PauseIsSilent
<1>1. CASE UserCall \/ UserStep
  <2>1. UNCHANGED <<mAudioDevID, devicePaused, callback, mAudioClock, mPaused, frameAbort, openFailed>>
    BY <1>1, UserMoves, Zenon DEF UserOnly, renderState, deviceVars
  <2> QED BY <1>1, <2>1, UserMoves
<1>2. CASE MessageStep
  <2>1. UNCHANGED <<userPc, mAudioDevID, devicePaused, callback, mAudioClock, mPaused, frameAbort, openFailed>>
    BY <1>2, MessageFrame, Zenon DEF MessageOnly, userVars, renderState, deviceVars
  <2>2. StartEntry = "open" <=> ~mAudioDevID
    BY DEF StartEntry
  <2>3. StartEntry \in {"open", "unpause"}
    BY DEF StartEntry
  <2>4. TypeInv /\ ControlInv
    BY DEF ThreadsInv
  <2>5. userPc # "gone"
    <3>1. messagePc # "done"
      BY <1>2 DEF MessageStep, TakeMessage, LeaveMessageThread, BeginStart, CreateExtract,
        CreateDecoders, BeginPause, EndPause, IgnoreSeek, BeginSeek,
        AbortPipeline, StopDecoders, JoinDecoders, FlushCodecs, GoTo
    <3> QED BY <2>4, <3>1 DEF ControlInv
  <2> QED BY <1>2, <2>1, <2>2, <2>3, <2>4, <2>5, HandlerMoves
         DEF DeviceInv, QuietMove, StartMove, PauseMove, SeekMove, FlushMove
<1>3. CASE RenderStep /\ OutsideRender
  <2>2. CASE CallbackBegin
    BY <2>2 DEF CallbackBegin, deviceVars
  <2>3. CASE CallbackDequeue
    <3>1. callback = "dequeue" /\ UNCHANGED <<mAudioDevID, devicePaused, mPaused, frameAbort, openFailed, renderCall>>
      BY <2>3, Zenon DEF CallbackDequeue, deviceVars
    <3> QED BY <3>1 DEF DeviceInv
  <2>4. CASE RenderThread
    BY <2>4, RenderThreadFrame
  <2>5. CASE OpenDevice
    BY <2>5 DEF OpenDevice
  <2>6. CASE CreateRenderThread \/ Resume
    BY <2>6 DEF CreateRenderThread, Resume, GoOn, deviceVars
  <2>7. CASE UnpauseDevice \/ PauseDevice
    <3>1. \/ renderCall = "unpauseNew" /\ renderCall' = "spawn"
          \/ renderCall = "unpause" /\ renderCall' = "initAudio"
          \/ renderCall = "pauseDevice" /\ renderCall' = "clearClock" /\ (mAudioDevID => callback = "out" /\ devicePaused')
      BY <2>7, Zenon DEF UnpauseDevice, PauseDevice, SetDevicePaused, GoOn
    <3>2. UNCHANGED <<mAudioDevID, callback, mPaused, frameAbort, openFailed>>
      BY <2>7, Zenon DEF UnpauseDevice, PauseDevice, SetDevicePaused
    <3> QED BY <3>1, <3>2 DEF DeviceInv
  <2>8. CASE InitQueues
    BY <2>8 DEF InitQueues, InitFrames, GoOn, deviceVars
  <2>9. CASE ClearClock \/ SetPaused
    BY <2>9 DEF ClearClock, SetPaused, GoOn, deviceVars
  <2>10. CASE AbortQueues
    BY <2>10 DEF AbortQueues, AbortQueue, AbortFrames, GoOn, deviceVars, PauseEntry
  <2>11. CASE CloseDevice \/ RequestRenderExit \/ JoinRender
    <3>1. renderCall' \in {"stopAudio", "joinRender", "destroyed"}
      BY <2>11, Zenon DEF CloseDevice, RequestRenderExit, JoinRender, GoOn
    <3> QED BY <3>1
  <2> QED BY <1>3, <2>2, <2>3, <2>4, <2>5, <2>6, <2>7, <2>8, <2>9, <2>10, <2>11, Zenon DEF
     RenderStep, RenderCaller
<1>4. CASE ExtractStep \/ (\E m \in Media : DecodeStep(m)) \/ UNCHANGED vars
  BY <1>4, PipelineFrame
<1> QED BY <1>1, <1>2, <1>3, <1>4, Zenon DEF Next, Running

\* Every step keeps the render thread from sleeping on a Render that runs:
\* start() clears mPaused and wakes in one step of the lock.
LEMMA NextNoLostResume == NoLostResume /\ [Next]_vars => NoLostResume'
<1> SUFFICES ASSUME NoLostResume, [Next]_vars PROVE NoLostResume'
  OBVIOUS
<1> USE DEF NoLostResume
<1>1. CASE UserCall \/ UserStep
  BY <1>1, UserFrame, Zenon DEF UserOnly, renderState
<1>2. CASE MessageStep
  BY <1>2, MessageFrame, Zenon DEF MessageOnly, renderState
<1>3. CASE ExtractStep \/ (\E m \in Media : DecodeStep(m)) \/ UNCHANGED vars
  BY <1>3, PipelineFrame, Zenon
<1>4. CASE RenderThread
  BY <1>4 DEF RenderThread, RenderTop, RenderWait, RenderDequeue, RenderShow
<1>5. CASE Resume \/ CreateRenderThread
  BY <1>5 DEF Resume, CreateRenderThread
<1>6. CASE CallbackBegin \/ CallbackDequeue \/ (RenderCaller /\ ~Resume /\ ~CreateRenderThread)
  <2>1. UNCHANGED renderPc /\ (mPaused => mPaused')
    BY <1>6, Zenon DEF CallbackBegin, CallbackDequeue, RenderCaller, OpenDevice,
       UnpauseDevice,
       PauseDevice, SetDevicePaused, InitQueues, InitFrames, ClearClock, SetPaused,
       AbortQueues,
       AbortQueue, CloseDevice, RequestRenderExit, JoinRender, renderState
  <2> QED BY <2>1, Zenon
<1> QED BY <1>1, <1>2, <1>3, <1>4, <1>5, <1>6, Zenon DEF Next, Running, RenderStep

-----------------------------------------------------------------------------

\* During a seek the frame queues are aborted in turn and stay so until start().
FrameInv ==
    /\ messagePc = "stopDecoders" =>
         /\ renderCall # "abortAudio" => frameAbort["audio"]
         /\ renderCall \notin {"abortAudio", "abortVideo"} => frameAbort["video"]
    /\ mState = "SEEKING" /\ messagePc \notin {"abortVideo", "abortAudio", "stopDecoders"} =>
        \A m \in Media : frameAbort[m]

\* Render's device, pause and abort flags at each state of the player, and on the
\* way through start() (Render.cpp 98-108).
AgreeInv ==
    ~openFailed /\ userPc # "gone" =>
      /\ mState = "PLAYING" /\ renderCall = "none" =>
           ~devicePaused /\ ~mPaused /\ \A m \in Media : ~frameAbort[m]
      /\ renderCall \in {"spawn", "initAudio", "initVideo", "resume"} => ~devicePaused
      /\ renderCall \in {"initVideo", "resume"} => ~frameAbort["audio"]
      /\ renderCall = "resume" => ~frameAbort["video"]
      /\ mState = "PAUSED" => \A m \in Media : ~frameAbort[m]
      /\ mState = "PAUSED" /\ renderCall = "none" => mPaused /\ devicePaused
      /\ mState = "SEEKING" /\ messagePc \notin {"abortVideo", "abortAudio"} /\ renderCall = "none" =>
           mPaused /\ devicePaused

\* Every step keeps Render in agreement with the state of the player.
LEMMA NextAgreeInv ==
    ThreadsInv /\ DeviceInv /\ PauseInv /\ FrameInv /\ AgreeInv /\ [Next]_vars => FrameInv' /\ AgreeInv'
<1> SUFFICES ASSUME ThreadsInv, DeviceInv, PauseInv, FrameInv, AgreeInv, [Next]_vars PROVE FrameInv' /\ AgreeInv'
  OBVIOUS
<1>0. /\ TypeInv /\ ControlInv
      /\ renderCall \in CallSteps /\ frameAbort \in [Media -> BOOLEAN]
  BY DEF ThreadsInv, TypeInv, PlayerTypeOK, RenderTypeOK
<1> USE DEF FrameInv, AgreeInv
<1>1. CASE UserCall \/ UserStep
  <2>1. UNCHANGED <<mState, messagePc, devicePaused, mPaused, frameAbort, openFailed>>
    BY <1>1, UserMoves, Zenon DEF UserOnly, renderState, deviceVars
  <2>2. userPc = "joinAudio" => messagePc = "done"
    BY <1>0 DEF ControlInv
  <2> QED BY <1>1, <2>1, <2>2, UserMoves
<1>2. CASE MessageStep
  <2>1. UNCHANGED <<userPc, devicePaused, mPaused, frameAbort, openFailed>>
    BY <1>2, MessageFrame, Zenon DEF MessageOnly, userVars, renderState, deviceVars
  <2>3. StartEntry \in {"open", "unpause"}
    BY DEF StartEntry
  <2>4. CASE QuietMove
    <3>1. FrameInv'
      BY <2>1, <2>4 DEF QuietMove, Media
    <3>2. AgreeInv'
      BY <2>1, <2>4 DEF QuietMove
    <3> QED BY <3>1, <3>2
  <2>5. CASE StartMove
    BY <2>1, <2>3, <2>5 DEF StartMove
  <2>6. CASE PauseMove
    BY <2>1, <2>6 DEF PauseMove
  <2>7. CASE SeekMove
    BY <2>1, <2>7 DEF SeekMove
  <2>8. CASE FlushMove
    BY <1>0, <2>1, <2>8 DEF FlushMove, ControlInv, Emptying
  <2> QED BY <1>0, <1>2, <2>4, <2>5, <2>6, <2>7, <2>8, HandlerMoves
<1>3. CASE RenderStep /\ OutsideRender
  <2>1. UNCHANGED <<mState, messagePc, userPc>>
    BY <1>3, Zenon DEF OutsideRender, stateVars, messageVars, userVars
  <2>2. CASE CallbackBegin \/ CallbackDequeue \/ RenderThread
    <3>1. UNCHANGED <<frameAbort, devicePaused, openFailed, mPaused, renderCall>>
      BY <2>2, RenderThreadFrame, Zenon DEF CallbackBegin, CallbackDequeue, deviceVars
    <3> QED BY <2>1, <3>1
  <2>5. CASE OpenDevice
    <3>1. messagePc \in {"createExtract", "createVideo"} /\ mState = "PLAYING"
      BY <1>0, <2>5 DEF OpenDevice, ControlInv, StartSteps, Creating
    <3> QED BY <2>1, <2>5, <3>1 DEF OpenDevice
  <2>6. CASE CreateRenderThread \/ Resume
    <3>1. messagePc \in {"createExtract", "createVideo"} /\ mState = "PLAYING"
      BY <1>0, <2>6 DEF CreateRenderThread, Resume, GoOn, ControlInv, StartSteps, Creating
    <3> QED BY <2>1, <2>6, <3>1 DEF CreateRenderThread, Resume, GoOn, deviceVars,
       PauseInv, Media
  <2>7. CASE UnpauseDevice \/ PauseDevice
    <3>1. \/ renderCall = "unpauseNew" /\ renderCall' = "spawn" /\ (mAudioDevID => ~devicePaused')
          \/ renderCall = "unpause" /\ renderCall' = "initAudio" /\ (mAudioDevID => ~devicePaused')
          \/ renderCall = "pauseDevice" /\ renderCall' = "clearClock"
      BY <2>7, Zenon DEF UnpauseDevice, PauseDevice, SetDevicePaused, GoOn
    <3>2. UNCHANGED <<mPaused, frameAbort, openFailed>>
      BY <2>7, Zenon DEF UnpauseDevice, PauseDevice, SetDevicePaused
    <3> QED BY <2>1, <3>1, <3>2 DEF DeviceInv, StartSteps
  <2>8. CASE InitQueues
    <3>1. messagePc \in {"createExtract", "createVideo"} /\ mState = "PLAYING"
      BY <1>0, <2>8 DEF InitQueues, InitFrames, GoOn, ControlInv, StartSteps, Creating
    <3> QED BY <1>0, <2>1, <2>8, <3>1 DEF InitQueues, InitFrames, GoOn, deviceVars, Media
  <2>9. CASE ClearClock
    BY <2>1, <2>9 DEF ClearClock, GoOn, deviceVars
  <2>10. CASE SetPaused
    <3>1. messagePc \in {"unlock", "stopDecoders"} /\ mState \in {"PAUSED", "SEEKING"}
      BY <1>0, <2>10 DEF SetPaused, GoOn, ControlInv, PauseSteps, Emptying
    <3> QED BY <2>1, <2>10, <3>1 DEF SetPaused, GoOn, deviceVars, PauseInv, DeviceInv
  <2>11. CASE AbortQueues
    <3>1. \/ renderCall \in {"abortAudio", "abortVideo"} /\ messagePc = "stopDecoders" /\ mState = "SEEKING"
          \/ userPc = "gone" /\ messagePc = "done"
      BY <1>0, <2>11 DEF AbortQueues, AbortQueue, GoOn, ControlInv, FlushSteps, StopSteps,
         Emptying
    <3> QED BY <1>0, <2>1, <2>11, <3>1 DEF AbortQueues, AbortQueue, AbortFrames, GoOn,
       deviceVars, PauseEntry, Media
  <2>12. CASE CloseDevice \/ RequestRenderExit \/ JoinRender
    <3>1. userPc = "gone" /\ messagePc = "done"
      BY <1>0, <2>12 DEF CloseDevice, RequestRenderExit, JoinRender, GoOn, ControlInv,
         StopSteps
    <3>2. UNCHANGED frameAbort
      BY <2>12, Zenon DEF CloseDevice, RequestRenderExit, JoinRender, renderState
    <3> QED BY <2>1, <3>1, <3>2
  <2> QED BY <1>3, <2>2, <2>5, <2>6, <2>7, <2>8, <2>9, <2>10, <2>11, <2>12, Zenon DEF
     RenderStep, RenderCaller
<1>4. CASE ExtractStep \/ (\E m \in Media : DecodeStep(m)) \/ UNCHANGED vars
  BY <1>4, PipelineFrame
<1> QED BY <1>1, <1>2, <1>3, <1>4, Zenon DEF Next, Running

-----------------------------------------------------------------------------

\* A seek was asked for, or the player is being destroyed.
Sought == calls.seek > 0 \/ userPc \in {"joinMessage", "joinExtract", "joinVideo", "joinAudio", "gone"}

\* Audio queues are aborted, and clocks computed from nothing, only by a seek's
\* flush or the destructor.
ClockInv ==
    /\ userPc = "seek" => calls.seek > 0
    /\ \A i \in DOMAIN mMessageQueue : mMessageQueue[i] = "kWhatSeek" => calls.seek > 0
    /\ messagePc \in {"kWhatSeek", "abortVideo", "abortAudio", "stopDecoders"} => calls.seek > 0
    /\ frameAbort["audio"] => Sought
    /\ mAudioClock = "garbage" => Sought

\* What a step of the user's thread does to the counters and the message queue.
LEMMA CallsGrow ==
    ASSUME TypeInv, UserCall \/ UserStep
    PROVE  /\ calls.seek \in Nat /\ calls'.seek \in Nat
           /\ \/ calls'.seek = calls.seek /\ userPc' # "seek"
              \/ userPc = "idle" /\ userPc' = "seek" /\ calls'.seek = calls.seek + 1
                 /\ UNCHANGED mMessageQueue
           /\ userPc' = "idle" => userPc \in {"idle", "seek"}
           /\ \/ UNCHANGED mMessageQueue
              \/ UserStart /\ mMessageQueue' = Append(mMessageQueue, "kWhatStart")
              \/ UserPause /\ mMessageQueue' = Append(mMessageQueue, "kWhatPause")
              \/ UserPostsSeek /\ mMessageQueue' = Append(mMessageQueue, "kWhatSeek")
<1>0. calls \in [{"start", "pause", "seek"} -> Nat]
  BY DEF TypeInv, PlayerTypeOK
<1>1. CASE UserStart
  <2>1. calls' = [calls EXCEPT !["start"] = calls["start"] + 1]
    BY <1>1 DEF UserStart, UserPosts
  <2>2. calls'.seek = calls.seek
    BY <1>0, <2>1
  <2> QED BY <1>0, <1>1, <2>2 DEF UserStart, UserPosts, Post
<1>2. CASE UserPause
  <2>1. calls' = [calls EXCEPT !["pause"] = calls["pause"] + 1]
    BY <1>2 DEF UserPause, UserPosts
  <2>2. calls'.seek = calls.seek
    BY <1>0, <2>1
  <2> QED BY <1>0, <1>2, <2>2 DEF UserPause, UserPosts, Post
<1>3. CASE UserSetsSeekTime
  <2>1. calls' = [calls EXCEPT !["seek"] = calls["seek"] + 1]
    BY <1>3 DEF UserSetsSeekTime
  <2>2. calls'.seek = calls.seek + 1 /\ calls'.seek \in Nat
    BY <1>0, <2>1, CallsCount
  <2> QED BY <1>0, <1>3, <2>2 DEF UserSetsSeekTime
<1>4. CASE UserPostsSeek
  BY <1>0, <1>4 DEF UserPostsSeek, Post
<1>5. CASE Destroy \/ JoinMessage \/ JoinExtract \/ JoinVideo \/ JoinAudio
  BY <1>0, <1>5 DEF Destroy, JoinMessage, JoinExtract, JoinVideo, JoinAudio, TellDecoder,
     JoinOnly
<1> QED BY <1>1, <1>2, <1>3, <1>4, <1>5 DEF UserCall, UserStep

\* Every step keeps aborted audio queues, and clocks computed from nothing, tied
\* to a seek or the destructor.
LEMMA NextClockInv == ThreadsInv /\ ClockInv /\ [Next]_vars => ClockInv'
<1> SUFFICES ASSUME ThreadsInv, ClockInv, [Next]_vars PROVE ClockInv'
  OBVIOUS
<1>0. TypeInv /\ ControlInv /\ calls.seek \in Nat
      /\ mMessageQueue \in Seq({"kWhatStart", "kWhatPause", "kWhatSeek"})
  BY DEF ThreadsInv, TypeInv, PlayerTypeOK
<1> USE DEF ClockInv, Sought
<1>1. CASE UserCall \/ UserStep
  <2>1. UNCHANGED <<messagePc, frameAbort, mAudioClock>>
    BY <1>1, UserMoves, Zenon DEF UserOnly, renderState
  <2>2. calls'.seek \in Nat /\ calls'.seek >= calls.seek /\ (userPc' = "seek" => calls'.seek > 0)
    BY <1>0, <1>1, CallsGrow
  <2>3. Sought => Sought'
    BY <1>0, <1>1, <2>2, CallsGrow DEF UserCall, UserStep, UserStart, UserPause,
       UserPosts, UserSetsSeekTime, UserPostsSeek, Destroy,
       JoinMessage, JoinExtract, JoinVideo, JoinAudio
  <2>4. \A i \in DOMAIN mMessageQueue' : mMessageQueue'[i] = "kWhatSeek" => calls'.seek > 0
    <3>1. CASE UNCHANGED mMessageQueue
      BY <1>0, <2>2, <3>1
    <3>2. ASSUME NEW message \in {"kWhatStart", "kWhatPause", "kWhatSeek"},
                 mMessageQueue' = Append(mMessageQueue, message), message = "kWhatSeek" => calls.seek > 0
          PROVE  \A i \in DOMAIN mMessageQueue' : mMessageQueue'[i] = "kWhatSeek" => calls'.seek > 0
      BY <1>0, <2>2, <3>2, AppendProperties
    <3> QED BY <1>0, <1>1, <3>1, <3>2, CallsGrow DEF UserPostsSeek
  <2>5. messagePc \in {"kWhatSeek", "abortVideo", "abortAudio", "stopDecoders"} => calls'.seek > 0
    BY <1>0, <2>2
  <2> QED BY <2>1, <2>2, <2>3, <2>4, <2>5
<1>2. CASE MessageStep
  <2>1. UNCHANGED <<calls, userPc, frameAbort, mAudioClock>>
    BY <1>2, MessageFrame, Zenon DEF MessageOnly, userVars, renderState
  <2>2. CASE TakeMessage
    <3>1. /\ messagePc' = mMessageQueue[1] /\ mMessageQueue # <<>> /\ mMessageQueue' = Tail(mMessageQueue)
      BY <1>0, <2>2, HeadTailProperties DEF TakeMessage
    <3>2. messagePc' \in {"kWhatSeek", "abortVideo", "abortAudio", "stopDecoders"} => calls.seek > 0
      BY <1>0, <3>1
    <3>3. \A i \in DOMAIN mMessageQueue' : mMessageQueue'[i] = "kWhatSeek" => calls.seek > 0
      BY <1>0, <3>1, HeadTailProperties
    <3> QED BY <2>1, <3>2, <3>3
  <2>3. CASE ~TakeMessage
    <3>1. UNCHANGED mMessageQueue
      BY <1>2, <2>3, Zenon DEF MessageStep, LeaveMessageThread, BeginStart, CreateExtract,
         CreateDecoders, CreateDecoder, BeginPause, EndPause, IgnoreSeek, BeginSeek,
         AbortPipeline, AbortPackets, StopDecoders, JoinDecoders, JoinDecoder, FlushCodecs,
         HandlerOnly
    <3>2. messagePc' # "kWhatSeek"
      BY <1>2, <2>3 DEF MessageStep, LeaveMessageThread, BeginStart, CreateExtract,
         CreateDecoders, BeginPause, EndPause, IgnoreSeek, BeginSeek,
         AbortPipeline, StopDecoders, JoinDecoders, FlushCodecs, GoTo
    <3>3. messagePc' \in {"abortVideo", "abortAudio", "stopDecoders"} =>
             messagePc \in {"kWhatSeek", "abortVideo", "abortAudio"}
      BY <1>0, <1>2, HandlerMoves DEF QuietMove, StartMove, PauseMove, SeekMove, FlushMove
    <3> QED BY <2>1, <3>1, <3>2, <3>3
  <2> QED BY <2>2, <2>3
<1>3. CASE RenderStep /\ OutsideRender
  <2>1. UNCHANGED <<messagePc, userPc, calls, mMessageQueue>>
    BY <1>3, Zenon DEF OutsideRender, messageVars, userVars
  <2>2. frameAbort'["audio"] => Sought
    <3>1. CASE AbortQueues
      <4>1. messagePc = "stopDecoders" \/ userPc = "gone"
        BY <1>0, <3>1 DEF AbortQueues, AbortQueue, GoOn, ControlInv, FlushSteps, StopSteps
      <4> QED BY <4>1
    <3>2. CASE ~AbortQueues
      <4>1. frameAbort'["audio"] => frameAbort["audio"]
        <5>1. frameAbort \in [Media -> BOOLEAN]
          BY <1>0 DEF TypeInv, PlayerTypeOK, RenderTypeOK
        <5>2. CASE InitQueues
          BY <5>1, <5>2 DEF InitQueues, InitFrames, Media
        <5>3. CASE ~InitQueues
          BY <1>3, <3>2, <5>3, RenderThreadFrame, Zenon DEF RenderStep, CallbackBegin,
             CallbackDequeue,
             RenderCaller, OpenDevice, CreateRenderThread, UnpauseDevice,
             PauseDevice, SetDevicePaused, Resume, ClearClock, SetPaused, CloseDevice,
             RequestRenderExit, JoinRender, renderState
        <5> QED BY <5>2, <5>3
      <4> QED BY <4>1
    <3> QED BY <3>1, <3>2
  <2>3. mAudioClock' = "garbage" => Sought
    <3>1. CASE CallbackDequeue
      BY <3>1 DEF CallbackDequeue
    <3>2. CASE ~CallbackDequeue
      <4>1. mAudioClock' \in {mAudioClock, "zero"}
        BY <1>3, <3>2, RenderThreadFrame, Zenon DEF RenderStep, CallbackBegin,
             RenderCaller, OpenDevice, CreateRenderThread, UnpauseDevice, InitQueues,
             InitFrames,
             PauseDevice, SetDevicePaused, Resume, ClearClock, SetPaused, AbortQueues,
             AbortQueue,
             CloseDevice, RequestRenderExit, JoinRender, renderState
      <4> QED BY <4>1
    <3> QED BY <3>1, <3>2
  <2> QED BY <2>1, <2>2, <2>3
<1>4. CASE ExtractStep
  <2>1. UNCHANGED <<messagePc, userPc, calls, frameAbort, mAudioClock>>
    BY <1>4, PipelineFrame, Zenon
  <2>2. mMessageQueue' \in {mMessageQueue, Append(mMessageQueue, "kWhatStart")}
    BY <1>4, Zenon DEF ExtractStep, OpenFile, ExtractTop, ExtractSeek, ExtractSeeked,
       ExtractPosts,
     ExtractWoken, ReadPacket, PushPacket, messageVars, Post
  <2>3. \A i \in DOMAIN mMessageQueue' : mMessageQueue'[i] = "kWhatSeek" => calls.seek > 0
    BY <1>0, <2>2, AppendProperties
  <2> QED BY <2>1, <2>3
<1>5. CASE (\E m \in Media : DecodeStep(m)) \/ UNCHANGED vars
  <2>1. UNCHANGED <<messagePc, userPc, calls, frameAbort, mAudioClock>>
    BY <1>5, PipelineFrame, Zenon
  <2>2. UNCHANGED mMessageQueue
    BY <1>5, DecodeFrame, Zenon DEF DecodeOnly, messageVars, vars
  <2> QED BY <2>1, <2>2
<1> QED BY <1>1, <1>2, <1>3, <1>4, <1>5, Zenon DEF Next, Running

-----------------------------------------------------------------------------

\* The inductive invariant of playback.
PlaybackInv == ThreadsInv /\ DeviceInv /\ PauseInv /\ FrameInv /\ AgreeInv /\ ClockInv

\* Control, threads, device, pause and clock agree always.
LEMMA PlaybackInvariant == Spec => [](PlaybackInv /\ PauseIsSilent /\ NoLostResume)
<1>1. Init => DeviceInv /\ PauseInv /\ FrameInv /\ AgreeInv /\ ClockInv /\ PauseIsSilent /\ NoLostResume
  <2> SUFFICES ASSUME Init PROVE DeviceInv /\ PauseInv /\ FrameInv /\ AgreeInv /\ ClockInv /\ PauseIsSilent /\ NoLostResume
    OBVIOUS
  <2>1. DeviceInv /\ PauseInv /\ FrameInv
    BY DEF Init, RenderInit, DeviceInv, PauseInv, FrameInv, StartSteps
  <2>2. AgreeInv
    BY DEF Init, RenderInit, AgreeInv
  <2>3. ClockInv
    BY DEF Init, RenderInit, ClockInv, Media
  <2>4. PauseIsSilent /\ NoLostResume
    BY DEF Init, RenderInit, PauseIsSilent, NoLostResume
  <2> QED BY <2>1, <2>2, <2>3, <2>4
<1> QED BY <1>1, ThreadsInvariant, NextDeviceInv, NextPauseInv, NextAgreeInv,
   NextClockInv, NextNoLostResume,
           PTL DEF Spec, PlaybackInv

\* After pause() or flush() returned and until start(), no callback runs or can
\* begin, and the clock stays cleared (Render.cpp 121-124).
THEOREM PauseSilences == Spec => []PauseIsSilent
  BY PlaybackInvariant, PTL

\* The render thread never sleeps on a Render that is not paused (Render.cpp
\* 264-267, 104-106): no start() misses it.
THEOREM ResumeWakes == Spec => []NoLostResume
  BY PlaybackInvariant, PTL

\* The callback computes the clock from an uninitialized packet only after a seek
\* aborted its queue, or in the destructor (Render.cpp 19-21, 101-103).
THEOREM ClockKnown == Spec => []ClockFromFrames
<1>1. ClockInv => ClockFromFrames
  BY DEF ClockInv, Sought, ClockFromFrames
<1> QED BY PlaybackInvariant, <1>1, PTL DEF PlaybackInv

\* When a message has been handled, the player's state, its threads, its queues and
\* Render agree, unless the audio device could once not be opened.
THEOREM StatesAgree == Spec => []StateAgrees
<1>1. PlaybackInv => StateAgrees
  <2> SUFFICES ASSUME PlaybackInv, Settled, ~openFailed, userPc # "gone"
               PROVE  CASE mState = "UNINITIALIZED" -> ~mAudioDevID /\ extractPc = "none"
          [] mState = "PLAYING" ->
               /\ mAudioDevID /\ ~devicePaused /\ ~mPaused
               /\ \A m \in Media : ~packetAbort[m] /\ ~frameAbort[m] /\ decodePc[m] # "none"
          [] mState = "PAUSED" ->
               /\ mAudioDevID /\ devicePaused /\ mPaused
               /\ \A m \in Media : ~packetAbort[m] /\ ~frameAbort[m] /\ decodePc[m] # "none"
          [] mState = "SEEKING" ->
               /\ mAudioDevID /\ devicePaused /\ mPaused
               /\ \A m \in Media : packetAbort[m] /\ frameAbort[m] /\ decodePc[m] = "none"
    BY DEF StateAgrees
  <2>0. /\ mState \in {"UNINITIALIZED", "PLAYING", "SEEKING", "PAUSED"}
        /\ messagePc = "acquire" /\ renderCall = "none"
    BY DEF PlaybackInv, ThreadsInv, TypeInv, PlayerTypeOK, Settled
  <2>1. CASE mState = "UNINITIALIZED"
    BY <2>1 DEF PlaybackInv, DeviceInv, ThreadsInv, ThreadInv
  <2>2. mState # "UNINITIALIZED" => mAudioDevID
    BY <2>0 DEF PlaybackInv, DeviceInv
  <2>3. mState \in {"PLAYING", "PAUSED"} => \A m \in Media : ~packetAbort[m] /\ decodePc[m] # "none"
    BY <2>0 DEF PlaybackInv, ThreadsInv, DecoderInv, Runs, Creating
  <2>4. mState = "SEEKING" => \A m \in Media : packetAbort[m] /\ decodePc[m] = "none"
    BY <2>0 DEF PlaybackInv, ThreadsInv, DecoderInv, Emptying, Media
  <2>5. mState = "PLAYING" => ~devicePaused /\ ~mPaused /\ \A m \in Media : ~frameAbort[m]
    BY <2>0 DEF PlaybackInv, AgreeInv
  <2>6. mState = "PAUSED" => devicePaused /\ mPaused /\ \A m \in Media : ~frameAbort[m]
    BY <2>0 DEF PlaybackInv, AgreeInv
  <2>7. mState = "SEEKING" => devicePaused /\ mPaused /\ \A m \in Media : frameAbort[m]
    BY <2>0 DEF PlaybackInv, AgreeInv, FrameInv
  <2> QED BY <2>0, <2>1, <2>2, <2>3, <2>4, <2>5, <2>6, <2>7
<1> QED BY PlaybackInvariant, <1>1, PTL

-----------------------------------------------------------------------------
\* An aborted queue is empty.
AbortedEmpty == /\ \A m \in Media : packetAbort[m] => packetQ[m] = <<>>
                /\ \A m \in Media : frameAbort[m] => frameQ[m] = <<>>

\* Every step keeps aborted queues empty: abort() clears under the same lock,
\* and a push to an aborted queue adds nothing.
LEMMA NextAbortedEmpty == TypeInv /\ AbortedEmpty /\ [Next]_vars => AbortedEmpty'
<1> SUFFICES ASSUME TypeInv, AbortedEmpty, [Next]_vars PROVE AbortedEmpty'
  OBVIOUS
<1>0. /\ packetAbort \in [Media -> BOOLEAN] /\ frameAbort \in [Media -> BOOLEAN]
      /\ packetQ \in [Media -> Seq(0..MaxSeek)] /\ frameQ \in [Media -> Seq(Frames)]
  BY DEF TypeInv, PlayerTypeOK, RenderTypeOK
<1> USE DEF AbortedEmpty
<1>1. CASE UserCall \/ UserStep \/ UNCHANGED vars
  BY <1>1, UserFrame, Zenon DEF UserOnly, renderState, packetVars, vars, renderVars
<1>2. CASE MessageStep
  <2>1. UNCHANGED <<frameQ, frameAbort>>
    BY <1>2, MessageFrame, Zenon DEF MessageOnly, renderState
  <2>2. CASE CreateDecoders
    <3>1. ASSUME NEW m \in Media, CreateDecoder(m)
          PROVE  \A n \in Media : packetAbort'[n] => packetAbort[n]
      BY <1>0, <3>1, Zenon DEF CreateDecoder
    <3>2. /\ UNCHANGED packetQ
          /\ CreateDecoder("video") \/ CreateDecoder("audio")
      BY <2>2, Zenon DEF CreateDecoders, CreateDecoder
    <3>3. \A n \in Media : packetAbort'[n] => packetAbort[n]
      BY <3>1, <3>2 DEF Media
    <3> QED BY <2>1, <3>2, <3>3
  <2>3. CASE AbortPipeline
    <3>1. ASSUME NEW m \in Media, AbortPackets(m)
          PROVE  \A n \in Media : packetAbort'[n] => packetQ'[n] = <<>>
      BY <1>0, <3>1 DEF AbortPackets
    <3>2. AbortPackets("video") \/ AbortPackets("audio")
      BY <2>3, Zenon DEF AbortPipeline
    <3> QED BY <2>1, <3>1, <3>2 DEF Media
  <2>4. CASE ~CreateDecoders /\ ~AbortPipeline
    <3>1. UNCHANGED <<packetQ, packetAbort>>
      BY <1>2, <2>4, Zenon DEF MessageStep, TakeMessage, LeaveMessageThread, BeginStart,
         CreateExtract,
         BeginPause, EndPause, IgnoreSeek, BeginSeek, StopDecoders, JoinDecoders,
         JoinDecoder, FlushCodecs,
         HandlerOnly, packetVars
    <3> QED BY <2>1, <3>1
  <2> QED BY <2>2, <2>3, <2>4
<1>3. CASE ExtractStep
  <2>1. UNCHANGED <<packetAbort, frameQ, frameAbort>>
    BY <1>3, ExtractFrame, Zenon DEF renderVars, renderState
  <2>2. CASE PushPacket
    BY <1>0, <2>1, <2>2 DEF PushPacket
  <2>3. CASE ~PushPacket
    <3>1. UNCHANGED packetQ
      BY <1>3, <2>3, Zenon DEF ExtractStep, OpenFile, ExtractTop, ExtractSeek,
         ExtractSeeked, ExtractPosts,
         ExtractWoken, ReadPacket, packetVars
    <3> QED BY <2>1, <3>1
  <2> QED BY <2>2, <2>3
<1>4. ASSUME NEW m \in Media, DecodeStep(m) PROVE AbortedEmpty'
  <2>1. UNCHANGED <<packetAbort, frameAbort>>
    BY <1>4, DecodeFrame, Zenon DEF DecodeOnly
  <2>2. \A n \in Media : packetAbort[n] => packetQ'[n] = packetQ[n]
    <3>1. \/ UNCHANGED packetQ
          \/ ~packetAbort[m] /\ packetQ' = [packetQ EXCEPT ![m] = Tail(@)]
      BY <1>4, Zenon DEF DecodeStep, DecodeTop, DecodeWait, DecodePop, ReceiveFrame,
         PushFrame, EndPacket
    <3> QED BY <1>0, <3>1
  <2>3. \A n \in Media : frameAbort[n] => frameQ'[n] = frameQ[n]
    <3>1. \/ UNCHANGED frameQ
          \/ ~frameAbort[m] /\ frameQ' = [frameQ EXCEPT ![m] = Append(@, Head(decoding[m]))]
      BY <1>4, Zenon DEF DecodeStep, DecodeTop, DecodeWait, DecodePop, ReceiveFrame,
         PushFrame, EndPacket,
         QueueFrame, renderVars, renderState
    <3> QED BY <1>0, <3>1
  <2> QED BY <2>1, <2>2, <2>3
<1>5. CASE RenderStep /\ OutsideRender
  <2>1. UNCHANGED <<packetQ, packetAbort>>
    BY <1>5, Zenon DEF OutsideRender, packetVars
  <2>2. CASE CallbackDequeue
    <3>1. /\ UNCHANGED frameAbort
          /\ \/ UNCHANGED frameQ
             \/ ~frameAbort["audio"] /\ frameQ' = [frameQ EXCEPT !["audio"] = Tail(@)]
      BY <2>2, Zenon DEF CallbackDequeue
    <3> QED BY <1>0, <2>1, <3>1
  <2>3. CASE RenderDequeue
    <3>1. /\ UNCHANGED frameAbort
          /\ \/ UNCHANGED frameQ
             \/ ~frameAbort["video"] /\ frameQ' = [frameQ EXCEPT !["video"] = Tail(@)]
      BY <2>3, Zenon DEF RenderDequeue
    <3> QED BY <1>0, <2>1, <3>1
  <2>4. CASE InitQueues
    BY <1>0, <2>1, <2>4 DEF InitQueues, InitFrames
  <2>5. CASE AbortQueues
    BY <1>0, <2>1, <2>5 DEF AbortQueues, AbortQueue, AbortFrames
  <2>6. CASE ~CallbackDequeue /\ ~RenderDequeue /\ ~InitQueues /\ ~AbortQueues
    <3>1. UNCHANGED <<frameQ, frameAbort>>
      BY <1>5, <2>6, Zenon DEF RenderStep, CallbackBegin, RenderThread, RenderTop,
         RenderWait, RenderShow,
             RenderCaller, OpenDevice, CreateRenderThread, UnpauseDevice,
             PauseDevice, SetDevicePaused, Resume, ClearClock, SetPaused, CloseDevice,
             RequestRenderExit, JoinRender, renderState
    <3> QED BY <2>1, <3>1
  <2> QED BY <2>2, <2>3, <2>4, <2>5, <2>6
<1> QED BY <1>1, <1>2, <1>3, <1>4, <1>5, Zenon DEF Next, Running

\* Nothing is between the file and the screen.
AllEmpty == \A m \in Media : packetQ[m] = <<>> /\ decoding[m] = <<>> /\ frameQ[m] = <<>>

\* Once the handler of a seek has emptied the pipeline it stays empty.
LEMMA SeekEmpties ==
    ASSUME PlaybackInv, AbortedEmpty, mState = "SEEKING", messagePc \notin Emptying
    PROVE  AllEmpty
<1>1. \A m \in Media : packetAbort[m] /\ decodePc[m] = "none"
  BY DEF PlaybackInv, ThreadsInv, DecoderInv, Emptying, Media
<1>2. \A m \in Media : frameAbort[m]
  BY DEF PlaybackInv, FrameInv, Emptying
<1>3. \A m \in Media : decoding[m] = <<>>
  BY <1>1 DEF PlaybackInv, ThreadsInv, TypeInv, PacketInHand
<1> QED BY <1>1, <1>2, <1>3 DEF AbortedEmpty, AllEmpty

\* The extract thread that is about to move found the pipeline emptied.
FreshInv == extractPc = "seek" /\ mState # "SEEKING" => AllEmpty

\* Every element of s is p.
AllAt(s, p) == \A i \in DOMAIN s : s[i] = p

\* What is left of a queue whose elements are all of one place, too.
LEMMA AllAtTail ==
    ASSUME NEW S, NEW s \in Seq(S), s # <<>>, NEW p, AllAt(s, p)
    PROVE  AllAt(Tail(s), p) /\ Head(s) = p
  BY HeadTailProperties DEF AllAt

\* A queue stays at one place when an element of that place is added.
LEMMA AllAtAppend ==
    ASSUME NEW S, NEW s \in Seq(S), NEW p \in S, AllAt(s, p)
    PROVE  AllAt(Append(s, p), p)
  BY AppendProperties DEF AllAt

\* An empty queue is of any place.
LEMMA AllAtEmpty == ASSUME NEW p PROVE AllAt(<<>>, p)
  BY DEF AllAt

\* What OnlyFreshData says of one medium.
FreshIn(m) == AllAt(packetQ[m], position) /\ AllAt(decoding[m], position) /\ AllAt(frameQ[m], position)

\* OnlyFreshData, one medium at a time.
LEMMA FreshMeans == OnlyFreshData <=> (mState # "SEEKING" => \A m \in Media : FreshIn(m))
  BY DEF OnlyFreshData, FreshIn, AllAt

\* Every step keeps what is under way at the place the file is read at.
LEMMA NextFresh ==
    ASSUME PlaybackInv, AbortedEmpty, FreshInv, \A m \in Media : mState # "SEEKING" => FreshIn(m), [Next]_vars
    PROVE  FreshInv' /\ \A m \in Media : mState' # "SEEKING" => FreshIn(m)'
<1>0. /\ TypeInv /\ ControlInv
      /\ packetQ \in [Media -> Seq(0..MaxSeek)] /\ frameQ \in [Media -> Seq(Frames)]
      /\ decoding \in [Media -> Seq(0..MaxSeek)] /\ position \in 0..MaxSeek /\ position \in Frames
  BY PlayerAssumption DEF PlaybackInv, ThreadsInv, TypeInv, PlayerTypeOK, RenderTypeOK
<1> USE DEF FreshInv, FreshIn
<1>1. CASE UserCall \/ UserStep \/ UNCHANGED vars
  <2>1. UNCHANGED <<mState, extractPc, position, packetQ, decoding, frameQ>>
    BY <1>1, UserFrame, Zenon DEF UserOnly, renderState, packetVars, vars, renderVars,
       stateVars, extractVars, decodeVars
  <2> QED BY <2>1, Zenon DEF AllEmpty
<1>2. CASE MessageStep
  <2>1. UNCHANGED <<position, decoding, frameQ>>
    BY <1>2, MessageFrame, Zenon DEF MessageOnly, renderState
  <2>2. \A m \in Media : packetQ'[m] \in {packetQ[m], <<>>}
    <3>1. CASE AbortPipeline
      <4>1. ASSUME NEW m \in Media, AbortPackets(m) PROVE \A n \in Media : packetQ'[n] \in {packetQ[n], <<>>}
        BY <1>0, <4>1 DEF AbortPackets
      <4>2. AbortPackets("video") \/ AbortPackets("audio")
        BY <3>1, Zenon DEF AbortPipeline
      <4> QED BY <4>1, <4>2 DEF Media
    <3>2. CASE ~AbortPipeline
      <4>1. UNCHANGED packetQ
        BY <1>2, <3>2, Zenon DEF MessageStep, TakeMessage, LeaveMessageThread, BeginStart,
           CreateExtract,
           CreateDecoders, CreateDecoder, BeginPause, EndPause, IgnoreSeek, BeginSeek,
           StopDecoders,
           JoinDecoders, JoinDecoder, FlushCodecs, HandlerOnly, packetVars
      <4> QED BY <4>1
    <3> QED BY <3>1, <3>2
  <2>3. extractPc' = "seek" => extractPc = "seek"
    BY <1>2 DEF MessageStep, TakeMessage, LeaveMessageThread, BeginStart, CreateExtract,
           CreateDecoders, CreateDecoder, BeginPause, EndPause, IgnoreSeek, BeginSeek,
           AbortPipeline, AbortPackets, StopDecoders,
           JoinDecoders, JoinDecoder, FlushCodecs, HandlerOnly
  <2>4. mState = "SEEKING" /\ mState' # "SEEKING" => AllEmpty
    <3>1. mState = "SEEKING" /\ mState' # "SEEKING" => messagePc = "kWhatStart"
      BY <1>0, <1>2, HandlerMoves DEF QuietMove, StartMove, PauseMove, SeekMove, FlushMove
    <3> QED BY <3>1, SeekEmpties DEF Emptying
  <2>5. AllEmpty => AllEmpty'
    BY <2>1, <2>2 DEF AllEmpty
  <2>6. ASSUME NEW m \in Media, mState' # "SEEKING" PROVE FreshIn(m)'
    <3>1. CASE AllEmpty
      BY <2>1, <2>5, <2>6, <3>1, AllAtEmpty DEF AllEmpty
    <3>2. CASE FreshIn(m)
      <4>1. AllAt(packetQ'[m], position)
        BY <2>2, <3>2, AllAtEmpty
      <4> QED BY <2>1, <3>2, <4>1
    <3> QED BY <2>4, <2>6, <3>1, <3>2
  <2> QED BY <2>3, <2>4, <2>5, <2>6
<1>3. CASE ExtractStep
  <2>1. UNCHANGED <<mState, decoding, frameQ>>
    BY <1>3, ExtractFrame, Zenon DEF renderVars, renderState
  <2>2. CASE ExtractSeek
    <3>1. UNCHANGED packetQ /\ extractPc = "seek" /\ extractPc' # "seek"
      BY <2>2 DEF ExtractSeek, packetVars, AwaitSeekEnd
    <3>2. mState # "SEEKING" => AllEmpty
      BY <3>1
    <3> QED BY <2>1, <3>1, <3>2, AllAtEmpty DEF AllEmpty
  <2>3. CASE PushPacket
    <3>1. packetFor \in Media /\ UNCHANGED position /\ extractPc' = "top"
      BY <1>0, <2>3 DEF PushPacket, TypeInv, PlayerTypeOK
    <3>2. packetQ' \in {packetQ, [packetQ EXCEPT ![packetFor] = Append(packetQ[packetFor], position)]}
      BY <2>3 DEF PushPacket
    <3>3. ASSUME NEW m \in Media, AllAt(packetQ[m], position) PROVE AllAt(packetQ'[m], position)
      <4>1. packetQ'[m] \in {packetQ[m], Append(packetQ[m], position)}
        BY <1>0, <3>1, <3>2
      <4>2. AllAt(Append(packetQ[m], position), position)
        BY <1>0, <3>3, AllAtAppend
      <4> QED BY <3>3, <4>1, <4>2
    <3> QED BY <2>1, <3>1, <3>3
  <2>4. CASE ~ExtractSeek /\ ~PushPacket
    <3>1. UNCHANGED <<position, packetQ>>
      BY <1>3, <2>4, Zenon DEF ExtractStep, OpenFile, ExtractTop, ExtractSeeked,
         ExtractPosts, ExtractWoken, ReadPacket, packetVars
    <3>2. extractPc' = "seek" => mState = "SEEKING"
      BY <1>3, <2>4 DEF ExtractStep, OpenFile, ExtractTop, ExtractSeeked, ExtractPosts,
         ExtractWoken, AwaitSeekEnd, ReadPacket
    <3> QED BY <2>1, <3>1, <3>2
  <2> QED BY <2>2, <2>3, <2>4
<1>4. ASSUME NEW n \in Media, DecodeStep(n) PROVE FreshInv' /\ \A m \in Media : mState' # "SEEKING" => FreshIn(m)'
  <2>1. UNCHANGED <<mState, extractPc, position>>
    BY <1>4, DecodeFrame, Zenon DEF DecodeOnly, extractVars
  <2>2. CASE DecodePop(n)
    <3>1. CASE packetAbort[n]
      <4>1. UNCHANGED <<packetQ, decoding, frameQ>>
        BY <2>2, <3>1, Zenon DEF DecodePop, renderVars, renderState
      <4> QED BY <2>1, <4>1, Zenon DEF AllEmpty
    <3>2. CASE ~packetAbort[n]
      <4>1. /\ packetQ[n] # <<>> /\ UNCHANGED frameQ
            /\ decoding' = [decoding EXCEPT ![n] = <<Head(packetQ[n])>>]
            /\ packetQ' = [packetQ EXCEPT ![n] = Tail(packetQ[n])]
        BY <2>2, <3>2 DEF DecodePop, renderVars, renderState
      <4>2. ~AllEmpty
        BY <4>1 DEF AllEmpty
      <4>3. AllAt(packetQ[n], position) => AllAt(packetQ'[n], position) /\ AllAt(decoding'[n], position)
        BY <1>0, <4>1, AllAtTail DEF AllAt
      <4>4. \A m \in Media \ {n} : packetQ'[m] = packetQ[m] /\ decoding'[m] = decoding[m]
        BY <1>0, <4>1
      <4> QED BY <2>1, <4>1, <4>2, <4>3, <4>4
    <3> QED BY <3>1, <3>2
  <2>3. CASE PushFrame(n)
    <3>1. UNCHANGED <<packetQ, decoding>> /\ decodePc[n] = "push"
      BY <2>3, Zenon DEF PushFrame
    <3>2. decoding[n] # <<>>
      BY <1>0, <3>1 DEF TypeInv, PacketInHand
    <3>3. frameQ' \in {frameQ, [frameQ EXCEPT ![n] = Append(frameQ[n], Head(decoding[n]))]}
      BY <2>3 DEF PushFrame, QueueFrame
    <3>4. ASSUME FreshIn(n) PROVE AllAt(frameQ'[n], position)
      <4>1. Head(decoding[n]) = position
        BY <1>0, <3>2, <3>4, AllAtTail
      <4>2. frameQ'[n] \in {frameQ[n], Append(frameQ[n], position)}
        BY <1>0, <3>3, <4>1
      <4>3. AllAt(Append(frameQ[n], position), position)
        BY <1>0, <3>4, AllAtAppend
      <4> QED BY <3>4, <4>2, <4>3
    <3>5. \A m \in Media \ {n} : frameQ'[m] = frameQ[m]
      BY <1>0, <3>3
    <3>6. ~AllEmpty
      BY <3>2 DEF AllEmpty
    <3> QED BY <2>1, <3>1, <3>4, <3>5, <3>6
  <2>4. CASE EndPacket(n)
    <3>1. UNCHANGED <<packetQ, frameQ>> /\ decoding' = [decoding EXCEPT ![n] = <<>>]
      BY <2>4, Zenon DEF EndPacket, renderVars, renderState
    <3>2. \A m \in Media : decoding'[m] \in {decoding[m], <<>>}
      BY <1>0, <3>1
    <3> QED BY <2>1, <3>1, <3>2, AllAtEmpty DEF AllEmpty
  <2>5. CASE DecodeTop(n) \/ DecodeWait(n) \/ ReceiveFrame(n)
    <3>1. UNCHANGED <<packetQ, decoding, frameQ>>
      BY <2>5, Zenon DEF DecodeTop, DecodeWait, ReceiveFrame, renderVars, renderState
    <3> QED BY <2>1, <3>1, Zenon DEF AllEmpty
  <2> QED BY <1>4, <2>2, <2>3, <2>4, <2>5, Zenon DEF DecodeStep
<1>5. CASE RenderStep /\ OutsideRender
  <2>1. UNCHANGED <<mState, extractPc, position, packetQ, decoding>>
    BY <1>5, Zenon DEF OutsideRender, packetVars, stateVars, extractVars, decodeVars
  <2>2. \A m \in Media :
               frameQ'[m] \in {frameQ[m], <<>>}
               \/ (frameQ[m] # <<>> /\ frameQ'[m] = Tail(frameQ[m]))
    <3>1. ASSUME NEW m \in Media, TakesFrame(m)
          PROVE \A n \in Media :
               frameQ'[n] \in {frameQ[n], <<>>}
               \/ (frameQ[n] # <<>> /\ frameQ'[n] = Tail(frameQ[n]))
      <4>1. frameQ[m] # <<>> /\ frameQ' = [frameQ EXCEPT ![m] = Tail(frameQ[m])]
        BY <3>1 DEF TakesFrame
      <4>2. frameQ'[m] = Tail(frameQ[m]) /\ \A n \in Media \ {m} : frameQ'[n] = frameQ[n]
        BY <1>0, <4>1
      <4> QED BY <4>1, <4>2
    <3>2. ASSUME NEW m \in Media, AbortFrames(m)
          PROVE \A n \in Media : frameQ'[n] \in {frameQ[n], <<>>}
      BY <1>0, <3>2 DEF AbortFrames
    <3>3. CASE CallbackDequeue \/ RenderDequeue
      <4>1. UNCHANGED frameQ \/ TakesFrame("audio") \/ TakesFrame("video")
        BY <3>3 DEF CallbackDequeue, RenderDequeue, TakesFrame
      <4> QED BY <3>1, <4>1 DEF Media
    <3>4. CASE AbortQueues
      <4>1. AbortFrames("audio") \/ AbortFrames("video")
        BY <3>4, Zenon DEF AbortQueues, AbortQueue
      <4> QED BY <3>2, <4>1 DEF Media
    <3>5. CASE ~CallbackDequeue /\ ~RenderDequeue /\ ~AbortQueues
      <4>1. UNCHANGED frameQ
        BY <1>5, <3>5, Zenon DEF RenderStep, CallbackBegin, RenderThread, RenderTop,
           RenderWait, RenderShow,
             RenderCaller, OpenDevice, CreateRenderThread, UnpauseDevice, InitQueues,
             InitFrames,
             PauseDevice, SetDevicePaused, Resume, ClearClock, SetPaused, CloseDevice,
             RequestRenderExit, JoinRender, renderState
      <4> QED BY <4>1
    <3> QED BY <3>3, <3>4, <3>5
  <2>3. ASSUME NEW m \in Media, AllAt(frameQ[m], position) PROVE AllAt(frameQ'[m], position)
    BY <1>0, <2>2, <2>3, AllAtTail, AllAtEmpty
  <2>4. AllEmpty => AllEmpty'
    BY <2>1, <2>2 DEF AllEmpty
  <2> QED BY <2>1, <2>3, <2>4
<1> QED BY <1>1, <1>2, <1>3, <1>4, <1>5, Zenon DEF Next, Running

\* What is under way comes from the place the file is read at, always.
LEMMA FreshInvariant == Spec => [](PlaybackInv /\ OnlyFreshData)
<1>1. Init => AbortedEmpty /\ FreshInv /\ OnlyFreshData
  BY DEF Init, RenderInit, AbortedEmpty, FreshInv, OnlyFreshData
<1>2. PlaybackInv /\ AbortedEmpty /\ FreshInv /\ OnlyFreshData /\ [Next]_vars => FreshInv' /\ OnlyFreshData'
  <2>1. OnlyFreshData' <=> (mState' # "SEEKING" => \A m \in Media : FreshIn(m)')
    BY DEF OnlyFreshData, FreshIn, AllAt
  <2> QED BY <2>1, FreshMeans, NextFresh
<1>3. PlaybackInv => TypeInv
  BY DEF PlaybackInv, ThreadsInv
<1> QED BY <1>1, <1>2, <1>3, PlaybackInvariant, NextAbortedEmpty, PTL DEF Spec

\* Every packet and frame in the queues and in the hands of the decoder threads comes
\* from the place the last seek moved to (Player.cpp 186-219, 317-329): nothing read
\* before it is left there, for any number of seeks, failed ones and overlapping ones
\* included.  The one picture the render thread holds is not meant.
THEOREM SeekRefreshes == Spec => []OnlyFreshData
  BY FreshInvariant, PTL

\* No packet is dropped while the player plays: the push of the extract thread meets
\* an aborted queue only during a seek and while the start that ends it reopens it.
THEOREM PlayingDropsNothing == Spec => NothingDroppedWhilePlaying
<1>1. ThreadsInv /\ [Next]_vars =>
        [ (\E m \in Media : packetFor = m /\ packetAbort[m]
                          /\ extractPc = "push" /\ extractPc' = "top")
          => \/ mState = "SEEKING"
             \/ messagePc \in {"createVideo", "createAudio"} ]_vars
  <2> SUFFICES ASSUME ThreadsInv, NEW m \in Media, packetAbort[m], extractPc = "push", mState # "SEEKING"
               PROVE  messagePc \in {"createVideo", "createAudio"}
    OBVIOUS
  <2>1. mState \in {"UNINITIALIZED", "PLAYING", "SEEKING", "PAUSED"}
    BY DEF ThreadsInv, TypeInv, PlayerTypeOK
  <2> QED BY <2>1 DEF ThreadsInv, ThreadInv, DecoderInv, Runs, Creating
<1> QED BY <1>1, ThreadsInvariant, PTL DEF Spec, NothingDroppedWhilePlaying

-----------------------------------------------------------------------------

\* A start waits to be handled, or is about to be.
StartPending == messagePc = "kWhatStart" \/ \E i \in DOMAIN mMessageQueue : mMessageQueue[i] = "kWhatStart"

\* When seek() overlaps with another one.
LEMMA OverlapStarts ==
    UserSetsSeekTime => ("seek" \in overlap' <=> SeekUnderWay) /\ (overlap' = {} => ~SeekUnderWay)
  BY DEF UserSetsSeekTime

\* Any other call leaves what overlaps with a seek, but for a start.
LEMMA OverlapGrows ==
    ASSUME UserCall \/ UserStep, ~UserSetsSeekTime
    PROVE  /\ "seek" \in overlap' <=> "seek" \in overlap
           /\ overlap' = {} => overlap = {} /\ (UserStart => ~SeekUnderWay)
<1>1. CASE UserStart
  BY <1>1 DEF UserStart
<1>2. CASE ~UserStart
  <2>1. UNCHANGED overlap
    BY <1>2, Zenon DEF UserCall, UserStep, UserPause, UserPostsSeek, Destroy, JoinMessage, JoinExtract,
       JoinVideo, JoinAudio, TellDecoder, JoinOnly
  <2> QED BY <1>2, <2>1
<1> QED BY <1>1, <1>2

\* A seek waits in the queue of the message thread, and only one does.
SeekQueued == \E i \in DOMAIN mMessageQueue : mMessageQueue[i] = "kWhatSeek"
SeekOnce == \A i, j \in DOMAIN mMessageQueue :
                mMessageQueue[i] = "kWhatSeek" /\ mMessageQueue[j] = "kWhatSeek" => i = j

\* A seek() has been called and its message not been handled.
SeekPending == userPc = "seek" \/ messagePc = "kWhatSeek" \/ SeekQueued

\* The extract thread is in its part of a seek.
ExtractSeeking == extractPc \in {"seek", "seeked", "post", "wait"}

\* When the last seek() was called while no other was under way: its request is there
\* when its message is handled, and while the state is SEEKING the request, or the
\* start that follows its answer, is under way; the extract thread sleeps after the
\* answer only.
SeekInv ==
    "seek" \notin overlap =>
         /\ SeekOnce
         /\ userPc = "seek" => messagePc # "kWhatSeek" /\ ~SeekQueued
         /\ messagePc = "kWhatSeek" => ~SeekQueued
         /\ SeekPending => mSeekTime >= 0 /\ mState # "SEEKING" /\ ~ExtractSeeking
         /\ mState = "SEEKING" => mSeekTime >= 0 \/ extractPc = "post" \/ StartPending
         /\ extractPc = "wait" => mSeekTime = -1

\* What a message that is posted changes in the queue.
LEMMA PostsMessage ==
    ASSUME TypeInv, NEW message \in {"kWhatStart", "kWhatPause", "kWhatSeek"},
    Post(message),
           UNCHANGED messagePc
    PROVE  /\ SeekQueued' <=> SeekQueued \/ message = "kWhatSeek"
           /\ StartPending' <=> StartPending \/ message = "kWhatStart"
           /\ SeekOnce /\ (message = "kWhatSeek" => ~SeekQueued) => SeekOnce'
<1>1. mMessageQueue \in Seq({"kWhatStart", "kWhatPause", "kWhatSeek"})
  BY DEF TypeInv, PlayerTypeOK
<1>2. /\ \A i \in DOMAIN mMessageQueue :
             i \in DOMAIN mMessageQueue' /\ mMessageQueue'[i] = mMessageQueue[i]
      /\ \A i \in DOMAIN mMessageQueue' :
             i \in DOMAIN mMessageQueue
             \/ (i = Len(mMessageQueue) + 1 /\ mMessageQueue'[i] = message)
      /\ Len(mMessageQueue) + 1 \in DOMAIN mMessageQueue'
  BY <1>1, AppendProperties DEF Post
<1>3. SeekQueued' <=> SeekQueued \/ message = "kWhatSeek"
  BY <1>1, <1>2 DEF SeekQueued, Post
<1>4. StartPending' <=> StartPending \/ message = "kWhatStart"
  BY <1>1, <1>2 DEF StartPending, Post
<1>5. SeekOnce /\ (message = "kWhatSeek" => ~SeekQueued) => SeekOnce'
  BY <1>2 DEF SeekQueued, SeekOnce
<1> QED BY <1>3, <1>4, <1>5

\* What taking a message changes in the queue.
LEMMA TakesMessage ==
    ASSUME TypeInv, TakeMessage
    PROVE  /\ messagePc = "acquire" /\ messagePc' \in {"kWhatStart", "kWhatPause", "kWhatSeek"}
           /\ SeekQueued' \/ messagePc' = "kWhatSeek" <=> SeekQueued
           /\ StartPending' <=> StartPending
           /\ SeekOnce => SeekOnce' /\ (messagePc' = "kWhatSeek" => ~SeekQueued')
<1>1. mMessageQueue \in Seq({"kWhatStart", "kWhatPause", "kWhatSeek"}) /\ mMessageQueue # <<>>
  BY DEF TypeInv, PlayerTypeOK, TakeMessage
<1>2. /\ messagePc = "acquire" /\ messagePc' = mMessageQueue[1] /\ 1 \in DOMAIN mMessageQueue
      /\ messagePc' \in {"kWhatStart", "kWhatPause", "kWhatSeek"}
      /\ \A i \in DOMAIN mMessageQueue' :
             /\ i \in Nat /\ i # 0 /\ i + 1 \in DOMAIN mMessageQueue
             /\ mMessageQueue'[i] = mMessageQueue[i + 1]
      /\ \A i \in DOMAIN mMessageQueue :
             i \in Nat
             /\ (i = 1 \/ (i - 1 \in DOMAIN mMessageQueue' /\ mMessageQueue'[i - 1] = mMessageQueue[i]))
  BY <1>1, HeadTailProperties DEF TakeMessage
<1>3. SeekQueued' \/ messagePc' = "kWhatSeek" <=> SeekQueued
  BY <1>2 DEF SeekQueued
<1>4. StartPending' <=> StartPending
  BY <1>2 DEF StartPending
<1>5. SeekOnce => SeekOnce' /\ (messagePc' = "kWhatSeek" => ~SeekQueued')
  BY <1>2 DEF SeekQueued, SeekOnce
<1> QED BY <1>2, <1>3, <1>4, <1>5

\* Every step keeps the request of a seek until the extract thread answers it, and
\* its answer until the start that ends the seek is handled.
LEMMA NextSeekInv == ThreadsInv /\ SeekInv /\ [Next]_vars => SeekInv'
<1> SUFFICES ASSUME ThreadsInv, SeekInv, [Next]_vars PROVE SeekInv'
  OBVIOUS
<1>0. /\ TypeInv /\ calls.seek \in Nat /\ mSeekTime \in -1..MaxSeek /\ MaxSeek \in Nat
      /\ messagePc \in MessagePcs
  BY PlayerAssumption DEF ThreadsInv, TypeInv, PlayerTypeOK
<1> USE DEF SeekInv, SeekPending, ExtractSeeking
<1>1. CASE UserCall \/ UserStep
  <2>1. UNCHANGED <<mState, messagePc, extractPc>>
    BY <1>1, UserFrame, Zenon DEF UserOnly
  <2>2. CASE UserSetsSeekTime
    <3>1. /\ mSeekTime' = calls.seek + 1 /\ calls'.seek = calls.seek + 1 /\ userPc' = "seek"
          /\ UNCHANGED mMessageQueue
      BY <1>0, <1>1, <2>2, CallsGrow DEF UserSetsSeekTime
    <3>2. (SeekQueued' <=> SeekQueued) /\ (SeekOnce' <=> SeekOnce)
      BY <3>1 DEF SeekQueued, SeekOnce
    <3>3. "seek" \notin overlap' => ~SeekPending /\ mState # "SEEKING" /\ ~ExtractSeeking
      BY <2>2, OverlapStarts DEF UserSetsSeekTime, SeekUnderWay, SeekQueued
    <3>4. ~SeekQueued => SeekOnce
      BY DEF SeekQueued, SeekOnce
    <3>5. extractPc' # "wait" \/ "seek" \in overlap'
      BY <2>1, <3>3
    <3> QED BY <1>0, <2>1, <3>1, <3>2, <3>3, <3>4, <3>5
  <2>3. CASE UserPostsSeek
    <3>1. userPc = "seek" /\ userPc' = "idle" /\ Post("kWhatSeek") /\ UNCHANGED <<overlap, mSeekTime>>
      BY <2>3 DEF UserPostsSeek
    <3>2. /\ SeekQueued'
          /\ StartPending' <=> StartPending
          /\ SeekOnce /\ ~SeekQueued => SeekOnce'
      BY <1>0, <2>1, <3>1, PostsMessage
    <3> QED BY <1>0, <2>1, <3>1, <3>2
  <2>4. CASE ~UserSetsSeekTime /\ ~UserPostsSeek
    <3>1. UNCHANGED mSeekTime /\ userPc' # "seek"
      BY <1>0, <1>1, <2>4, CallsGrow DEF UserCall, UserStep, UserStart, UserPause,
         UserPosts, Destroy, JoinMessage, JoinExtract, JoinVideo, JoinAudio,
         TellDecoder, JoinOnly
    <3>4. "seek" \in overlap' <=> "seek" \in overlap
      BY <1>1, <2>4, OverlapGrows
    <3>2. \/ UNCHANGED mMessageQueue
          \/ \E message \in {"kWhatStart", "kWhatPause"} : Post(message)
      BY <1>0, <1>1, <2>4, CallsGrow DEF Post
    <3>3. (SeekQueued' <=> SeekQueued) /\ (StartPending => StartPending') /\ (SeekOnce => SeekOnce')
      <4>1. CASE UNCHANGED mMessageQueue
        BY <2>1, <4>1 DEF SeekQueued, StartPending, SeekOnce
      <4>2. ASSUME NEW message \in {"kWhatStart", "kWhatPause"}, Post(message)
            PROVE  (SeekQueued' <=> SeekQueued) /\ (StartPending => StartPending') /\ (SeekOnce => SeekOnce')
        BY <1>0, <2>1, <4>2, PostsMessage
      <4> QED BY <3>2, <4>1, <4>2
    <3> QED BY <2>1, <3>1, <3>3, <3>4
  <2> QED BY <2>2, <2>3, <2>4
<1>2. CASE MessageStep
  <2>1. UNCHANGED <<mSeekTime, overlap, userPc>>
    BY <1>2, MessageFrame, Zenon DEF MessageOnly, userVars
  <2>2. CASE TakeMessage
    <3>1. UNCHANGED <<mState, extractPc>>
      BY <2>2, Zenon DEF TakeMessage, stateVars
    <3> QED BY <1>0, <2>1, <2>2, <3>1, TakesMessage
  <2>3. CASE ~TakeMessage
    <3>1. UNCHANGED mMessageQueue
      BY <1>2, <2>3, Zenon DEF MessageStep, LeaveMessageThread, BeginStart, CreateExtract,
         CreateDecoders, CreateDecoder, BeginPause, EndPause, IgnoreSeek, BeginSeek,
         AbortPipeline, AbortPackets, StopDecoders, JoinDecoders, JoinDecoder, FlushCodecs,
         HandlerOnly
    <3>2. messagePc' \notin {"kWhatStart", "kWhatSeek"}
      BY <1>2, <2>3 DEF MessageStep, LeaveMessageThread, BeginStart, CreateExtract,
         CreateDecoders, BeginPause, EndPause, IgnoreSeek, BeginSeek,
         AbortPipeline, StopDecoders, JoinDecoders, FlushCodecs, GoTo
    <3>3. (SeekQueued' <=> SeekQueued) /\ (SeekOnce' <=> SeekOnce)
      BY <3>1 DEF SeekQueued, SeekOnce
    <3>4. messagePc # "kWhatStart" => (StartPending' <=> StartPending)
      BY <3>1, <3>2 DEF StartPending
    <3>5. \/ UNCHANGED extractPc
          \/ extractPc' = "open" /\ UNCHANGED mState /\ mState = "PLAYING"
      BY <1>2 DEF MessageStep, TakeMessage, LeaveMessageThread, BeginStart, CreateExtract,
         CreateDecoders, CreateDecoder, BeginPause, EndPause, IgnoreSeek, BeginSeek,
         AbortPipeline, AbortPackets, StopDecoders, JoinDecoders, JoinDecoder, FlushCodecs,
         HandlerOnly, GoTo, stateVars, ThreadsInv, ControlInv, Creating
    <3>6. \/ UNCHANGED mState /\ messagePc # "kWhatStart"
          \/ mState' # "SEEKING"
          \/ messagePc = "kWhatSeek" /\ mState' = "SEEKING" /\ UNCHANGED extractPc
      BY <1>2, <2>3 DEF MessageStep, LeaveMessageThread, BeginStart, CreateExtract,
         CreateDecoders, CreateDecoder, BeginPause, EndPause, IgnoreSeek, BeginSeek,
         AbortPipeline, AbortPackets, StopDecoders, JoinDecoders, JoinDecoder, FlushCodecs,
         HandlerOnly, GoTo, stateVars
    <3> QED BY <1>0, <2>1, <3>2, <3>3, <3>4, <3>5, <3>6
  <2> QED BY <2>2, <2>3
<1>3. CASE ExtractStep
  <2>1. UNCHANGED <<mState, messagePc, overlap, userPc>>
    BY <1>3, ExtractFrame, Zenon
  <2>2. CASE ExtractPosts
    <3>1. /\ Post("kWhatStart") /\ extractPc = "post" /\ extractPc' = "top" /\ UNCHANGED mSeekTime
      BY <2>2 DEF ExtractPosts
    <3>2. StartPending' /\ (SeekQueued' <=> SeekQueued) /\ (SeekOnce => SeekOnce')
      BY <1>0, <2>1, <3>1, PostsMessage
    <3> QED BY <2>1, <3>1, <3>2
  <2>3. CASE ~ExtractPosts
    <3>1. UNCHANGED mMessageQueue
      BY <1>3, <2>3, Zenon DEF ExtractStep, OpenFile, ExtractTop, ExtractSeek,
         ExtractSeeked, ExtractWoken, ReadPacket, PushPacket, messageVars
    <3>2. (SeekQueued' <=> SeekQueued) /\ (SeekOnce' <=> SeekOnce) /\ (StartPending' <=> StartPending)
      BY <2>1, <3>1 DEF SeekQueued, SeekOnce, StartPending
    <3>3. CASE ExtractSeek
      <4>1. /\ extractPc = "seek" /\ UNCHANGED mSeekTime
            /\ \/ extractPc' \in {"seeked", "crashed", "read"}
               \/ extractPc' = "wait" /\ ~(mSeekTime >= 0)
        BY <3>3 DEF ExtractSeek, AwaitSeekEnd
      <4> QED BY <1>0, <2>1, <3>2, <4>1
    <3>4. CASE ExtractSeeked
      BY <2>1, <3>2, <3>4 DEF ExtractSeeked
    <3>5. CASE ~ExtractSeek /\ ~ExtractSeeked
      <4>1. /\ UNCHANGED mSeekTime /\ extractPc # "post"
            /\ \/ extractPc' \notin {"seek", "seeked", "post", "wait"}
               \/ extractPc' = "seek" /\ mState = "SEEKING"
               \/ extractPc' = "wait" /\ extractPc = "wait"
        BY <1>3, <2>3, <3>5 DEF ExtractStep, OpenFile, ExtractTop, ExtractWoken,
           AwaitSeekEnd,
           ReadPacket, PushPacket
      <4> QED BY <2>1, <3>2, <4>1
    <3> QED BY <3>3, <3>4, <3>5
  <2> QED BY <2>2, <2>3
<1>4. CASE (\E m \in Media : DecodeStep(m)) \/ OutsideRender \/ UNCHANGED vars
  <2>1. UNCHANGED <<mState, messagePc, overlap, userPc, mMessageQueue, mSeekTime, extractPc>>
    BY <1>4, DecodeFrame, Zenon DEF DecodeOnly, OutsideRender, vars, stateVars, extractVars,
       userVars, messageVars
  <2>2. (SeekQueued' <=> SeekQueued) /\ (SeekOnce' <=> SeekOnce) /\ (StartPending' <=> StartPending)
    BY <2>1 DEF SeekQueued, SeekOnce, StartPending
  <2> QED BY <2>1, <2>2
<1> QED BY <1>1, <1>2, <1>3, <1>4, Zenon DEF Next, Running

\* The seek has been answered: the extract thread has moved, or tried to.
Handled == mSeekTime = -1 /\ (position = calls.seek \/ seekFailed)

\* seek()'s request is there until it is answered; the extract thread posts its
\* start after the answer (Player.cpp 320-327).
RequestInv ==
    /\ mSeekTime = -1 \/ (mSeekTime = calls.seek /\ calls.seek > 0)
    /\ "seek" \notin overlap /\ extractPc = "seeked" => position = calls.seek \/ seekFailed
    /\ "seek" \notin overlap /\ extractPc = "post" => Handled

\* Whose start it is that waits while a seek is under way that nothing overlaps: one
\* of the extract thread's, posted after its answer; what was posted before the
\* seek is handled before it.
StartInv ==
    overlap = {} =>
      /\ mState = "SEEKING" /\ StartPending => Handled
      /\ messagePc = "kWhatSeek" => \A i \in DOMAIN mMessageQueue : mMessageQueue[i] # "kWhatStart"
      /\ \A i, j \in DOMAIN mMessageQueue :
             mMessageQueue[i] = "kWhatSeek" /\ mMessageQueue[j] = "kWhatStart" => j < i

\* Every step keeps the request of seek() until the move that answers it.
LEMMA NextRequestInv == ThreadsInv /\ RequestInv /\ [Next]_vars => RequestInv'
<1> SUFFICES ASSUME ThreadsInv, RequestInv, [Next]_vars PROVE RequestInv'
  OBVIOUS
<1>0. TypeInv /\ calls.seek \in Nat /\ mSeekTime \in -1..MaxSeek /\ position \in 0..MaxSeek /\ MaxSeek \in Nat
  BY PlayerAssumption DEF ThreadsInv, TypeInv, PlayerTypeOK
<1> USE DEF RequestInv, Handled
<1>1. CASE UserCall \/ UserStep
  <2>1. UNCHANGED <<extractPc, position, seekFailed>>
    BY <1>1, UserFrame, Zenon DEF UserOnly
  <2>2. CASE UserSetsSeekTime
    <3>1. mSeekTime' = calls.seek + 1 /\ calls'.seek = calls.seek + 1
      BY <1>0, <1>1, <2>2, CallsGrow DEF UserSetsSeekTime
    <3>2. "seek" \notin overlap' => extractPc \notin {"seeked", "post"}
      BY <2>2, OverlapStarts DEF SeekUnderWay
    <3> QED BY <1>0, <2>1, <3>1, <3>2
  <2>3. CASE ~UserSetsSeekTime
    <3>1. UNCHANGED mSeekTime /\ calls'.seek = calls.seek
      BY <1>0, <1>1, <2>3, CallsGrow DEF UserCall, UserStep, UserStart, UserPause,
         UserPosts,
         UserPostsSeek, Destroy, JoinMessage, JoinExtract, JoinVideo, JoinAudio,
         TellDecoder, JoinOnly
    <3>2. "seek" \in overlap' <=> "seek" \in overlap
      BY <1>1, <2>3, OverlapGrows
    <3> QED BY <2>1, <3>1, <3>2
  <2> QED BY <2>2, <2>3
<1>2. CASE MessageStep
  <2>1. UNCHANGED <<mSeekTime, position, seekFailed, calls, overlap>>
    BY <1>2, MessageFrame, Zenon DEF MessageOnly, userVars
  <2>2. extractPc' \in {extractPc, "open"}
    BY <1>2 DEF MessageStep, TakeMessage, LeaveMessageThread, BeginStart, CreateExtract,
       CreateDecoders, CreateDecoder, BeginPause, EndPause, IgnoreSeek, BeginSeek,
       AbortPipeline, AbortPackets,
       StopDecoders, JoinDecoders, JoinDecoder, FlushCodecs, HandlerOnly
  <2> QED BY <2>1, <2>2
<1>3. CASE ExtractStep
  <2>1. UNCHANGED <<calls, overlap>>
    BY <1>3, ExtractFrame, Zenon
  <2>2. CASE ExtractSeek
    <3>1. CASE mSeekTime >= 0
      <4>1. /\ UNCHANGED mSeekTime /\ extractPc' \in {"seeked", "crashed"}
            /\ position' = mSeekTime \/ seekFailed'
        BY <2>2, <3>1 DEF ExtractSeek
      <4> QED BY <1>0, <2>1, <3>1, <4>1
    <3>2. CASE ~(mSeekTime >= 0)
      <4>1. UNCHANGED <<mSeekTime, position, seekFailed>> /\ extractPc' \in {"wait", "read"}
        BY <2>2, <3>2 DEF ExtractSeek, AwaitSeekEnd
      <4> QED BY <2>1, <4>1
    <3> QED BY <3>1, <3>2
  <2>3. CASE ExtractSeeked
    BY <2>1, <2>3 DEF ExtractSeeked
  <2>4. CASE ~ExtractSeek /\ ~ExtractSeeked
    <3>1. UNCHANGED <<mSeekTime, position, seekFailed>>
      BY <1>3, <2>4, Zenon DEF ExtractStep, OpenFile, ExtractTop, ExtractPosts,
         ExtractWoken, ReadPacket, PushPacket
    <3>2. extractPc' \notin {"seeked", "post"}
      BY <1>3, <2>4 DEF ExtractStep, OpenFile, ExtractTop, ExtractPosts, ExtractWoken,
         AwaitSeekEnd, ReadPacket, PushPacket
    <3> QED BY <2>1, <3>1, <3>2
  <2> QED BY <2>2, <2>3, <2>4
<1>4. ASSUME NEW m \in Media, DecodeStep(m) PROVE RequestInv'
  BY <1>4, DecodeFrame DEF DecodeOnly, extractVars, userVars
<1>5. CASE OutsideRender \/ UNCHANGED vars
  BY <1>5 DEF OutsideRender, vars, extractVars, userVars
<1> QED BY <1>1, <1>2, <1>3, <1>4, <1>5, Zenon DEF Next, Running

\* Every step keeps a start that waits to be handled the user's first, or one that
\* the extract thread posted after the move.
LEMMA NextStartInv == ThreadsInv /\ SeekInv /\ RequestInv /\ StartInv /\ [Next]_vars => StartInv'
<1> SUFFICES ASSUME ThreadsInv, SeekInv, RequestInv, StartInv, [Next]_vars PROVE StartInv'
  OBVIOUS
<1>0. /\ TypeInv /\ ControlInv /\ calls.seek \in Nat /\ calls.start \in Nat
      /\ mMessageQueue \in Seq({"kWhatStart", "kWhatPause", "kWhatSeek"})
  BY DEF ThreadsInv, TypeInv, PlayerTypeOK
<1> USE DEF StartInv, StartPending, Handled
<1>1. CASE UserCall \/ UserStep
  <2>1. UNCHANGED <<mState, messagePc, position, seekFailed>>
    BY <1>1, UserFrame, Zenon DEF UserOnly
  <2>2. CASE UserStart
    <3>1. overlap' = {} => overlap = {} /\ ~SeekUnderWay
      BY <1>1, <2>2, OverlapGrows DEF UserStart, UserPosts, UserSetsSeekTime
    <3>2. mMessageQueue' = Append(mMessageQueue, "kWhatStart")
      BY <2>2 DEF UserStart, UserPosts, Post
    <3>3. SeekUnderWay \/ \A i \in DOMAIN mMessageQueue' : mMessageQueue'[i] # "kWhatSeek"
      BY <1>0, <3>2, AppendProperties DEF SeekUnderWay
    <3> QED BY <2>1, <3>1, <3>3 DEF SeekUnderWay
  <2>3. CASE UserSetsSeekTime
    <3>1. overlap' = {} => ~SeekUnderWay
      BY <2>3, OverlapStarts
    <3>2. UNCHANGED mMessageQueue
      BY <2>3 DEF UserSetsSeekTime
    <3> QED BY <2>1, <3>1, <3>2 DEF SeekUnderWay
  <2>4. CASE ~UserStart /\ ~UserSetsSeekTime
    <3>1. calls'.seek = calls.seek /\ UNCHANGED mSeekTime
      <4>1. CASE UserPause
        <5>1. calls' = [calls EXCEPT !["pause"] = calls["pause"] + 1] /\ UNCHANGED mSeekTime
          BY <4>1 DEF UserPause, UserPosts
        <5> QED BY <5>1, <1>0 DEF TypeInv, PlayerTypeOK
      <4>2. CASE ~UserPause
        BY <1>1, <2>4, <4>2 DEF UserCall, UserStep, UserPostsSeek, Destroy, JoinMessage,
           JoinExtract, JoinVideo, JoinAudio, TellDecoder, JoinOnly
      <4> QED BY <4>1, <4>2
    <3>2. overlap' = {} => overlap = {}
      BY <1>1, <2>4, OverlapGrows
    <3>3. \/ UNCHANGED mMessageQueue
          \/ \E message \in {"kWhatPause", "kWhatSeek"} : mMessageQueue' = Append(mMessageQueue, message)
      BY <1>0, <1>1, <2>4, CallsGrow
    <3>4. /\ \A i \in DOMAIN mMessageQueue' : mMessageQueue'[i] = "kWhatStart" =>
                  i \in DOMAIN mMessageQueue /\ mMessageQueue[i] = "kWhatStart"
          /\ \A i \in DOMAIN mMessageQueue' :
                  (i \in DOMAIN mMessageQueue /\ mMessageQueue'[i] = mMessageQueue[i])
                  \/ \A j \in DOMAIN mMessageQueue : j < i
      <4>1. CASE UNCHANGED mMessageQueue
        BY <4>1
      <4>2. ASSUME NEW message \in {"kWhatPause", "kWhatSeek"}, mMessageQueue' = Append(mMessageQueue, message)
            PROVE  <3>4
        <5>1. /\ \A i \in DOMAIN mMessageQueue' :
                     \/ i \in DOMAIN mMessageQueue /\ mMessageQueue'[i] = mMessageQueue[i]
                     \/ i = Len(mMessageQueue) + 1 /\ mMessageQueue'[i] = message
              /\ \A j \in DOMAIN mMessageQueue : j < Len(mMessageQueue) + 1
          BY <1>0, <4>2, AppendProperties
        <5> QED BY <4>2, <5>1
      <4> QED BY <3>3, <4>1, <4>2
    <3> QED BY <2>1, <3>1, <3>2, <3>4
  <2> QED BY <2>2, <2>3, <2>4
<1>2. CASE MessageStep
  <2>1. UNCHANGED <<mSeekTime, position, seekFailed, calls, overlap>>
    BY <1>2, MessageFrame, Zenon DEF MessageOnly, userVars
  <2>2. CASE TakeMessage
    <3>1. /\ messagePc' = mMessageQueue[1] /\ mMessageQueue # <<>> /\ mMessageQueue' = Tail(mMessageQueue)
          /\ UNCHANGED mState
      BY <1>0, <2>2, HeadTailProperties DEF TakeMessage, stateVars
    <3>2. /\ 1 \in DOMAIN mMessageQueue
          /\ \A i \in DOMAIN mMessageQueue' :
               i + 1 \in DOMAIN mMessageQueue /\ mMessageQueue'[i] = mMessageQueue[i + 1] /\ i + 1 # 1 /\ i \in Nat
      BY <1>0, <3>1, HeadTailProperties
    <3>3. StartPending' => StartPending
      BY <3>1, <3>2
    <3>4. ASSUME overlap = {}, messagePc' = "kWhatSeek", NEW i \in DOMAIN mMessageQueue',
                 mMessageQueue'[i] = "kWhatStart"
          PROVE  FALSE
      <4>1. mMessageQueue[1] = "kWhatSeek" /\ mMessageQueue[i + 1] = "kWhatStart"
        BY <3>1, <3>2, <3>4
      <4>2. i + 1 < 1
        BY <3>2, <3>4, <4>1
      <4> QED BY <3>2, <4>2
    <3>5. ASSUME overlap = {}, NEW i \in DOMAIN mMessageQueue', NEW j \in DOMAIN mMessageQueue',
                 mMessageQueue'[i] = "kWhatSeek", mMessageQueue'[j] = "kWhatStart"
          PROVE  j < i
      BY <3>2, <3>5
    <3> QED BY <2>1, <3>1, <3>3, <3>4, <3>5
  <2>3. CASE BeginStart
    <3>1. messagePc' \notin {"kWhatStart", "kWhatSeek"} /\ mState' = "PLAYING" /\ UNCHANGED mMessageQueue
      BY <2>3 DEF BeginStart, GoTo, HandlerOnly
    <3> QED BY <2>1, <3>1
  <2>4. CASE ~TakeMessage /\ ~BeginStart
    <3>1. UNCHANGED mMessageQueue
      BY <1>2, <2>4, Zenon DEF MessageStep, LeaveMessageThread, CreateExtract,
         CreateDecoders, CreateDecoder, BeginPause, EndPause, IgnoreSeek, BeginSeek,
         AbortPipeline, AbortPackets, StopDecoders, JoinDecoders, JoinDecoder, FlushCodecs,
         HandlerOnly
    <3>2. messagePc' \notin {"kWhatStart", "kWhatSeek"}
      BY <1>2, <2>4 DEF MessageStep, LeaveMessageThread, CreateExtract,
         CreateDecoders, BeginPause, EndPause, IgnoreSeek, BeginSeek,
         AbortPipeline, StopDecoders, JoinDecoders, FlushCodecs, GoTo
    <3>3. mState' = "SEEKING" => mState = "SEEKING" \/ messagePc = "kWhatSeek"
      BY <1>2, <2>4 DEF MessageStep, LeaveMessageThread, CreateExtract,
         CreateDecoders, CreateDecoder, BeginPause, EndPause, IgnoreSeek, BeginSeek,
         AbortPipeline, AbortPackets, StopDecoders, JoinDecoders, JoinDecoder, FlushCodecs,
         HandlerOnly, stateVars, GoTo
    <3> QED BY <2>1, <3>1, <3>2, <3>3
  <2> QED BY <2>2, <2>3, <2>4
<1>3. CASE ExtractStep
  <2>1. UNCHANGED <<mState, messagePc, calls, overlap>>
    BY <1>3, ExtractFrame, Zenon
  <2>2. CASE ExtractPosts
    <3>1. /\ mMessageQueue' = Append(mMessageQueue, "kWhatStart") /\ extractPc = "post"
          /\ UNCHANGED <<position, seekFailed, mSeekTime>>
      BY <2>2 DEF ExtractPosts, Post
    <3>2. overlap = {} => Handled /\ ~SeekPending
      BY <3>1 DEF RequestInv, SeekInv, ExtractSeeking
    <3>3. SeekPending \/ \A i \in DOMAIN mMessageQueue' : mMessageQueue'[i] # "kWhatSeek"
      BY <1>0, <3>1, AppendProperties DEF SeekPending, SeekQueued
    <3> QED BY <2>1, <3>1, <3>2, <3>3 DEF SeekPending
  <2>3. CASE ~ExtractPosts
    <3>1. UNCHANGED mMessageQueue
      BY <1>3, <2>3, Zenon DEF ExtractStep, OpenFile, ExtractTop, ExtractSeek,
         ExtractSeeked, ExtractWoken, ReadPacket, PushPacket, messageVars
    <3>2. mSeekTime = -1 => UNCHANGED <<position, seekFailed, mSeekTime>>
      BY <1>3, <2>3 DEF ExtractStep, OpenFile, ExtractTop, ExtractSeek, ExtractSeeked,
         ExtractWoken, ReadPacket, PushPacket
    <3> QED BY <2>1, <3>1, <3>2
  <2> QED BY <2>2, <2>3
<1>4. CASE (\E m \in Media : DecodeStep(m)) \/ OutsideRender \/ UNCHANGED vars
  <2>1. UNCHANGED <<mState, messagePc, calls, overlap, mMessageQueue, position, seekFailed, mSeekTime>>
    BY <1>4, DecodeFrame, Zenon DEF DecodeOnly, OutsideRender, vars, stateVars, extractVars, userVars,
       messageVars
  <2> QED BY <2>1
<1> QED BY <1>1, <1>2, <1>3, <1>4, Zenon DEF Next, Running

\* A seek ends with its request consumed, and where it was asked to unless
\* av_seek_frame() failed (Player.cpp 317-329): the first seek() and each later one
\* that is not called while another is under way, when no start() is called meanwhile.
THEOREM SeekArrives == Spec => ResumesWhereAsked
<1>1. Init => SeekInv /\ RequestInv /\ StartInv
  BY DEF Init, RequestInv, StartInv, StartPending, SeekInv, SeekOnce, SeekQueued, SeekPending,
     ExtractSeeking
<1>2. ThreadsInv /\ StartInv /\ [Next]_vars =>
        [ mState = "SEEKING" /\ mState' = "PLAYING" /\ overlap = {}
          => mSeekTime = -1 /\ (position = calls.seek \/ seekFailed) ]_vars
  <2> SUFFICES ASSUME ThreadsInv, StartInv, Next, mState = "SEEKING", mState' = "PLAYING", overlap = {}
               PROVE  mSeekTime = -1 /\ (position = calls.seek \/ seekFailed)
    OBVIOUS
  <2>1. MessageStep
    <3>1. MessageStep \/ UNCHANGED mState
      BY UserFrame, ExtractFrame, DecodeFrame, Zenon DEF Next, Running, UserOnly,
         DecodeOnly, OutsideRender, stateVars
    <3> QED BY <3>1
  <2>2. messagePc = "kWhatStart"
    BY <2>1, HandlerMoves DEF ThreadsInv, QuietMove, StartMove, PauseMove, SeekMove,
       FlushMove
  <2> QED BY <2>2 DEF StartInv, StartPending, Handled
<1> QED BY <1>1, <1>2, ThreadsInvariant, NextSeekInv, NextRequestInv, NextStartInv, PTL DEF Spec,
   ResumesWhereAsked

-----------------------------------------------------------------------------
(* Where the player comes to rest *)

\* Where the message thread holds mStateMutex.
Locking == {"createExtract", "createVideo", "createAudio", "unlock", "abortVideo",
            "abortAudio", "stopDecoders"}

\* mStateMutex: who holds it has something to do.
LockInv ==
    /\ stateLock = "message" <=> messagePc \in Locking
    /\ extractPc \in {"seeked", "post"} => stateLock = "extract"
    /\ stateLock = "extract" => extractPc \in {"seeked", "post", "crashed"}

\* Every step keeps mStateMutex with the thread that goes on to release it.
LEMMA NextLockInv == ThreadsInv /\ LockInv /\ [Next]_vars => LockInv'
<1> SUFFICES ASSUME ThreadsInv, LockInv, [Next]_vars PROVE LockInv'
  OBVIOUS
<1>0. /\ messagePc \in MessagePcs /\ stateLock \in {"free", "message", "extract"}
      /\ mMessageQueue \in Seq({"kWhatStart", "kWhatPause", "kWhatSeek"})
  BY DEF ThreadsInv, TypeInv, PlayerTypeOK
<1> USE DEF LockInv, Locking
<1>1. CASE UserCall \/ UserStep \/ OutsideRender \/ UNCHANGED vars
  <2>1. UNCHANGED <<stateLock, messagePc, extractPc>>
    BY <1>1, UserFrame, Zenon DEF UserOnly, OutsideRender, vars, stateVars, messageVars,
       extractVars
  <2> QED BY <2>1
<1>2. CASE MessageStep
  <2>1. CASE TakeMessage
    <3>1. messagePc' \in {"kWhatStart", "kWhatPause", "kWhatSeek"} /\ messagePc = "acquire"
      BY <1>0, <2>1, HeadTailProperties DEF TakeMessage
    <3> QED BY <2>1, <3>1 DEF TakeMessage, stateVars
  <2>2. CASE LeaveMessageThread \/ IgnoreSeek \/ JoinDecoders
    BY <2>2 DEF LeaveMessageThread, IgnoreSeek, JoinDecoders, JoinDecoder, GoTo, stateVars,
       HandlerOnly
  <2>3. CASE BeginStart
    <3>1. /\ stateLock = "free" /\ stateLock' = "message" /\ UNCHANGED extractPc
          /\ messagePc' \in {"createExtract", "createVideo"}
      BY <2>3, Zenon DEF BeginStart, Lock, GoTo, HandlerOnly
    <3> QED BY <3>1
  <2>4. CASE CreateExtract
    <3>1. extractPc = "none" /\ extractPc' = "open"
      BY <2>4 DEF CreateExtract, GoTo, ThreadsInv, ThreadInv
    <3> QED BY <2>4, <3>1 DEF CreateExtract, GoTo, stateVars
  <2>5. CASE CreateDecoders
    BY <2>5 DEF CreateDecoders, CreateDecoder, GoTo, Unlock
  <2>6. CASE BeginPause \/ EndPause \/ BeginSeek
    BY <2>6 DEF BeginPause, EndPause, BeginSeek, GoTo, Lock, Unlock, HandlerOnly
  <2>7. CASE AbortPipeline \/ StopDecoders
    BY <2>7 DEF AbortPipeline, AbortPackets, StopDecoders, GoTo, Unlock, stateVars
  <2>8. CASE FlushCodecs
    <3>1. /\ messagePc = "flushCodecs" /\ messagePc' \in {"acquire", "crashed"}
          /\ UNCHANGED <<stateLock, extractPc>>
      BY <2>8, Zenon DEF FlushCodecs, GoTo, HandlerOnly, stateVars
    <3> QED BY <3>1
  <2> QED BY <1>2, <2>1, <2>2, <2>3, <2>4, <2>5, <2>6, <2>7, <2>8, Zenon DEF MessageStep
<1>3. CASE ExtractStep
  <2>1. UNCHANGED messagePc
    BY <1>3, ExtractFrame, Zenon
  <2>2. CASE ExtractSeek
    <3>1. /\ stateLock = "free" /\ extractPc = "seek"
          /\ \/ stateLock' = "extract" /\ extractPc' \in {"seeked", "crashed"}
             \/ UNCHANGED stateLock /\ extractPc' \in {"wait", "read"}
      BY <2>2 DEF ExtractSeek, AwaitSeekEnd
    <3> QED BY <2>1, <3>1
  <2>3. CASE ExtractSeeked \/ ExtractPosts
    BY <2>1, <2>3 DEF ExtractSeeked, ExtractPosts
  <2>4. CASE ~ExtractSeek /\ ~ExtractSeeked /\ ~ExtractPosts
    <3>1. UNCHANGED stateLock
      BY <1>3, <2>4, Zenon DEF ExtractStep, OpenFile, ExtractTop, ExtractWoken, ReadPacket,
         PushPacket, ExtractOnly
    <3>2. extractPc \notin {"seeked", "post", "crashed"} /\ extractPc' \notin {"seeked", "post", "crashed"}
      BY <1>3, <2>4 DEF ExtractStep, OpenFile, ExtractTop, ExtractWoken, AwaitSeekEnd,
         ReadPacket, PushPacket
    <3> QED BY <2>1, <3>1, <3>2
  <2> QED BY <2>2, <2>3, <2>4
<1>4. ASSUME NEW m \in Media, DecodeStep(m) PROVE LockInv'
  BY <1>4, DecodeFrame DEF DecodeOnly, extractVars, messageVars
<1> QED BY <1>1, <1>2, <1>3, <1>4, Zenon DEF Next, Running

\* Who sleeps on mStateCv waits for a state that has not come: every change of
\* mState wakes them (Player.cpp 165, 207).
SleepInv ==
    /\ \A m \in Media : m \in sleepers => mState = "PAUSED"
    /\ "extract" \in sleepers => mState = "SEEKING"

\* Every step keeps the sleepers in a state they wait to leave.
LEMMA NextSleepInv == ThreadsInv /\ SleepInv /\ [Next]_vars => SleepInv'
<1> SUFFICES ASSUME ThreadsInv, SleepInv, [Next]_vars PROVE SleepInv'
  OBVIOUS
<1>0. /\ TypeInv /\ ControlInv /\ sleepers \subseteq Media \cup {"extract"}
      /\ mState \in {"UNINITIALIZED", "PLAYING", "SEEKING", "PAUSED"}
  BY DEF ThreadsInv, TypeInv, PlayerTypeOK
<1> USE DEF SleepInv
<1>1. CASE UserCall \/ UserStep
  <2>1. UNCHANGED mState
    BY <1>1, UserFrame, Zenon DEF UserOnly
  <2>2. sleepers' \in {{}, sleepers}
    BY <1>1, Zenon DEF UserCall, UserStep, UserStart, UserPause, UserPosts,
       UserSetsSeekTime,
       UserPostsSeek, Destroy, CallOnly, JoinMessage, JoinExtract, JoinVideo, JoinAudio,
       TellDecoder, NotifyState
  <2> QED BY <2>1, <2>2
<1>2. CASE MessageStep
  <2>1. CASE BeginStart
    <3>1. \/ sleepers' = {}
          \/ UNCHANGED sleepers /\ mState \in {"UNINITIALIZED", "PLAYING"}
      BY <2>1, Zenon DEF BeginStart, NotifyState
    <3> QED BY <3>1 DEF Media
  <2>2. CASE BeginPause \/ BeginSeek
    <3>1. UNCHANGED sleepers /\ (mState = "PLAYING" \/ UNCHANGED mState)
      BY <2>2, Zenon DEF BeginPause, BeginSeek
    <3> QED BY <3>1
  <2>3. CASE ~BeginStart /\ ~BeginPause /\ ~BeginSeek
    <3>1. UNCHANGED mState /\ sleepers' \in {{}, sleepers}
      BY <1>2, <2>3, Zenon DEF MessageStep, TakeMessage, LeaveMessageThread, CreateExtract,
         CreateDecoders, CreateDecoder, EndPause, IgnoreSeek, AbortPipeline, AbortPackets,
         StopDecoders, NotifyState, JoinDecoders, JoinDecoder, FlushCodecs, stateVars
    <3> QED BY <3>1
  <2> QED BY <2>1, <2>2, <2>3
<1>3. CASE ExtractStep
  <2>1. UNCHANGED mState
    BY <1>3, ExtractFrame, Zenon
  <2>2. \/ UNCHANGED sleepers
        \/ mState = "SEEKING" /\ sleepers' = sleepers \cup {"extract"}
    BY <1>3, Zenon DEF ExtractStep, OpenFile, ExtractTop, ExtractSeek, ExtractSeeked,
       ExtractPosts, ExtractWoken, ReadPacket, PushPacket, AwaitSeekEnd
  <2> QED BY <2>1, <2>2 DEF Media
<1>4. ASSUME NEW m \in Media, DecodeStep(m) PROVE SleepInv'
  <2>1. UNCHANGED mState
    BY <1>4, DecodeFrame, Zenon DEF DecodeOnly
  <2>2. \/ UNCHANGED sleepers
        \/ mState = "PAUSED" /\ sleepers' = sleepers \cup {m}
    BY <1>4, Zenon DEF DecodeStep, DecodeTop, DecodeWait, DecodePop, ReceiveFrame,
       PushFrame,
       EndPacket
  <2> QED BY <2>1, <2>2 DEF Media
<1>5. CASE OutsideRender \/ UNCHANGED vars
  <2>1. UNCHANGED <<mState, sleepers>>
    BY <1>5, Zenon DEF OutsideRender, vars, stateVars
  <2> QED BY <2>1
<1> QED BY <1>1, <1>2, <1>3, <1>4, <1>5, Zenon DEF Next, Running

\* A decoder thread is told to leave, and leaves, only in a seek and in the
\* destructor; it leaves by itself only when its packet queue is aborted.
ExitInv ==
    \A m \in Media : decodePc[m] # "none" /\ (decodeExit[m] \/ decodePc[m] = "done") =>
        mState = "SEEKING" \/ userPc \in {"joinVideo", "joinAudio", "gone"}

\* Every step keeps the decoder threads from leaving while the player plays.
LEMMA NextExitInv == ThreadsInv /\ ExitInv /\ [Next]_vars => ExitInv'
<1> SUFFICES ASSUME ThreadsInv, ExitInv, [Next]_vars PROVE ExitInv'
  OBVIOUS
<1>0. /\ TypeInv /\ ControlInv /\ DecoderInv
      /\ mState \in {"UNINITIALIZED", "PLAYING", "SEEKING", "PAUSED"}
      /\ decodePc \in [Media -> {"none", "top", "wait", "pop", "decode", "push", "done"}]
      /\ decodeExit \in [Media -> BOOLEAN]
  BY DEF ThreadsInv, TypeInv, PlayerTypeOK
<1> USE DEF ExitInv
<1>1. CASE UserCall \/ UserStep
  <2>1. UNCHANGED <<mState, decodePc>>
    BY <1>1, UserFrame, Zenon DEF UserOnly
  <2>2. \/ userPc' \in {"joinVideo", "joinAudio", "gone"}
        \/ UNCHANGED decodeExit /\ userPc \notin {"joinVideo", "joinAudio", "gone"}
    BY <1>1 DEF UserCall, UserStep, UserStart, UserPause, UserPosts, UserSetsSeekTime,
       UserPostsSeek, Destroy, CallOnly, JoinMessage, JoinExtract, JoinVideo, JoinAudio
  <2> QED BY <2>1, <2>2
<1>2. CASE MessageStep
  <2>1. UNCHANGED userPc
    BY <1>2, MessageFrame, Zenon DEF MessageOnly, userVars
  <2>2. CASE BeginStart
    <3>1. /\ UNCHANGED <<decodePc, decodeExit>> /\ mState' = "PLAYING"
          /\ messagePc = "kWhatStart"
      BY <2>2, Zenon DEF BeginStart, GoTo, HandlerOnly
    <3>2. mState = "SEEKING" => \A m \in Media : decodePc[m] = "none"
      BY <1>0, <3>1 DEF DecoderInv, Emptying
    <3> QED BY <2>1, <3>1, <3>2
  <2>3. ASSUME NEW m \in Media, CreateDecoder(m), mState' = mState PROVE ExitInv'
    <3>1. \A n \in Media : decodePc'[n] = decodePc[n] \/ (n = m /\ decodePc'[n] = "top" /\ decodePc[n] = "none")
      BY <1>0, <2>3 DEF CreateDecoder
    <3>2. \A n \in Media : decodeExit'[n] => decodeExit[n]
      BY <1>0, <2>3, Zenon DEF CreateDecoder
    <3>3. decodeExit'[m] => decodePc[m] # "none"
      BY <1>0, <2>3, Zenon DEF CreateDecoder
    <3> QED BY <2>1, <2>3, <3>1, <3>2, <3>3
  <2>4. CASE CreateDecoders
    <3>1. (CreateDecoder("video") \/ CreateDecoder("audio")) /\ mState' = mState
      BY <2>4, Zenon DEF CreateDecoders, CreateDecoder
    <3> QED BY <2>3, <3>1 DEF Media
  <2>5. CASE BeginPause \/ BeginSeek
    <3>1. /\ UNCHANGED <<decodePc, decodeExit>> /\ (mState = "PLAYING" \/ UNCHANGED mState)
      BY <2>5, Zenon DEF BeginPause, BeginSeek, HandlerOnly
    <3> QED BY <2>1, <3>1
  <2>6. CASE StopDecoders
    BY <1>0, <2>6 DEF StopDecoders, GoTo, ControlInv, Emptying
  <2>7. CASE JoinDecoders
    <3>1. /\ UNCHANGED <<mState, decodeExit>> /\ messagePc \in Emptying
      BY <2>7 DEF JoinDecoders, JoinDecoder, GoTo, stateVars, Emptying
    <3> QED BY <1>0, <3>1 DEF ControlInv
  <2>8. CASE TakeMessage \/ LeaveMessageThread \/ CreateExtract \/ EndPause \/ IgnoreSeek
             \/ AbortPipeline \/ FlushCodecs
    <3>1. UNCHANGED <<mState, decodePc, decodeExit>>
      BY <2>8, Zenon DEF TakeMessage, LeaveMessageThread, CreateExtract, EndPause,
         IgnoreSeek,
         AbortPipeline, AbortPackets, FlushCodecs, HandlerOnly, stateVars
    <3> QED BY <2>1, <3>1
  <2> QED BY <1>2, <2>2, <2>4, <2>5, <2>6, <2>7, <2>8, Zenon DEF MessageStep
<1>3. CASE ExtractStep \/ OutsideRender \/ UNCHANGED vars
  <2>1. UNCHANGED <<mState, decodePc, decodeExit, userPc>>
    BY <1>3, ExtractFrame, Zenon DEF OutsideRender, vars, stateVars, decodeVars, userVars
  <2> QED BY <2>1
<1>4. ASSUME NEW m \in Media, DecodeStep(m) PROVE ExitInv'
  <2>1. UNCHANGED <<mState, decodeExit, userPc, packetAbort, messagePc>>
    BY <1>4, DecodeFrame, Zenon DEF DecodeOnly, userVars, messageVars
  <2>2. \A n \in Media : n # m => decodePc'[n] = decodePc[n]
    BY <1>0, <1>4, DecodeMoves
  <2>3. decodePc[m] # "none" /\ decodePc[m] # "done"
    BY <1>4, DecodeMoves
  <2>4. decodePc'[m] = "done" => decodeExit[m] \/ packetAbort[m]
    BY <1>0, <1>4 DEF DecodeStep, DecodeTop, DecodeWait, DecodePop, ReceiveFrame, PushFrame,
       EndPacket
  <2>5. packetAbort[m] => mState = "SEEKING"
    BY <1>0, <2>3 DEF DecoderInv, Runs, Reopens, Creating, Media
  <2> QED BY <2>1, <2>2, <2>3, <2>4, <2>5
<1> QED BY <1>1, <1>2, <1>3, <1>4, Zenon DEF Next, Running

\* The message thread is told to leave by the destructor only.
LeaveInv == /\ mMessageThreadExit <=> userPc \notin {"idle", "seek"}
            /\ messagePc = "done" => mMessageThreadExit

\* Every step keeps the message thread running until the destructor.
LEMMA NextLeaveInv == ThreadsInv /\ LeaveInv /\ [Next]_vars => LeaveInv'
<1> SUFFICES ASSUME ThreadsInv, LeaveInv, [Next]_vars PROVE LeaveInv'
  OBVIOUS
<1>0. /\ mMessageQueue \in Seq({"kWhatStart", "kWhatPause", "kWhatSeek"})
      /\ messagePc \in MessagePcs /\ mMessageThreadExit \in BOOLEAN
  BY DEF ThreadsInv, TypeInv, PlayerTypeOK
<1> USE DEF LeaveInv
<1>1. CASE UserCall \/ UserStep
  <2>1. UNCHANGED messagePc
    BY <1>1, UserFrame, Zenon DEF UserOnly
  <2>2. \/ userPc \in {"idle", "seek"} /\ userPc' \in {"idle", "seek"} /\ UNCHANGED mMessageThreadExit
        \/ userPc = "idle" /\ userPc' = "joinMessage" /\ mMessageThreadExit'
        \/ /\ userPc \notin {"idle", "seek"} /\ userPc' \notin {"idle", "seek"}
           /\ UNCHANGED mMessageThreadExit
    BY <1>1 DEF UserCall, UserStep, UserStart, UserPause, UserPosts, UserSetsSeekTime,
       UserPostsSeek, Destroy, JoinMessage, JoinExtract, JoinVideo, JoinAudio, TellDecoder,
       JoinOnly
  <2> QED BY <2>1, <2>2
<1>2. CASE MessageStep
  <2>1. UNCHANGED <<userPc, mMessageThreadExit>>
    BY <1>2, MessageFrame, Zenon DEF MessageOnly, userVars
  <2>2. messagePc' = "done" => mMessageThreadExit
    <3>1. CASE TakeMessage
      BY <1>0, <3>1, HeadTailProperties DEF TakeMessage
    <3>2. CASE LeaveMessageThread
      BY <3>2 DEF LeaveMessageThread
    <3>3. CASE ~TakeMessage /\ ~LeaveMessageThread
      BY <1>2, <3>3 DEF MessageStep, BeginStart, CreateExtract, CreateDecoders, BeginPause,
         EndPause, IgnoreSeek, BeginSeek, AbortPipeline, StopDecoders, JoinDecoders,
         FlushCodecs, GoTo
    <3> QED BY <3>1, <3>2, <3>3
  <2> QED BY <2>1, <2>2
<1>3. CASE ExtractStep \/ (\E m \in Media : DecodeStep(m)) \/ OutsideRender \/ UNCHANGED vars
  <2>1. UNCHANGED <<userPc, mMessageThreadExit, messagePc>>
    BY <1>3, ExtractFrame, DecodeFrame, Zenon DEF DecodeOnly, OutsideRender, vars,
       messageVars,
       userVars
  <2> QED BY <2>1
<1> QED BY <1>1, <1>2, <1>3, Zenon DEF Next, Running

\* A player that is paused, or past the flush of a seek, has a Render that is
\* paused, even when the device once did not open: its callback is out, and stays
\* out until start() has unpaused the device.
QuietInv ==
    /\ /\ mState \in {"PAUSED", "SEEKING"} /\ messagePc \notin {"abortVideo", "abortAudio"}
       /\ renderCall = "none" /\ userPc # "gone"
       => mPaused /\ (mAudioDevID => devicePaused) /\ callback = "out"
    /\ renderCall \in {"unpauseNew", "unpause"} => devicePaused /\ callback = "out"

\* A player that plays, with a Render that is not paused, has a running device and
\* open frame queues, even when the device once did not open.
RunInv ==
    userPc # "gone" =>
      /\ mState = "PLAYING" /\ renderCall = "none" /\ mAudioDevID /\ ~mPaused =>
           ~devicePaused /\ \A m \in Media : ~frameAbort[m]
      /\ renderCall \in {"spawn", "initAudio", "initVideo", "resume"} => ~devicePaused
      /\ renderCall \in {"initVideo", "resume"} => ~frameAbort["audio"]
      /\ renderCall = "resume" => ~frameAbort["video"]
      /\ renderCall \in {"open", "unpauseNew", "spawn"} /\ ~mPaused => \A m \in Media : ~frameAbort[m]

\* Every step keeps Render quiet in a pause, and running in a player that plays.
LEMMA NextQuietInv ==
    ThreadsInv /\ DeviceInv /\ PauseInv /\ QuietInv /\ RunInv /\ [Next]_vars => QuietInv' /\ RunInv'
<1> SUFFICES ASSUME ThreadsInv, DeviceInv, PauseInv, QuietInv, RunInv, [Next]_vars
             PROVE  QuietInv' /\ RunInv'
  OBVIOUS
<1>0. /\ TypeInv /\ ControlInv
      /\ renderCall \in CallSteps /\ frameAbort \in [Media -> BOOLEAN]
      /\ mState \in {"UNINITIALIZED", "PLAYING", "SEEKING", "PAUSED"}
  BY DEF ThreadsInv, TypeInv, PlayerTypeOK, RenderTypeOK
<1> USE DEF QuietInv, RunInv
<1>1. CASE UserCall \/ UserStep
  <2>1. UNCHANGED <<mState, messagePc, mAudioDevID, callback, devicePaused, mPaused, frameAbort>>
    BY <1>1, UserMoves, Zenon DEF UserOnly, renderState, deviceVars
  <2> QED BY <1>1, <2>1, UserMoves
<1>2. CASE MessageStep
  <2>1. UNCHANGED <<userPc, mAudioDevID, callback, devicePaused, mPaused, frameAbort>>
    BY <1>2, MessageFrame, Zenon DEF MessageOnly, userVars, renderState, deviceVars
  <2>2. /\ StartEntry \in {"open", "unpause"}
        /\ StartEntry = "open" <=> ~mAudioDevID
    <3>1. mAudioDevID \in BOOLEAN
      BY <1>0 DEF TypeInv, PlayerTypeOK, RenderTypeOK
    <3> QED BY <3>1 DEF StartEntry
  <2>3. userPc # "gone"
    <3>1. messagePc # "done"
      BY <1>2 DEF MessageStep, TakeMessage, LeaveMessageThread, BeginStart, CreateExtract,
        CreateDecoders, BeginPause, EndPause, IgnoreSeek, BeginSeek,
        AbortPipeline, StopDecoders, JoinDecoders, FlushCodecs, GoTo
    <3> QED BY <1>0, <3>1 DEF ControlInv
  <2>4. CASE QuietMove
    BY <2>1, <2>4 DEF QuietMove
  <2>5. CASE StartMove
    BY <1>0, <2>1, <2>2, <2>3, <2>5 DEF StartMove, DeviceInv
  <2>6. CASE PauseMove
    BY <2>1, <2>6 DEF PauseMove
  <2>7. CASE SeekMove
    BY <2>1, <2>7 DEF SeekMove
  <2>8. CASE FlushMove
    BY <1>0, <2>1, <2>8 DEF FlushMove, ControlInv, Emptying
  <2> QED BY <1>0, <1>2, <2>4, <2>5, <2>6, <2>7, <2>8, HandlerMoves
<1>3. CASE RenderStep /\ OutsideRender
  <2>1. UNCHANGED <<mState, messagePc, userPc>>
    BY <1>3, Zenon DEF OutsideRender, stateVars, messageVars, userVars
  <2>2. CASE CallbackBegin \/ CallbackDequeue \/ RenderThread
    <3>1. UNCHANGED <<frameAbort, mAudioDevID, devicePaused, mPaused, renderCall>>
      BY <2>2, RenderThreadFrame, Zenon DEF CallbackBegin, CallbackDequeue, deviceVars
    <3>2. callback' = "dequeue" => (mAudioDevID /\ ~devicePaused) \/ callback = "dequeue"
      BY <2>2, RenderThreadFrame, Zenon DEF CallbackBegin, CallbackDequeue
    <3>3. callback' \in {"out", "dequeue"}
      BY <1>0, <2>2, RenderThreadFrame DEF CallbackBegin, CallbackDequeue, TypeInv,
         PlayerTypeOK,
         RenderTypeOK
    <3> QED BY <2>1, <3>1, <3>2, <3>3
  <2>3. renderCall \in StartSteps => mState = "PLAYING"
    BY <1>0 DEF ControlInv, Creating
  <2>5. CASE OpenDevice
    <3>1. mState = "PLAYING" /\ ~mAudioDevID /\ callback = "out"
      BY <2>3, <2>5 DEF OpenDevice, StartSteps, DeviceInv
    <3> QED BY <2>1, <2>5, <3>1 DEF OpenDevice
  <2>6. CASE CreateRenderThread \/ Resume
    <3>1. mState = "PLAYING"
      BY <2>3, <2>6 DEF CreateRenderThread, Resume, GoOn, StartSteps
    <3> QED BY <2>1, <2>6, <3>1 DEF CreateRenderThread, Resume, GoOn, deviceVars, Media
  <2>7. CASE UnpauseDevice \/ PauseDevice
    <3>1. \/ renderCall = "unpauseNew" /\ renderCall' = "spawn" /\ (mAudioDevID => ~devicePaused')
          \/ renderCall = "unpause" /\ renderCall' = "initAudio" /\ (mAudioDevID => ~devicePaused')
          \/ renderCall = "pauseDevice" /\ renderCall' = "clearClock"
      BY <2>7, Zenon DEF UnpauseDevice, PauseDevice, SetDevicePaused, GoOn
    <3>2. UNCHANGED <<mAudioDevID, callback, mPaused, frameAbort>>
      BY <2>7, Zenon DEF UnpauseDevice, PauseDevice, SetDevicePaused
    <3> QED BY <2>1, <3>1, <3>2 DEF DeviceInv, StartSteps
  <2>8. CASE InitQueues
    <3>1. mState = "PLAYING"
      BY <2>3, <2>8 DEF InitQueues, InitFrames, GoOn, StartSteps
    <3> QED BY <1>0, <2>1, <2>8, <3>1 DEF InitQueues, InitFrames, GoOn, deviceVars, Media
  <2>9. CASE ClearClock
    BY <2>1, <2>9 DEF ClearClock, GoOn, deviceVars
  <2>10. CASE SetPaused
    BY <2>1, <2>10 DEF SetPaused, GoOn, deviceVars, PauseInv
  <2>11. CASE AbortQueues
    <3>1. \/ renderCall \in {"abortAudio", "abortVideo"} /\ mState = "SEEKING" 
          \/ userPc = "gone"
      BY <1>0, <2>11 DEF AbortQueues, AbortQueue, GoOn, ControlInv, FlushSteps, StopSteps,
         Emptying
    <3>2. renderCall' \in {"abortVideo", "pauseDevice", "stopVideo", "exit"}
      BY <2>11, Zenon DEF AbortQueues, AbortQueue, GoOn, PauseEntry
    <3> QED BY <2>1, <3>1, <3>2
  <2>12. CASE CloseDevice \/ RequestRenderExit \/ JoinRender
    <3>1. userPc = "gone" /\ renderCall' \in {"stopAudio", "joinRender", "destroyed"}
      BY <1>0, <2>12 DEF CloseDevice, RequestRenderExit, JoinRender, GoOn, ControlInv,
         StopSteps
    <3> QED BY <2>1, <3>1
  <2> QED BY <1>3, <2>2, <2>5, <2>6, <2>7, <2>8, <2>9, <2>10, <2>11, <2>12, Zenon DEF
     RenderStep, RenderCaller
<1>4. CASE ExtractStep \/ (\E m \in Media : DecodeStep(m)) \/ UNCHANGED vars
  BY <1>4, PipelineFrame
<1> QED BY <1>1, <1>2, <1>3, <1>4, Zenon DEF Next, Running

\* The render thread: there once the device is open, told to leave by the
\* destructor only, after the queue it waits on is aborted (Render.cpp 50-58).
RenderThreadInv ==
    /\ mAudioDevID /\ renderCall \notin {"unpauseNew", "spawn"} => renderPc # "none"
    /\ mRenderThreadExit => renderCall \in {"joinRender", "destroyed"}
    /\ renderPc = "done" => mRenderThreadExit
    /\ renderCall = "exit" => frameAbort["video"]
    /\ renderCall = "joinRender" => frameAbort["video"]

\* Every step keeps the render thread running until the destructor.
LEMMA NextRenderThreadInv == ThreadsInv /\ DeviceInv /\ RenderThreadInv /\ [Next]_vars => RenderThreadInv'
<1> SUFFICES ASSUME ThreadsInv, DeviceInv, RenderThreadInv, [Next]_vars PROVE RenderThreadInv'
  OBVIOUS
<1>0. /\ TypeInv /\ ControlInv
      /\ renderCall \in CallSteps /\ frameAbort \in [Media -> BOOLEAN] /\ mRenderThreadExit \in BOOLEAN
  BY DEF ThreadsInv, TypeInv, PlayerTypeOK, RenderTypeOK
<1> USE DEF RenderThreadInv
<1>1. CASE UserCall \/ UserStep
  <2>1. UNCHANGED <<mAudioDevID, renderPc, mRenderThreadExit, frameAbort>>
    BY <1>1, UserMoves, Zenon DEF UserOnly, renderState, deviceVars
  <2>2. renderCall = "unpauseNew" \/ renderCall = "spawn" \/ renderCall \in {"joinRender", "destroyed"}
          => UNCHANGED renderCall
    BY <1>0, <1>1, UserMoves DEF ControlInv, StartSteps, StopSteps, Creating
  <2> QED BY <1>1, <2>1, <2>2, UserMoves
<1>2. CASE MessageStep
  <2>1. UNCHANGED <<mAudioDevID, renderPc, mRenderThreadExit, frameAbort>>
    BY <1>2, MessageFrame, Zenon DEF MessageOnly, renderState, deviceVars
  <2>2. StartEntry \in {"open", "unpause"}
    BY DEF StartEntry
  <2>3. \/ UNCHANGED renderCall
        \/ renderCall = "none" /\ renderCall' \in {"open", "unpause", "pauseDevice", "abortAudio"}
    BY <1>0, <1>2, <2>2, HandlerMoves DEF QuietMove, StartMove, PauseMove, SeekMove,
       FlushMove
  <2> QED BY <2>1, <2>3
<1>3. CASE RenderStep /\ OutsideRender
  <2>2. CASE CallbackBegin \/ CallbackDequeue
    BY <2>2 DEF CallbackBegin, CallbackDequeue, deviceVars
  <2>3. CASE RenderThread
    <3>1. renderPc # "none" /\ renderPc' # "none"
          /\ (renderPc' = "done" => renderPc = "done" \/ mRenderThreadExit)
      BY <2>3 DEF RenderThread, RenderTop, RenderWait, RenderDequeue, RenderShow
    <3>2. UNCHANGED mRenderThreadExit
      BY <2>3, Zenon DEF RenderThread, RenderTop, RenderWait, RenderDequeue, RenderShow
    <3> QED BY <2>3, <3>1, <3>2, RenderThreadFrame
  <2>5. CASE OpenDevice
    BY <2>5 DEF OpenDevice, DeviceInv
  <2>6. CASE CreateRenderThread \/ Resume
    BY <2>6 DEF CreateRenderThread, Resume, GoOn, deviceVars
  <2>7. CASE UnpauseDevice \/ PauseDevice
    <3>1. \/ renderCall = "unpauseNew" /\ renderCall' = "spawn"
          \/ renderCall = "unpause" /\ renderCall' = "initAudio"
          \/ renderCall = "pauseDevice" /\ renderCall' = "clearClock"
      BY <2>7, Zenon DEF UnpauseDevice, PauseDevice, SetDevicePaused, GoOn
    <3>2. UNCHANGED <<mAudioDevID, renderPc, mRenderThreadExit, frameAbort>>
      BY <2>7, Zenon DEF UnpauseDevice, PauseDevice, SetDevicePaused
    <3> QED BY <3>1, <3>2
  <2>8. CASE InitQueues
    <3>1. renderCall \in {"initAudio", "initVideo"} /\ renderCall' \in {"initVideo", "resume"}
          /\ UNCHANGED <<mAudioDevID, renderPc, mRenderThreadExit>>
      BY <2>8, Zenon DEF InitQueues, InitFrames, GoOn, deviceVars
    <3> QED BY <3>1
  <2>9. CASE ClearClock \/ SetPaused
    BY <2>9 DEF ClearClock, SetPaused, GoOn, deviceVars
  <2>11. CASE AbortQueues
    <3>1. /\ renderCall \in {"abortAudio", "abortVideo", "stopAudio", "stopVideo"}
          /\ renderCall' \in {"abortVideo", "pauseDevice", "stopVideo", "exit"}
          /\ UNCHANGED <<mAudioDevID, renderPc, mRenderThreadExit>>
      BY <2>11, Zenon DEF AbortQueues, AbortQueue, GoOn, PauseEntry, deviceVars
    <3>2. renderCall' = "exit" => frameAbort'["video"]
      BY <1>0, <2>11 DEF AbortQueues, AbortQueue, AbortFrames, GoOn, PauseEntry, Media
    <3> QED BY <3>1, <3>2
  <2>12. CASE CloseDevice
    BY <2>12 DEF CloseDevice, GoOn
  <2>13. CASE RequestRenderExit \/ JoinRender
    <3>1. /\ renderCall' \in {"joinRender", "destroyed"} /\ renderCall \in {"exit", "joinRender"}
          /\ UNCHANGED <<mAudioDevID, renderPc, frameAbort>>
      BY <2>13, Zenon DEF RequestRenderExit, JoinRender, GoOn, renderState, deviceVars
    <3>2. mRenderThreadExit => mRenderThreadExit'
      BY <2>13, Zenon DEF RequestRenderExit, JoinRender, renderState
    <3> QED BY <3>1, <3>2
  <2> QED BY <1>3, <2>2, <2>3, <2>5, <2>6, <2>7, <2>8, <2>9, <2>11, <2>12, <2>13, Zenon DEF
     RenderStep, RenderCaller
<1>4. CASE ExtractStep \/ (\E m \in Media : DecodeStep(m)) \/ UNCHANGED vars
  <2>1. UNCHANGED mRenderThreadExit
    BY <1>4, ExtractFrame, DecodeFrame, Zenon DEF renderVars, renderState, vars
  <2> QED BY <1>4, <2>1, PipelineFrame
<1> QED BY <1>1, <1>2, <1>3, <1>4, Zenon DEF Next, Running

\* The inductive invariant of a player at rest.
RestInv == /\ LockInv /\ SleepInv /\ ExitInv /\ LeaveInv
           /\ QuietInv /\ RunInv /\ RenderThreadInv /\ SeekInv

\* Locks, sleepers, requests to leave, the device and the seek agree always.
LEMMA RestInvariant == Spec => [](PlaybackInv /\ NoLostResume /\ RestInv)
<1>1. Init => RestInv
  <2> SUFFICES ASSUME Init PROVE RestInv
    OBVIOUS
  <2>1. LockInv /\ SleepInv /\ LeaveInv
    BY DEF Init, LockInv, Locking, SleepInv, LeaveInv
  <2>2. ExitInv
    BY DEF Init, ExitInv
  <2>3. QuietInv /\ RunInv /\ RenderThreadInv
    BY DEF Init, RenderInit, QuietInv, RunInv, RenderThreadInv
  <2>4. SeekInv
    BY DEF Init, SeekInv, SeekOnce, SeekQueued, SeekPending, ExtractSeeking
  <2> QED BY <2>1, <2>2, <2>3, <2>4 DEF RestInv
<1>2. PlaybackInv /\ RestInv /\ [Next]_vars => RestInv'
  BY NextLockInv, NextSleepInv, NextExitInv, NextLeaveInv, NextQuietInv,
     NextRenderThreadInv,
     NextSeekInv, Zenon DEF PlaybackInv, RestInv
<1> QED BY <1>1, <1>2, PlaybackInvariant, PTL DEF Spec

\* Nobody else waits for mStateMutex while the message thread waits outside of it.
LEMMA LockFree ==
    ASSUME PlaybackInv, RestInv, Waiting, messagePc \notin Locking
    PROVE  ~LockTaken
<1>1. stateLock \in {"free", "message", "extract"}
  BY DEF PlaybackInv, ThreadsInv, TypeInv, PlayerTypeOK
<1>2. extractPc \notin {"seeked", "post", "crashed"}
  BY DEF Waiting, ExtractWaits, Crashed
<1> QED BY <1>1, <1>2 DEF RestInv, LockInv, LockTaken

\* A decoder thread that waits while its queues are aborted is asleep in a pause, or
\* has ended.
LEMMA AbortedDecoders ==
    ASSUME PlaybackInv, RestInv, Waiting, ~LockTaken, mState = "SEEKING",
           NEW m \in Media, packetAbort[m], frameAbort[m]
    PROVE  decodePc[m] \in {"none", "done"}
<1>1. DecodeWaits(m) /\ m \notin sleepers
  BY DEF Waiting, RestInv, SleepInv
<1> QED BY <1>1 DEF DecodeWaits

\* The message thread is stuck only in SDL_PauseAudioDevice.
LEMMA HandlerRestsWhy ==
    ASSUME PlaybackInv, RestInv, Waiting
    PROVE  HandlerRests
<1> SUFFICES ASSUME messagePc \notin {"acquire", "done"} PROVE HandlerRests
  BY DEF HandlerRests
<1>0. /\ ThreadsInv /\ ControlInv /\ DecoderInv /\ messagePc \in MessagePcs /\ renderCall \in CallSteps
      /\ frameQ \in [Media -> Seq(Frames)]
  BY DEF PlaybackInv, ThreadsInv, TypeInv, PlayerTypeOK, RenderTypeOK
<1>1. /\ messagePc # "crashed"
      /\ userPc \notin {"joinExtract", "joinVideo", "joinAudio", "gone"}
  BY <1>0 DEF Waiting, Crashed, ControlInv
<1>2. CASE renderCall # "none"
  <2>1. /\ renderCall \in {"unpauseNew", "unpause", "pauseDevice"} /\ callback # "out"
    BY <1>0, <1>1, <1>2 DEF Waiting, RenderCallWaits, ControlInv, StopSteps
  <2>2. renderCall = "pauseDevice" /\ messagePc \in {"unlock", "stopDecoders"}
    BY <1>0, <2>1 DEF RestInv, QuietInv, ControlInv, PauseSteps
  <2>3. callback = "dequeue" /\ ~frameAbort["audio"] /\ frameQ["audio"] = <<>>
    BY <2>1 DEF Waiting, CallbackWaits
  <2>4. messagePc = "unlock"
    BY <2>2, <2>3 DEF PlaybackInv, FrameInv
  <2>5. decodePc["audio"] \notin {"none", "done"}
    <3>1. mState = "PAUSED"
      BY <1>0, <2>4 DEF ControlInv
    <3>2. Runs("audio")
      BY <1>0, <2>4, <3>1 DEF DecoderInv, Creating, Media
    <3> QED BY <1>1, <3>1, <3>2 DEF Runs, RestInv, ExitInv, Media
  <2>6. DecodeWaits("audio")
    BY DEF Waiting, Media
  <2>7. decodePc["audio"] \in {"wait", "pop"}
    <3>1. Len(frameQ["audio"]) # FrameMax
      BY <2>3, RenderAssumption
    <3> QED BY <2>5, <2>6, <3>1 DEF DecodeWaits
  <2> QED BY <2>2, <2>3, <2>4, <2>7 DEF HandlerRests, PauseEntry
<1>3. CASE renderCall = "none"
  <2>1. ~LockTaken
    <3>1. messagePc \notin Locking
      BY <1>3, <1>1 DEF Waiting, MessageWaits, Locking
    <3> QED BY <3>1, LockFree
  <2>2. \/ messagePc = "seekJoinVideo" /\ decodePc["video"] # "done"
        \/ messagePc = "seekJoinAudio" /\ decodePc["audio"] # "done"
    BY <1>3, <1>1, <2>1 DEF Waiting, MessageWaits
  <2>3. mState = "SEEKING" /\ \A m \in Media : packetAbort[m] /\ frameAbort[m]
    <3>1. mState = "SEEKING"
      BY <1>0, <2>2 DEF ControlInv, Emptying
    <3>2. \A m \in Media : packetAbort[m]
      BY <1>0, <2>2, <3>1 DEF DecoderInv, Media
    <3>3. \A m \in Media : frameAbort[m]
      BY <2>2, <3>1 DEF PlaybackInv, FrameInv
    <3> QED BY <3>1, <3>2, <3>3
  <2>4. \A m \in Media : decodePc[m] \in {"none", "done"}
    BY <2>1, <2>3, AbortedDecoders
  <2> QED BY <1>0, <2>2, <2>4 DEF DecoderInv, Media
<1> QED BY <1>2, <1>3

\* In a seek that nobody overlaps, only an extract thread that has ended lets
\* everyone wait.
LEMMA SeekRestsWhy ==
    ASSUME PlaybackInv, RestInv, Waiting
    PROVE  SeekRests
<1> SUFFICES ASSUME mState = "SEEKING", userPc = "idle", extractPc # "done", "seek" \notin overlap
             PROVE  FALSE
  BY DEF SeekRests
<1>0. /\ ControlInv /\ DecoderInv /\ ThreadInv /\ calls.seek \in Nat /\ packetFor \in Media
      /\ mMessageQueue \in Seq({"kWhatStart", "kWhatPause", "kWhatSeek"})
  BY DEF PlaybackInv, ThreadsInv, TypeInv, PlayerTypeOK
<1>1. messagePc = "acquire"
  <2>1. messagePc # "done"
    BY DEF RestInv, LeaveInv
  <2>2. messagePc # "unlock"
    BY <1>0 DEF ControlInv
  <2> QED BY <2>1, <2>2, HandlerRestsWhy DEF HandlerRests
<1>2. ~StartPending
  BY <1>0, <1>1 DEF Waiting, MessageWaits, StartPending
<1>3. ~LockTaken
  BY <1>1, LockFree DEF Locking
<1>4. packetAbort[packetFor]
  BY <1>0, <1>1 DEF DecoderInv, Media
<1>5. extractPc # "none"
  BY <1>0, <1>1 DEF ThreadInv
<1>6. extractPc = "wait"
  BY <1>3, <1>4, <1>5 DEF Waiting, ExtractWaits
<1> QED BY <1>0, <1>2, <1>6 DEF RestInv, SeekInv

\* A player that plays on an open device, with a Render that is not paused, waits
\* only when the file has ended.
LEMMA PlaybackRestsWhy ==
    ASSUME PlaybackInv, NoLostResume, RestInv, Waiting
    PROVE  PlaybackRests
<1> SUFFICES ASSUME Settled, mState = "PLAYING", userPc = "idle",
                    ~(openFailed /\ (~mAudioDevID \/ mPaused))
             PROVE  extractPc = "done"
  BY DEF PlaybackRests
<1>0. /\ messagePc = "acquire" /\ renderCall = "none" /\ ControlInv /\ DecoderInv /\ ThreadInv
      /\ packetFor \in Media
  BY DEF PlaybackInv, ThreadsInv, TypeInv, PlayerTypeOK, Settled
<1>1. mAudioDevID /\ ~mPaused
  BY <1>0 DEF PlaybackInv, DeviceInv, AgreeInv
<1>2. ~devicePaused /\ \A m \in Media : ~frameAbort[m]
  BY <1>0, <1>1 DEF RestInv, RunInv
<1>3. frameQ["audio"] = <<>>
  BY <1>0, <1>1, <1>2 DEF Waiting, CallbackWaits
<1>4. frameQ["video"] = <<>>
  <2>1. renderPc \notin {"none", "done", "asleep"}
    BY <1>0, <1>1 DEF RestInv, RenderThreadInv, NoLostResume
  <2> QED BY <2>1 DEF Waiting, RenderThreadWaits
<1>5. ~LockTaken
  BY <1>0, LockFree DEF Locking
<1>6. ASSUME NEW m \in Media PROVE packetQ[m] = <<>>
  <2>1. Runs(m)
    BY <1>0 DEF DecoderInv, Creating
  <2>2. decodePc[m] \notin {"none", "done"}
    BY <2>1 DEF Runs, RestInv, ExitInv
  <2>3. Len(frameQ[m]) # FrameMax /\ m \notin sleepers
    <3>1. frameQ[m] = <<>>
      BY <1>3, <1>4 DEF Media
    <3> QED BY <3>1, RenderAssumption DEF RestInv, SleepInv
  <2> QED BY <1>5, <2>2, <2>3 DEF Waiting, DecodeWaits
<1>7. Len(packetQ[packetFor]) # PacketMax /\ "extract" \notin sleepers /\ extractPc # "none"
  <2>1. packetQ[packetFor] = <<>>
    BY <1>0, <1>6
  <2> QED BY <1>0, <2>1, PlayerAssumption DEF RestInv, SleepInv, ThreadInv
<1> QED BY <1>5, <1>7 DEF Waiting, ExtractWaits

\* The destructor waits for ever in the known places only.
LEMMA DestructorRestsWhy ==
    ASSUME PlaybackInv, RestInv, Waiting
    PROVE  DestructorRests
<1>0. ControlInv /\ userPc # "seek" /\ UserWaits
  BY DEF PlaybackInv, ThreadsInv, Waiting, UserWaits
<1>1. CASE userPc = "joinMessage"
  <2>1. messagePc \notin {"acquire", "done"}
    BY <1>0, <1>1 DEF Waiting, UserWaits, MessageWaits, RestInv, LeaveInv
  <2> QED BY <1>1, <2>1, HandlerRestsWhy DEF HandlerRests, DestructorRests
<1>2. CASE userPc = "joinExtract"
  <2>1. ~LockTaken
    BY <1>0, <1>2, LockFree DEF ControlInv, Locking
  <2> QED BY <1>0, <1>2, <2>1 DEF Waiting, UserWaits, ExtractWaits, DestructorRests
<1>3. CASE userPc \in {"joinVideo", "joinAudio"}
  <2>1. DecodeWaits("video") /\ DecodeWaits("audio")
    BY DEF Waiting, Media
  <2> QED BY <1>0, <1>3, <2>1 DEF UserWaits, DecodeWaits, DestructorRests
<1>4. CASE userPc = "gone"
  <2>1. renderCall \in StopSteps
    BY <1>0, <1>4 DEF ControlInv
  <2>2. \/ renderCall = "destroyed"
        \/ renderCall = "close" /\ callback = "dequeue"
        \/ renderCall = "joinRender" /\ renderPc = "asleep"
    BY <2>1 DEF StopSteps, Waiting, RenderCallWaits, CallbackWaits, RenderThreadWaits,
       RestInv,
       RenderThreadInv
  <2> QED BY <1>4, <2>2 DEF DestructorRests
<1> QED BY <1>0, <1>1, <1>2, <1>3, <1>4 DEF UserWaits, DestructorRests

\* When everyone waits, for whatever file, capacities and calls, the player is where
\* AtRest says: it plays to the end of the file, a seek ends, a handler is stuck in a
\* pause only, the destructor in the known joins.  So if, as the runs check, nothing
\* can move only where everyone waits, the player rests in these places only.
THEOREM PlayerRests ==
    Spec => /\ [](Waiting => AtRest)
            /\ [](Stopped => Waiting) => []RestsKnown
<1>1. PlaybackInv /\ NoLostResume /\ RestInv => (Waiting => AtRest)
  BY HandlerRestsWhy, SeekRestsWhy, PlaybackRestsWhy, DestructorRestsWhy DEF AtRest
<1>2. (Waiting => AtRest) /\ (Stopped => Waiting) => RestsKnown
  BY Zenon DEF RestsKnown
<1> QED BY <1>1, <1>2, RestInvariant, PTL
=============================================================================
