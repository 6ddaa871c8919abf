------------------------------- MODULE Render -------------------------------
(***************************************************************************)
(* Render (vp/Render.cpp): the end of the playback pipeline.  Decoded      *)
(* frames wait in one queue per medium.  The SDL audio device calls        *)
(* sdlAudioCallback, which takes the next audio frame and sets the clock;  *)
(* the render thread takes the next video frame and shows it.  A caller    *)
(* (the player's message thread, or the destructor) starts, pauses and     *)
(* flushes; renderCall is the place it has reached in such a call.         *)
(*                                                                         *)
(* The queues are the BoundedChannel that CountingQueue implements: a push *)
(* or pop waits in its guard.                                              *)
(*                                                                         *)
(* The SDL device is external.  It runs the callback in a thread of its    *)
(* own, under a device lock, while the device is open and not paused;      *)
(* SDL_PauseAudioDevice takes that lock, and SDL_CloseAudioDevice lets no  *)
(* further callback begin and waits for the one under way.                 *)
(***************************************************************************)
EXTENDS Naturals, Sequences

CONSTANTS Frames,         \* what distinguishes frames for the caller
          FrameMax,       \* capacity of a frame queue: 10 in the code
          DeviceMayFail   \* whether SDL_OpenAudioDevice can fail

ASSUME RenderAssumption == FrameMax \in Nat \ {0} /\ DeviceMayFail \in BOOLEAN

Media == {"video", "audio"}

VARIABLES frameQ,             \* mVideoBufferQueue, mAudioBufferQueue
          frameAbort,         \* their abort flags
          mAudioDevID,        \* the device is open (its ID is not 0)
          devicePaused,       \* the device is paused (external)
          callback,           \* "out", or "dequeue" inside sdlAudioCallback
          mAudioClock,        \* "zero", "pts" of a frame, or "garbage"
          mPaused,
          renderPc,           \* the render thread
          frame,              \* what it holds: no frame or one
          mRenderThreadExit,
          renderCall,         \* where the caller is inside Render
          openFailed          \* an attempt to open the device failed

deviceVars == <<mAudioDevID, devicePaused, openFailed>>
renderState == <<frameQ, frameAbort, deviceVars, callback, mAudioClock, mPaused,
                 renderPc, frame, mRenderThreadExit>>
renderVars == <<renderState, renderCall>>

RenderInit == /\ frameQ = [m \in Media |-> <<>>]
              /\ frameAbort = [m \in Media |-> FALSE]
              /\ mAudioDevID = FALSE
              /\ devicePaused = TRUE
              /\ callback = "out"
              /\ mAudioClock = "zero"
              /\ mPaused = FALSE
              /\ renderPc = "none"
              /\ frame = <<>>
              /\ mRenderThreadExit = FALSE
              /\ renderCall = "none"
              /\ openFailed = FALSE

-----------------------------------------------------------------------------
(* The frame queues *)

\* queueVideoBuffer(), queueAudioBuffer() by a decoder thread.
QueueFrame(m, f) == /\ frameAbort[m] \/ Len(frameQ[m]) < FrameMax
                    /\ frameQ' = IF frameAbort[m] THEN frameQ
                                 ELSE [frameQ EXCEPT ![m] = Append(@, f)]
                    /\ UNCHANGED <<frameAbort, deviceVars, callback, mAudioClock,
                                   mPaused, renderPc, frame, mRenderThreadExit,
                                   renderCall>>

AbortFrames(m) == /\ frameQ' = [frameQ EXCEPT ![m] = <<>>]
                  /\ frameAbort' = [frameAbort EXCEPT ![m] = TRUE]

-----------------------------------------------------------------------------
(* sdlAudioCallback() *)

CallbackBegin == /\ mAudioDevID /\ ~devicePaused /\ callback = "out"
                 /\ renderCall # "close"
                 /\ callback' = "dequeue"
                 /\ UNCHANGED <<frameQ, frameAbort, deviceVars, mAudioClock,
                                mPaused, renderPc, frame, mRenderThreadExit,
                                renderCall>>

\* Mutant: the callback does not wait for a frame.
CallbackDequeueTries ==
    /\ callback = "dequeue"
    /\ IF frameQ["audio"] = <<>>
       THEN UNCHANGED frameQ /\ mAudioClock' = "garbage"
       ELSE /\ frameQ' = [frameQ EXCEPT !["audio"] = Tail(@)]
            /\ mAudioClock' = "pts"
    /\ callback' = "out"
    /\ UNCHANGED <<frameAbort, deviceVars, mPaused, renderPc, frame,
                   mRenderThreadExit, renderCall>>

\* When the queue is aborted the packet has its default contents, and the
\* clock is computed from an uninitialized pts and time base.
CallbackDequeue == /\ callback = "dequeue"
                   /\ frameAbort["audio"] \/ frameQ["audio"] # <<>>
                   /\ IF frameAbort["audio"]
                      THEN UNCHANGED frameQ /\ mAudioClock' = "garbage"
                      ELSE /\ frameQ' = [frameQ EXCEPT !["audio"] = Tail(@)]
                           /\ mAudioClock' = "pts"
                   /\ callback' = "out"
                   /\ UNCHANGED <<frameAbort, deviceVars, mPaused, renderPc,
                                  frame, mRenderThreadExit, renderCall>>

-----------------------------------------------------------------------------
(* renderThread() *)

\* The first test of mPaused, without the lock.
RenderTop == /\ renderPc = "top"
             /\ renderPc' = IF mRenderThreadExit THEN "done"
                            ELSE IF mPaused THEN "wait" ELSE "dequeue"
             /\ UNCHANGED <<frameQ, frameAbort, deviceVars, callback, mAudioClock,
                            mPaused, frame, mRenderThreadExit, renderCall>>

\* mStateCv.wait(lock, !mPaused): lock and test, or sleep.
RenderWait == /\ renderPc = "wait"
              /\ renderPc' = IF mPaused THEN "asleep" ELSE "dequeue"
              /\ UNCHANGED <<frameQ, frameAbort, deviceVars, callback, mAudioClock,
                             mPaused, frame, mRenderThreadExit, renderCall>>

RenderDequeue == /\ renderPc = "dequeue"
                 /\ frameAbort["video"] \/ frameQ["video"] # <<>>
                 /\ IF frameAbort["video"]
                    THEN renderPc' = "top" /\ UNCHANGED <<frameQ, frame>>
                    ELSE /\ frame' = <<Head(frameQ["video"])>>
                         /\ frameQ' = [frameQ EXCEPT !["video"] = Tail(@)]
                         /\ renderPc' = "show"
                 /\ UNCHANGED <<frameAbort, deviceVars, callback, mAudioClock,
                                mPaused, mRenderThreadExit, renderCall>>

\* Wait for the frame's time and hand it to the widget.
RenderShow == /\ renderPc = "show"
              /\ frame' = <<>>
              /\ renderPc' = "top"
              /\ UNCHANGED <<frameQ, frameAbort, deviceVars, callback, mAudioClock,
                             mPaused, mRenderThreadExit, renderCall>>

RenderThread == RenderTop \/ RenderWait \/ RenderDequeue \/ RenderShow

-----------------------------------------------------------------------------
(* The calls of the player.  Each begins outside (renderCall = "none") by    *)
(* setting renderCall to the first of its steps, and ends outside.           *)

StartEntry == IF mAudioDevID THEN "unpause" ELSE "open"
PauseEntry == "pauseDevice"
\* Mutant: flush() pauses the device before it aborts the queue the callback
\* may wait on.
FlushPausesFirst == PauseEntry

FlushEntry == "abortAudio"
DestroyEntry == IF mAudioDevID THEN "close" ELSE "stopAudio"

\* The caller moves from one step of a call to the next one.
GoOn(from, to) == renderCall = from /\ renderCall' = to

\* start(), device not open: it is opened (paused), unpaused, and the render
\* thread is created.  mPaused and the queues are left as they are.
OpenDevice == /\ renderCall = "open"
              /\ \/ /\ DeviceMayFail
                    /\ renderCall' = "none"
                    /\ openFailed' = TRUE
                    /\ UNCHANGED <<mAudioDevID, devicePaused>>
                 \/ /\ renderCall' = "unpauseNew"
                    /\ mAudioDevID' = TRUE
                    /\ devicePaused' = TRUE
                    /\ UNCHANGED openFailed
              /\ UNCHANGED <<frameQ, frameAbort, callback, mAudioClock, mPaused,
                             renderPc, frame, mRenderThreadExit>>

CreateRenderThread == /\ GoOn("spawn", "none")
                      /\ renderPc' = "top"
                      /\ UNCHANGED <<frameQ, frameAbort, deviceVars, callback,
                                     mAudioClock, mPaused, frame,
                                     mRenderThreadExit>>

\* SDL_PauseAudioDevice waits for a callback under way (external).  With no
\* open device it does nothing.
SetDevicePaused(from, to, value) ==
    /\ GoOn(from, to)
    /\ mAudioDevID => callback = "out"
    /\ devicePaused' = (IF mAudioDevID THEN value ELSE devicePaused)
    /\ UNCHANGED <<frameQ, frameAbort, mAudioDevID, openFailed, callback,
                   mAudioClock, mPaused, renderPc, frame, mRenderThreadExit>>

UnpauseDevice == \/ SetDevicePaused("unpauseNew", "spawn", FALSE)
                 \/ SetDevicePaused("unpause", "initAudio", FALSE)
PauseDevice == SetDevicePaused("pauseDevice", "clearClock", TRUE)

\* start(), device open: the queues are reopened after the device runs again.
InitFrames(from, m, to) ==
    /\ GoOn(from, to)
    /\ frameAbort' = [frameAbort EXCEPT ![m] = FALSE]
    /\ UNCHANGED <<frameQ, deviceVars, callback, mAudioClock, mPaused, renderPc,
                   frame, mRenderThreadExit>>

InitQueues == \/ InitFrames("initAudio", "audio", "initVideo")
              \/ InitFrames("initVideo", "video", "resume")

\* Mutant: start() clears mPaused without mStateCv.notify_all().
ResumeSilently == /\ GoOn("resume", "none")
                  /\ mPaused' = FALSE
                  /\ UNCHANGED <<frameQ, frameAbort, deviceVars, callback,
                                 mAudioClock, renderPc, frame, mRenderThreadExit>>

Resume == /\ GoOn("resume", "none")
          /\ mPaused' = FALSE
          /\ renderPc' = IF renderPc = "asleep" THEN "wait" ELSE renderPc
          /\ UNCHANGED <<frameQ, frameAbort, deviceVars, callback, mAudioClock,
                         frame, mRenderThreadExit>>

\* Mutant: the clock keeps running on the pts of the last frame.
ClockKept == /\ GoOn("clearClock", "setPaused")
             /\ UNCHANGED renderState

\* pause(), after the device.
ClearClock == /\ GoOn("clearClock", "setPaused")
              /\ mAudioClock' = "zero"
              /\ UNCHANGED <<frameQ, frameAbort, deviceVars, callback, mPaused,
                             renderPc, frame, mRenderThreadExit>>

SetPaused == /\ GoOn("setPaused", "none")
             /\ mPaused' = TRUE
             /\ UNCHANGED <<frameQ, frameAbort, deviceVars, callback, mAudioClock,
                            renderPc, frame, mRenderThreadExit>>

\* flush() aborts and then pauses; stop() closes the device and then aborts.
AbortQueue(from, m, to) ==
    /\ GoOn(from, to)
    /\ AbortFrames(m)
    /\ UNCHANGED <<deviceVars, callback, mAudioClock, mPaused, renderPc, frame,
                   mRenderThreadExit>>

AbortQueues == \/ AbortQueue("abortAudio", "audio", "abortVideo")
               \/ AbortQueue("abortVideo", "video", PauseEntry)
               \/ AbortQueue("stopAudio", "audio", "stopVideo")
               \/ AbortQueue("stopVideo", "video", "exit")

CloseDevice == /\ GoOn("close", "stopAudio")
               /\ callback = "out"
               /\ mAudioDevID' = FALSE
               /\ UNCHANGED <<frameQ, frameAbort, devicePaused, openFailed,
                              callback, mAudioClock, mPaused, renderPc, frame,
                              mRenderThreadExit>>

\* ~Render() after stop(): ask the render thread to leave and join it.
RequestRenderExit == /\ GoOn("exit", "joinRender")
                     /\ mRenderThreadExit' = (mRenderThreadExit \/ renderPc # "none")
                     /\ UNCHANGED <<frameQ, frameAbort, deviceVars, callback,
                                    mAudioClock, mPaused, renderPc, frame>>

JoinRender == /\ GoOn("joinRender", "destroyed")
              /\ renderPc \in {"none", "done"}
              /\ UNCHANGED renderState

RenderCaller == \/ OpenDevice \/ CreateRenderThread \/ UnpauseDevice \/ InitQueues
                \/ Resume \/ PauseDevice \/ ClearClock \/ SetPaused \/ AbortQueues
                \/ CloseDevice \/ RequestRenderExit \/ JoinRender

\* What Render does by itself once it is called.
RenderStep == CallbackBegin \/ CallbackDequeue \/ RenderThread \/ RenderCaller

-----------------------------------------------------------------------------
CallSteps == {"none", "open", "unpauseNew", "spawn", "unpause", "initAudio",
              "initVideo", "resume", "abortAudio", "abortVideo", "pauseDevice",
              "clearClock", "setPaused", "close", "stopAudio", "stopVideo",
              "exit", "joinRender", "destroyed"}

\* Types, the capacity of the queues included.
RenderTypeOK == /\ frameQ \in [Media -> Seq(Frames)]
                /\ \A m \in Media : Len(frameQ[m]) <= FrameMax
                /\ frameAbort \in [Media -> BOOLEAN]
                /\ mAudioDevID \in BOOLEAN
                /\ devicePaused \in BOOLEAN
                /\ callback \in {"out", "dequeue"}
                /\ mAudioClock \in {"zero", "pts", "garbage"}
                /\ mPaused \in BOOLEAN
                /\ renderPc \in {"none", "top", "wait", "asleep", "dequeue",
                                 "show", "done"}
                /\ frame \in Seq(Frames)
                /\ mRenderThreadExit \in BOOLEAN
                /\ renderCall \in CallSteps
                /\ openFailed \in BOOLEAN

\* After pause() or flush() returned, and until start(), the device is silent:
\* no callback runs or can begin, and the clock stays cleared (lines 121-124;
\* a callback that ended after line 122 would set it again).  Not so after a
\* failed attempt to open the device: the start() that succeeds later leaves
\* mPaused as it was (lines 60-96).
PauseIsSilent ==
    renderCall = "none" /\ mPaused /\ ~openFailed =>
        /\ mAudioDevID => devicePaused
        /\ callback = "out"
        /\ mAudioClock = "zero"

\* The render thread sleeps only while Render is paused: start() does not miss
\* a thread that is on its way to sleep (lines 264-267, 104-106).
NoLostResume == renderPc = "asleep" => mPaused
=============================================================================
