-------------------------- MODULE PlayerProperties --------------------------
(***************************************************************************)
(* What makes Player correct: the agreement between the player's state,    *)
(* its threads, its queues and Render; what a seek promises; and where the *)
(* player, its handlers and its destructor can come to a stop.             *)
(***************************************************************************)
EXTENDS Player

MessagePcs == {"acquire", "kWhatStart", "kWhatPause", "kWhatSeek", "createExtract",
               "createVideo", "createAudio", "unlock", "abortVideo", "abortAudio",
               "stopDecoders", "seekJoinVideo", "seekJoinAudio", "flushCodecs",
               "done", "crashed"}

\* Types, the capacity of the packet queues included.
PlayerTypeOK ==
    /\ RenderTypeOK
    /\ mState \in {"UNINITIALIZED", "PLAYING", "SEEKING", "PAUSED"}
    /\ stateLock \in {"free", "message", "extract"}
    /\ sleepers \subseteq Media \cup {"extract"}
    /\ mSeekTime \in -1..MaxSeek
    /\ mMessageQueue \in Seq({"kWhatStart", "kWhatPause", "kWhatSeek"})
    /\ mMessageThreadExit \in BOOLEAN
    /\ messagePc \in MessagePcs
    /\ mExtractThreadExit \in BOOLEAN
    /\ extractPc \in {"none", "open", "top", "seek", "seeked", "post", "wait",
                      "read", "push", "done", "crashed"}
    /\ packetFor \in Media
    /\ position \in 0..MaxSeek
    /\ seekFailed \in BOOLEAN
    /\ packetQ \in [Media -> Seq(0..MaxSeek)]
    /\ \A m \in Media : Len(packetQ[m]) <= PacketMax
    /\ packetAbort \in [Media -> BOOLEAN]
    /\ context \in [Media -> BOOLEAN]
    /\ decodePc \in [Media -> {"none", "top", "wait", "pop", "decode", "push",
                               "done"}]
    /\ decoding \in [Media -> Seq(0..MaxSeek)]
    /\ decodeExit \in [Media -> BOOLEAN]
    /\ userPc \in {"idle", "seek", "joinMessage", "joinExtract", "joinVideo",
                   "joinAudio", "gone"}
    /\ calls \in [{"start", "pause", "seek"} -> Nat]
    /\ overlap \subseteq {"start", "seek"}

\* No message is being handled, and Render is not being called.
Settled == messagePc = "acquire" /\ renderCall = "none"

-----------------------------------------------------------------------------
(* Threads *)

\* What handlers and threads use without a test exists: the decoder threads
\* handleSeek() joins (lines 208, 212), the codec contexts the extract thread
\* opens and decoder threads work with (lines 421, 500).
ObjectsExistWhenUsed ==
    /\ messagePc \in {"stopDecoders", "seekJoinVideo"} => decodePc["video"] # "none"
    /\ messagePc \in {"stopDecoders", "seekJoinVideo", "seekJoinAudio"} =>
           decodePc["audio"] # "none"
    /\ \A m \in Media : decodePc[m] \in {"decode", "push"} => context[m]

\* avcodec_flush_buffers() does not meet a decoder thread that uses the same
\* context (lines 217-218), and no decoder thread runs until the next start.
CodecsFlushedAlone ==
    messagePc = "flushCodecs" => \A m \in Media : decodePc[m] = "none"

\* The null pointers of handleSeek() and of the extract thread (lines 217, 218,
\* 323) are met only when a seek comes before the file is open, when it could
\* not be opened, or when it has not both media.
CrashesKnown ==
    Crashed => extractPc \in {"open", "done"} \/ FileStreams # Media

\* When a message has been handled, the player's state, its threads and queues
\* and Render agree (unless the audio device could once not be opened).
StateAgrees ==
    Settled /\ ~openFailed /\ userPc # "gone" =>
        CASE mState = "UNINITIALIZED" -> ~mAudioDevID /\ extractPc = "none"
          [] mState = "PLAYING" ->
               /\ mAudioDevID /\ ~devicePaused /\ ~mPaused
               /\ \A m \in Media : ~packetAbort[m] /\ ~frameAbort[m] /\ decodePc[m] # "none"
          [] mState = "PAUSED" ->
               /\ mAudioDevID /\ devicePaused /\ mPaused
               /\ \A m \in Media : ~packetAbort[m] /\ ~frameAbort[m] /\ decodePc[m] # "none"
          [] mState = "SEEKING" ->
               /\ mAudioDevID /\ devicePaused /\ mPaused
               /\ \A m \in Media : packetAbort[m] /\ frameAbort[m] /\ decodePc[m] = "none"

\* The clock pictures wait for is a frame's, or cleared (Render.cpp 19-21): the
\* callback computes one from an uninitialized packet only when a seek has
\* aborted its queue, which start() reopens after it let the device run (lines
\* 101-103), and in the destructor.
ClockFromFrames ==
    mAudioClock = "garbage" => calls.seek > 0 \/ userPc # "idle"

-----------------------------------------------------------------------------
(* Seeking *)

\* After a seek, every packet and frame in the queues and in the hands of the
\* decoder threads comes from the place the file is read at: what was read
\* before the seek is gone from there, so whatever the audio callback and the
\* render thread take from then on is fresh.  Not so the picture the render
\* thread holds while it waits for its time (Render.cpp 279-286): flush() does
\* not reach it, and it is shown after the seek.
OnlyFreshData ==
    mState # "SEEKING" =>
        \A m \in Media : \A s \in {packetQ[m], decoding[m], frameQ[m]} :
            \A i \in DOMAIN s : s[i] = position

\* A seek ends with its request consumed, and where it was asked to unless
\* av_seek_frame() failed, which nobody looks at (Player.cpp 324).  This holds
\* for the first seek() and for each later one, but not for one that is called
\* while another is under way, nor when a start() is called meanwhile.
ResumesWhereAsked ==
    [][ mState = "SEEKING" /\ mState' = "PLAYING" /\ overlap = {}
        => mSeekTime = -1 /\ (position = calls.seek \/ seekFailed) ]_vars

\* No packet is dropped while the player plays: only during a seek, and while
\* the handler of the start that ends it has not reopened the queue yet.
NothingDroppedWhilePlaying ==
    [][ (\E m \in Media : packetFor = m /\ packetAbort[m]
                          /\ extractPc = "push" /\ extractPc' = "top")
        => \/ mState = "SEEKING"
           \/ messagePc \in {"createVideo", "createAudio"} ]_vars

\* A seek ends when the extract thread is there to end it, unless it was called
\* while another one was under way.
SeekEnds == mState = "SEEKING" ~> \/ mState # "SEEKING"
                                  \/ extractPc = "done"
                                  \/ "seek" \in overlap
                                  \/ Crashed

-----------------------------------------------------------------------------
(* Starting and stopping *)

\* Every handler returns: what handleSeek() joins was released before,
\* handleStart() waits for no audio callback.  Only handlePause() may not: it
\* can wait in SDL_PauseAudioDevice for a callback that waits for a frame.
HandlersReturn ==
    messagePc \in {"kWhatStart", "kWhatPause", "kWhatSeek"} ~>
        \/ messagePc = "acquire" \/ Crashed
        \/ renderCall = PauseEntry /\ callback = "dequeue"

\* Nothing moves unless the user calls.
Stopped == /\ ~Crashed
           /\ ~ENABLED (\/ UserStep \/ MessageStep \/ ExtractStep
                        \/ \E m \in Media : DecodeStep(m)
                        \/ RenderStep /\ OutsideRender)

\* While the player plays, its threads, each waiting for a neighbour's queue,
\* never all wait for each other: the pipeline runs until the file ends.  It
\* stalls when the audio device could once not be opened: without a device nothing
\* takes frames out, and a start() that opens it later leaves a Render paused that
\* a pause() in between paused (Render.cpp 60-96), so that the render thread sleeps.
PlaybackRests ==
    Settled /\ mState = "PLAYING" /\ userPc = "idle" =>
        extractPc = "done" \/ (openFailed /\ (~mAudioDevID \/ mPaused))

\* A player in SEEKING comes to rest only when the extract thread has ended
\* (lines 352-355), or when seek() was called while another one was under way:
\* handled before the extract thread has left its wait for the end of the first
\* (line 329), the second sends it back to sleep with its request unread.
SeekRests ==
    mState = "SEEKING" /\ userPc = "idle" => extractPc = "done" \/ "seek" \in overlap

\* The message thread is stuck in one place only: in SDL_PauseAudioDevice, for
\* a callback that waits for an audio frame nobody is going to produce, since
\* the decoder waits for mStateMutex, for the state or for a packet.
HandlerRests ==
    messagePc \notin {"acquire", "done"} =>
        /\ messagePc = "unlock" /\ renderCall = PauseEntry
        /\ callback = "dequeue" /\ frameQ["audio"] = <<>> /\ ~frameAbort["audio"]
        /\ decodePc["audio"] \in {"wait", "pop"}

\* The destructor either comes to its end or waits for ever for
\*   the message thread stuck in pause,
\*   the extract thread in a push to a full queue or in a wait for the seek,
\*   a decoder thread in a pop, a push or asleep on the state,
\*   the callback that waits for a frame while the device is closed, or
\*   the render thread that sleeps paused.
DestructorRests ==
    userPc # "idle" =>
        CASE userPc = "joinMessage" -> renderCall = PauseEntry
          [] userPc = "joinExtract" -> extractPc \in {"push", "wait"}
          [] userPc = "joinVideo" -> decodePc["video"] \in {"pop", "push", "wait"}
          [] userPc = "joinAudio" -> decodePc["audio"] \in {"pop", "push", "wait"}
          [] OTHER -> \/ renderCall = "destroyed"
                      \/ renderCall = "close" /\ callback = "dequeue"
                      \/ renderCall = "joinRender" /\ renderPc = "asleep"

\* What holds each of them up: the user's thread and the destructor,
LockTaken == stateLock # "free"

UserWaits ==
    \/ userPc \in {"idle", "gone"}
    \/ userPc = "joinMessage" /\ messagePc # "done"
    \/ userPc = "joinExtract" /\ extractPc \notin {"none", "done"}
    \/ userPc = "joinVideo" /\ decodePc["video"] \notin {"none", "done"}
    \/ userPc = "joinAudio" /\ decodePc["audio"] \notin {"none", "done"}

\* the message thread,
MessageWaits ==
    \/ messagePc = "done"
    \/ messagePc = "acquire" /\ ~mMessageThreadExit /\ mMessageQueue = <<>>
    \/ messagePc # "acquire" /\ renderCall # "none"
    \/ messagePc \in {"kWhatStart", "kWhatPause"} /\ LockTaken
    \/ messagePc = "kWhatSeek" /\ mState = "PLAYING" /\ LockTaken
    \/ messagePc = "seekJoinVideo" /\ decodePc["video"] # "done"
    \/ messagePc = "seekJoinAudio" /\ decodePc["audio"] # "done"

\* the extract thread,
ExtractWaits ==
    \/ extractPc \in {"none", "done"}
    \/ extractPc = "seek" /\ LockTaken
    \/ extractPc = "wait" /\ ("extract" \in sleepers \/ LockTaken)
    \/ /\ extractPc = "push"
       /\ ~packetAbort[packetFor] /\ Len(packetQ[packetFor]) = PacketMax

\* the decoder threads,
DecodeWaits(m) ==
    \/ decodePc[m] \in {"none", "done"}
    \/ decodePc[m] = "wait" /\ (m \in sleepers \/ LockTaken)
    \/ decodePc[m] = "pop" /\ ~packetAbort[m] /\ packetQ[m] = <<>>
    \/ decodePc[m] = "push" /\ ~frameAbort[m] /\ Len(frameQ[m]) = FrameMax

\* the audio callback (or SDL does not call it), the render thread,
CallbackWaits ==
    \/ callback = "dequeue" /\ ~frameAbort["audio"] /\ frameQ["audio"] = <<>>
    \/ callback = "out" /\ (~mAudioDevID \/ devicePaused \/ renderCall = "close")

RenderThreadWaits ==
    \/ renderPc \in {"none", "asleep", "done"}
    \/ renderPc = "dequeue" /\ ~frameAbort["video"] /\ frameQ["video"] = <<>>

\* and whoever is in a call of Render.
RenderCallWaits ==
    \/ renderCall \in {"none", "destroyed"}
    \/ /\ renderCall \in {"unpauseNew", "unpause", "pauseDevice"}
       /\ mAudioDevID /\ callback # "out"
    \/ renderCall = "close" /\ callback # "out"
    \/ renderCall = "joinRender" /\ renderPc \notin {"none", "done"}

\* Everyone waits.
Waiting == /\ ~Crashed
           /\ UserWaits /\ MessageWaits /\ ExtractWaits
           /\ \A m \in Media : DecodeWaits(m)
           /\ CallbackWaits /\ RenderThreadWaits /\ RenderCallWaits

\* Where the player may come to rest.
AtRest == PlaybackRests /\ SeekRests /\ HandlerRests /\ DestructorRests

\* Where the player can come to rest by itself: its threads wait for each other
\* over six queues, three condition variables, a semaphore and the device's
\* lock (lines 51-78, 184-219, 317-354).  When none of them can go on, each is
\* where Waiting says, and the player is at rest in one of the known places.
RestsKnown == Stopped => Waiting /\ AtRest
=============================================================================
