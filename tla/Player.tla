------------------------------- MODULE Player -------------------------------
(***************************************************************************)
(* Player (vp/Player.cpp) with its Render: the user's thread posts         *)
(* messages; the message thread handles them (start, pause, seek); the     *)
(* extract thread reads packets into one queue per medium; one decoder     *)
(* thread per medium turns them into frames for Render.                    *)
(*                                                                         *)
(* mMessageQueue with its semaphore is taken as a queue whose accesses are *)
(* atomic (module MessageLoop is about that); packet and frame queues are  *)
(* the BoundedChannel that CountingQueue implements.  mStateMutex is       *)
(* explicit, and so are the threads asleep on mStateCv.                    *)
(*                                                                         *)
(* A packet or frame is the place of the file it comes from: 0 before any  *)
(* seek, n after the extract thread went where the n-th seek() asked (unless *)
(* av_seek_frame() failed).                                                *)
(*                                                                         *)
(* The user makes at most MaxStart, MaxPause and MaxSeek calls.            *)
(***************************************************************************)
EXTENDS Render, Integers

CONSTANTS FileStreams,   \* the media the file has a stream of
          PacketStreams, \* those it has packets of
          PacketMax,     \* capacity of a packet queue: 10 in the code
          MaxStart, MaxPause, MaxSeek,
          MayEnd,        \* whether reading can fail or reach the end of the file
          MayDestroy,    \* whether the user destroys the player
          SeekMayFail    \* whether av_seek_frame() can fail

ASSUME PlayerAssumption == /\ PacketStreams \subseteq FileStreams
                           /\ FileStreams \subseteq Media
                           /\ PacketStreams # {} \/ MayEnd
                           /\ PacketMax \in Nat \ {0}
                           /\ {MaxStart, MaxPause, MaxSeek} \subseteq Nat
                           /\ {MayEnd, MayDestroy, SeekMayFail} \subseteq BOOLEAN
                           /\ Frames = 0..MaxSeek

VARIABLES mState,              \* State, as in Player.h
          stateLock,           \* holder of mStateMutex: "free", "message", "extract"
          sleepers,            \* threads asleep on mStateCv
          mSeekTime,           \* -1, or the place the last seek() asked for
          mMessageQueue, mMessageThreadExit,
          messagePc,           \* the message thread
          mExtractThreadExit,
          extractPc,           \* the extract thread; "none": not created
          packetFor,           \* the medium of the packet it has read
          position,            \* the place it reads at
          seekFailed,          \* the last av_seek_frame() failed
          packetQ, packetAbort,  \* mVideoInputBufferQueue, mAudioInputBufferQueue
          context,             \* mVDecContext, mADecContext: is it open?
          decodePc,            \* the decoder threads; "none": null pointer
          decoding,            \* the packet each has in hand: none or one
          decodeExit,          \* mVideoDecodeThreadExit, mAudioDecodeThreadExit
          userPc,              \* the user's thread
          calls,               \* how often it called start(), pause(), seek()
          overlap              \* which calls it made while its last seek() or the
                               \* one before was under way; the code has no such
                               \* variable and no step depends on it

stateVars == <<mState, stateLock, sleepers>>
messageVars == <<mMessageQueue, mMessageThreadExit, messagePc>>
extractVars == <<mExtractThreadExit, extractPc, packetFor, position, seekFailed>>
packetVars == <<packetQ, packetAbort>>
decodeVars == <<context, decodePc, decoding, decodeExit>>
userVars == <<userPc, calls, overlap>>
vars == <<stateVars, mSeekTime, messageVars, extractVars, packetVars, decodeVars,
          userVars, renderVars>>

Init == /\ mState = "UNINITIALIZED"
        /\ stateLock = "free"
        /\ sleepers = {}
        /\ mSeekTime = -1
        /\ mMessageQueue = <<>>
        /\ mMessageThreadExit = FALSE
        /\ messagePc = "acquire"
        /\ mExtractThreadExit = FALSE
        /\ extractPc = "none"
        /\ packetFor = "video"
        /\ position = 0
        /\ seekFailed = FALSE
        /\ packetQ = [m \in Media |-> <<>>]
        /\ packetAbort = [m \in Media |-> FALSE]
        /\ context = [m \in Media |-> FALSE]
        /\ decodePc = [m \in Media |-> "none"]
        /\ decoding = [m \in Media |-> <<>>]
        /\ decodeExit = [m \in Media |-> FALSE]
        /\ userPc = "idle"
        /\ calls = [start |-> 0, pause |-> 0, seek |-> 0]
        /\ overlap = {}
        /\ RenderInit

Post(message) == mMessageQueue' = Append(mMessageQueue, message)
NotifyState == sleepers' = {}

-----------------------------------------------------------------------------
(* The user's thread: start(), pause(), seek(), ~Player()                    *)

\* What no step of the user's thread changes, and what no call of it does.
UserOnly == UNCHANGED <<mState, stateLock, messagePc, extractPc, packetFor,
                        position, seekFailed, packetVars, decodePc, decoding,
                        renderState>>
CallOnly == /\ UserOnly
            /\ UNCHANGED <<sleepers, mExtractThreadExit, context, decodeExit,
                           renderCall>>

UserPosts(call, bound, message) ==
    /\ userPc = "idle"
    /\ calls[call] < bound
    /\ calls' = [calls EXCEPT ![call] = @ + 1]
    /\ Post(message)
    /\ UNCHANGED <<mSeekTime, mMessageThreadExit, userPc>>
    /\ CallOnly

\* A seek() has been called, and its message waits, is being handled, or has
\* brought the player or the extract thread to a state they have not left.
SeekUnderWay ==
    \/ mState = "SEEKING" \/ messagePc = "kWhatSeek"
    \/ \E i \in DOMAIN mMessageQueue : mMessageQueue[i] = "kWhatSeek"
    \/ extractPc \in {"seek", "seeked", "post", "wait"}

UserStart ==
    /\ UserPosts("start", MaxStart, "kWhatStart")
    /\ overlap' = overlap \cup {call \in {"start"} : SeekUnderWay}

UserPause ==
    /\ UserPosts("pause", MaxPause, "kWhatPause")
    /\ UNCHANGED overlap

\* seek() stores the place and posts the message in two steps.
UserSetsSeekTime ==
    /\ userPc = "idle"
    /\ calls.seek < MaxSeek
    /\ calls' = [calls EXCEPT !.seek = @ + 1]
    /\ mSeekTime' = calls.seek + 1
    /\ userPc' = "seek"
    /\ overlap' = {call \in {"seek"} : SeekUnderWay}
    /\ UNCHANGED <<mMessageQueue, mMessageThreadExit>>
    /\ CallOnly

UserPostsSeek ==
    /\ userPc = "seek"
    /\ Post("kWhatSeek")
    /\ userPc' = "idle"
    /\ UNCHANGED <<mSeekTime, mMessageThreadExit, calls, overlap>>
    /\ CallOnly

\* The destructor: each thread in turn is told to leave and joined, then the
\* members go, Render first.
Destroy ==
    /\ MayDestroy
    /\ userPc = "idle"
    /\ mMessageThreadExit' = TRUE
    /\ userPc' = "joinMessage"
    /\ UNCHANGED <<mSeekTime, mMessageQueue, calls, overlap>>
    /\ CallOnly

JoinOnly == /\ UserOnly
            /\ UNCHANGED <<mSeekTime, mMessageQueue, mMessageThreadExit, calls, overlap>>

JoinMessage ==
    /\ userPc = "joinMessage" /\ messagePc = "done"
    /\ mExtractThreadExit' = (mExtractThreadExit \/ extractPc # "none")
    /\ userPc' = "joinExtract"
    /\ UNCHANGED <<sleepers, context, decodeExit, renderCall>>
    /\ JoinOnly

TellDecoder(m) ==
    /\ decodeExit' = [decodeExit EXCEPT ![m] = @ \/ decodePc[m] # "none"]
    /\ UNCHANGED <<sleepers, mExtractThreadExit, context, renderCall>>
    /\ JoinOnly

JoinExtract ==
    /\ userPc = "joinExtract" /\ extractPc \in {"none", "done"}
    /\ userPc' = "joinVideo"
    /\ TellDecoder("video")

JoinVideo ==
    /\ userPc = "joinVideo" /\ decodePc["video"] \in {"none", "done"}
    /\ userPc' = "joinAudio"
    /\ TellDecoder("audio")

JoinAudio ==
    /\ userPc = "joinAudio" /\ decodePc["audio"] \in {"none", "done"}
    /\ context' = [context EXCEPT !["video"] = FALSE]
    /\ NotifyState
    /\ renderCall' = DestroyEntry
    /\ userPc' = "gone"
    /\ UNCHANGED <<mExtractThreadExit, decodeExit>>
    /\ JoinOnly

UserCall == UserStart \/ UserPause \/ UserSetsSeekTime \/ Destroy
UserStep == \/ UserPostsSeek
            \/ JoinMessage \/ JoinExtract \/ JoinVideo \/ JoinAudio

-----------------------------------------------------------------------------
(* messageHandleThread()                                                     *)

\* What no step of the message thread changes, and what most handlers do not.
MessageOnly == UNCHANGED <<mSeekTime, mMessageThreadExit, packetFor, position,
                           seekFailed, context, decoding, userVars, renderState>>
HandlerOnly == /\ MessageOnly
               /\ UNCHANGED <<mMessageQueue, extractPc, mExtractThreadExit,
                              packetVars, decodePc, decodeExit>>

TakeMessage ==
    /\ messagePc = "acquire"
    /\ ~mMessageThreadExit
    /\ mMessageQueue # <<>>
    /\ messagePc' = Head(mMessageQueue)
    /\ mMessageQueue' = Tail(mMessageQueue)
    /\ UNCHANGED <<stateVars, extractPc, mExtractThreadExit, packetVars, decodePc,
                   decodeExit, renderCall>>
    /\ MessageOnly

LeaveMessageThread ==
    /\ messagePc = "acquire"
    /\ mMessageThreadExit
    /\ messagePc' = "done"
    /\ UNCHANGED <<stateVars, renderCall>>
    /\ HandlerOnly

\* A handler goes on once its call of Render, if any, has returned.
GoTo(from, to) == /\ messagePc = from
                  /\ renderCall = "none"
                  /\ messagePc' = to

Lock == stateLock = "free" /\ stateLock' = "message"
Unlock == stateLock' = "free"

(* handleStart(): lock, change the state, wake who waits for it, start Render *)

BeginStart ==
    /\ Lock
    /\ \/ /\ mState = "UNINITIALIZED"
          /\ GoTo("kWhatStart", "createExtract")
          /\ mState' = "PLAYING"
          /\ renderCall' = StartEntry
          /\ UNCHANGED sleepers
       \/ /\ mState \in {"PAUSED", "SEEKING"}
          /\ GoTo("kWhatStart", "createVideo")
          /\ mState' = "PLAYING"
          /\ NotifyState
          /\ renderCall' = StartEntry
       \/ /\ mState = "PLAYING"
          /\ GoTo("kWhatStart", "createVideo")
          /\ UNCHANGED <<mState, sleepers, renderCall>>
    /\ HandlerOnly

CreateExtract ==
    /\ GoTo("createExtract", "createVideo")
    /\ mExtractThreadExit' = FALSE
    /\ extractPc' = "open"
    /\ UNCHANGED <<stateVars, mMessageQueue, packetVars, decodePc, decodeExit,
                   renderCall>>
    /\ MessageOnly

\* Mutant: the packet queue is not reopened for a new decoder thread.
CreateDecoderOnAborted(m) ==
    /\ decodeExit' = [decodeExit EXCEPT ![m] = @ /\ decodePc[m] # "none"]
    /\ decodePc' = [decodePc EXCEPT ![m] = IF @ = "none" THEN "top" ELSE @]
    /\ UNCHANGED <<mState, sleepers, mMessageQueue, extractPc, mExtractThreadExit,
                   packetVars, renderCall>>
    /\ MessageOnly

\* A decoder thread is created, and its queue reopened, if there is none.
CreateDecoder(m) ==
    /\ packetAbort' = [packetAbort EXCEPT ![m] = @ /\ decodePc[m] # "none"]
    /\ decodeExit' = [decodeExit EXCEPT ![m] = @ /\ decodePc[m] # "none"]
    /\ decodePc' = [decodePc EXCEPT ![m] = IF @ = "none" THEN "top" ELSE @]
    /\ UNCHANGED <<mState, sleepers, mMessageQueue, extractPc, mExtractThreadExit,
                   packetQ, renderCall>>
    /\ MessageOnly

CreateDecoders ==
    \/ /\ GoTo("createVideo", "createAudio")
       /\ CreateDecoder("video")
       /\ UNCHANGED stateLock
    \/ /\ GoTo("createAudio", "acquire")
       /\ CreateDecoder("audio")
       /\ Unlock

(* handlePause(): the state changes before Render is paused, under the lock  *)

\* Mutant: handlePause() does not ask for PLAYING.
BeginPauseAnyState ==
    /\ GoTo("kWhatPause", "unlock")
    /\ Lock
    /\ mState' = "PAUSED"
    /\ renderCall' = PauseEntry
    /\ UNCHANGED sleepers
    /\ HandlerOnly

BeginPause ==
    /\ \/ /\ mState = "PLAYING"
          /\ GoTo("kWhatPause", "unlock")
          /\ Lock
          /\ mState' = "PAUSED"
          /\ renderCall' = PauseEntry
       \/ /\ mState # "PLAYING"
          /\ GoTo("kWhatPause", "acquire")
          /\ stateLock = "free"
          /\ UNCHANGED <<mState, stateLock, renderCall>>
    /\ UNCHANGED sleepers
    /\ HandlerOnly

EndPause ==
    /\ GoTo("unlock", "acquire")
    /\ Unlock
    /\ UNCHANGED <<mState, sleepers, renderCall>>
    /\ HandlerOnly

(* handleSeek()                                                              *)

IgnoreSeek ==
    /\ mState # "PLAYING"
    /\ GoTo("kWhatSeek", "acquire")
    /\ UNCHANGED <<stateVars, renderCall>>
    /\ HandlerOnly

\* Mutant: handleSeek() does not ask for PLAYING.
BeginSeekAnyState ==
    /\ GoTo("kWhatSeek", "abortVideo")
    /\ Lock
    /\ mState' = "SEEKING"
    /\ UNCHANGED <<sleepers, renderCall>>
    /\ HandlerOnly

BeginSeek ==
    /\ mState = "PLAYING"
    /\ GoTo("kWhatSeek", "abortVideo")
    /\ Lock
    /\ mState' = "SEEKING"
    /\ UNCHANGED <<sleepers, renderCall>>
    /\ HandlerOnly

\* Mutant: the queue is aborted with its packets.
AbortKeepsPackets(m) ==
    /\ packetAbort' = [packetAbort EXCEPT ![m] = TRUE]
    /\ UNCHANGED <<stateVars, mMessageQueue, extractPc, mExtractThreadExit,
                   packetQ, decodePc, decodeExit>>
    /\ MessageOnly

\* Mutant: the queue is cleared, and nobody who waits on it is released.
ClearPackets(m) ==
    /\ packetQ' = [packetQ EXCEPT ![m] = <<>>]
    /\ UNCHANGED <<stateVars, mMessageQueue, extractPc, mExtractThreadExit,
                   packetAbort, decodePc, decodeExit>>
    /\ MessageOnly

AbortPackets(m) ==
    /\ packetQ' = [packetQ EXCEPT ![m] = <<>>]
    /\ packetAbort' = [packetAbort EXCEPT ![m] = TRUE]
    /\ UNCHANGED <<stateVars, mMessageQueue, extractPc, mExtractThreadExit,
                   decodePc, decodeExit>>
    /\ MessageOnly

\* Abort both packet queues, then flush Render.
AbortPipeline ==
    \/ /\ GoTo("abortVideo", "abortAudio")
       /\ AbortPackets("video")
       /\ UNCHANGED renderCall
    \/ /\ GoTo("abortAudio", "stopDecoders")
       /\ AbortPackets("audio")
       /\ renderCall' = FlushEntry

\* Out of the lock: tell the decoder threads to leave, wake everybody.
StopDecoders ==
    /\ GoTo("stopDecoders", "seekJoinVideo")
    /\ Unlock
    /\ decodeExit' = [m \in Media |-> TRUE]
    /\ NotifyState
    /\ UNCHANGED <<mState, mMessageQueue, extractPc, mExtractThreadExit,
                   packetVars, decodePc, renderCall>>
    /\ MessageOnly

JoinDecoder(m) ==
    /\ decodePc[m] = "done"
    /\ decodePc' = [decodePc EXCEPT ![m] = "none"]
    /\ UNCHANGED <<stateVars, mMessageQueue, extractPc, mExtractThreadExit,
                   packetVars, decodeExit, renderCall>>
    /\ MessageOnly

\* Mutant: only the video decoder thread is joined.
JoinVideoOnly ==
    \/ GoTo("seekJoinVideo", "seekJoinAudio") /\ JoinDecoder("video")
    \/ GoTo("seekJoinAudio", "flushCodecs") /\ UNCHANGED <<stateVars, renderCall>>
       /\ HandlerOnly

JoinDecoders ==
    \/ GoTo("seekJoinVideo", "seekJoinAudio") /\ JoinDecoder("video")
    \/ GoTo("seekJoinAudio", "flushCodecs") /\ JoinDecoder("audio")

\* avcodec_flush_buffers() of both contexts; a null context ends the program.
FlushCodecs ==
    /\ GoTo("flushCodecs", IF \A m \in Media : context[m] THEN "acquire"
                           ELSE "crashed")
    /\ UNCHANGED <<stateVars, renderCall>>
    /\ HandlerOnly

MessageStep == \/ TakeMessage \/ LeaveMessageThread
               \/ BeginStart \/ CreateExtract \/ CreateDecoders
               \/ BeginPause \/ EndPause
               \/ IgnoreSeek \/ BeginSeek \/ AbortPipeline \/ StopDecoders
               \/ JoinDecoders \/ FlushCodecs

-----------------------------------------------------------------------------
(* extractThread()                                                           *)

ExtractOnly == UNCHANGED <<mState, stateLock, mMessageThreadExit, messagePc,
                           userVars, renderVars>>

\* Mutant: the audio decoder is not opened.
OpenVideoOnly ==
    /\ extractPc = "open"
    /\ \/ extractPc' = "done" /\ UNCHANGED context
       \/ extractPc' = "top" /\ context' = [m \in Media |-> m = "video"]
    /\ UNCHANGED <<sleepers, mSeekTime, mMessageQueue, mExtractThreadExit,
                   packetFor, position, seekFailed, packetVars, decodePc,
                   decoding, decodeExit>>
    /\ ExtractOnly

\* Open the file and a decoder per stream, or give up.  The code does not look at
\* whether the decoder could be opened (lines 279-282, 288-291), and what libav
\* does with one that could not is not modelled: here every decoder decodes.
OpenFile ==
    /\ extractPc = "open"
    /\ \/ extractPc' = "done" /\ UNCHANGED context
       \/ extractPc' = "top" /\ context' = [m \in Media |-> m \in FileStreams]
    /\ UNCHANGED <<sleepers, mSeekTime, mMessageQueue, mExtractThreadExit,
                   packetFor, position, seekFailed, packetVars, decodePc,
                   decoding, decodeExit>>
    /\ ExtractOnly

ExtractTop ==
    /\ extractPc = "top"
    /\ extractPc' = IF mExtractThreadExit THEN "done"
                    ELSE IF mState = "SEEKING" THEN "seek" ELSE "read"
    /\ UNCHANGED <<sleepers, mSeekTime, mMessageQueue, mExtractThreadExit,
                   packetFor, position, seekFailed, packetVars, decodeVars>>
    /\ ExtractOnly

\* mStateCv.wait(lock, mState != SEEKING), at its first and at later tests.
AwaitSeekEnd ==
    IF mState = "SEEKING"
    THEN sleepers' = sleepers \cup {"extract"} /\ extractPc' = "wait"
    ELSE extractPc' = "read" /\ UNCHANGED sleepers

\* With the lock: move to the requested place, or wait for the seek to end.
\* Whether av_seek_frame() could move is not looked at (line 324): when it
\* failed, reading goes on where it was.  The move reads mpVideoStream, which is
\* null without a video stream.
ExtractSeek ==
    /\ extractPc = "seek"
    /\ stateLock = "free"
    /\ IF mSeekTime >= 0
       THEN /\ \/ position' = mSeekTime /\ seekFailed' = FALSE
               \/ SeekMayFail /\ seekFailed' = TRUE /\ UNCHANGED position
            /\ stateLock' = "extract"
            /\ extractPc' = IF "video" \in FileStreams THEN "seeked" ELSE "crashed"
            /\ UNCHANGED sleepers
       ELSE AwaitSeekEnd /\ UNCHANGED <<position, seekFailed, stateLock>>
    /\ UNCHANGED <<mState, mSeekTime, messageVars, mExtractThreadExit, packetFor,
                   packetVars, decodeVars, userVars, renderVars>>

\* Mutant: the request stays for the next round of the loop.
ExtractKeepsRequest ==
    /\ extractPc = "seeked"
    /\ extractPc' = "post"
    /\ UNCHANGED <<mState, stateLock, sleepers, mSeekTime, messageVars,
                   mExtractThreadExit, packetFor, position, seekFailed,
                   packetVars, decodeVars, userVars, renderVars>>

\* Forget the request, whatever it is by now.
ExtractSeeked ==
    /\ extractPc = "seeked"
    /\ mSeekTime' = -1
    /\ extractPc' = "post"
    /\ UNCHANGED <<mState, stateLock, sleepers, messageVars, mExtractThreadExit,
                   packetFor, position, seekFailed, packetVars, decodeVars, userVars,
                   renderVars>>

\* Mutant: no start is posted after the move.
ExtractPostsNothing ==
    /\ extractPc = "post"
    /\ stateLock' = "free"
    /\ extractPc' = "top"
    /\ UNCHANGED <<mState, sleepers, mSeekTime, messageVars, mExtractThreadExit,
                   packetFor, position, seekFailed, packetVars, decodeVars, userVars,
                   renderVars>>

\* Post a start, unlock and continue.
ExtractPosts ==
    /\ extractPc = "post"
    /\ Post("kWhatStart")
    /\ stateLock' = "free"
    /\ extractPc' = "top"
    /\ UNCHANGED <<mState, sleepers, mSeekTime, mMessageThreadExit, messagePc,
                   mExtractThreadExit, packetFor, position, seekFailed,
                   packetVars, decodeVars, userVars, renderVars>>

ExtractWoken ==
    /\ extractPc = "wait"
    /\ "extract" \notin sleepers
    /\ stateLock = "free"
    /\ AwaitSeekEnd
    /\ UNCHANGED <<mSeekTime, mMessageQueue, mExtractThreadExit, packetFor,
                   position, seekFailed, packetVars, decodeVars>>
    /\ ExtractOnly

\* av_read_frame(): a packet of some stream, or the end of the file.
ReadPacket ==
    /\ extractPc = "read"
    /\ \/ /\ packetFor' \in PacketStreams
          /\ extractPc' = "push"
          /\ UNCHANGED mExtractThreadExit
       \/ /\ MayEnd
          /\ mExtractThreadExit' = TRUE
          /\ extractPc' = "top"
          /\ UNCHANGED packetFor
    /\ UNCHANGED <<sleepers, mSeekTime, mMessageQueue, position, seekFailed,
                   packetVars, decodeVars>>
    /\ ExtractOnly

\* Mutant: a packet queue without capacity.
PushPacketAnyway ==
    /\ extractPc = "push"
    /\ packetQ' = IF packetAbort[packetFor] THEN packetQ
                  ELSE [packetQ EXCEPT ![packetFor] = Append(@, position)]
    /\ extractPc' = "top"
    /\ UNCHANGED <<sleepers, mSeekTime, mMessageQueue, mExtractThreadExit,
                   packetFor, position, seekFailed, packetAbort, decodeVars>>
    /\ ExtractOnly

PushPacket ==
    /\ extractPc = "push"
    /\ packetAbort[packetFor] \/ Len(packetQ[packetFor]) < PacketMax
    /\ packetQ' = IF packetAbort[packetFor] THEN packetQ
                  ELSE [packetQ EXCEPT ![packetFor] = Append(@, position)]
    /\ extractPc' = "top"
    /\ UNCHANGED <<sleepers, mSeekTime, mMessageQueue, mExtractThreadExit,
                   packetFor, position, seekFailed, packetAbort, decodeVars>>
    /\ ExtractOnly

ExtractStep == \/ OpenFile \/ ExtractTop \/ ExtractSeek \/ ExtractSeeked
               \/ ExtractPosts \/ ExtractWoken \/ ReadPacket \/ PushPacket

-----------------------------------------------------------------------------
(* videoDecodeThread(), audioDecodeThread()                                  *)

DecodeOnly == UNCHANGED <<mState, stateLock, mSeekTime, messageVars, extractVars,
                          packetAbort, context, decodeExit, userVars>>

\* The first test of mState, without the lock.
DecodeTop(m) ==
    /\ decodePc[m] = "top"
    /\ decodePc' = [decodePc EXCEPT ![m] = IF mState = "PAUSED" THEN "wait"
                                           ELSE IF decodeExit[m] THEN "done"
                                           ELSE "pop"]
    /\ UNCHANGED <<sleepers, packetQ, decoding, renderVars>>
    /\ DecodeOnly

\* mStateCv.wait(lock, mState != PAUSED || exit): lock and test, or sleep.
DecodeWait(m) ==
    /\ decodePc[m] = "wait"
    /\ m \notin sleepers
    /\ stateLock = "free"
    /\ IF mState = "PAUSED" /\ ~decodeExit[m]
       THEN sleepers' = sleepers \cup {m} /\ UNCHANGED decodePc
       ELSE /\ decodePc' = [decodePc EXCEPT ![m] =
                               IF decodeExit[m] THEN "done" ELSE "pop"]
            /\ UNCHANGED sleepers
    /\ UNCHANGED <<packetQ, decoding, renderVars>>
    /\ DecodeOnly

DecodePop(m) ==
    /\ decodePc[m] = "pop"
    /\ packetAbort[m] \/ packetQ[m] # <<>>
    /\ IF packetAbort[m]
       THEN /\ decodePc' = [decodePc EXCEPT ![m] = "done"]
            /\ UNCHANGED <<packetQ, decoding>>
       ELSE /\ decodePc' = [decodePc EXCEPT ![m] = "decode"]
            /\ decoding' = [decoding EXCEPT ![m] = <<Head(packetQ[m])>>]
            /\ packetQ' = [packetQ EXCEPT ![m] = Tail(@)]
    /\ UNCHANGED <<sleepers, renderVars>>
    /\ DecodeOnly

\* A packet gives some frames; each waits for room in Render's queue.
ReceiveFrame(m) ==
    /\ decodePc[m] = "decode"
    /\ decodePc' = [decodePc EXCEPT ![m] = "push"]
    /\ UNCHANGED <<sleepers, packetQ, decoding, renderVars>>
    /\ DecodeOnly

PushFrame(m) ==
    /\ decodePc[m] = "push"
    /\ QueueFrame(m, Head(decoding[m]))
    /\ decodePc' = [decodePc EXCEPT ![m] = "decode"]
    /\ UNCHANGED <<sleepers, packetQ, decoding>>
    /\ DecodeOnly

EndPacket(m) ==
    /\ decodePc[m] = "decode"
    /\ decodePc' = [decodePc EXCEPT ![m] = "top"]
    /\ decoding' = [decoding EXCEPT ![m] = <<>>]
    /\ UNCHANGED <<sleepers, packetQ, renderVars>>
    /\ DecodeOnly

DecodeStep(m) == \/ DecodeTop(m) \/ DecodeWait(m) \/ DecodePop(m)
                 \/ ReceiveFrame(m) \/ PushFrame(m) \/ EndPacket(m)

-----------------------------------------------------------------------------
OutsideRender == UNCHANGED <<stateVars, mSeekTime, messageVars, extractVars,
                             packetVars, decodeVars, userVars>>

\* A null pointer was dereferenced: the program is gone.
Crashed == messagePc = "crashed" \/ extractPc = "crashed"

Running(step) == ~Crashed /\ step

Next == Running(\/ UserCall \/ UserStep
                \/ MessageStep
                \/ ExtractStep
                \/ \E m \in Media : DecodeStep(m)
                \/ RenderStep /\ OutsideRender)

Spec == Init /\ [][Next]_vars

\* Every thread that can run runs; what the user calls is the user's choice.
\* The holders of mStateMutex release it, and each holds it a bounded number of
\* times per message, so weak fairness is enough for those who wait for it.  A
\* packet gives finitely many frames.
Fairness == /\ WF_vars(Running(UserStep))
            /\ WF_vars(Running(MessageStep))
            /\ WF_vars(Running(ExtractStep))
            /\ \A m \in Media : WF_vars(Running(DecodeStep(m)))
            /\ \A m \in Media : SF_vars(Running(EndPacket(m)))
            /\ WF_vars(Running(CallbackDequeue /\ OutsideRender))
            /\ WF_vars(Running(RenderThread /\ OutsideRender))
            /\ WF_vars(Running(RenderCaller /\ OutsideRender))
            /\ SF_vars(Running(PauseDevice /\ OutsideRender))

FairSpec == Spec /\ Fairness
=============================================================================
