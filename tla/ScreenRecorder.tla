--------------------------- MODULE ScreenRecorder ---------------------------
(***************************************************************************)
(* ScreenRecorder (vr/ScreenRecorder.cpp): the record thread grabs the     *)
(* screen, the SDL device calls back with sound; an encoder thread per     *)
(* medium turns frames into packets; the mux thread merges the packets of  *)
(* both media by time into one file.  A caller runs init(), start() and    *)
(* stop(), at most MaxRounds times.                                        *)
(*                                                                         *)
(* The four queues are the BoundedChannel that CountingQueue implements.   *)
(* A frame is only counted; a packet is its pts, the number of the frame   *)
(* the encoder thread took (mVideoNextPts, mAudioNextPts), so the time of  *)
(* packet n of a medium is n times the medium's Period.                    *)
(*                                                                         *)
(* The SDL device is external, as in module Render.  The encoders are      *)
(* external: that of medium m keeps at most EncoderDelay[m] frames back,   *)
(* refuses a frame if EncoderMayFail, and gives all it has when flushed.   *)
(* MaxFrames bounds what is captured of each medium.                       *)
(***************************************************************************)
EXTENDS Naturals, Sequences

CONSTANTS QueueMax,        \* capacity of each queue: 10 in the code
          Period,          \* time between two frames of each medium
          EncoderDelay,    \* frames the encoder of a medium keeps back
          MaxFrames,
          MaxRounds,
          InitMayFail,     \* device or encoders may not open
          EncoderMayFail,  \* an encoder may refuse a frame
          OutputMayFail    \* grabber, resampler or output file may not open

Media == {"video", "audio"}
Threads == {"record", "video", "audio", "mux"}

ASSUME RecorderAssumption ==
    /\ QueueMax \in Nat \ {0}
    /\ Period \in [Media -> Nat]
    /\ MaxRounds \in Nat
    /\ {MaxFrames, EncoderDelay} \subseteq [Media -> Nat]
    /\ {InitMayFail, EncoderMayFail, OutputMayFail} \subseteq BOOLEAN

VARIABLES frameQ,        \* how many frames wait in m...FrameBufferQueue
          frameAbort,
          packetQ,       \* m...PacketBufferQueue
          packetAbort,
          mAudioDevID,   \* the device is open
          devicePaused,  \* it is paused (external)
          callback,      \* "out", or "push" inside sdlAudioCallback
          captured,      \* frames captured so far
          initDone,      \* mVideoInitDone, mAudioInitDone
          context,       \* mpVideoEncoderCtx, ...: "null", "allocated", "open"
          exit,          \* m...ThreadExit
          pc,            \* the threads; "none" before start()
          nextPts,       \* mVideoNextPts, mAudioNextPts
          encoder,       \* frames inside each encoder
          packet,        \* the packet an encoder thread has received, if any
          inHand,        \* pVideoPacket, pAudioPacket of the muxer, if any
          chosen,        \* the medium whose packet it writes next
          written,       \* what it wrote to the file
          file,          \* "none", "header" written, "complete" with trailer
          callerPc,
          round

queueVars == <<frameQ, frameAbort, packetQ, packetAbort>>
deviceVars == <<mAudioDevID, devicePaused, callback>>
codecVars == <<initDone, context>>
encodeVars == <<nextPts, encoder, packet>>
muxVars == <<inHand, chosen, written, file>>
callerVars == <<callerPc, round>>
vars == <<queueVars, deviceVars, captured, codecVars, exit, pc, encodeVars,
          muxVars, callerVars>>

Init == /\ frameQ = [m \in Media |-> 0]
        /\ frameAbort = [m \in Media |-> FALSE]
        /\ packetQ = [m \in Media |-> <<>>]
        /\ packetAbort = [m \in Media |-> FALSE]
        /\ mAudioDevID = FALSE
        /\ devicePaused = TRUE
        /\ callback = "out"
        /\ captured = [m \in Media |-> 0]
        /\ initDone = [m \in Media |-> FALSE]
        /\ context = [m \in Media |-> "null"]
        /\ exit = [t \in Threads |-> FALSE]
        /\ pc = [t \in Threads |-> "none"]
        /\ nextPts = [m \in Media |-> 0]
        /\ encoder = [m \in Media |-> <<>>]
        /\ packet = [m \in Media |-> <<>>]
        /\ inHand = [m \in Media |-> <<>>]
        /\ chosen = "video"
        /\ written = <<>>
        /\ file = "none"
        /\ callerPc = "idle"
        /\ round = 0

-----------------------------------------------------------------------------
(* The frame queues *)

\* Mutant: a frame that finds the queue full is dropped.
PushFrameOrDrop(m) == /\ frameQ' = IF frameAbort[m] \/ frameQ[m] >= QueueMax THEN frameQ
                                   ELSE [frameQ EXCEPT ![m] = @ + 1]
                      /\ UNCHANGED <<frameAbort, packetQ, packetAbort>>

PushFrame(m) == /\ frameAbort[m] \/ frameQ[m] < QueueMax
                /\ frameQ' = IF frameAbort[m] THEN frameQ
                             ELSE [frameQ EXCEPT ![m] = @ + 1]
                /\ UNCHANGED <<frameAbort, packetQ, packetAbort>>

Go(t, to) == pc' = [pc EXCEPT ![t] = to]

-----------------------------------------------------------------------------
(* sdlAudioCallback(), queueAudioBuffer() *)

CallbackBegin == /\ mAudioDevID /\ ~devicePaused /\ callback = "out"
                 /\ callerPc # "close"
                 /\ captured["audio"] < MaxFrames["audio"]
                 /\ captured' = [captured EXCEPT !["audio"] = @ + 1]
                 /\ callback' = "push"
                 /\ UNCHANGED <<queueVars, mAudioDevID, devicePaused, codecVars,
                                exit, pc, encodeVars, muxVars, callerVars>>

CallbackPush == /\ callback = "push"
                /\ PushFrame("audio")
                /\ callback' = "out"
                /\ UNCHANGED <<mAudioDevID, devicePaused, captured, codecVars,
                               exit, pc, encodeVars, muxVars, callerVars>>

-----------------------------------------------------------------------------
(* videoRecordThread() *)

RecordOnly == UNCHANGED <<deviceVars, codecVars, exit, encodeVars, muxVars,
                          callerVars>>

RecordOpen == /\ pc["record"] = "open"
              /\ \/ Go("record", "top")
                 \/ OutputMayFail /\ Go("record", "done")
              /\ UNCHANGED <<queueVars, captured>>
              /\ RecordOnly

RecordTop == /\ pc["record"] = "top"
             /\ Go("record", IF exit["record"] THEN "done" ELSE "read")
             /\ UNCHANGED <<queueVars, captured>>
             /\ RecordOnly

\* A picture was read and decoded.
RecordFrame == /\ pc["record"] = "read"
               /\ captured["video"] < MaxFrames["video"]
               /\ captured' = [captured EXCEPT !["video"] = @ + 1]
               /\ Go("record", "push")
               /\ UNCHANGED queueVars
               /\ RecordOnly

\* Reads that fail go round the loop until the exit flag is set.
RecordNothing == /\ pc["record"] = "read"
                 /\ exit["record"]
                 /\ Go("record", "done")
                 /\ UNCHANGED <<queueVars, captured>>
                 /\ RecordOnly

RecordPush == /\ pc["record"] = "push"
              /\ PushFrame("video")
              /\ Go("record", "top")
              /\ UNCHANGED captured
              /\ RecordOnly

RecordStep == \/ RecordOpen \/ RecordTop \/ RecordFrame \/ RecordNothing
              \/ RecordPush

-----------------------------------------------------------------------------
(* videoEncodeThread(), audioEncodeThread() *)

EncodeOnly == UNCHANGED <<deviceVars, captured, exit, muxVars, callerVars,
                          frameAbort, packetAbort, initDone>>

\* swr_init() of the audio thread may fail; the context then stays.
EncodeOpen(m) == /\ pc[m] = "open"
                 /\ \/ Go(m, "top")
                    \/ OutputMayFail /\ m = "audio" /\ Go(m, "done")
                 /\ UNCHANGED <<frameQ, packetQ, context, encodeVars>>
                 /\ EncodeOnly

EncodeTop(m) ==
    /\ pc[m] = "top"
    /\ Go(m, IF exit[m] THEN "flush" ELSE "pop")
    /\ UNCHANGED <<frameQ, packetQ, context, encodeVars>>
    /\ EncodeOnly

\* Mutant: the thread leaves when no frame is there.
EncodePopTries(m) ==
    /\ pc[m] = "pop"
    /\ \/ /\ frameQ[m] = 0
          /\ Go(m, "flush")
          /\ UNCHANGED <<frameQ, nextPts>>
       \/ /\ frameQ[m] > 0
          /\ frameQ' = [frameQ EXCEPT ![m] = @ - 1]
          /\ nextPts' = [nextPts EXCEPT ![m] = @ + 1]
          /\ Go(m, "send")
    /\ UNCHANGED <<packetQ, context, encoder, packet>>
    /\ EncodeOnly

\* Take a frame and number it; leave when the queue is aborted.
EncodePop(m) ==
    /\ pc[m] = "pop"
    /\ \/ /\ frameAbort[m]
          /\ Go(m, "flush")
          /\ UNCHANGED <<frameQ, nextPts>>
       \/ /\ ~frameAbort[m] /\ frameQ[m] > 0
          /\ frameQ' = [frameQ EXCEPT ![m] = @ - 1]
          /\ nextPts' = [nextPts EXCEPT ![m] = @ + 1]
          /\ Go(m, "send")
    /\ UNCHANGED <<packetQ, context, encoder, packet>>
    /\ EncodeOnly

\* A null context ends the program; an unopened one refuses the frame.
EncodeSend(m) ==
    /\ pc[m] = "send"
    /\ \/ /\ context[m] = "null"
          /\ Go(m, "crashed")
          /\ UNCHANGED encoder
       \/ /\ context[m] = "allocated" \/ (context[m] = "open" /\ EncoderMayFail)
          /\ Go(m, "flush")
          /\ UNCHANGED encoder
       \/ /\ context[m] = "open"
          /\ encoder' = [encoder EXCEPT ![m] = Append(@, nextPts[m] - 1)]
          /\ Go(m, "receive")
    /\ UNCHANGED <<frameQ, packetQ, context, nextPts, packet>>
    /\ EncodeOnly

\* What the thread goes back to after receivePacket().
AfterReceive == [receive |-> "top", flushReceive |-> "free"]

\* receivePacket(): the next packet, or the encoder wants more frames first.
EncodeReceive(m) ==
    /\ pc[m] \in DOMAIN AfterReceive
    /\ packet[m] = <<>>
    /\ \/ /\ encoder[m] # <<>>
          /\ packet' = [packet EXCEPT ![m] = <<Head(encoder[m])>>]
          /\ encoder' = [encoder EXCEPT ![m] = Tail(@)]
          /\ UNCHANGED pc
       \/ /\ IF pc[m] = "receive" THEN Len(encoder[m]) <= EncoderDelay[m]
             ELSE encoder[m] = <<>>
          /\ Go(m, AfterReceive[pc[m]])
          /\ UNCHANGED <<packet, encoder>>
    /\ UNCHANGED <<frameQ, packetQ, context, nextPts>>
    /\ EncodeOnly

\* Mutant: a packet queue without capacity.
EncodePushAnyway(m) ==
    /\ packet[m] # <<>>
    /\ packetQ' = IF packetAbort[m] THEN packetQ
                  ELSE [packetQ EXCEPT ![m] = @ \o packet[m]]
    /\ packet' = [packet EXCEPT ![m] = <<>>]
    /\ UNCHANGED <<frameQ, context, pc, nextPts, encoder>>
    /\ EncodeOnly

EncodePush(m) ==
    /\ packet[m] # <<>>
    /\ packetAbort[m] \/ Len(packetQ[m]) < QueueMax
    /\ packetQ' = IF packetAbort[m] THEN packetQ
                  ELSE [packetQ EXCEPT ![m] = @ \o packet[m]]
    /\ packet' = [packet EXCEPT ![m] = <<>>]
    /\ UNCHANGED <<frameQ, context, pc, nextPts, encoder>>
    /\ EncodeOnly

\* After the loop: flush the encoder, which fails unless it is open.
EncodeFlush(m) ==
    /\ pc[m] = "flush"
    /\ Go(m, CASE context[m] = "null" -> "crashed"
               [] context[m] = "allocated" -> "free"
               [] context[m] = "open" -> "flushReceive")
    /\ UNCHANGED <<frameQ, packetQ, context, encodeVars>>
    /\ EncodeOnly

EncodeFree(m) ==
    /\ pc[m] = "free"
    /\ context' = [context EXCEPT ![m] = "null"]
    /\ Go(m, "done")
    /\ UNCHANGED <<frameQ, packetQ, encodeVars>>
    /\ EncodeOnly

EncodeStep(m) == \/ EncodeOpen(m) \/ EncodeTop(m) \/ EncodePop(m)
                 \/ EncodeSend(m) \/ EncodeReceive(m) \/ EncodePush(m)
                 \/ EncodeFlush(m) \/ EncodeFree(m)

-----------------------------------------------------------------------------
(* muxThread() *)

MuxOnly == UNCHANGED <<frameQ, frameAbort, packetAbort, deviceVars, captured,
                       codecVars, exit, encodeVars, callerVars>>

\* Spin until both encoders are initialized, then copy their parameters and
\* write the header.  The exit flag is not looked at.
MuxOpen ==
    /\ pc["mux"] = "open"
    /\ \A m \in Media : initDone[m]
    /\ IF \E m \in Media : context[m] = "null"
       THEN Go("mux", "crashed") /\ UNCHANGED file
       ELSE \/ Go("mux", "top") /\ file' = "header"
            \/ OutputMayFail /\ Go("mux", "done") /\ UNCHANGED file
    /\ UNCHANGED <<packetQ, inHand, chosen, written>>
    /\ MuxOnly

MuxTop ==
    /\ pc["mux"] = "top"
    /\ Go("mux", IF exit["mux"] THEN "trailer" ELSE "popVideo")
    /\ UNCHANGED <<packetQ, muxVars>>
    /\ MuxOnly

\* Mutant: a second packet replaces the one in hand.
MuxPopAlways(from, m, to) ==
    /\ pc["mux"] = from
    /\ \/ /\ packetAbort[m]
          /\ Go("mux", "trailer")
          /\ UNCHANGED <<packetQ, inHand>>
       \/ /\ ~packetAbort[m] /\ packetQ[m] # <<>>
          /\ inHand' = [inHand EXCEPT ![m] = <<Head(packetQ[m])>>]
          /\ packetQ' = [packetQ EXCEPT ![m] = Tail(@)]
          /\ Go("mux", to)
    /\ UNCHANGED <<chosen, written, file>>
    /\ MuxOnly

\* Pop a packet of the medium unless one is in hand.
MuxPop(from, m, to) ==
    /\ pc["mux"] = from
    /\ \/ /\ inHand[m] # <<>>
          /\ Go("mux", to)
          /\ UNCHANGED <<packetQ, inHand>>
       \/ /\ inHand[m] = <<>> /\ packetAbort[m]
          /\ Go("mux", "trailer")
          /\ UNCHANGED <<packetQ, inHand>>
       \/ /\ inHand[m] = <<>> /\ ~packetAbort[m] /\ packetQ[m] # <<>>
          /\ inHand' = [inHand EXCEPT ![m] = <<Head(packetQ[m])>>]
          /\ packetQ' = [packetQ EXCEPT ![m] = Tail(@)]
          /\ Go("mux", to)
    /\ UNCHANGED <<chosen, written, file>>
    /\ MuxOnly

MuxPops == MuxPop("popVideo", "video", "popAudio") \/ MuxPop("popAudio", "audio", "compare")

Time(m, pts) == pts * Period[m]

\* Mutant: dts are compared without their time bases.
MuxCompareNumbers ==
    /\ pc["mux"] = "compare"
    /\ IF \E m \in Media : context[m] = "null"
       THEN Go("mux", "crashed") /\ UNCHANGED chosen
       ELSE /\ Go("mux", "write")
            /\ chosen' = IF Head(inHand["video"]) <= Head(inHand["audio"])
                         THEN "video" ELSE "audio"
    /\ UNCHANGED <<packetQ, inHand, written, file>>
    /\ MuxOnly

\* av_compare_ts() with the time bases of both contexts.
MuxCompare ==
    /\ pc["mux"] = "compare"
    /\ IF \E m \in Media : context[m] = "null"
       THEN Go("mux", "crashed") /\ UNCHANGED chosen
       ELSE /\ Go("mux", "write")
            /\ chosen' = IF Time("video", Head(inHand["video"]))
                              <= Time("audio", Head(inHand["audio"]))
                         THEN "video" ELSE "audio"
    /\ UNCHANGED <<packetQ, inHand, written, file>>
    /\ MuxOnly

\* Rescale with the context's time base again, and write.
MuxWrite ==
    /\ pc["mux"] = "write"
    /\ IF context[chosen] = "null"
       THEN Go("mux", "crashed") /\ UNCHANGED <<written, inHand>>
       ELSE /\ Go("mux", "top")
            /\ written' = Append(written, <<chosen, Head(inHand[chosen])>>)
            /\ inHand' = [inHand EXCEPT ![chosen] = <<>>]
    /\ UNCHANGED <<packetQ, chosen, file>>
    /\ MuxOnly

\* The packets in hand go with the thread.
MuxTrailer ==
    /\ pc["mux"] = "trailer"
    /\ Go("mux", "done")
    /\ file' = "complete"
    /\ inHand' = [m \in Media |-> <<>>]
    /\ UNCHANGED <<packetQ, chosen, written>>
    /\ MuxOnly

MuxStep == MuxOpen \/ MuxTop \/ MuxPops \/ MuxCompare \/ MuxWrite \/ MuxTrailer

-----------------------------------------------------------------------------
(* init(), start(), stop() *)

Continue(from, to) == callerPc = from /\ callerPc' = to
CallerOnly == UNCHANGED <<callback, captured, encodeVars, muxVars>>

\* init(): it returns at the first thing that fails.
OpenDevice ==
    /\ round < MaxRounds
    /\ round' = round + 1
    /\ \/ Continue("idle", "initAudio") /\ mAudioDevID' = TRUE /\ devicePaused' = TRUE
       \/ /\ InitMayFail
          /\ Continue("idle", "start")
          /\ UNCHANGED <<mAudioDevID, devicePaused>>
    /\ UNCHANGED <<queueVars, codecVars, exit, pc>>
    /\ CallerOnly

InitEncoder(m, from, to) ==
    /\ \/ /\ Continue(from, to)
          /\ context' = [context EXCEPT ![m] = "open"]
          /\ initDone' = [initDone EXCEPT ![m] = TRUE]
       \/ /\ InitMayFail
          /\ Continue(from, "start")
          /\ context' = [context EXCEPT ![m] = "allocated"]
          /\ initDone' = [initDone EXCEPT ![m] = FALSE]
    /\ UNCHANGED <<queueVars, mAudioDevID, devicePaused, exit, pc, round>>
    /\ CallerOnly

InitEncoders == \/ InitEncoder("audio", "initAudio", "initVideo")
                \/ InitEncoder("video", "initVideo", "start")

StartDevice ==
    /\ Continue("start", "record")
    /\ devicePaused' = (devicePaused /\ ~mAudioDevID)
    /\ UNCHANGED <<queueVars, mAudioDevID, codecVars, exit, pc, round>>
    /\ CallerOnly

\* The threads in the order start() creates them, stop() tells and joins them.
CreateThread(t, to) ==
    /\ Continue(t, to)
    /\ exit' = [exit EXCEPT ![t] = FALSE]
    /\ Go(t, "open")
    /\ UNCHANGED <<queueVars, mAudioDevID, devicePaused, codecVars, round>>
    /\ CallerOnly

CreateThreads == \/ CreateThread("record", "video") \/ CreateThread("video", "audio")
                 \/ CreateThread("audio", "mux") \/ CreateThread("mux", "recording")

StopOnly == UNCHANGED <<codecVars, round>> /\ CallerOnly

\* SDL_CloseAudioDevice() begins: no further callback; it waits for this one.
BeginStop ==
    /\ Continue("recording", IF mAudioDevID THEN "close" ELSE "tellRecord")
    /\ UNCHANGED <<queueVars, mAudioDevID, devicePaused, exit, pc>>
    /\ StopOnly

CloseDevice ==
    /\ Continue("close", "tellRecord")
    /\ callback = "out"
    /\ mAudioDevID' = FALSE
    /\ UNCHANGED <<queueVars, devicePaused, exit, pc>>
    /\ StopOnly

Tell(from, t, to) == /\ Continue(from, to)
                     /\ exit' = [exit EXCEPT ![t] = TRUE]

TellThreads ==
    /\ \/ Tell("tellRecord", "record", "tellVideo")
       \/ Tell("tellVideo", "video", "tellAudio")
       \/ Tell("tellAudio", "audio", "tellMux")
       \/ Tell("tellMux", "mux", "abortVideoFrames")
    /\ UNCHANGED <<queueVars, mAudioDevID, devicePaused, pc>>
    /\ StopOnly

AbortFrames(m) == /\ frameQ' = [frameQ EXCEPT ![m] = 0]
                  /\ frameAbort' = [frameAbort EXCEPT ![m] = TRUE]
                  /\ UNCHANGED <<packetQ, packetAbort>>

\* Mutant: stop() clears the packet queues without the abort flag.
ClearPackets(m) == /\ packetQ' = [packetQ EXCEPT ![m] = <<>>]
                   /\ UNCHANGED <<frameQ, frameAbort, packetAbort>>

AbortPackets(m) == /\ packetQ' = [packetQ EXCEPT ![m] = <<>>]
                   /\ packetAbort' = [packetAbort EXCEPT ![m] = TRUE]
                   /\ UNCHANGED <<frameQ, frameAbort>>

AbortQueues ==
    /\ \/ Continue("abortVideoFrames", "abortVideoPackets") /\ AbortFrames("video")
       \/ Continue("abortVideoPackets", "abortAudioFrames") /\ AbortPackets("video")
       \/ Continue("abortAudioFrames", "abortAudioPackets") /\ AbortFrames("audio")
       \/ Continue("abortAudioPackets", "joinRecord") /\ AbortPackets("audio")
    /\ UNCHANGED <<mAudioDevID, devicePaused, exit, pc>>
    /\ StopOnly

Join(from, t, to) == Continue(from, to) /\ pc[t] = "done"

JoinThreads ==
    /\ \/ Join("joinRecord", "record", "joinVideo")
       \/ Join("joinVideo", "video", "joinAudio")
       \/ Join("joinAudio", "audio", "joinMux")
       \/ Join("joinMux", "mux", "idle")
    /\ UNCHANGED <<queueVars, mAudioDevID, devicePaused, exit, pc>>
    /\ StopOnly

CallerStep == \/ OpenDevice \/ InitEncoders \/ StartDevice \/ CreateThreads
              \/ CloseDevice \/ TellThreads \/ AbortQueues \/ JoinThreads

-----------------------------------------------------------------------------
\* A null pointer was dereferenced: the program is gone.
Crashed == \E t \in Threads : pc[t] = "crashed"

Running(step) == ~Crashed /\ step

Next == Running(\/ CallbackBegin \/ CallbackPush
                \/ RecordStep
                \/ \E m \in Media : EncodeStep(m)
                \/ MuxStep
                \/ CallerStep \/ BeginStop)

Spec == Init /\ [][Next]_vars

\* Every thread that can run runs; when to stop is the caller's choice.
FairSpec == /\ Spec
            /\ WF_vars(Running(CallbackPush))
            /\ WF_vars(Running(RecordStep))
            /\ \A m \in Media : WF_vars(Running(EncodeStep(m)))
            /\ WF_vars(Running(MuxStep))
            /\ WF_vars(Running(CallerStep))
=============================================================================
