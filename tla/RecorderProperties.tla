------------------------- MODULE RecorderProperties -------------------------
(***************************************************************************)
(* What makes ScreenRecorder correct: the file holds what was captured, in *)
(* order; back-pressure stops nobody who could go on; stop() leaves nothing *)
(* running; and where it does not return, or the program dies.             *)
(***************************************************************************)
EXTENDS ScreenRecorder, FiniteSets

CallerPcs == {"idle", "initAudio", "initVideo", "start", "record", "video",
              "audio", "mux", "recording", "close", "tellRecord", "tellVideo",
              "tellAudio", "tellMux", "abortVideoFrames", "abortVideoPackets",
              "abortAudioFrames", "abortAudioPackets", "joinRecord", "joinVideo",
              "joinAudio", "joinMux"}

ThreadPcs == {"none", "open", "top", "read", "push", "pop", "send", "receive",
              "flush", "flushReceive", "free", "popVideo", "popAudio", "compare",
              "write", "trailer", "done", "crashed"}

\* Types, the capacity of the queues included.
RecorderTypeOK ==
    /\ frameQ \in [Media -> 0..QueueMax]
    /\ frameAbort \in [Media -> BOOLEAN]
    /\ packetQ \in [Media -> Seq(Nat)]
    /\ \A m \in Media : Len(packetQ[m]) <= QueueMax
    /\ packetAbort \in [Media -> BOOLEAN]
    /\ mAudioDevID \in BOOLEAN /\ devicePaused \in BOOLEAN
    /\ callback \in {"out", "push"}
    /\ captured \in [Media -> Nat]
    /\ initDone \in [Media -> BOOLEAN]
    /\ context \in [Media -> {"null", "allocated", "open"}]
    /\ exit \in [Threads -> BOOLEAN]
    /\ pc \in [Threads -> ThreadPcs]
    /\ nextPts \in [Media -> Nat]
    /\ encoder \in [Media -> Seq(Nat)]
    /\ packet \in [Media -> Seq(Nat)]
    /\ inHand \in [Media -> Seq(Nat)]
    /\ chosen \in Media
    /\ written \in Seq(Media \X Nat)
    /\ file \in {"none", "header", "complete"}
    /\ callerPc \in CallerPcs
    /\ round \in 0..MaxRounds

\* How many packets of a medium the file has.
Written(m) == Cardinality({i \in DOMAIN written : written[i][1] = m})

\* The file is sorted by time across both media (lines 625-652), and of each
\* medium it holds the first packets without a gap: encoder delay, full queues
\* and the muxer's packets in hand lose, repeat and swap nothing.
WrittenInOrder ==
    /\ \A i \in 1 .. Len(written) - 1 :
           Time(written[i][1], written[i][2]) <= Time(written[i + 1][1], written[i + 1][2])
    /\ \A i \in DOMAIN written :
           written[i][2] = Cardinality({j \in 1 .. i - 1 : written[j][1] = written[i][1]})

\* The frame the record thread or the audio callback is about to queue.
InPush(m) == IF m = "video" THEN pc["record"] = "push" ELSE callback = "push"

One(condition) == IF condition THEN 1 ELSE 0

\* The packets of a medium from the encoder on, those in the file included.
Packets(m) == Len(encoder[m]) + Len(packet[m]) + Len(packetQ[m]) + Len(inHand[m])
              + Written(m)

\* Until stop() aborts a queue, every frame captured is on its way to the file
\* or in it; an encoder that is told to leave, or that refuses a frame, keeps
\* what it has.
NothingLostWhileRecording ==
    \A m \in Media :
        ~frameAbort[m] /\ ~packetAbort[m] /\ pc["mux"] # "done"
        /\ pc[m] \notin {"flush", "flushReceive", "free", "done", "crashed"} =>
            captured[m] = One(InPush(m)) + frameQ[m] + One(pc[m] = "send") + Packets(m)

InitFailed == \E m \in Media : ~initDone[m]

\* With encoders that were opened, the mux thread meets a freed context (lines
\* 592, 599, 639-647) only when stop() has told an encoder to leave, or when an
\* encoder left on its own since it refused a frame it had numbered (lines
\* 482-490).
NoCrashWhileRecording ==
    Crashed /\ ~InitFailed /\ round = 1 =>
        \E m \in Media : exit[m] \/ (context[m] = "null" /\ nextPts[m] > Packets(m))

\* Nothing moves unless stop() is called.
Stopped == /\ ~Crashed
           /\ ~ENABLED (\/ CallbackBegin \/ CallbackPush \/ RecordStep
                        \/ \E m \in Media : EncodeStep(m)
                        \/ MuxStep \/ CallerStep)

\* The mux thread waits for a medium of which nothing is left before the encoder.
NoInput == \E m \in Media : /\ captured[m] = MaxFrames[m]
                            /\ frameQ[m] = 0 /\ ~InPush(m)
                            /\ packetQ[m] = <<>> /\ inHand[m] = <<>>

\* Closing the device waits for a callback that waits on a full frame queue (line
\* 177, the abort comes at line 189).
CloseHangs == /\ callerPc = "close" /\ callback = "push"
              /\ frameQ["audio"] = QueueMax /\ ~frameAbort["audio"]

\* The mux thread spins because init() had failed (line 585).
JoinHangs == callerPc = "joinMux" /\ pc["mux"] = "open" /\ InitFailed

\* The frame queue, the packet queue of a medium holds a push up.
FramesFull(m) == frameQ[m] = QueueMax /\ ~frameAbort[m]
PacketsFull(m) == Len(packetQ[m]) = QueueMax /\ ~packetAbort[m]

\* The thread was not created, or has ended.
NotRunning(t) == pc[t] \in {"none", "done"}

\* What holds each of them up: the audio callback (or SDL does not call it),
CallbackWaits ==
    \/ callback = "push" /\ FramesFull("audio")
    \/ /\ callback = "out"
       /\ \/ ~mAudioDevID \/ devicePaused \/ callerPc = "close"
          \/ captured["audio"] = MaxFrames["audio"]

\* the record thread,
RecordWaits ==
    \/ NotRunning("record")
    \/ pc["record"] = "read" /\ captured["video"] = MaxFrames["video"] /\ ~exit["record"]
    \/ pc["record"] = "push" /\ FramesFull("video")

\* the encoder threads,
EncoderWaits(m) ==
    \/ packet[m] # <<>> /\ PacketsFull(m)
    \/ /\ packet[m] = <<>>
       /\ NotRunning(m) \/ (pc[m] = "pop" /\ frameQ[m] = 0 /\ ~frameAbort[m])

\* the mux thread,
MuxNeeds == [popVideo |-> "video", popAudio |-> "audio"]

MuxWaits ==
    \/ NotRunning("mux")
    \/ pc["mux"] = "open" /\ InitFailed
    \/ /\ pc["mux"] \in DOMAIN MuxNeeds
       /\ LET m == MuxNeeds[pc["mux"]]
          IN inHand[m] = <<>> /\ packetQ[m] = <<>> /\ ~packetAbort[m]

\* the caller.
Joins == [joinRecord |-> "record", joinVideo |-> "video", joinAudio |-> "audio",
          joinMux |-> "mux"]

CallerWaits ==
    \/ callerPc = "idle" /\ round = MaxRounds
    \/ callerPc = "recording"
    \/ callerPc = "close" /\ callback # "out"
    \/ callerPc \in DOMAIN Joins /\ pc[Joins[callerPc]] # "done"

\* Everyone waits.
Waiting == /\ CallbackWaits /\ RecordWaits
           /\ \A m \in Media : EncoderWaits(m)
           /\ MuxWaits /\ CallerWaits

\* Where the recorder may come to rest.  While it records: for want of input only,
\* or a thread has ended, or the initialization failed; a full queue of one medium
\* does not hold up the other for ever.  In stop(): in two places only.
AtRest == \/ callerPc = "idle"
          \/ /\ callerPc = "recording"
             /\ NoInput \/ InitFailed \/ \E t \in Threads : pc[t] = "done"
          \/ CloseHangs
          \/ JoinHangs

\* When nothing can move, everyone is where Waiting says, and the recorder is at
\* rest in one of the known places.
RestsKnown == Stopped => Waiting /\ AtRest

\* Once the device is closed stop() returns, unless the program dies or the
\* mux thread spins.
StopReturns == callerPc = "tellRecord" ~> callerPc = "idle" \/ Crashed \/ InitFailed
=============================================================================
