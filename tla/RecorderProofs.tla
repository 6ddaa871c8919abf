--------------------------- MODULE RecorderProofs ---------------------------
(***************************************************************************)
(* Proofs about ScreenRecorder, for every capacity, period and delay and   *)
(* any number of rounds: the types; in which order start() and stop()      *)
(* create, tell, unblock and join the threads; that a recorder which was   *)
(* stopped records no more; that frames and packets are kept from the      *)
(* capture to the file and the file is sorted; where the program can die   *)
(* while it records; and where the recorder comes to rest.                 *)
(***************************************************************************)
EXTENDS RecorderProperties, SequenceTheorems, FiniteSetTheorems, TLAPS


-----------------------------------------------------------------------------
(* Types *)

\* What the threads hold in their hands: at most a packet each; an encoder
\* thread that sends has numbered a frame; the muxer compares two packets.
HandsOK ==
    /\ \A m \in Media : Len(packet[m]) <= 1 /\ Len(inHand[m]) <= 1
    /\ \A m \in Media : pc[m] = "send" => nextPts[m] > 0
    /\ pc["mux"] \in {"popAudio", "compare", "write"} => inHand["video"] # <<>>
    /\ pc["mux"] \in {"compare", "write"} => inHand["audio"] # <<>>

\* The types and what the threads hold are inductive together.
TypeInv == RecorderTypeOK /\ HandsOK

\* The initial state has the types.
LEMMA InitTypeInv == Init => TypeInv
<1> SUFFICES ASSUME Init PROVE TypeInv
  OBVIOUS
<1>1. /\ frameAbort \in [Media -> BOOLEAN] /\ packetAbort \in [Media -> BOOLEAN]
      /\ initDone \in [Media -> BOOLEAN] /\ exit \in [Threads -> BOOLEAN]
      /\ mAudioDevID \in BOOLEAN /\ devicePaused \in BOOLEAN
  BY Zenon DEF Init
<1>2. \A m \in Media : Len(packetQ[m]) <= QueueMax
  BY RecorderAssumption DEF Init
<1>3. frameQ \in [Media -> 0..QueueMax] /\ round \in 0..MaxRounds
  BY RecorderAssumption DEF Init
<1>4. pc \in [Threads -> ThreadPcs] /\ callerPc \in CallerPcs
  BY DEF Init, ThreadPcs, CallerPcs
<1>5. RecorderTypeOK
  BY <1>1, <1>2, <1>3, <1>4 DEF Init, RecorderTypeOK, Media
<1>6. HandsOK
  BY DEF Init, HandsOK, Media, Threads
<1> QED BY <1>5, <1>6 DEF TypeInv

\* Go(t, to) moves thread t and no other.
LEMMA GoTypes ==
    ASSUME pc \in [Threads -> ThreadPcs], NEW t \in Threads, NEW to \in ThreadPcs, Go(t, to)
    PROVE  /\ pc' \in [Threads -> ThreadPcs]
           /\ pc'[t] = to
           /\ \A u \in Threads \ {t} : pc'[u] = pc[u]
  BY DEF Go

\* What Head and Tail give of a sequence that is not empty.
LEMMA TakeHead ==
    ASSUME NEW s \in Seq(Nat), s # <<>>
    PROVE  /\ Head(s) \in Nat /\ Tail(s) \in Seq(Nat)
           /\ Len(Tail(s)) + 1 = Len(s)
           /\ Head(s) = s[1]
           /\ \A i \in DOMAIN Tail(s) : i + 1 \in DOMAIN s /\ Tail(s)[i] = s[i + 1]
<1>1. Len(s) > 0 /\ Len(s) \in Nat
  BY EmptySeq, LenProperties
<1>2. Head(s) \in Nat /\ Tail(s) \in Seq(Nat) /\ Len(Tail(s)) = Len(s) - 1
      /\ \A i \in 1 .. Len(Tail(s)) : Tail(s)[i] = s[i + 1]
  BY HeadTailProperties
<1> QED BY <1>1, <1>2

\* A push waits for room, so that the frame queue keeps its capacity.
LEMMA PushFrameTypes ==
    ASSUME RecorderTypeOK, NEW m \in Media, PushFrame(m)
    PROVE  frameQ' \in [Media -> 0..QueueMax] /\ UNCHANGED <<frameAbort, packetQ, packetAbort>>
<1>1. frameQ[m] \in 0..QueueMax /\ QueueMax \in Nat
  BY RecorderAssumption DEF RecorderTypeOK
<1>2. frameAbort[m] \/ frameQ[m] + 1 \in 0..QueueMax
  BY <1>1 DEF PushFrame
<1> QED BY <1>2 DEF PushFrame, RecorderTypeOK

\* The steps of the audio callback keep the types.
LEMMA CallbackTypeInv == TypeInv /\ (CallbackBegin \/ CallbackPush) => TypeInv'
<1> SUFFICES ASSUME TypeInv, CallbackBegin \/ CallbackPush PROVE TypeInv'
  OBVIOUS
<1>c. CallbackBegin => captured' \in [Media -> Nat]
  <2>1. captured \in [Media -> Nat]
    BY DEF TypeInv, RecorderTypeOK
  <2> QED BY <2>1 DEF CallbackBegin, Media
<1> USE DEF TypeInv, RecorderTypeOK, HandsOK, queueVars, codecVars, encodeVars, muxVars,
            callerVars
<1>1. CASE CallbackBegin
  BY <1>c, <1>1 DEF CallbackBegin
<1>2. CASE CallbackPush
  <2>1. frameQ' \in [Media -> 0..QueueMax] /\ UNCHANGED <<frameAbort, packetQ, packetAbort>>
    BY <1>2, PushFrameTypes DEF CallbackPush, Media
  <2> QED BY <1>2, <2>1 DEF CallbackPush
<1> QED BY <1>1, <1>2

\* The steps of the record thread keep the types.
LEMMA RecordTypeInv == TypeInv /\ RecordStep => TypeInv'
<1> SUFFICES ASSUME TypeInv, RecordStep PROVE TypeInv'
  OBVIOUS
<1>c. captured' \in [Media -> Nat]
  <2>1. captured \in [Media -> Nat]
    BY DEF TypeInv, RecorderTypeOK
  <2>2. UNCHANGED captured \/ captured' = [captured EXCEPT !["video"] = @ + 1]
    BY Zenon DEF RecordStep, RecordOpen, RecordTop, RecordFrame, RecordNothing, RecordPush
  <2> QED BY <2>1, <2>2 DEF Media
<1> USE DEF TypeInv, RecorderTypeOK, HandsOK, queueVars, codecVars, encodeVars, muxVars,
            callerVars, deviceVars, RecordOnly
<1>0. ASSUME NEW to \in ThreadPcs, Go("record", to)
      PROVE  pc' \in [Threads -> ThreadPcs] /\ \A u \in {"video", "audio", "mux"} : pc'[u] = pc[u]
  BY <1>0, GoTypes DEF Threads
<1>1. pc' \in [Threads -> ThreadPcs] /\ \A u \in {"video", "audio", "mux"} : pc'[u] = pc[u]
  BY <1>0 DEF RecordStep, RecordOpen, RecordTop, RecordFrame, RecordNothing, RecordPush,
     ThreadPcs
<1>2. frameQ' \in [Media -> 0..QueueMax] /\ UNCHANGED <<frameAbort, packetQ, packetAbort>>
  BY PushFrameTypes DEF RecordStep, RecordOpen, RecordTop, RecordFrame, RecordNothing,
     RecordPush, Media
<1>3. captured' \in [Media -> Nat]
  BY <1>c
<1>4. RecordOnly
  BY Zenon DEF RecordStep, RecordOpen, RecordTop, RecordFrame, RecordNothing, RecordPush
<1> QED BY <1>1, <1>2, <1>3, <1>4 DEF Media, Threads

\* What a step of an encoder thread does to its queues, context and packets.
LEMMA EncodeTypes ==
    ASSUME NEW m \in Media, TypeInv, EncodeStep(m)
    PROVE  /\ frameQ' \in [Media -> 0..QueueMax]
           /\ packetQ' \in [Media -> Seq(Nat)] /\ \A n \in Media : Len(packetQ'[n]) <= QueueMax
           /\ context' \in [Media -> {"null", "allocated", "open"}]
           /\ nextPts' \in [Media -> Nat]
           /\ encoder' \in [Media -> Seq(Nat)]
           /\ packet' \in [Media -> Seq(Nat)] /\ \A n \in Media : Len(packet'[n]) <= 1
<1> DEFINE Step == \/ EncodeOpen(m) \/ EncodeTop(m) \/ EncodePop(m) \/ EncodeSend(m)
                   \/ EncodeReceive(m) \/ EncodePush(m) \/ EncodeFlush(m) \/ EncodeFree(m)
<1>0. Step
  BY DEF EncodeStep
<1>t. /\ frameQ \in [Media -> 0..QueueMax] /\ packetQ \in [Media -> Seq(Nat)]
      /\ context \in [Media -> {"null", "allocated", "open"}] /\ nextPts \in [Media -> Nat]
      /\ encoder \in [Media -> Seq(Nat)] /\ packet \in [Media -> Seq(Nat)]
      /\ \A n \in Media : Len(packetQ[n]) <= QueueMax /\ Len(packet[n]) <= 1
      /\ QueueMax \in Nat
  BY RecorderAssumption DEF TypeInv, RecorderTypeOK, HandsOK
<1>1. frameQ' \in [Media -> 0..QueueMax]
  <2>1. UNCHANGED frameQ \/ (frameQ[m] > 0 /\ frameQ' = [frameQ EXCEPT ![m] = @ - 1])
    BY <1>0, Zenon DEF EncodeOpen, EncodeTop, EncodePop, EncodeSend, EncodeReceive,
       EncodePush,
       EncodeFlush, EncodeFree, encodeVars
  <2>2. frameQ[m] > 0 => frameQ[m] - 1 \in 0..QueueMax
    BY <1>t
  <2> QED BY <1>t, <2>1, <2>2
<1>2. packetQ' \in [Media -> Seq(Nat)] /\ \A n \in Media : Len(packetQ'[n]) <= QueueMax
  <2>1. \/ UNCHANGED packetQ
        \/ Len(packetQ[m]) < QueueMax /\ packetQ' = [packetQ EXCEPT ![m] = @ \o packet[m]]
    BY <1>0 DEF EncodeOpen, EncodeTop, EncodePop, EncodeSend, EncodeReceive, EncodePush,
       EncodeFlush, EncodeFree, encodeVars
  <2>2. /\ packetQ[m] \o packet[m] \in Seq(Nat)
        /\ Len(packetQ[m] \o packet[m]) = Len(packetQ[m]) + Len(packet[m])
    BY <1>t, ConcatProperties
  <2>3. Len(packetQ[m]) < QueueMax => Len(packetQ[m] \o packet[m]) <= QueueMax
    BY <1>t, <2>2, LenProperties
  <2> QED BY <1>t, <2>1, <2>2, <2>3
<1>3. context' \in [Media -> {"null", "allocated", "open"}]
  BY <1>0, <1>t DEF EncodeOpen, EncodeTop, EncodePop, EncodeSend, EncodeReceive, EncodePush,
     EncodeFlush, EncodeFree, encodeVars
<1>4. nextPts' \in [Media -> Nat]
  <2>1. UNCHANGED nextPts \/ nextPts' = [nextPts EXCEPT ![m] = @ + 1]
    BY <1>0, Zenon DEF EncodeOpen, EncodeTop, EncodePop, EncodeSend, EncodeReceive,
       EncodePush, EncodeFlush, EncodeFree, encodeVars
  <2>2. nextPts \in [Media -> Nat]
    BY <1>t
  <2> QED BY <2>1, <2>2
<1>5. encoder' \in [Media -> Seq(Nat)]
  <2>1. \/ UNCHANGED encoder
        \/ pc[m] = "send" /\ encoder' = [encoder EXCEPT ![m] = Append(@, nextPts[m] - 1)]
        \/ encoder[m] # <<>> /\ encoder' = [encoder EXCEPT ![m] = Tail(@)]
    BY <1>0, Zenon DEF EncodeOpen, EncodeTop, EncodePop, EncodeSend, EncodeReceive,
       EncodePush,
       EncodeFlush, EncodeFree, encodeVars
  <2>2. encoder[m] # <<>> => Tail(encoder[m]) \in Seq(Nat)
    BY <1>t, TakeHead
  <2>3. pc[m] = "send" => Append(encoder[m], nextPts[m] - 1) \in Seq(Nat)
    <3>1. pc[m] = "send" => nextPts[m] > 0
      BY DEF TypeInv, HandsOK
    <3> QED BY <1>t, <3>1, AppendProperties
  <2> QED BY <1>t, <2>1, <2>2, <2>3
<1>6. packet' \in [Media -> Seq(Nat)] /\ \A n \in Media : Len(packet'[n]) <= 1
  <2>1. \/ UNCHANGED packet
        \/ packet' = [packet EXCEPT ![m] = <<>>]
        \/ encoder[m] # <<>> /\ packet' = [packet EXCEPT ![m] = <<Head(encoder[m])>>]
    BY <1>0, Zenon DEF EncodeOpen, EncodeTop, EncodePop, EncodeSend, EncodeReceive,
       EncodePush,
       EncodeFlush, EncodeFree, encodeVars
  <2>2. CASE encoder[m] # <<>> /\ packet' = [packet EXCEPT ![m] = <<Head(encoder[m])>>]
    <3>1. Head(encoder[m]) \in Nat
      BY <1>t, <2>2, TakeHead
    <3>2. \A n \in Media : packet'[n] = IF n = m THEN <<Head(encoder[m])>> ELSE packet[n]
      BY <1>t, <2>2
    <3>3. packet' \in [Media -> Seq(Nat)]
      BY <1>t, <2>2, <3>1
    <3>4. Len(<<Head(encoder[m])>>) <= 1
      OBVIOUS
    <3>5. \A n \in Media : Len(packet'[n]) <= 1
      BY <1>t, <3>2, <3>4, Zenon
    <3> QED BY <3>3, <3>5
  <2>3. CASE packet' = [packet EXCEPT ![m] = <<>>]
    <3>1. <<>> \in Seq(Nat) /\ Len(<<>>) = 0
      OBVIOUS
    <3> QED BY <1>t, <2>3, <3>1
  <2> QED BY <1>t, <2>1, <2>2, <2>3
<1> QED BY <1>1, <1>2, <1>3, <1>4, <1>5, <1>6

\* Where a step of an encoder thread leads; it numbers a frame before it sends it.
LEMMA EncodeGoes ==
    ASSUME NEW m \in Media, TypeInv, EncodeStep(m)
    PROVE  /\ pc' \in [Threads -> ThreadPcs]
           /\ \A t \in Threads \ {m} : pc'[t] = pc[t]
           /\ pc[m] \notin {"none", "done"} \/ UNCHANGED pc
           /\ pc'[m] # "none" \/ UNCHANGED pc
           /\ pc'[m] = "send" => nextPts'[m] > 0
           /\ \A n \in Media \ {m} : nextPts'[n] = nextPts[n]
<1>t. pc \in [Threads -> ThreadPcs] /\ m \in Threads /\ nextPts \in [Media -> Nat]
      /\ (pc[m] = "send" => nextPts[m] > 0)
      /\ context[m] \in {"null", "allocated", "open"}
  BY DEF TypeInv, RecorderTypeOK, HandsOK, Media, Threads
<1>1. \/ UNCHANGED pc /\ UNCHANGED nextPts
      \/ pc[m] \notin {"none", "done"} /\ UNCHANGED nextPts /\ \E to \in ThreadPcs \ {"send", "none"} : Go(m, to)
      \/ pc[m] = "pop" /\ nextPts' = [nextPts EXCEPT ![m] = @ + 1] /\ Go(m, "send")
  <2>1. CASE EncodeReceive(m)
    BY <2>1 DEF EncodeReceive, ThreadPcs, AfterReceive
  <2>2. CASE EncodePop(m)
    BY <2>2 DEF EncodePop, ThreadPcs
  <2>3. CASE EncodePush(m)
    BY <2>3 DEF EncodePush
  <2>4. CASE EncodeOpen(m) \/ EncodeTop(m) \/ EncodeFlush(m) \/ EncodeFree(m)
    <3>1. \E to \in {"top", "done", "flush", "pop", "crashed", "free", "flushReceive"} : Go(m, to)
      BY <1>t, <2>4 DEF EncodeOpen, EncodeTop, EncodeFlush, EncodeFree
    <3>2. UNCHANGED nextPts /\ pc[m] \in {"open", "top", "flush", "free"}
      BY <2>4 DEF EncodeOpen, EncodeTop, EncodeFlush, EncodeFree, encodeVars
    <3> QED BY <3>1, <3>2 DEF ThreadPcs
  <2>5. CASE EncodeSend(m)
    BY <2>5 DEF EncodeSend, ThreadPcs
  <2> QED BY <2>1, <2>2, <2>3, <2>4, <2>5 DEF EncodeStep
<1>2. "send" \in ThreadPcs
  BY DEF ThreadPcs
<1>3. ASSUME NEW to \in ThreadPcs, Go(m, to)
      PROVE  /\ pc' \in [Threads -> ThreadPcs] /\ pc'[m] = to
             /\ \A t \in Threads \ {m} : pc'[t] = pc[t]
  BY <1>3, <1>t, GoTypes
<1> QED BY <1>t, <1>1, <1>2, <1>3

\* The steps of an encoder thread keep the types.
LEMMA EncodeTypeInv == ASSUME NEW m \in Media, TypeInv, EncodeStep(m) PROVE TypeInv'
<1>1. EncodeOnly
  BY Zenon DEF EncodeStep, EncodeOpen, EncodeTop, EncodePop, EncodeSend, EncodeReceive,
     EncodePush, EncodeFlush, EncodeFree
<1>2. \A n \in Media : pc'[n] = "send" => nextPts'[n] > 0
  BY EncodeGoes DEF TypeInv, HandsOK, Media, Threads
<1>3. pc'["mux"] = pc["mux"]
  BY EncodeGoes DEF Threads, Media
<1> QED BY <1>1, <1>2, <1>3, EncodeTypes, EncodeGoes DEF TypeInv, RecorderTypeOK, HandsOK,
   EncodeOnly, deviceVars, muxVars, callerVars

-----------------------------------------------------------------------------
(* Types: the mux thread *)

\* The mux thread leaves the rest of the recorder alone.
LEMMA MuxFrame == ASSUME MuxStep PROVE MuxOnly
  BY Zenon DEF MuxStep, MuxOpen, MuxTop, MuxPops, MuxPop, MuxCompare, MuxWrite, MuxTrailer

\* The types the mux thread's steps depend on.
LEMMA MuxTypes == TypeInv => 
    /\ packetQ \in [Media -> Seq(Nat)] /\ inHand \in [Media -> Seq(Nat)]
    /\ \A n \in Media : Len(packetQ[n]) <= QueueMax /\ Len(inHand[n]) <= 1
    /\ QueueMax \in Nat /\ pc \in [Threads -> ThreadPcs] /\ "mux" \in Threads
    /\ chosen \in Media /\ written \in Seq(Media \X Nat)
    /\ \A n \in Media : packetQ[n] \in Seq(Nat) /\ inHand[n] \in Seq(Nat)
  BY RecorderAssumption DEF TypeInv, RecorderTypeOK, HandsOK, Threads

\* The muxer goes to another place; the other threads stay where they are.
LEMMA MuxGoes ==
    ASSUME TypeInv, NEW to \in ThreadPcs, Go("mux", to)
    PROVE  /\ pc' \in [Threads -> ThreadPcs] /\ pc'["mux"] = to
           /\ \A t \in Threads \ {"mux"} : pc'[t] = pc[t]
           /\ \A m \in Media : pc'[m] = pc[m]
<1>1. pc \in [Threads -> ThreadPcs] /\ "mux" \in Threads /\ \A m \in Media : m \in Threads \ {"mux"}
  BY MuxTypes DEF Threads, Media
<1> QED BY <1>1, GoTypes

\* One pop of the muxer.
LEMMA MuxPopTypes ==
    ASSUME TypeInv, NEW from, NEW m \in Media, NEW to \in ThreadPcs \ {"trailer"}, MuxPop(from, m, to)
    PROVE  /\ packetQ' \in [Media -> Seq(Nat)] /\ inHand' \in [Media -> Seq(Nat)]
           /\ \A n \in Media : Len(packetQ'[n]) <= QueueMax /\ Len(inHand'[n]) <= 1
           /\ \A n \in Media : inHand[n] # <<>> => inHand'[n] # <<>>
           /\ pc' \in [Threads -> ThreadPcs] /\ pc["mux"] = from
           /\ \A n \in Media : pc'[n] = pc[n]
           /\ \/ pc'["mux"] = "trailer"
              \/ pc'["mux"] = to /\ inHand'[m] # <<>>
<1>1. CASE UNCHANGED <<packetQ, inHand>> /\ (Go("mux", "trailer") \/ (inHand[m] # <<>> /\ Go("mux", to)))
  <2>1. pc["mux"] = from
    BY DEF MuxPop
  <2>2. "trailer" \in ThreadPcs
    BY DEF ThreadPcs
  <2> QED BY <1>1, <2>1, <2>2, MuxTypes, MuxGoes
<1>2. CASE /\ packetQ[m] # <<>> /\ inHand' = [inHand EXCEPT ![m] = <<Head(packetQ[m])>>]
           /\ packetQ' = [packetQ EXCEPT ![m] = Tail(@)]
           /\ Go("mux", to)
  <2>1. Head(packetQ[m]) \in Nat /\ Tail(packetQ[m]) \in Seq(Nat)
        /\ Len(Tail(packetQ[m])) <= Len(packetQ[m])
    BY <1>2, MuxTypes, TakeHead, LenProperties
  <2>2. packetQ' \in [Media -> Seq(Nat)] /\ \A n \in Media : packetQ'[n] = IF n = m THEN Tail(packetQ[m]) ELSE packetQ[n]
    BY <1>2, <2>1, MuxTypes
  <2>3. \A n \in Media : Len(packetQ'[n]) <= QueueMax
    <3>1. Len(Tail(packetQ[m])) <= QueueMax
      BY <2>1, MuxTypes, LenProperties
    <3> QED BY <2>2, <3>1, MuxTypes
  <2>4. <<Head(packetQ[m])>> \in Seq(Nat) /\ <<Head(packetQ[m])>> # <<>> /\ Len(<<Head(packetQ[m])>>) <= 1
    BY <2>1
  <2>5. /\ inHand' \in [Media -> Seq(Nat)]
        /\ \A n \in Media : inHand'[n] = IF n = m THEN <<Head(packetQ[m])>> ELSE inHand[n]
    BY <1>2, <2>4, MuxTypes
  <2>6. \A n \in Media : Len(inHand'[n]) <= 1 /\ (inHand[n] # <<>> => inHand'[n] # <<>>)
    BY <2>4, <2>5, MuxTypes, Zenon
  <2>7. inHand'[m] # <<>>
    BY <2>4, <2>5, Zenon
  <2>8. pc["mux"] = from
    BY DEF MuxPop
  <2> QED BY <1>2, <2>2, <2>3, <2>5, <2>6, <2>7, <2>8, MuxGoes
<1> QED BY <1>1, <1>2, Zenon DEF MuxPop

\* A pop gives the muxer the packet it needs, or sends it to the trailer.
LEMMA MuxPopsTypes ==
    ASSUME TypeInv, MuxPops
    PROVE  /\ packetQ' \in [Media -> Seq(Nat)] /\ inHand' \in [Media -> Seq(Nat)]
           /\ \A n \in Media : Len(packetQ'[n]) <= QueueMax /\ Len(inHand'[n]) <= 1
           /\ pc' \in [Threads -> ThreadPcs]
           /\ \A n \in Media : pc'[n] = pc[n]
           /\ pc'["mux"] \in {"popAudio", "compare", "write"} => inHand'["video"] # <<>>
           /\ pc'["mux"] \in {"compare", "write"} => inHand'["audio"] # <<>>
<1>1. "popAudio" \in ThreadPcs \ {"trailer"} /\ "compare" \in ThreadPcs \ {"trailer"}
      /\ "video" \in Media /\ "audio" \in Media
  BY DEF ThreadPcs, Media
<1>2. CASE MuxPop("popVideo", "video", "popAudio")
  <2>1. pc'["mux"] = "trailer" \/ (pc'["mux"] = "popAudio" /\ inHand'["video"] # <<>>)
    BY <1>1, <1>2, MuxPopTypes, Zenon
  <2> QED BY <1>1, <1>2, <2>1, MuxPopTypes
<1>3. CASE MuxPop("popAudio", "audio", "compare")
  <2>1. pc'["mux"] = "trailer" \/ (pc'["mux"] = "compare" /\ inHand'["audio"] # <<>>)
    BY <1>1, <1>3, MuxPopTypes, Zenon
  <2>2. inHand["video"] # <<>>
    BY <1>3 DEF TypeInv, HandsOK, MuxPop
  <2>3. inHand'["video"] # <<>>
    BY <1>1, <1>3, <2>2, MuxPopTypes, Zenon
  <2> QED BY <1>1, <1>3, <2>1, <2>3, MuxPopTypes
<1> QED BY <1>2, <1>3 DEF MuxPops

\* A write takes the packet out of the muxer's hand.
LEMMA MuxWriteTypes ==
    ASSUME TypeInv, MuxWrite
    PROVE  /\ inHand' \in [Media -> Seq(Nat)]
           /\ \A n \in Media : Len(inHand'[n]) <= 1
           /\ written' \in Seq(Media \X Nat)
           /\ \E to \in {"crashed", "top"} : Go("mux", to)
<1>1. CASE Go("mux", "crashed") /\ UNCHANGED <<written, inHand>>
  BY <1>1, MuxTypes
<1>2. CASE /\ Go("mux", "top")
           /\ written' = Append(written, <<chosen, Head(inHand[chosen])>>)
           /\ inHand' = [inHand EXCEPT ![chosen] = <<>>]
  <2>1. inHand[chosen] # <<>>
    BY DEF TypeInv, HandsOK, MuxWrite, RecorderTypeOK, Media
  <2>2. <<chosen, Head(inHand[chosen])>> \in Media \X Nat
    BY <2>1, MuxTypes, TakeHead
  <2>3. written' \in Seq(Media \X Nat)
    BY <1>2, <2>2, MuxTypes, AppendProperties
  <2>4. <<>> \in Seq(Nat) /\ Len(<<>>) <= 1
    OBVIOUS
  <2>5. inHand \in [Media -> Seq(Nat)] /\ \A n \in Media : Len(inHand[n]) <= 1
    BY MuxTypes
  <2>6. inHand' \in [Media -> Seq(Nat)] /\ \A n \in Media : inHand'[n] = inHand[n] \/ inHand'[n] = <<>>
    BY <1>2, <2>4, <2>5
  <2>7. \A n \in Media : Len(inHand'[n]) <= 1
    BY <2>4, <2>5, <2>6, Zenon
  <2> QED BY <1>2, <2>3, <2>6, <2>7
<1> QED BY <1>1, <1>2, Zenon DEF MuxWrite

\* The steps of the mux thread keep the types.
LEMMA MuxTypeInv == TypeInv /\ MuxStep => TypeInv'
<1> SUFFICES ASSUME TypeInv, MuxStep PROVE TypeInv'
  OBVIOUS
<1> DEFINE Queues == /\ packetQ' \in [Media -> Seq(Nat)] /\ inHand' \in [Media -> Seq(Nat)]
                     /\ \A n \in Media : Len(packetQ'[n]) <= QueueMax /\ Len(inHand'[n]) <= 1
           Places == pc' \in [Threads -> ThreadPcs] /\ \A n \in Media : pc'[n] = pc[n]
           Hands == /\ pc'["mux"] \in {"popAudio", "compare", "write"} => inHand'["video"] # <<>>
                    /\ pc'["mux"] \in {"compare", "write"} => inHand'["audio"] # <<>>
<1>1. Queues
  <2>1. CASE MuxOpen \/ MuxTop \/ MuxCompare
    <3>1. UNCHANGED <<packetQ, inHand>>
      BY <2>1, Zenon DEF MuxOpen, MuxTop, MuxCompare, muxVars
    <3> QED BY <3>1, MuxTypes
  <2>2. CASE MuxPops
    BY <2>2, MuxPopsTypes
  <2>3. CASE MuxWrite
    <3>1. UNCHANGED packetQ
      BY <2>3, Zenon DEF MuxWrite
    <3> QED BY <2>3, <3>1, MuxTypes, MuxWriteTypes
  <2>4. CASE MuxTrailer
    <3>1. UNCHANGED packetQ /\ inHand' = [m \in Media |-> <<>>]
      BY <2>4, Zenon DEF MuxTrailer
    <3> QED BY <3>1, MuxTypes
  <2> QED BY <2>1, <2>2, <2>3, <2>4 DEF MuxStep
<1>2. Places /\ Hands
  <2>1. CASE MuxPops
    BY <2>1, MuxPopsTypes
  <2>2. CASE MuxCompare
    <3>1. PICK to \in {"crashed", "write"} : Go("mux", to)
      BY <2>2 DEF MuxCompare
    <3>2. to \in ThreadPcs
      BY DEF ThreadPcs
    <3>3. UNCHANGED inHand /\ inHand["video"] # <<>> /\ inHand["audio"] # <<>>
      BY <2>2 DEF MuxCompare, TypeInv, HandsOK
    <3>4. Places
      BY <3>1, <3>2, MuxGoes
    <3> QED BY <3>3, <3>4
  <2>3. CASE MuxOpen \/ MuxTop \/ MuxWrite \/ MuxTrailer
    <3>1. PICK to \in {"crashed", "top", "done", "trailer", "popVideo"} : Go("mux", to)
      BY <2>3, MuxWriteTypes DEF MuxOpen, MuxTop, MuxTrailer
    <3>2. to \in ThreadPcs
      BY DEF ThreadPcs
    <3>3. Places /\ pc'["mux"] = to
      BY <3>1, <3>2, MuxGoes
    <3> QED BY <3>3
  <2> QED BY <2>1, <2>2, <2>3 DEF MuxStep
<1>3. chosen' \in Media /\ written' \in Seq(Media \X Nat)
  <2>1. UNCHANGED written \/ MuxWrite
    BY Zenon DEF MuxStep, MuxOpen, MuxTop, MuxPops, MuxPop, MuxCompare, MuxTrailer, muxVars
  <2>2. chosen' \in {chosen, "video", "audio"}
    BY DEF MuxStep, MuxOpen, MuxTop, MuxPops, MuxPop, MuxCompare, MuxWrite, MuxTrailer,
           muxVars
  <2> QED BY <2>1, <2>2, MuxWriteTypes, MuxTypes DEF Media
<1>4. file' \in {"none", "header", "complete"}
  <2>1. file' \in {file, "header", "complete"}
    BY DEF MuxStep, MuxOpen, MuxTop, MuxPops, MuxPop, MuxCompare, MuxWrite, MuxTrailer,
           muxVars
  <2> QED BY <2>1 DEF TypeInv, RecorderTypeOK
<1> HIDE DEF Queues, Places, Hands
<1>5. Queues /\ Places /\ Hands /\ MuxOnly => TypeInv'
  BY <1>3, <1>4 DEF Queues, Places, Hands, MuxOnly, TypeInv, RecorderTypeOK, HandsOK,
     deviceVars,
     codecVars, encodeVars, callerVars
<1> QED BY <1>1, <1>2, <1>5, MuxFrame

\* init(), start() and stop() keep the types.
LEMMA CallerTypeInv == TypeInv /\ (CallerStep \/ BeginStop) => TypeInv'
<1> SUFFICES ASSUME TypeInv, CallerStep \/ BeginStop PROVE TypeInv'
  OBVIOUS
<1>t. /\ pc \in [Threads -> ThreadPcs] /\ exit \in [Threads -> BOOLEAN]
      /\ frameQ \in [Media -> 0..QueueMax] /\ packetQ \in [Media -> Seq(Nat)]
      /\ frameAbort \in [Media -> BOOLEAN] /\ packetAbort \in [Media -> BOOLEAN]
      /\ initDone \in [Media -> BOOLEAN] /\ context \in [Media -> {"null", "allocated", "open"}]
      /\ round \in 0..MaxRounds /\ QueueMax \in Nat /\ MaxRounds \in Nat
      /\ \A m \in Media : Len(packetQ[m]) <= QueueMax
      /\ Media \subseteq Threads
      /\ mAudioDevID \in BOOLEAN /\ devicePaused \in BOOLEAN
      /\ callerPc \in CallerPcs
  BY RecorderAssumption DEF TypeInv, RecorderTypeOK, Media, Threads
<1> DEFINE Step == \/ OpenDevice \/ InitEncoders \/ StartDevice \/ CreateThreads \/ CloseDevice
                   \/ TellThreads \/ AbortQueues \/ JoinThreads \/ BeginStop
<1>0. Step
  BY DEF CallerStep
<1>1. callerPc' \in CallerPcs
  BY <1>0 DEF OpenDevice, InitEncoders, InitEncoder, StartDevice, CreateThreads,
     CreateThread,
     CloseDevice, TellThreads, Tell, AbortQueues, JoinThreads, Join, BeginStop, Continue,
     CallerPcs
<1>2. pc' \in [Threads -> ThreadPcs] /\ \A t \in Threads : pc'[t] \in {pc[t], "open"}
  <2>1. UNCHANGED pc \/ \E t \in Threads : Go(t, "open")
    <3>1. UNCHANGED pc \/ CreateThreads
      BY <1>0, Zenon DEF OpenDevice, InitEncoders, InitEncoder, StartDevice, CloseDevice,
         TellThreads, AbortQueues, JoinThreads, BeginStop
    <3> QED BY <3>1 DEF CreateThreads, CreateThread, Threads
  <2>2. "open" \in ThreadPcs
    BY DEF ThreadPcs
  <2> QED BY <1>t, <2>1, <2>2, GoTypes
<1>3. exit' \in [Threads -> BOOLEAN]
  <2>1. UNCHANGED exit \/ \E t \in Threads, b \in BOOLEAN : exit' = [exit EXCEPT ![t] = b]
    <3>1. UNCHANGED exit \/ CreateThreads \/ TellThreads
      BY <1>0, Zenon DEF OpenDevice, InitEncoders, InitEncoder, StartDevice, CloseDevice,
         AbortQueues, JoinThreads, BeginStop
    <3> QED BY <3>1 DEF CreateThreads, CreateThread, TellThreads, Tell, Threads
  <2> QED BY <1>t, <2>1, Zenon
<1>4. round' \in 0..MaxRounds
  <2>1. UNCHANGED round \/ (round < MaxRounds /\ round' = round + 1)
    BY <1>0, Zenon DEF OpenDevice, InitEncoders, InitEncoder, StartDevice, CloseDevice,
       CreateThreads,
       CreateThread, TellThreads, AbortQueues, JoinThreads, BeginStop, StopOnly
  <2> QED BY <1>t, <2>1
<1>5. mAudioDevID' \in BOOLEAN /\ devicePaused' \in BOOLEAN
  <2>1. mAudioDevID' \in {mAudioDevID, TRUE, FALSE}
        /\ devicePaused' \in {devicePaused, TRUE, (devicePaused /\ ~mAudioDevID)}
    BY <1>0, Zenon DEF OpenDevice, InitEncoders, InitEncoder, StartDevice, CloseDevice,
       CreateThreads,
       CreateThread, TellThreads, AbortQueues, JoinThreads, BeginStop, StopOnly
  <2> QED BY <1>t, <2>1
<1>6. /\ initDone' \in [Media -> BOOLEAN] /\ context' \in [Media -> {"null", "allocated", "open"}]
  <2>1. UNCHANGED <<initDone, context>> \/ InitEncoders
    BY <1>0, Zenon DEF OpenDevice, StartDevice, CloseDevice, CreateThreads,
       CreateThread, TellThreads, AbortQueues, JoinThreads, BeginStop, StopOnly, codecVars
  <2>2. InitEncoders => \E m \in Media : \E b \in BOOLEAN, c \in {"null", "allocated", "open"} :
                           initDone' = [initDone EXCEPT ![m] = b] /\ context' = [context EXCEPT ![m] = c]
    BY DEF InitEncoders, InitEncoder, Media
  <2>3. ASSUME InitEncoders PROVE initDone' \in [Media -> BOOLEAN]
    BY <1>t, <2>2, <2>3, Zenon
  <2>4. ASSUME InitEncoders PROVE context' \in [Media -> {"null", "allocated", "open"}]
    BY <1>t, <2>2, <2>4
  <2> QED BY <1>t, <2>1, <2>3, <2>4
<1>7. /\ frameQ' \in [Media -> 0..QueueMax] /\ packetQ' \in [Media -> Seq(Nat)]
      /\ \A m \in Media : Len(packetQ'[m]) <= QueueMax
      /\ frameAbort' \in [Media -> BOOLEAN] /\ packetAbort' \in [Media -> BOOLEAN]
  <2>1. UNCHANGED queueVars \/ \E m \in Media : AbortFrames(m) \/ AbortPackets(m)
    <3>1. UNCHANGED queueVars \/ AbortQueues
      BY <1>0, Zenon DEF OpenDevice, InitEncoders, InitEncoder, StartDevice, CloseDevice,
         CreateThreads,
         CreateThread, TellThreads, JoinThreads, BeginStop
    <3> QED BY <3>1 DEF AbortQueues, Media
  <2>2. ASSUME NEW m \in Media, AbortFrames(m)
        PROVE  /\ frameQ' \in [Media -> 0..QueueMax] /\ UNCHANGED <<packetQ, packetAbort>>
               /\ frameAbort' \in [Media -> BOOLEAN]
    <3>1. frameAbort' \in [Media -> BOOLEAN]
      BY <1>t, <2>2, Zenon DEF AbortFrames
    <3> QED BY <1>t, <2>2, <3>1 DEF AbortFrames
  <2>3. ASSUME NEW m \in Media, AbortPackets(m)
        PROVE  /\ packetQ' \in [Media -> Seq(Nat)] /\ \A n \in Media : Len(packetQ'[n]) <= QueueMax
               /\ UNCHANGED <<frameQ, frameAbort>> /\ packetAbort' \in [Media -> BOOLEAN]
    <3>1. packetAbort' \in [Media -> BOOLEAN]
      BY <1>t, <2>3, Zenon DEF AbortPackets
    <3>2. <<>> \in Seq(Nat) /\ Len(<<>>) <= QueueMax
      BY <1>t
    <3> QED BY <1>t, <2>3, <3>1, <3>2 DEF AbortPackets
  <2> QED BY <1>t, <2>1, <2>2, <2>3 DEF queueVars
<1>8. CallerOnly
  BY <1>0, Zenon DEF OpenDevice, InitEncoders, InitEncoder, StartDevice, CloseDevice,
     CreateThreads,
     CreateThread, TellThreads, AbortQueues, JoinThreads, BeginStop, StopOnly
<1>9. /\ \A m \in Media : pc'[m] = "send" => pc[m] = "send"
      /\ \A p \in {"popAudio", "compare", "write"} : pc'["mux"] = p => pc["mux"] = p
  BY <1>2, <1>t DEF Threads
<1>a. HandsOK'
  BY <1>8, <1>9 DEF CallerOnly, encodeVars, muxVars, TypeInv, HandsOK
<1>b. callback' \in {"out", "push"} /\ captured' \in [Media -> Nat] /\ nextPts' \in [Media -> Nat]
      /\ encoder' \in [Media -> Seq(Nat)] /\ packet' \in [Media -> Seq(Nat)]
      /\ inHand' \in [Media -> Seq(Nat)] /\ chosen' \in Media /\ written' \in Seq(Media \X Nat)
      /\ file' \in {"none", "header", "complete"}
  BY <1>8 DEF CallerOnly, encodeVars, muxVars, TypeInv, RecorderTypeOK
<1> QED BY <1>1, <1>2, <1>3, <1>4, <1>5, <1>6, <1>7, <1>a, <1>b DEF TypeInv, RecorderTypeOK

\* Doing nothing keeps the types.
LEMMA StutterTypeInv == TypeInv /\ UNCHANGED vars => TypeInv'
  BY DEF vars, queueVars, deviceVars, codecVars, encodeVars, muxVars, callerVars, TypeInv,
     RecorderTypeOK, HandsOK

\* Every step keeps the types.
LEMMA NextTypeInv == TypeInv /\ [Next]_vars => TypeInv'
  BY CallbackTypeInv, RecordTypeInv, EncodeTypeInv, MuxTypeInv, CallerTypeInv, StutterTypeInv, Zenon
     DEF Next, Running

-----------------------------------------------------------------------------
(* start() and stop() *)

\* The caller has not created thread t in this round.
NotYet(t) == \/ callerPc \in {"idle", "initAudio", "initVideo", "start", "record"}
             \/ t # "record" /\ callerPc = "video"
             \/ t \in {"audio", "mux"} /\ callerPc = "audio"
             \/ t = "mux" /\ callerPc = "mux"

\* stop() has joined thread t.
Joined(t) == \/ callerPc = "joinVideo" /\ t = "record"
             \/ callerPc = "joinAudio" /\ t \in {"record", "video"}
             \/ callerPc = "joinMux" /\ t # "mux"

\* stop() joins the threads.
Joining == {"joinRecord", "joinVideo", "joinAudio", "joinMux"}

\* stop() aborts the queues.
Aborting == {"abortVideoFrames", "abortVideoPackets", "abortAudioFrames",
             "abortAudioPackets"}

\* No thread was ever created but by this round, if any.
FirstStart == round = 0 \/ (round = 1 /\ callerPc # "idle")

\* Every queue is aborted.
AllAborted == \A m \in Media : frameAbort[m] /\ packetAbort[m]

\* Some queue is aborted.
OneAborted == \E m \in Media : frameAbort[m] \/ packetAbort[m]

\* Threads exist from their creation to their join: a thread the caller has not
\* created is none or was joined in an earlier round.
CallerInv ==
    /\ round = 0 => callerPc = "idle" /\ \A m \in Media : ~initDone[m]
    /\ \A t \in Threads : NotYet(t) => pc[t] = IF FirstStart THEN "none" ELSE "done"
    /\ \A t \in Threads : Joined(t) => pc[t] = "done"

\* Queues are aborted in the order of stop(), and stay so.
AbortInv ==
    /\ callerPc \in Joining \/ ~FirstStart => AllAborted
    /\ callerPc \in {"abortVideoPackets", "abortAudioFrames", "abortAudioPackets"}
           => frameAbort["video"]
    /\ callerPc \in {"abortAudioFrames", "abortAudioPackets"} => packetAbort["video"]
    /\ callerPc = "abortAudioPackets" => frameAbort["audio"]

\* In the first round a queue is aborted only when stop() has set the exit flags
\* of both encoder threads.
ToldInv ==
    /\ OneAborted => round > 0 /\ (round = 1 => callerPc \in Aborting \cup Joining \cup {"idle"})
    /\ round = 1 /\ callerPc \in {"tellAudio", "tellMux"} \cup Aborting \cup Joining \cup {"idle"} => exit["video"]
    /\ round = 1 /\ callerPc \in {"tellMux"} \cup Aborting \cup Joining \cup {"idle"} => exit["audio"]

\* The muxer holds packets while it runs in the first round, and then only.
MuxInv == pc["mux"] \in {"none", "open", "done"} \/ round > 1
              => \A m \in Media : inHand[m] = <<>>

\* What the threads and the callback leave to the caller.
ThreadOnly == UNCHANGED <<callerPc, round, initDone, exit, frameAbort, packetAbort>>

\* The steps of the callback and of the threads, the caller's left out.
ThreadStep == \/ CallbackBegin \/ CallbackPush \/ RecordStep
              \/ (\E m \in Media : EncodeStep(m)) \/ MuxStep

\* A step is one of the threads, or one of the caller.
LEMMA NextSteps == Next => ThreadStep \/ CallerStep \/ BeginStop
  BY Zenon DEF Next, Running, ThreadStep

\* Threads set no flag, and do not move the caller.
LEMMA ThreadFrame == ThreadStep => ThreadOnly
<1>1. CallbackBegin \/ CallbackPush => ThreadOnly
  BY DEF CallbackBegin, CallbackPush, PushFrame, ThreadOnly, queueVars, codecVars,
         callerVars
<1>2. RecordStep => ThreadOnly
  BY DEF RecordStep, RecordOpen, RecordTop, RecordFrame, RecordNothing, RecordPush,
         PushFrame,
     RecordOnly, ThreadOnly, queueVars, codecVars, callerVars
<1>3. ASSUME NEW m \in Media, EncodeStep(m) PROVE ThreadOnly
  <2>1. EncodeOnly
    BY <1>3, Zenon DEF EncodeStep, EncodeOpen, EncodeTop, EncodePop, EncodeSend,
       EncodeReceive,
       EncodePush, EncodeFlush, EncodeFree
  <2> QED BY <2>1 DEF EncodeOnly, ThreadOnly, callerVars
<1>4. MuxStep => ThreadOnly
  BY MuxFrame DEF MuxOnly, ThreadOnly, codecVars, callerVars
<1> QED BY <1>1, <1>2, <1>3, <1>4, Zenon DEF ThreadStep

\* A thread moves itself only, and none that is not created or has ended moves.
LEMMA ThreadMoves ==
    TypeInv /\ ThreadStep =>
        \A t \in Threads : pc'[t] = pc[t] \/ (pc[t] \notin {"none", "done"} /\ pc'[t] # "none")
<1> SUFFICES ASSUME TypeInv, ThreadStep
             PROVE \A t \in Threads : pc'[t] = pc[t] \/ (pc[t] \notin {"none", "done"} /\ pc'[t] # "none")
  OBVIOUS
<1>t. pc \in [Threads -> ThreadPcs] /\ Media \subseteq Threads /\ {"record", "mux"} \subseteq Threads
  BY DEF TypeInv, RecorderTypeOK, Media, Threads
<1>1. CASE CallbackBegin \/ CallbackPush
  BY <1>1 DEF CallbackBegin, CallbackPush
<1>2. CASE RecordStep
  <2>1. \E to \in {"top", "read", "push", "done"} : Go("record", to)
    BY <1>2 DEF RecordStep, RecordOpen, RecordTop, RecordFrame, RecordNothing, RecordPush
  <2>2. pc["record"] \notin {"none", "done"}
    BY <1>2 DEF RecordStep, RecordOpen, RecordTop, RecordFrame, RecordNothing, RecordPush
  <2>3. {"top", "read", "push", "done"} \subseteq ThreadPcs
    BY DEF ThreadPcs
  <2> QED BY <1>t, <2>1, <2>2, <2>3, GoTypes
<1>3. ASSUME NEW m \in Media, EncodeStep(m)
      PROVE  \A t \in Threads : pc'[t] = pc[t] \/ (pc[t] \notin {"none", "done"} /\ pc'[t] # "none")
  BY <1>3, <1>t, EncodeGoes
<1>4. CASE MuxStep
  <2>1. \E to \in {"crashed", "top", "done", "trailer", "popVideo", "popAudio", "compare", "write"} : Go("mux", to)
    BY <1>4 DEF MuxStep, MuxOpen, MuxTop, MuxPops, MuxPop, MuxCompare, MuxWrite, MuxTrailer
  <2>2. pc["mux"] \notin {"none", "done"}
    BY <1>4 DEF MuxStep, MuxOpen, MuxTop, MuxPops, MuxPop, MuxCompare, MuxWrite, MuxTrailer
  <2>3. {"crashed", "top", "done", "trailer", "popVideo", "popAudio", "compare", "write"} \subseteq ThreadPcs
    BY DEF ThreadPcs
  <2> QED BY <1>t, <2>1, <2>2, <2>3, GoTypes
<1> QED BY <1>1, <1>2, <1>3, <1>4 DEF ThreadStep

\* Initially no thread exists and no queue is aborted.
LEMMA InitStopInv == Init => CallerInv /\ AbortInv /\ ToldInv /\ MuxInv
<1> SUFFICES ASSUME Init PROVE CallerInv /\ AbortInv /\ ToldInv /\ MuxInv
  OBVIOUS
<1>1. \A m \in Media : ~frameAbort[m] /\ ~packetAbort[m] /\ ~initDone[m]
  BY DEF Init
<1>2. callerPc = "idle" /\ round = 0 /\ \A t \in Threads : pc[t] = "none"
  BY DEF Init
<1>3. \A m \in Media : inHand[m] = <<>>
  BY DEF Init
<1> QED BY <1>1, <1>2, <1>3 DEF CallerInv, AbortInv, ToldInv, MuxInv, FirstStart, Joined,
   AllAborted, OneAborted, Joining, Aborting

\* StopInv's parts are kept by the threads.
LEMMA ThreadStopInv ==
    TypeInv /\ CallerInv /\ AbortInv /\ ToldInv /\ ThreadStep
        => CallerInv' /\ AbortInv' /\ ToldInv'
<1> SUFFICES ASSUME TypeInv, CallerInv, AbortInv, ToldInv, ThreadStep
             PROVE CallerInv' /\ AbortInv' /\ ToldInv'
  OBVIOUS
<1>1. ThreadOnly
  BY ThreadFrame
<1>2. \A t \in Threads : pc'[t] = pc[t] \/ (pc[t] \notin {"none", "done"} /\ pc'[t] # "none")
  BY ThreadMoves
<1>3. AbortInv' /\ ToldInv'
  BY <1>1 DEF ThreadOnly, AbortInv, ToldInv, AllAborted, OneAborted, FirstStart
<1>4. CallerInv'
  <2>1. UNCHANGED <<callerPc, round, initDone>>
    BY <1>1 DEF ThreadOnly
  <2>2. \A t \in Threads : (NotYet(t)' <=> NotYet(t)) /\ (Joined(t)' <=> Joined(t))
    BY <2>1 DEF NotYet, Joined
  <2>3. FirstStart' <=> FirstStart
    BY <2>1 DEF FirstStart
  <2>4. \A t \in Threads : NotYet(t) \/ Joined(t) => pc'[t] = pc[t]
    BY <1>2 DEF CallerInv
  <2> QED BY <2>1, <2>2, <2>3, <2>4 DEF CallerInv
<1> QED BY <1>3, <1>4

\* start() creates the threads in order, stop() joins them in order.
LEMMA CallerCallerInv == TypeInv /\ CallerInv /\ (CallerStep \/ BeginStop) => CallerInv'
<1> SUFFICES ASSUME TypeInv, CallerInv, CallerStep \/ BeginStop PROVE CallerInv'
  OBVIOUS
<1>t. pc \in [Threads -> ThreadPcs] /\ round \in Nat /\ callerPc \in CallerPcs
      /\ initDone \in [Media -> BOOLEAN]
  BY RecorderAssumption DEF TypeInv, RecorderTypeOK
<1>1. CASE OpenDevice
  <2>1. /\ callerPc = "idle" /\ callerPc' \in {"initAudio", "start"} /\ round' = round + 1
        /\ UNCHANGED <<pc, initDone>>
    BY <1>1 DEF OpenDevice, Continue, codecVars
  <2>2. \A t \in Threads : NotYet(t) /\ ~Joined(t)'
    BY <2>1 DEF NotYet, Joined
  <2>3. FirstStart' <=> FirstStart
    BY <2>1, <1>t DEF FirstStart
  <2> QED BY <1>t, <2>1, <2>2, <2>3 DEF CallerInv
<1>2. CASE InitEncoders \/ StartDevice \/ BeginStop \/ CloseDevice \/ TellThreads \/ AbortQueues
  <2>1. UNCHANGED <<pc, round>>
    BY <1>2, Zenon DEF InitEncoders, InitEncoder, StartDevice, BeginStop, CloseDevice,
       TellThreads,
       AbortQueues, StopOnly
  <2>2. /\ callerPc # "idle" /\ callerPc' # "idle"
        /\ \A t \in Threads : (NotYet(t)' => NotYet(t)) /\ ~Joined(t)'
    BY <1>2 DEF InitEncoders, InitEncoder, StartDevice, BeginStop, CloseDevice,
       TellThreads, Tell,
       AbortQueues, Continue, NotYet, Joined
  <2>3. FirstStart' <=> FirstStart
    BY <2>1, <2>2 DEF FirstStart
  <2> QED BY <1>t, <2>1, <2>2, <2>3 DEF CallerInv
<1>3. CASE CreateThreads
  <2>1. UNCHANGED <<round, initDone>> /\ callerPc # "idle" /\ callerPc' # "idle"
        /\ \A t \in Threads : ~Joined(t)'
    BY <1>3 DEF CreateThreads, CreateThread, Continue, codecVars, Joined
  <2>2. \A t \in Threads : NotYet(t)' => NotYet(t) /\ pc'[t] = pc[t]
    BY <1>3, <1>t DEF CreateThreads, CreateThread, Continue, Go, NotYet, Threads
  <2>3. FirstStart' <=> FirstStart
    BY <2>1 DEF FirstStart
  <2> QED BY <1>t, <2>1, <2>2, <2>3 DEF CallerInv
<1>4. CASE JoinThreads
  <2>1. UNCHANGED <<pc, round, initDone>>
    BY <1>4 DEF JoinThreads, StopOnly, codecVars
  <2>2. callerPc # "idle" /\ \A t \in Threads : ~NotYet(t)
    BY <1>4 DEF JoinThreads, Join, Continue, NotYet, Threads
  <2>3. \A t \in Threads : Joined(t)' => pc[t] = "done"
    BY <1>4 DEF JoinThreads, Join, Continue, Joined, Threads, CallerInv
  <2>4. \A t \in Threads : NotYet(t)' => pc[t] = "done" /\ callerPc' = "idle"
    BY <1>4 DEF JoinThreads, Join, Continue, Joined, NotYet, Threads, CallerInv
  <2>5. round > 0
    BY <2>2, <1>t DEF CallerInv
  <2> QED BY <2>1, <2>2, <2>3, <2>4, <2>5 DEF CallerInv, FirstStart
<1> QED BY <1>1, <1>2, <1>3, <1>4 DEF CallerStep

\* stop() aborts all queues before it joins, and nobody reopens one.
LEMMA CallerAbortInv ==
    TypeInv /\ CallerInv /\ AbortInv /\ (CallerStep \/ BeginStop) => AbortInv'
<1> SUFFICES ASSUME TypeInv, CallerInv, AbortInv, CallerStep \/ BeginStop PROVE AbortInv'
  OBVIOUS
<1>t. /\ round \in Nat /\ frameAbort \in [Media -> BOOLEAN] /\ packetAbort \in [Media -> BOOLEAN]
  BY RecorderAssumption DEF TypeInv, RecorderTypeOK
<1>1. CASE AbortQueues
  <2>1. round' = round /\ callerPc \in Aborting /\ callerPc' \in Aborting \cup {"joinRecord"}
    BY <1>1 DEF AbortQueues, StopOnly, Continue, Aborting
  <2>2. \A m \in Media : (frameAbort[m] => frameAbort'[m]) /\ (packetAbort[m] => packetAbort'[m])
    BY <1>1, <1>t DEF AbortQueues, AbortFrames, AbortPackets
  <2>3. /\ callerPc = "abortVideoFrames" => frameAbort'["video"] /\ callerPc' = "abortVideoPackets"
        /\ callerPc = "abortVideoPackets" => packetAbort'["video"] /\ callerPc' = "abortAudioFrames"
        /\ callerPc = "abortAudioFrames" => frameAbort'["audio"] /\ callerPc' = "abortAudioPackets"
        /\ callerPc = "abortAudioPackets" => packetAbort'["audio"] /\ callerPc' = "joinRecord"
    BY <1>1, <1>t DEF AbortQueues, AbortFrames, AbortPackets, Continue, Media
  <2> QED BY <2>1, <2>2, <2>3 DEF AbortInv, AllAborted, FirstStart, Joining, Aborting, Media
<1>2. CASE ~AbortQueues
  <2>1. UNCHANGED <<frameAbort, packetAbort>>
    BY <1>2 DEF CallerStep, OpenDevice, InitEncoders, InitEncoder, StartDevice,
       CreateThreads,
       CreateThread, CloseDevice, TellThreads, JoinThreads, BeginStop, queueVars
  <2>2. callerPc' \in {"abortVideoPackets", "abortAudioFrames", "abortAudioPackets"} => FALSE
    BY <1>2 DEF CallerStep, OpenDevice, InitEncoders, InitEncoder, StartDevice,
       CreateThreads,
       CreateThread, CloseDevice, TellThreads, Tell, JoinThreads, Join, BeginStop, Continue
  <2>3. callerPc' \in Joining \/ ~FirstStart' => callerPc \in Joining \/ ~FirstStart
    BY <1>2, <1>t DEF CallerStep, OpenDevice, InitEncoders, InitEncoder, StartDevice,
       CreateThreads,
       CreateThread, CloseDevice, TellThreads, Tell, JoinThreads, Join, BeginStop,
       Continue, StopOnly,
       Joining, FirstStart
  <2> QED BY <2>1, <2>2, <2>3 DEF AbortInv, AllAborted
<1> QED BY <1>1, <1>2

\* stop() sets the exit flags before it aborts a queue.
LEMMA CallerToldInv ==
    TypeInv /\ CallerInv /\ AbortInv /\ ToldInv /\ (CallerStep \/ BeginStop) => ToldInv'
<1> SUFFICES ASSUME TypeInv, CallerInv, AbortInv, ToldInv, CallerStep \/ BeginStop PROVE ToldInv'
  OBVIOUS
<1>t. /\ round \in Nat /\ exit \in [Threads -> BOOLEAN]
  BY RecorderAssumption DEF TypeInv, RecorderTypeOK
<1> DEFINE Told == Aborting \cup Joining \cup {"idle"}
<1>1. CASE AbortQueues
  <2>1. UNCHANGED <<round, exit>> /\ callerPc \in Aborting /\ callerPc' \in Aborting \cup Joining
    BY <1>1 DEF AbortQueues, StopOnly, Continue, Aborting, Joining
  <2>2. round > 0
    BY <2>1, <1>t DEF CallerInv, Aborting
  <2> QED BY <2>1, <2>2 DEF ToldInv
<1>2. CASE JoinThreads
  <2>1. UNCHANGED <<round, exit, frameAbort, packetAbort>> /\ callerPc \in Joining /\ callerPc' \in Joining \cup {"idle"}
    BY <1>2 DEF JoinThreads, Join, StopOnly, Continue, Joining, queueVars
  <2> QED BY <2>1 DEF ToldInv, OneAborted
<1>3. CASE OpenDevice
  <2>1. round' = round + 1 /\ UNCHANGED <<frameAbort, packetAbort>> /\ callerPc' \in {"initAudio", "start"}
    BY <1>3 DEF OpenDevice, Continue, queueVars
  <2>2. OneAborted' => round' > 1
    BY <2>1, <1>t DEF OneAborted, ToldInv
  <2> QED BY <2>1, <2>2, <1>t DEF ToldInv, Aborting, Joining
<1>4. CASE TellThreads
  <2>1. UNCHANGED <<round, frameAbort, packetAbort>>
    BY <1>4 DEF TellThreads, StopOnly, queueVars
  <2>2. callerPc \in {"tellRecord", "tellVideo", "tellAudio", "tellMux"} /\ callerPc' # "idle"
    BY <1>4 DEF TellThreads, Tell, Continue
  <2>3. ~OneAborted \/ round > 1
    BY <2>2, <1>t DEF ToldInv, Aborting, Joining
  <2>4. /\ callerPc' \in {"tellAudio", "tellMux"} \cup Told => exit'["video"] \/ callerPc \in {"tellAudio", "tellMux"}
        /\ callerPc' \in {"tellMux"} \cup Told => exit'["audio"] \/ callerPc = "tellMux"
        /\ (exit["video"] => exit'["video"]) /\ (exit["audio"] => exit'["audio"])
    BY <1>4, <1>t DEF TellThreads, Tell, Continue, Threads, Aborting, Joining
  <2> QED BY <2>1, <2>2, <2>3, <2>4, <1>t DEF ToldInv, OneAborted
<1>5. CASE InitEncoders \/ StartDevice \/ CreateThreads \/ CloseDevice \/ BeginStop
  <2>1. UNCHANGED <<round, frameAbort, packetAbort>>
    BY <1>5 DEF InitEncoders, InitEncoder, StartDevice, CreateThreads, CreateThread,
       CloseDevice,
       BeginStop, StopOnly, queueVars
  <2>2. callerPc \notin Told \cup {"tellAudio", "tellMux"} /\ callerPc' \notin Told \cup {"tellAudio", "tellMux"}
    BY <1>5 DEF InitEncoders, InitEncoder, StartDevice, CreateThreads, CreateThread,
       CloseDevice,
       BeginStop, Continue, Aborting, Joining
  <2> QED BY <2>1, <2>2 DEF ToldInv, OneAborted
<1> QED BY <1>1, <1>2, <1>3, <1>4, <1>5 DEF CallerStep

\* The invariant of start() and stop(), inductive.
StopInv == TypeInv /\ CallerInv /\ AbortInv /\ ToldInv /\ MuxInv

\* Where the caller creates threads, each thread is new, or has ended with all queues aborted.
LEMMA BeforeCreation ==
    ASSUME CallerInv, AbortInv, NEW t \in Threads, NotYet(t)
    PROVE  pc[t] = "none" \/ (pc[t] = "done" /\ AllAborted)
  BY DEF CallerInv, AbortInv

\* The caller touches no frame, packet or file.
LEMMA CallerFrame == CallerStep \/ BeginStop => CallerOnly
  BY Zenon DEF CallerStep, OpenDevice, InitEncoders, InitEncoder, StartDevice, CloseDevice,
     CreateThreads, CreateThread, TellThreads, AbortQueues, JoinThreads, BeginStop, StopOnly

\* The caller moves only the thread it creates.
LEMMA CallerMoves ==
    TypeInv /\ (CallerStep \/ BeginStop) =>
        \/ UNCHANGED pc
        \/ \E t \in Threads :
               /\ NotYet(t) /\ pc'[t] = "open" /\ \A u \in Threads \ {t} : pc'[u] = pc[u]
               /\ UNCHANGED <<queueVars, codecVars, round>>
<1> SUFFICES ASSUME TypeInv, CallerStep \/ BeginStop
             PROVE \/ UNCHANGED pc
                   \/ \E t \in Threads :
                        /\ NotYet(t) /\ pc'[t] = "open" /\ \A u \in Threads \ {t} : pc'[u] = pc[u]
                        /\ UNCHANGED <<queueVars, codecVars, round>>
  OBVIOUS
<1>1. UNCHANGED pc \/ CreateThreads
  BY Zenon DEF CallerStep, OpenDevice, InitEncoders, InitEncoder, StartDevice, CloseDevice,
     TellThreads, AbortQueues, JoinThreads, BeginStop
<1>2. CreateThreads => \E t \in Threads : NotYet(t) /\ Go(t, "open") /\ UNCHANGED <<queueVars, codecVars, round>>
  BY DEF CreateThreads, CreateThread, Continue, NotYet, Threads
<1>3. pc \in [Threads -> ThreadPcs] /\ "open" \in ThreadPcs
  BY DEF TypeInv, RecorderTypeOK, ThreadPcs
<1> QED BY <1>1, <1>2, <1>3, GoTypes

\* Nothing comes into the muxer's hand after the first round.
LEMMA NextMuxInv == StopInv /\ (ThreadStep \/ CallerStep \/ BeginStop) => MuxInv'
<1> SUFFICES ASSUME StopInv, ThreadStep \/ CallerStep \/ BeginStop PROVE MuxInv'
  OBVIOUS
<1>t. TypeInv /\ CallerInv /\ AbortInv /\ MuxInv /\ round \in Nat
      /\ pc \in [Threads -> ThreadPcs] /\ "mux" \in Threads
  BY RecorderAssumption DEF StopInv, TypeInv, RecorderTypeOK, Threads
<1>1. CASE MuxStep
  <2>0. UNCHANGED round /\ pc["mux"] \notin {"none", "done"}
    BY <1>1, MuxFrame DEF MuxOnly, callerVars, MuxStep, MuxOpen, MuxTop, MuxPops, MuxPop,
       MuxCompare,
       MuxWrite, MuxTrailer
  <2>1. CASE MuxTrailer
    <3>1. \A m \in Media : inHand'[m] = <<>>
      BY <2>1 DEF MuxTrailer
    <3> QED BY <3>1 DEF MuxInv
  <2>2. CASE MuxOpen
    <3>1. UNCHANGED inHand /\ pc["mux"] = "open"
      BY <2>2 DEF MuxOpen
    <3> QED BY <3>1, <1>t DEF MuxInv
  <2>3. CASE MuxTop \/ MuxPops \/ MuxCompare \/ MuxWrite
    <3>1. \E to \in {"crashed", "trailer", "popVideo", "popAudio", "compare", "write", "top"} : Go("mux", to)
      BY <2>3 DEF MuxTop, MuxPops, MuxPop, MuxCompare, MuxWrite
    <3>2. pc'["mux"] \notin {"none", "open", "done"}
      BY <3>1, <1>t DEF Go
    <3>3. round > 1 => AllAborted
      BY <1>t DEF AbortInv, FirstStart
    <3>4. CASE UNCHANGED inHand
      BY <3>2, <3>4, <2>0, <1>t DEF MuxInv
    <3>5. CASE \E m \in Media : ~packetAbort[m]
      BY <3>2, <3>3, <3>5, <2>0 DEF MuxInv, AllAborted
    <3>6. CASE MuxWrite /\ inHand' = [inHand EXCEPT ![chosen] = <<>>]
      <4>1. inHand \in [Media -> Seq(Nat)]
        BY <1>t DEF TypeInv, RecorderTypeOK
      <4>2. \A m \in Media : inHand'[m] \in {inHand[m], <<>>}
        BY <3>6, <4>1
      <4> QED BY <4>2, <3>2, <2>0, <1>t DEF MuxInv
    <3> QED BY <2>3, <3>4, <3>5, <3>6 DEF MuxTop, MuxPops, MuxPop, MuxCompare, MuxWrite,
               Media, muxVars
  <2> QED BY <1>1, <2>1, <2>2, <2>3 DEF MuxStep
<1>2. CASE ThreadStep /\ ~MuxStep
  <2>1. UNCHANGED <<round, inHand>> /\ pc'["mux"] = pc["mux"]
    <3>1. CASE CallbackBegin \/ CallbackPush
      BY <3>1 DEF CallbackBegin, CallbackPush, muxVars, callerVars
    <3>2. CASE RecordStep
      <4>1. RecordOnly
        BY <3>2, Zenon DEF RecordStep, RecordOpen, RecordTop, RecordFrame, RecordNothing,
           RecordPush
      <4>2. \E to : Go("record", to)
        BY <3>2, Zenon DEF RecordStep, RecordOpen, RecordTop, RecordFrame, RecordNothing,
           RecordPush
      <4> QED BY <4>1, <4>2, <1>t DEF RecordOnly, muxVars, callerVars, Go
    <3>3. ASSUME NEW m \in Media, EncodeStep(m) PROVE UNCHANGED <<round, inHand>> /\ pc'["mux"] = pc["mux"]
      <4>1. EncodeOnly
        BY <3>3, Zenon DEF EncodeStep, EncodeOpen, EncodeTop, EncodePop, EncodeSend,
           EncodeReceive,
           EncodePush, EncodeFlush, EncodeFree
      <4>2. pc'["mux"] = pc["mux"]
        BY <3>3, <1>t, EncodeGoes DEF Media
      <4> QED BY <4>1, <4>2 DEF EncodeOnly, muxVars, callerVars
    <3> QED BY <1>2, <3>1, <3>2, <3>3 DEF ThreadStep
  <2> QED BY <2>1, <1>t DEF MuxInv
<1>3. CASE CallerStep \/ BeginStop
  <2>1. UNCHANGED inHand
    BY <1>3, CallerFrame DEF CallerOnly, muxVars
  <2>2. round' # round => NotYet("mux")
    BY <1>3, Zenon DEF CallerStep, OpenDevice, InitEncoders, InitEncoder, StartDevice,
       CloseDevice,
       CreateThreads, CreateThread, TellThreads, AbortQueues, JoinThreads, BeginStop,
       StopOnly,
       Continue, NotYet
  <2>3. NotYet("mux") => pc["mux"] \in {"none", "done"}
    BY <1>t, BeforeCreation
  <2>4. pc'["mux"] = pc["mux"] \/ NotYet("mux")
    BY <1>3, <1>t, CallerMoves
  <2> QED BY <1>t, <2>1, <2>2, <2>3, <2>4 DEF MuxInv
<1> QED BY <1>1, <1>2, <1>3

\* The invariant of start() and stop() holds throughout.
LEMMA StopInvariant == Spec => []StopInv
<1>1. Init => StopInv
  BY InitTypeInv, InitStopInv DEF StopInv
<1>2. StopInv /\ [Next]_vars => StopInv'
  <2> SUFFICES ASSUME StopInv, [Next]_vars PROVE StopInv'
    OBVIOUS
  <2>1. TypeInv'
    BY NextTypeInv DEF StopInv
  <2>2. CASE ThreadStep
    BY <2>1, <2>2, ThreadStopInv, NextMuxInv DEF StopInv
  <2>3. CASE CallerStep \/ BeginStop
    BY <2>1, <2>3, CallerCallerInv, CallerAbortInv, CallerToldInv, NextMuxInv DEF StopInv
  <2>4. CASE UNCHANGED vars
    BY <2>1, <2>4 DEF StopInv, vars, queueVars, deviceVars, codecVars, encodeVars,
       muxVars, callerVars,
       CallerInv, AbortInv, ToldInv, MuxInv, NotYet, Joined, FirstStart, AllAborted,
       OneAborted
  <2> QED BY <2>2, <2>3, <2>4, NextSteps
<1> QED BY <1>1, <1>2, PTL DEF Spec

\* At every time all variables have their types, and no queue holds more than its
\* capacity: a push waits for room (CountingQueue::push, as the recorder uses it).
THEOREM TypesCorrect == Spec => []RecorderTypeOK
<1>1. StopInv => RecorderTypeOK
  BY DEF StopInv, TypeInv
<1> QED BY <1>1, StopInvariant, PTL

\* As the code stands only the first round between start() and stop() writes packets:
\* stop() aborts the four queues for good (lines 187-190), start() reopens none.  Not
\* a promise of the recorder; it is why what follows speaks of the first round.
LEMMA RecordsOnce == Spec => [][written' # written => round = 1]_vars
<1>1. StopInv /\ [Next]_vars => [written' # written => round = 1]_vars
  <2> SUFFICES ASSUME StopInv, Next, written' # written PROVE round = 1
    BY DEF vars
  <2>1. MuxWrite
    <3>1. CASE MuxStep
      BY <3>1, Zenon DEF MuxStep, MuxOpen, MuxTop, MuxPops, MuxPop, MuxCompare,
         MuxTrailer, muxVars
    <3>2. CASE CallbackBegin \/ CallbackPush \/ RecordStep
      BY <3>2, Zenon DEF CallbackBegin, CallbackPush, RecordStep, RecordOpen, RecordTop,
         RecordFrame,
         RecordNothing, RecordPush, RecordOnly, muxVars
    <3>3. ASSUME NEW m \in Media, EncodeStep(m) PROVE FALSE
      BY <3>3, Zenon DEF EncodeStep, EncodeOpen, EncodeTop, EncodePop, EncodeSend,
         EncodeReceive,
         EncodePush, EncodeFlush, EncodeFree, EncodeOnly, muxVars
    <3>4. CASE CallerStep \/ BeginStop
      BY <3>4, CallerFrame, Zenon DEF CallerOnly, muxVars
    <3> QED BY <3>1, <3>2, <3>3, <3>4, NextSteps DEF ThreadStep
  <2>2. inHand["video"] # <<>> /\ pc["mux"] = "write"
    BY <2>1 DEF StopInv, TypeInv, HandsOK, MuxWrite
  <2>3. round \in Nat /\ ~(round > 1)
    BY <2>2, RecorderAssumption DEF StopInv, MuxInv, TypeInv, RecorderTypeOK, Media
  <2>4. round # 0
    BY <2>2 DEF StopInv, CallerInv, NotYet, FirstStart, Threads
  <2> QED BY <2>3, <2>4
<1> QED BY <1>1, StopInvariant, PTL DEF Spec

-----------------------------------------------------------------------------
(* What goes to the file: the invariant *)

\* A frame captured is about to be pushed, queued, or numbered.
FrameInv == \A m \in Media :
    ~frameAbort[m] => captured[m] = One(InPush(m)) + frameQ[m] + nextPts[m]

\* The packets of the medium are on their way to a muxer that runs.
Live(m) == ~packetAbort[m] /\ pc["mux"] # "done"

\* An encoder thread is past its loop, or died.
Leaving == {"flush", "flushReceive", "free", "done", "crashed"}

\* s is k, k + 1, k + 2 and so on.
Consecutive(s, k) == \A i \in DOMAIN s : s[i] + 1 = k + i

\* From the file to the encoder, the packets of a medium are numbered without a gap.
ChainInv(m) ==
    /\ Consecutive(inHand[m], Written(m))
    /\ Live(m) =>
        /\ Consecutive(packetQ[m], Written(m) + Len(inHand[m]))
        /\ Consecutive(packet[m], Written(m) + Len(inHand[m]) + Len(packetQ[m]))
        /\ Consecutive(encoder[m],
               Written(m) + Len(inHand[m]) + Len(packetQ[m]) + Len(packet[m]))
        /\ pc[m] \notin Leaving => nextPts[m] = Packets(m) + One(pc[m] = "send")

\* The chain of both media.
PacketInv == \A m \in Media : ChainInv(m)

\* The time of the last packet in the file.
LastTime == Time(written[Len(written)][1], written[Len(written)][2])

\* No medium's next packet is earlier than the last one in the file, nor than
\* the one the muxer chose.
OrderInv ==
    /\ written # <<>> => \A m \in Media : LastTime <= Time(m, Written(m))
    /\ pc["mux"] = "write" =>
           \A m \in Media : Time(chosen, Written(chosen)) <= Time(m, Written(m))

\* A context of init() is there until its encoder thread ends, so that only the
\* mux thread can meet a null one.
ContextInv ==
    /\ \A m \in Media : round = 1 /\ initDone[m] =>
           context[m] = "open" \/ (context[m] = "null" /\ pc[m] = "done")
    /\ \A m \in Media : pc[m] = "crashed" /\ round = 1 => ~initDone[m]
    /\ pc["mux"] = "crashed" => \E m \in Media : context[m] = "null"
    /\ pc["record"] # "crashed"

\* Why an encoder thread of the first round is past its loop: it was told to leave,
\* its encoder refused a frame, the muxer has ended, or it could not set up the
\* resampler and has left its context alone.
LeaveInv == \A m \in Media :
    round = 1 /\ initDone[m] /\ pc[m] \in {"flush", "flushReceive", "free", "done"} =>
        \/ exit[m]
        \/ nextPts[m] > Packets(m)
        \/ pc["mux"] = "done"
        \/ pc[m] = "done" /\ context[m] = "open"

\* The invariant of what goes to the file, inductive with StopInv.
FileInv == FrameInv /\ PacketInv /\ OrderInv /\ WrittenInOrder /\ ContextInv /\ LeaveInv

-----------------------------------------------------------------------------
(* Frames *)

\* Only the record thread moves itself.
LEMMA RecordGoes ==
    ASSUME TypeInv, RecordStep
    PROVE  /\ \A t \in Threads \ {"record"} : pc'[t] = pc[t]
           /\ \/ RecordFrame /\ pc["record"] = "read" /\ pc'["record"] = "push"
              \/ RecordPush /\ pc["record"] = "push" /\ pc'["record"] = "top"
              \/ /\ pc["record"] # "push" /\ pc'["record"] \in {"top", "read", "done"}
                 /\ UNCHANGED <<queueVars, captured>>
<1>0. pc \in [Threads -> ThreadPcs] /\ "record" \in Threads
  BY DEF TypeInv, RecorderTypeOK, Threads
<1>1. \/ RecordFrame /\ pc["record"] = "read" /\ Go("record", "push")
      \/ RecordPush /\ pc["record"] = "push" /\ Go("record", "top")
      \/ /\ pc["record"] # "push" /\ \E to \in {"top", "read", "done"} : Go("record", to)
         /\ UNCHANGED <<queueVars, captured>>
  BY DEF RecordStep, RecordOpen, RecordTop, RecordFrame, RecordNothing, RecordPush
<1>2. {"push", "top", "read", "done"} \subseteq ThreadPcs
  BY DEF ThreadPcs
<1> QED BY <1>0, <1>1, <1>2, GoTypes

\* A push adds a frame to the one queue, unless it was aborted.
LEMMA PushFrameCounts ==
    ASSUME TypeInv, NEW m \in Media, PushFrame(m)
    PROVE  /\ UNCHANGED <<frameAbort, packetQ, packetAbort>>
           /\ \A n \in Media : frameQ'[n] = frameQ[n] + (IF n = m /\ ~frameAbort[m] THEN 1 ELSE 0)
<1>1. frameQ \in [Media -> 0..QueueMax] /\ QueueMax \in Nat
  BY RecorderAssumption DEF TypeInv, RecorderTypeOK
<1>2. \A n \in Media : frameQ[n] + 0 = frameQ[n]
  BY <1>1
<1>3. CASE frameAbort[m]
  BY <1>2, <1>3 DEF PushFrame
<1>4. CASE ~frameAbort[m]
  <2>1. frameQ' = [frameQ EXCEPT ![m] = @ + 1]
    BY <1>4 DEF PushFrame
  <2> QED BY <1>1, <1>2, <1>4, <2>1 DEF PushFrame
<1> QED BY <1>3, <1>4

\* An encoder thread leaves the rest of the recorder alone.
LEMMA EncodeFrame == ASSUME NEW m \in Media, EncodeStep(m) PROVE EncodeOnly
  BY Zenon DEF EncodeStep, EncodeOpen, EncodeTop, EncodePop, EncodeSend, EncodeReceive,
     EncodePush, EncodeFlush, EncodeFree

\* An encoder thread takes a frame and gives it its number in one step.
LEMMA EncodeCounts ==
    ASSUME TypeInv, NEW m \in Media, EncodeStep(m)
    PROVE  \A n \in Media : frameQ'[n] + nextPts'[n] = frameQ[n] + nextPts[n]
<1>1. \/ UNCHANGED <<frameQ, nextPts>>
      \/ frameQ[m] > 0 /\ frameQ' = [frameQ EXCEPT ![m] = @ - 1] /\ nextPts' = [nextPts EXCEPT ![m] = @ + 1]
  BY Zenon DEF EncodeStep, EncodeOpen, EncodeTop, EncodePop, EncodeSend, EncodeReceive,
     EncodePush, EncodeFlush, EncodeFree, encodeVars
<1>2. frameQ \in [Media -> 0..QueueMax] /\ QueueMax \in Nat /\ nextPts \in [Media -> Nat]
  BY RecorderAssumption DEF TypeInv, RecorderTypeOK
<1> QED BY <1>1, <1>2

\* Every step of a thread or the caller keeps the types.
LEMMA StepTypeInv == TypeInv /\ (ThreadStep \/ CallerStep \/ BeginStop) => TypeInv'
  BY CallbackTypeInv, RecordTypeInv, EncodeTypeInv, MuxTypeInv, CallerTypeInv,
     Zenon DEF ThreadStep

\* Every frame captured is kept: pushed, queued or numbered.
LEMMA NextFrameInv == StopInv /\ FrameInv /\ (ThreadStep \/ CallerStep \/ BeginStop) => FrameInv'
<1> SUFFICES ASSUME StopInv, FrameInv, ThreadStep \/ CallerStep \/ BeginStop, NEW m \in Media
             PROVE  ~frameAbort'[m] => captured'[m] = One(InPush(m)') + frameQ'[m] + nextPts'[m]
  BY DEF FrameInv, One
<1>t. /\ TypeInv /\ CallerInv /\ AbortInv
      /\ frameQ[m] \in Nat /\ nextPts[m] \in Nat /\ captured[m] \in Nat
      /\ captured \in [Media -> Nat] /\ callback \in {"out", "push"}
      /\ pc \in [Threads -> ThreadPcs] /\ Media \subseteq Threads /\ "record" \in Threads
      /\ "audio" \in Media /\ "video" \in Media /\ frameQ'[m] \in Nat /\ nextPts'[m] \in Nat
      /\ m \in {"video", "audio"}
  <2>1. QueueMax \in Nat /\ TypeInv /\ TypeInv'
    BY StepTypeInv, RecorderAssumption DEF StopInv
  <2>2. /\ frameQ \in [Media -> 0..QueueMax] /\ frameQ' \in [Media -> 0..QueueMax]
        /\ nextPts \in [Media -> Nat] /\ nextPts' \in [Media -> Nat] /\ captured \in [Media -> Nat]
        /\ callback \in {"out", "push"} /\ pc \in [Threads -> ThreadPcs]
    BY <2>1 DEF TypeInv, RecorderTypeOK
  <2>3. frameQ[m] \in 0..QueueMax /\ frameQ'[m] \in 0..QueueMax
    BY <2>2
  <2> QED BY <2>1, <2>2, <2>3 DEF StopInv, Media, Threads
<1>i. ~frameAbort[m] => captured[m] = One(InPush(m)) + frameQ[m] + nextPts[m]
  BY DEF FrameInv
<1>1. CASE CallbackBegin
  <2>1. UNCHANGED <<queueVars, nextPts, pc>> /\ callback = "out" /\ callback' = "push"
        /\ captured' = [captured EXCEPT !["audio"] = @ + 1]
    BY <1>1 DEF CallbackBegin, encodeVars
  <2> QED BY <2>1, <1>t, <1>i DEF queueVars, InPush, One
<1>2. CASE CallbackPush
  <2>1. UNCHANGED <<captured, nextPts, pc>> /\ callback = "push" /\ callback' = "out" /\ PushFrame("audio")
    BY <1>2 DEF CallbackPush, encodeVars
  <2>2. frameAbort'[m] = frameAbort[m]
        /\ frameQ'[m] = frameQ[m] + (IF m = "audio" /\ ~frameAbort["audio"] THEN 1 ELSE 0)
    BY <2>1, <1>t, PushFrameCounts
  <2> QED BY <2>1, <2>2, <1>t, <1>i DEF InPush, One
<1>3. CASE RecordStep
  <2>0. RecordOnly
    BY <1>3, Zenon DEF RecordStep, RecordOpen, RecordTop, RecordFrame, RecordNothing,
       RecordPush
  <2>1. UNCHANGED <<nextPts, callback>>
    BY <2>0 DEF RecordOnly, deviceVars, encodeVars
  <2>2. CASE RecordFrame /\ pc["record"] = "read" /\ pc'["record"] = "push"
    <3>1. UNCHANGED queueVars /\ captured' = [captured EXCEPT !["video"] = @ + 1]
      BY <2>2 DEF RecordFrame
    <3> QED BY <2>1, <2>2, <3>1, <1>t, <1>i DEF queueVars, InPush, One
  <2>3. CASE RecordPush /\ pc["record"] = "push" /\ pc'["record"] = "top"
    <3>1. UNCHANGED captured /\ PushFrame("video")
      BY <2>3 DEF RecordPush
    <3>2. frameAbort'[m] = frameAbort[m]
          /\ frameQ'[m] = frameQ[m] + (IF m = "video" /\ ~frameAbort["video"] THEN 1 ELSE 0)
      BY <3>1, <1>t, PushFrameCounts
    <3> QED BY <2>1, <2>3, <3>1, <3>2, <1>t, <1>i DEF InPush, One
  <2>4. CASE /\ pc["record"] # "push" /\ pc'["record"] \in {"top", "read", "done"}
             /\ UNCHANGED <<queueVars, captured>>
    BY <2>1, <2>4, <1>t, <1>i DEF queueVars, InPush, One
  <2> QED BY <1>3, <1>t, <2>2, <2>3, <2>4, RecordGoes
<1>4. ASSUME NEW n \in Media, EncodeStep(n)
      PROVE  ~frameAbort'[m] => captured'[m] = One(InPush(m)') + frameQ'[m] + nextPts'[m]
  <2>1. UNCHANGED <<captured, callback, frameAbort>>
    BY <1>4, EncodeFrame DEF EncodeOnly, deviceVars
  <2>2. pc'["record"] = pc["record"]
    BY <1>4, <1>t, EncodeGoes DEF Threads, Media
  <2>3. frameQ'[m] + nextPts'[m] = frameQ[m] + nextPts[m]
    BY <1>4, <1>t, EncodeCounts
  <2>4. One(InPush(m)') = One(InPush(m)) /\ One(InPush(m)) \in Nat
    BY <2>1, <2>2 DEF One, InPush
  <2> QED BY <2>1, <2>3, <2>4, <1>t, <1>i
<1>5. CASE MuxStep
  <2>1. UNCHANGED <<captured, callback, frameAbort, frameQ, nextPts>>
    BY <1>5, MuxFrame DEF MuxOnly, deviceVars, encodeVars
  <2>2. pc'["record"] = pc["record"]
    <3>1. \E to : Go("mux", to)
      BY <1>5 DEF MuxStep, MuxOpen, MuxTop, MuxPops, MuxPop, MuxCompare, MuxWrite,
         MuxTrailer
    <3> QED BY <3>1, <1>t DEF Go
  <2> QED BY <2>1, <2>2, <1>i DEF InPush, One
<1>6. CASE CallerStep \/ BeginStop
  <2>1. UNCHANGED <<captured, callback, nextPts>>
    BY <1>6, CallerFrame DEF CallerOnly, encodeVars
  <2>2. ~frameAbort'[m] => ~frameAbort[m] /\ frameQ'[m] = frameQ[m]
    <3>1. CASE AbortQueues
      BY <3>1, <1>t DEF AbortQueues, AbortFrames, AbortPackets, TypeInv, RecorderTypeOK
    <3>2. CASE ~AbortQueues
      BY <3>2, <1>6, Zenon DEF CallerStep, OpenDevice, InitEncoders, InitEncoder,
         StartDevice,
         CloseDevice, CreateThreads, CreateThread, TellThreads, JoinThreads, BeginStop,
         queueVars
    <3> QED BY <3>1, <3>2
  <2>3. pc'["record"] = pc["record"] \/ (pc["record"] # "push" /\ pc'["record"] # "push")
    <3>1. NotYet("record") => pc["record"] \in {"none", "done"}
      BY <1>t, BeforeCreation
    <3> QED BY <3>1, <1>6, <1>t, CallerMoves
  <2>4. InPush(m)' <=> InPush(m)
    BY <2>1, <2>3 DEF InPush
  <2> QED BY <2>1, <2>2, <2>4, <1>i DEF One
<1> QED BY <1>1, <1>2, <1>3, <1>4, <1>5, <1>6 DEF ThreadStep

-----------------------------------------------------------------------------
(* Packets: consecutive numbers *)

\* The next number at the end.
LEMMA AppendConsecutive ==
    ASSUME NEW s \in Seq(Nat), NEW k \in Nat, Consecutive(s, k), NEW x \in Nat, x = k + Len(s)
    PROVE  Consecutive(Append(s, x), k) /\ Len(Append(s, x)) = Len(s) + 1
<1>1. Len(s) \in Nat /\ DOMAIN s = 1 .. Len(s) /\ Append(s, x) \in Seq(Nat)
  BY LenProperties, AppendProperties
<1>2. /\ Len(Append(s, x)) = Len(s) + 1
      /\ \A i \in 1 .. Len(s) : Append(s, x)[i] = s[i]
      /\ Append(s, x)[Len(s) + 1] = x
  BY AppendProperties
<1>3. DOMAIN Append(s, x) = 1 .. Len(s) + 1
  BY <1>1, <1>2, LenProperties
<1> QED BY <1>1, <1>2, <1>3 DEF Consecutive

\* The first number is k; without it the rest starts at k + 1.
LEMMA TailConsecutive ==
    ASSUME NEW s \in Seq(Nat), s # <<>>, NEW k \in Nat, Consecutive(s, k)
    PROVE  /\ Head(s) = k /\ Head(s) \in Nat /\ Tail(s) \in Seq(Nat)
           /\ Len(s) \in Nat /\ Len(Tail(s)) = Len(s) - 1 /\ Len(s) > 0
           /\ Consecutive(Tail(s), k + 1)
<1>1. Len(s) \in Nat /\ Len(s) > 0 /\ DOMAIN s = 1 .. Len(s)
  BY EmptySeq, LenProperties
<1>2. Head(s) \in Nat /\ Tail(s) \in Seq(Nat) /\ Len(Tail(s)) = Len(s) - 1 /\ Head(s) = s[1]
  BY HeadTailProperties
<1>3. \A i \in 1 .. Len(Tail(s)) : Tail(s)[i] = s[i + 1]
  BY HeadTailProperties
<1>4. DOMAIN Tail(s) = 1 .. Len(s) - 1
  BY <1>2, LenProperties
<1>5. \A i \in 1 .. Len(s) : s[i] \in Nat
  BY <1>1, LenProperties
<1>6. s[1] + 1 = k + 1
  BY <1>1 DEF Consecutive
<1>7. Head(s) = k
  BY <1>2, <1>6
<1>8. Consecutive(Tail(s), k + 1)
  <2> SUFFICES ASSUME NEW i \in 1 .. Len(s) - 1 PROVE Tail(s)[i] + 1 = k + 1 + i
    BY <1>4 DEF Consecutive
  <2>1. i + 1 \in DOMAIN s /\ Tail(s)[i] = s[i + 1]
    BY <1>1, <1>2, <1>3
  <2>2. s[i + 1] + 1 = k + (i + 1)
    BY <2>1 DEF Consecutive
  <2> QED BY <2>1, <2>2
<1> QED BY <1>1, <1>2, <1>7, <1>8

\* Two sequences of which the second goes on where the first ends.
LEMMA ConcatConsecutive ==
    ASSUME NEW s \in Seq(Nat), NEW t \in Seq(Nat), NEW k \in Nat, Consecutive(s, k),
           Consecutive(t, k + Len(s))
    PROVE  Consecutive(s \o t, k) /\ Len(s \o t) = Len(s) + Len(t)
<1>1. Len(s) \in Nat /\ Len(t) \in Nat /\ DOMAIN s = 1 .. Len(s) /\ DOMAIN t = 1 .. Len(t)
  BY LenProperties
<1>2. s \o t \in Seq(Nat) /\ Len(s \o t) = Len(s) + Len(t)
      /\ \A i \in 1 .. Len(s) + Len(t) : (s \o t)[i] = IF i <= Len(s) THEN s[i] ELSE t[i - Len(s)]
  BY ConcatProperties
<1>3. DOMAIN (s \o t) = 1 .. Len(s) + Len(t)
  BY <1>2, LenProperties
<1>4. ASSUME NEW i \in 1 .. Len(s) + Len(t) PROVE (s \o t)[i] + 1 = k + i
  <2>1. CASE i <= Len(s)
    <3>1. i \in DOMAIN s /\ (s \o t)[i] = s[i]
      BY <1>1, <1>2, <2>1
    <3> QED BY <3>1 DEF Consecutive
  <2>2. CASE i > Len(s)
    <3>1. i - Len(s) \in DOMAIN t /\ (s \o t)[i] = t[i - Len(s)]
      BY <1>1, <1>2, <2>2
    <3>2. t[i - Len(s)] + 1 = k + Len(s) + (i - Len(s))
      BY <3>1 DEF Consecutive
    <3> QED BY <1>1, <3>1, <3>2
  <2> QED BY <1>1, <2>1, <2>2
<1> QED BY <1>2, <1>3, <1>4 DEF Consecutive

\* Sequences of one number and of none.
LEMMA OneConsecutive ==
    ASSUME NEW k \in Nat
    PROVE  Consecutive(<<k>>, k) /\ Consecutive(<<>>, k) /\ Len(<<k>>) = 1 /\ Len(<<>>) = 0
           /\ <<k>> \in Seq(Nat) /\ <<>> \in Seq(Nat)
  BY DEF Consecutive

\* The number of packets of a medium grows with each one written.
LEMMA WrittenFinite ==
    ASSUME written \in Seq(Media \X Nat), NEW m \in Media
    PROVE  /\ Written(m) \in Nat
           /\ IsFiniteSet({i \in DOMAIN written : written[i][1] = m})
<1> DEFINE S == {i \in DOMAIN written : written[i][1] = m}
<1>1. Len(written) \in Nat /\ DOMAIN written = 1 .. Len(written)
  BY LenProperties
<1>2. IsFiniteSet(1 .. Len(written))
  BY <1>1, FS_Interval
<1>3. S \in SUBSET (1 .. Len(written))
  BY <1>1
<1>4. IsFiniteSet(S)
  BY <1>2, <1>3, FS_Subset
<1> QED BY <1>4, FS_CardinalityType DEF Written

\* A packet written at the end counts for its medium only.
LEMMA WrittenGrows ==
    ASSUME written \in Seq(Media \X Nat), NEW c \in Media, NEW n \in Nat,
           written' = Append(written, <<c, n>>), NEW m \in Media
    PROVE  /\ Written(m)' = Written(m) + (IF m = c THEN 1 ELSE 0)
           /\ {j \in 1 .. Len(written) : written'[j][1] = m} = {i \in DOMAIN written : written[i][1] = m}
<1> DEFINE S == {i \in DOMAIN written : written[i][1] = m}
           T == {i \in DOMAIN written' : written'[i][1] = m}
           k == Len(written) + 1
<1>1. Len(written) \in Nat /\ DOMAIN written = 1 .. Len(written)
  BY LenProperties
<1>2. <<c, n>> \in Media \X Nat
  OBVIOUS
<1>3. /\ written' \in Seq(Media \X Nat) /\ Len(written') = k
      /\ written'[k] = <<c, n>>
      /\ \A i \in 1 .. Len(written) : written'[i] = written[i]
  BY <1>2, AppendProperties
<1>a. DOMAIN written' = 1 .. k
  BY <1>3, LenProperties
<1>4. IsFiniteSet(S) /\ Cardinality(S) \in Nat
  BY WrittenFinite, FS_CardinalityType
<1>5. T = IF m = c THEN S \cup {k} ELSE S
  BY <1>1, <1>3, <1>a
<1>6. k \notin S
  BY <1>1
<1>8. Cardinality(S \cup {k}) = Cardinality(S) + 1
  BY <1>4, <1>6, FS_AddElement
<1> HIDE DEF S, T
<1>9. Cardinality(T) = Cardinality(S) + (IF m = c THEN 1 ELSE 0)
  <2>1. CASE m = c
    BY <1>5, <1>8, <2>1
  <2>2. CASE m # c
    <3>1. T = S
      BY <1>5, <2>2
    <3> QED BY <1>4, <2>2, <3>1
  <2> QED BY <2>1, <2>2
<1>10. {j \in 1 .. Len(written) : written'[j][1] = m} = S
  BY <1>1, <1>3 DEF S
<1> QED BY <1>9, <1>10 DEF Written, S, T

\* The types of what belongs to one medium.
LEMMA MediumSeqs ==
    ASSUME TypeInv, NEW m \in Media
    PROVE  /\ packetQ[m] \in Seq(Nat) /\ packet[m] \in Seq(Nat) /\ encoder[m] \in Seq(Nat)
           /\ inHand[m] \in Seq(Nat)
  BY DEF TypeInv, RecorderTypeOK

\* Counts are numbers, and Packets adds them up.
LEMMA MediumNumbers ==
    ASSUME TypeInv, NEW m \in Media
    PROVE  /\ nextPts[m] \in Nat /\ Written(m) \in Nat
           /\ Len(packetQ[m]) \in Nat /\ Len(packet[m]) \in Nat /\ Len(encoder[m]) \in Nat
           /\ Len(inHand[m]) \in Nat /\ Len(packet[m]) <= 1 /\ Len(inHand[m]) <= 1
           /\ Packets(m) = Written(m) + Len(inHand[m]) + Len(packetQ[m]) + Len(packet[m]) + Len(encoder[m])
           /\ Packets(m) \in Nat
<1>1. Written(m) \in Nat
  <2>1. written \in Seq(Media \X Nat)
    BY DEF TypeInv, RecorderTypeOK
  <2> QED BY <2>1, WrittenFinite
<1>2. nextPts[m] \in Nat
  BY DEF TypeInv, RecorderTypeOK
<1>3. Len(packet[m]) <= 1 /\ Len(inHand[m]) <= 1
  BY DEF TypeInv, HandsOK
<1>4. Len(packetQ[m]) \in Nat /\ Len(packet[m]) \in Nat /\ Len(encoder[m]) \in Nat
      /\ Len(inHand[m]) \in Nat
  BY MediumSeqs, LenProperties
<1>5. PICK w \in Nat, h \in Nat, q \in Nat, p \in Nat, e \in Nat :
         /\ w = Written(m) /\ h = Len(inHand[m]) /\ q = Len(packetQ[m])
         /\ p = Len(packet[m]) /\ e = Len(encoder[m])
  BY <1>1, <1>4
<1>6. Packets(m) = e + p + q + h + w
  BY <1>5 DEF Packets
<1>7. Packets(m) \in Nat /\ Packets(m) = w + h + q + p + e
  BY <1>6
<1> QED BY <1>1, <1>2, <1>3, <1>4, <1>5, <1>7

\* The same with names for the numbers.
LEMMA MediumParts ==
    ASSUME TypeInv, NEW m \in Media
    PROVE  \E w \in Nat, h \in Nat, q \in Nat, p \in Nat, e \in Nat :
               /\ w = Written(m) /\ h = Len(inHand[m]) /\ q = Len(packetQ[m])
               /\ p = Len(packet[m]) /\ e = Len(encoder[m])
               /\ Packets(m) = w + h + q + p + e
  BY MediumNumbers

\* A step that touches no packet of a medium.
LEMMA ChainSame ==
    ASSUME NEW m \in Media, ChainInv(m),
           UNCHANGED <<written, inHand[m], packetQ[m], packet[m], encoder[m], nextPts[m]>>,
           Live(m)' => Live(m),
           Live(m)' /\ pc'[m] \notin Leaving =>
               pc[m] \notin Leaving /\ (pc'[m] = "send" <=> pc[m] = "send")
    PROVE  ChainInv(m)' /\ Packets(m)' = Packets(m)
<1>1. Written(m)' = Written(m) /\ Packets(m)' = Packets(m)
  BY DEF Written, Packets
<1>2. Live(m)' /\ pc'[m] \notin Leaving => One(pc'[m] = "send") = One(pc[m] = "send")
  BY DEF One
<1> QED BY <1>1, <1>2 DEF ChainInv

\* A frame is numbered and goes into the encoder.
LEMMA SendChain ==
    ASSUME TypeInv, NEW m \in Media, ChainInv(m), EncodeSend(m) PROVE ChainInv(m)'
<1>t. pc \in [Threads -> ThreadPcs] /\ m \in Threads /\ m # "mux" /\ encoder \in [Media -> Seq(Nat)]
  BY DEF TypeInv, RecorderTypeOK, Media, Threads
<1>1. /\ UNCHANGED <<written, inHand, packetQ, packet, nextPts, packetAbort>>
      /\ pc[m] = "send"
  BY DEF EncodeSend, EncodeOnly, muxVars
<1>2. pc'["mux"] = pc["mux"]
  <2>1. \E to : Go(m, to)
    BY Zenon DEF EncodeSend
  <2> QED BY <1>t, <2>1 DEF Go
<1>3. Live(m)' <=> Live(m)
  BY <1>1, <1>2 DEF Live
<1>4. CASE (Go(m, "crashed") \/ Go(m, "flush")) /\ UNCHANGED encoder
  <2>1. pc'[m] \in Leaving
    BY <1>4, <1>t DEF Go, Leaving
  <2> QED BY <1>1, <1>3, <1>4, <2>1, ChainSame
<1>5. CASE encoder' = [encoder EXCEPT ![m] = Append(@, nextPts[m] - 1)] /\ Go(m, "receive")
  <2>1. pc'[m] = "receive"
    BY <1>5, <1>t DEF Go
  <2>2. encoder'[m] = Append(encoder[m], nextPts[m] - 1)
    BY <1>5, <1>t
  <2>3. Written(m)' = Written(m)
    BY <1>1 DEF Written
  <2>4. Live(m) => nextPts[m] = Packets(m) + 1
    BY <1>1 DEF ChainInv, Leaving, One
  <2>5. nextPts[m] > 0
    BY <1>1 DEF TypeInv, HandsOK
  <2>6. nextPts[m] - 1 \in Nat
    BY <2>5, MediumNumbers
  <2>7. Len(encoder'[m]) = Len(encoder[m]) + 1
    BY <2>2, <2>6, MediumSeqs, AppendProperties
  <2>8. Packets(m)' = Packets(m) + 1
    <3>1. PICK w \in Nat, h \in Nat, q \in Nat, p \in Nat, e \in Nat :
             /\ w = Written(m) /\ h = Len(inHand[m]) /\ q = Len(packetQ[m])
             /\ p = Len(packet[m]) /\ e = Len(encoder[m])
             /\ Packets(m) = w + h + q + p + e
      BY MediumParts
    <3>2. Packets(m)' = (e + 1) + p + q + h + w
      BY <1>1, <2>3, <2>7, <3>1 DEF Packets
    <3>3. Packets(m) = w + h + q + p + e
      BY <3>1
    <3> QED BY <3>2, <3>3
  <2>9. ASSUME Live(m)
        PROVE  Consecutive(encoder'[m], Written(m) + Len(inHand[m]) + Len(packetQ[m]) + Len(packet[m]))
    <3> DEFINE k == Written(m) + Len(inHand[m]) + Len(packetQ[m]) + Len(packet[m])
    <3>1. Consecutive(encoder[m], k)
      BY <2>9 DEF ChainInv
    <3>2. k \in Nat /\ nextPts[m] - 1 = k + Len(encoder[m])
      <4>1. PICK w \in Nat, h \in Nat, q \in Nat, p \in Nat, e \in Nat :
               /\ w = Written(m) /\ h = Len(inHand[m]) /\ q = Len(packetQ[m])
               /\ p = Len(packet[m]) /\ e = Len(encoder[m])
               /\ Packets(m) = w + h + q + p + e
        BY MediumParts
      <4>2. k = w + h + q + p /\ nextPts[m] = w + h + q + p + e + 1
        BY <2>4, <2>9, <4>1
      <4> HIDE DEF k
      <4>3. k \in Nat /\ nextPts[m] - 1 = k + e
        BY <4>2
      <4> QED BY <4>1, <4>3
    <3> HIDE DEF k
    <3>3. Consecutive(Append(encoder[m], nextPts[m] - 1), k)
      BY <2>6, <3>1, <3>2, MediumSeqs, AppendConsecutive
    <3> QED BY <2>2, <3>3 DEF k
  <2>10. Live(m) => nextPts'[m] = Packets(m)' + One(pc'[m] = "send")
    BY <1>1, <2>1, <2>4, <2>8, MediumNumbers DEF One
  <2> QED BY <1>1, <1>3, <2>1, <2>3, <2>9, <2>10 DEF ChainInv
<1> QED BY <1>4, <1>5, Zenon DEF EncodeSend

\* A packet comes out of the encoder.
LEMMA ReceiveChain ==
    ASSUME TypeInv, NEW m \in Media, ChainInv(m), EncodeReceive(m)
    PROVE  ChainInv(m)' /\ Packets(m)' = Packets(m)
<1>t. pc \in [Threads -> ThreadPcs] /\ m \in Threads /\ m # "mux" /\ encoder \in [Media -> Seq(Nat)]
      /\ packet \in [Media -> Seq(Nat)]
  BY DEF TypeInv, RecorderTypeOK, Media, Threads
<1>1. /\ UNCHANGED <<written, inHand, packetQ, nextPts, packetAbort>>
      /\ packet[m] = <<>> /\ pc[m] \in {"receive", "flushReceive"}
  BY DEF EncodeReceive, EncodeOnly, muxVars, AfterReceive
<1>2. pc'["mux"] = pc["mux"]
  <2>0. "mux" \in Threads
    BY DEF Threads
  <2>1. UNCHANGED pc \/ \E to : Go(m, to)
    BY Zenon DEF EncodeReceive
  <2> QED BY <1>t, <2>0, <2>1 DEF Go
<1>3. Live(m)' <=> Live(m)
  BY <1>1, <1>2 DEF Live
<1>4. CASE UNCHANGED <<packet, encoder>> /\ Go(m, AfterReceive[pc[m]])
  <2>1. pc'[m] \in {"top", "free"} /\ (pc'[m] \in Leaving \/ pc[m] \notin Leaving) /\ pc[m] # "send"
    BY <1>1, <1>4, <1>t DEF Go, AfterReceive, Leaving
  <2> QED BY <1>1, <1>3, <1>4, <2>1, ChainSame
<1>5. CASE /\ encoder[m] # <<>> /\ packet' = [packet EXCEPT ![m] = <<Head(encoder[m])>>]
           /\ encoder' = [encoder EXCEPT ![m] = Tail(@)]
           /\ UNCHANGED pc
  <2>1. packet'[m] = <<Head(encoder[m])>> /\ encoder'[m] = Tail(encoder[m])
    BY <1>5, <1>t
  <2>2. Written(m)' = Written(m)
    BY <1>1 DEF Written
  <2>3. Len(packet[m]) = 0
    BY <1>1
  <2>4. Len(packet'[m]) = 1
    BY <2>1
  <2>5. Len(encoder'[m]) + 1 = Len(encoder[m])
    BY <1>5, <2>1, MediumSeqs, TakeHead
  <2>6. Packets(m)' = Packets(m)
    <3>1. Len(encoder'[m]) = Len(encoder[m]) - 1
      <4>1. Len(encoder'[m]) \in Nat
        BY <1>5, <2>1, MediumSeqs, TakeHead, LenProperties
      <4> QED BY <2>5, <4>1
    <3> QED BY <1>1, <2>2, <2>3, <2>4, <3>1, MediumNumbers DEF Packets
  <2>7. ASSUME Live(m)
        PROVE  /\ Consecutive(packet'[m], Written(m) + Len(inHand[m]) + Len(packetQ[m]))
               /\ Consecutive(encoder'[m], Written(m) + Len(inHand[m]) + Len(packetQ[m]) + Len(packet'[m]))
    <3> DEFINE k == Written(m) + Len(inHand[m]) + Len(packetQ[m])
    <3>1. k \in Nat /\ k + Len(packet[m]) = k
      BY <2>3, MediumNumbers
    <3>2. Consecutive(encoder[m], k + Len(packet[m]))
      BY <2>7 DEF ChainInv
    <3> HIDE DEF k
    <3>3. Consecutive(encoder[m], k)
      BY <3>1, <3>2
    <3>4. Head(encoder[m]) = k /\ Consecutive(Tail(encoder[m]), k + 1)
      BY <1>5, <3>1, <3>3, MediumSeqs, TailConsecutive
    <3>5. Consecutive(packet'[m], k)
      BY <2>1, <3>1, <3>4, OneConsecutive
    <3> QED BY <2>1, <2>4, <3>4, <3>5 DEF k
  <2>8. Live(m) /\ pc'[m] \notin Leaving => nextPts'[m] = Packets(m)' + One(pc'[m] = "send")
    BY <1>1, <1>5, <2>6 DEF ChainInv
  <2> QED BY <1>1, <1>3, <2>2, <2>6, <2>7, <2>8 DEF ChainInv
<1> QED BY <1>4, <1>5, Zenon DEF EncodeReceive

-----------------------------------------------------------------------------
(* Packets: steps *)

\* A packet goes from the encoder thread to the queue.
LEMMA PushChain ==
    ASSUME TypeInv, NEW m \in Media, ChainInv(m), EncodePush(m)
    PROVE  ChainInv(m)' /\ (Live(m) => Packets(m)' = Packets(m))
<1>t. packetQ \in [Media -> Seq(Nat)] /\ packet \in [Media -> Seq(Nat)]
  BY DEF TypeInv, RecorderTypeOK
<1>1. /\ UNCHANGED <<written, inHand, encoder, nextPts, packetAbort, pc>>
      /\ packet[m] # <<>> /\ packet'[m] = <<>>
  BY <1>t DEF EncodePush, EncodeOnly, muxVars
<1>2. (Live(m)' <=> Live(m)) /\ Written(m)' = Written(m)
  BY <1>1 DEF Live, Written
<1>3. Len(packet'[m]) = 0 /\ Consecutive(packet'[m], Written(m) + Len(inHand[m]) + Len(packetQ'[m]))
  BY <1>1 DEF Consecutive
<1>4. ASSUME Live(m)
      PROVE  /\ Consecutive(packetQ'[m], Written(m) + Len(inHand[m]))
             /\ Consecutive(encoder[m], Written(m) + Len(inHand[m]) + Len(packetQ'[m]) + Len(packet'[m]))
             /\ Packets(m)' = Packets(m)
  <2> DEFINE k == Written(m) + Len(inHand[m])
  <2>1. packetQ'[m] = packetQ[m] \o packet[m]
    BY <1>4, <1>t DEF Live, EncodePush
  <2>2. k \in Nat
    BY MediumNumbers
  <2>3. Consecutive(packetQ[m], k) /\ Consecutive(packet[m], k + Len(packetQ[m]))
        /\ Consecutive(encoder[m], k + Len(packetQ[m]) + Len(packet[m]))
    BY <1>4 DEF ChainInv
  <2>4. PICK w \in Nat, h \in Nat, q \in Nat, p \in Nat, e \in Nat :
           /\ w = Written(m) /\ h = Len(inHand[m]) /\ q = Len(packetQ[m])
           /\ p = Len(packet[m]) /\ e = Len(encoder[m])
           /\ Packets(m) = w + h + q + p + e
    BY MediumParts
  <2>5. k = w + h
    BY <2>4
  <2> HIDE DEF k
  <2>6. Consecutive(packetQ[m] \o packet[m], k) /\ Len(packetQ[m] \o packet[m]) = Len(packetQ[m]) + Len(packet[m])
    BY <2>2, <2>3, MediumSeqs, ConcatConsecutive
  <2>7. Len(packetQ'[m]) = q + p
    BY <2>1, <2>4, <2>6
  <2>8. Consecutive(encoder[m], k + Len(packetQ'[m]) + Len(packet'[m]))
    <3>1. k + Len(packetQ'[m]) + Len(packet'[m]) = k + q + p
      BY <1>3, <2>2, <2>7
    <3>2. Consecutive(encoder[m], k + q + p)
      BY <2>3, <2>4
    <3> QED BY <3>1, <3>2
  <2>9. Packets(m)' = Packets(m)
    <3>1. Packets(m)' = e + 0 + (q + p) + h + w
      BY <1>1, <1>2, <1>3, <2>4, <2>7 DEF Packets
    <3>2. Packets(m) = w + h + q + p + e
      BY <2>4
    <3> QED BY <3>1, <3>2
  <2> QED BY <2>1, <2>6, <2>8, <2>9 DEF k
<1> QED BY <1>1, <1>2, <1>3, <1>4 DEF ChainInv

\* The other steps of an encoder thread touch no packet of its medium.
LEMMA EncodeChain ==
    ASSUME TypeInv, NEW m \in Media, ChainInv(m), EncodeStep(m)
    PROVE  ChainInv(m)' /\ (Live(m) => EncodeSend(m) \/ Packets(m)' = Packets(m))
<1>t. pc \in [Threads -> ThreadPcs] /\ m \in Threads /\ m # "mux" /\ "mux" \in Threads
      /\ context[m] \in {"null", "allocated", "open"} /\ nextPts \in [Media -> Nat]
  BY DEF TypeInv, RecorderTypeOK, Media, Threads
<1>1. CASE EncodeOpen(m) \/ EncodeTop(m) \/ EncodeFlush(m) \/ EncodeFree(m)
  <2>1. \E to \in {"top", "done", "flush", "pop", "crashed", "free", "flushReceive"} : Go(m, to)
    BY <1>t, <1>1 DEF EncodeOpen, EncodeTop, EncodeFlush, EncodeFree
  <2>2. /\ UNCHANGED <<packetQ, nextPts, encoder, packet, written, inHand, packetAbort>>
        /\ pc[m] \in {"open", "top", "flush", "free"}
    BY <1>1 DEF EncodeOpen, EncodeTop, EncodeFlush, EncodeFree, encodeVars, EncodeOnly,
       muxVars
  <2>3. pc[m] \in {"flush", "free"} => pc'[m] \in Leaving
    BY <1>1, <1>t DEF EncodeOpen, EncodeTop, EncodeFlush, EncodeFree, Go, Leaving
  <2>4. pc'["mux"] = pc["mux"] /\ pc'[m] # "send" /\ pc[m] # "send"
    BY <1>t, <2>1, <2>2 DEF Go
  <2> QED BY <2>2, <2>3, <2>4, ChainSame DEF Live, Leaving
<1>2. CASE EncodePop(m)
  <2>1. /\ UNCHANGED <<packetQ, encoder, packet, written, inHand, packetAbort>> /\ pc[m] = "pop"
    BY <1>2 DEF EncodePop, EncodeOnly, muxVars
  <2>2. CASE Go(m, "flush") /\ UNCHANGED nextPts
    <3>1. pc'["mux"] = pc["mux"] /\ pc'[m] = "flush"
      BY <1>t, <2>2 DEF Go
    <3> QED BY <2>1, <2>2, <3>1, ChainSame DEF Live, Leaving
  <2>3. CASE Go(m, "send") /\ nextPts' = [nextPts EXCEPT ![m] = @ + 1]
    <3>1. pc'["mux"] = pc["mux"] /\ pc'[m] = "send" /\ nextPts'[m] = nextPts[m] + 1
      BY <1>t, <2>3 DEF Go
    <3>2. (Live(m)' <=> Live(m)) /\ Written(m)' = Written(m) /\ Packets(m)' = Packets(m)
      BY <2>1, <3>1 DEF Live, Written, Packets
    <3>3. Live(m) => nextPts[m] = Packets(m) + 0
      BY <2>1 DEF ChainInv, Leaving, One
    <3>4. Live(m) => nextPts'[m] = Packets(m)' + One(pc'[m] = "send")
      BY <3>1, <3>2, <3>3, MediumNumbers DEF One
    <3> QED BY <2>1, <3>2, <3>4 DEF ChainInv
  <2> QED BY <1>2, <2>2, <2>3, Zenon DEF EncodePop
<1> QED BY <1>1, <1>2, SendChain, ReceiveChain, PushChain DEF EncodeStep

\* An encoder thread touches nothing of the other medium.
LEMMA OtherEncodeChain ==
    ASSUME TypeInv, NEW m \in Media, NEW n \in Media \ {m}, ChainInv(m), EncodeStep(n)
    PROVE  ChainInv(m)' /\ Packets(m)' = Packets(m)
<1>1. EncodeOnly
  BY EncodeFrame
<1>2. pc'["mux"] = pc["mux"] /\ pc'[m] = pc[m] /\ nextPts'[m] = nextPts[m]
  BY EncodeGoes DEF Threads, Media
<1>3. /\ \/ UNCHANGED encoder
         \/ encoder' = [encoder EXCEPT ![n] = Append(@, nextPts[n] - 1)]
         \/ encoder' = [encoder EXCEPT ![n] = Tail(@)]
      /\ \/ UNCHANGED packet
         \/ packet' = [packet EXCEPT ![n] = <<>>]
         \/ packet' = [packet EXCEPT ![n] = <<Head(encoder[n])>>]
      /\ UNCHANGED packetQ \/ packetQ' = [packetQ EXCEPT ![n] = @ \o packet[n]]
  <2>1. \/ UNCHANGED encoder
        \/ encoder' = [encoder EXCEPT ![n] = Append(@, nextPts[n] - 1)]
        \/ encoder' = [encoder EXCEPT ![n] = Tail(@)]
    BY Zenon DEF EncodeStep, EncodeOpen, EncodeTop, EncodePop, EncodeSend, EncodeReceive,
       EncodePush,
       EncodeFlush, EncodeFree, encodeVars
  <2>2. \/ UNCHANGED packet
        \/ packet' = [packet EXCEPT ![n] = <<>>]
        \/ packet' = [packet EXCEPT ![n] = <<Head(encoder[n])>>]
    BY Zenon DEF EncodeStep, EncodeOpen, EncodeTop, EncodePop, EncodeSend, EncodeReceive,
       EncodePush,
       EncodeFlush, EncodeFree, encodeVars
  <2>3. UNCHANGED packetQ \/ packetQ' = [packetQ EXCEPT ![n] = @ \o packet[n]]
    BY DEF EncodeStep, EncodeOpen, EncodeTop, EncodePop, EncodeSend, EncodeReceive,
           EncodePush,
       EncodeFlush, EncodeFree, encodeVars
  <2> QED BY <2>1, <2>2, <2>3
<1>4. encoder \in [Media -> Seq(Nat)] /\ packet \in [Media -> Seq(Nat)] /\ packetQ \in [Media -> Seq(Nat)]
  BY DEF TypeInv, RecorderTypeOK
<1>5. encoder'[m] = encoder[m]
  BY <1>3, <1>4
<1>6. packet'[m] = packet[m]
  BY <1>3, <1>4
<1>7. packetQ'[m] = packetQ[m]
  BY <1>3, <1>4
<1>8. UNCHANGED <<written, inHand, packetAbort>>
  BY <1>1 DEF EncodeOnly, muxVars
<1> QED BY <1>2, <1>5, <1>6, <1>7, <1>8, ChainSame DEF Live

\* The muxer takes a packet in its hand.
LEMMA PopChain ==
    ASSUME TypeInv, NEW m \in Media, ChainInv(m), NEW n \in Media, NEW from,
    NEW to \in ThreadPcs \ {"done"},
           MuxPop(from, n, to), from # "done"
    PROVE  ChainInv(m)' /\ Packets(m)' = Packets(m)
<1>t. /\ packetQ \in [Media -> Seq(Nat)] /\ inHand \in [Media -> Seq(Nat)]
      /\ pc \in [Threads -> ThreadPcs] /\ m \in Threads /\ m # "mux" /\ "mux" \in Threads
  BY DEF TypeInv, RecorderTypeOK, Media, Threads
<1>1. UNCHANGED <<packet, encoder, nextPts, written, packetAbort>> /\ pc["mux"] = from
  BY DEF MuxPop, MuxOnly, encodeVars
<1>2. pc'[m] = pc[m] /\ pc'["mux"] # "done"
  <2>1. Go("mux", "trailer") \/ Go("mux", to)
    BY Zenon DEF MuxPop
  <2> QED BY <1>t, <2>1 DEF Go
<1>3. (Live(m)' <=> Live(m)) /\ Written(m)' = Written(m)
  BY <1>1, <1>2 DEF Live, Written
<1>4. CASE n # m \/ UNCHANGED <<packetQ, inHand>>
  <2>1. packetQ'[m] = packetQ[m] /\ inHand'[m] = inHand[m]
    BY <1>4, <1>t DEF MuxPop
  <2> QED BY <1>1, <1>2, <1>3, <2>1, ChainSame
<1>5. CASE /\ n = m /\ inHand[n] = <<>> /\ ~packetAbort[n] /\ packetQ[n] # <<>>
           /\ inHand' = [inHand EXCEPT ![n] = <<Head(packetQ[n])>>]
           /\ packetQ' = [packetQ EXCEPT ![n] = Tail(@)]
  <2>1. /\ inHand'[m] = <<Head(packetQ[m])>> /\ packetQ'[m] = Tail(packetQ[m]) /\ Live(m)
        /\ packetQ[m] # <<>>
    BY <1>1, <1>5, <1>t DEF Live
  <2>2. PICK w \in Nat, h \in Nat, q \in Nat, p \in Nat, e \in Nat :
           /\ w = Written(m) /\ h = Len(inHand[m]) /\ q = Len(packetQ[m])
           /\ p = Len(packet[m]) /\ e = Len(encoder[m])
           /\ Packets(m) = w + h + q + p + e
    BY MediumParts
  <2>3. h = 0 /\ w + h = w
    BY <1>5, <2>2
  <2>4. Consecutive(packetQ[m], w) /\ Consecutive(packet[m], w + q) /\ Consecutive(encoder[m], w + q + p)
    BY <2>1, <2>2, <2>3 DEF ChainInv
  <2>5. /\ Head(packetQ[m]) = w /\ Consecutive(Tail(packetQ[m]), w + 1)
        /\ Len(Tail(packetQ[m])) = Len(packetQ[m]) - 1 /\ Len(packetQ[m]) > 0
    BY <2>1, <2>4, MediumSeqs, TailConsecutive
  <2>6. /\ Consecutive(inHand'[m], w) /\ Len(inHand'[m]) = 1 /\ Len(packetQ'[m]) = q - 1
    BY <2>1, <2>2, <2>5, OneConsecutive
  <2>7. w + 1 + (q - 1) = w + q
    BY <2>2
  <2>8. /\ Consecutive(packetQ'[m], Written(m)' + Len(inHand'[m]))
        /\ Consecutive(packet'[m], Written(m)' + Len(inHand'[m]) + Len(packetQ'[m]))
        /\ Consecutive(encoder'[m], Written(m)' + Len(inHand'[m]) + Len(packetQ'[m]) + Len(packet'[m]))
    BY <1>1, <1>3, <2>1, <2>2, <2>4, <2>5, <2>6, <2>7
  <2>9. Packets(m)' = Packets(m)
    <3>1. Packets(m)' = e + p + (q - 1) + 1 + w
      BY <1>1, <1>3, <2>2, <2>6 DEF Packets
    <3>2. Packets(m) = w + 0 + q + p + e
      BY <2>2, <2>3
    <3> QED BY <3>1, <3>2
  <2>10. Consecutive(inHand'[m], Written(m)')
    BY <1>3, <2>2, <2>6
  <2> QED BY <1>1, <1>2, <1>3, <2>8, <2>9, <2>10 DEF ChainInv
<1> QED BY <1>4, <1>5, Zenon DEF MuxPop

\* The muxer writes the packet in its hand.
LEMMA WriteChain ==
    ASSUME TypeInv, NEW m \in Media, ChainInv(m), MuxWrite
    PROVE  ChainInv(m)' /\ Packets(m)' = Packets(m)
<1>t. /\ inHand \in [Media -> Seq(Nat)] /\ written \in Seq(Media \X Nat) /\ chosen \in Media
      /\ pc \in [Threads -> ThreadPcs] /\ m \in Threads /\ m # "mux" /\ "mux" \in Threads
  BY DEF TypeInv, RecorderTypeOK, Media, Threads
<1>1. UNCHANGED <<packet, encoder, nextPts, packetQ, packetAbort>> /\ pc["mux"] = "write"
  BY DEF MuxWrite, MuxOnly, encodeVars
<1>2. pc'[m] = pc[m] /\ pc'["mux"] # "done"
  <2>1. Go("mux", "crashed") \/ Go("mux", "top")
    BY Zenon DEF MuxWrite
  <2> QED BY <1>t, <2>1 DEF Go
<1>3. Live(m)' <=> Live(m)
  BY <1>1, <1>2 DEF Live
<1>4. CASE UNCHANGED <<written, inHand>>
  BY <1>1, <1>2, <1>3, <1>4, ChainSame
<1>5. CASE /\ written' = Append(written, <<chosen, Head(inHand[chosen])>>)
           /\ inHand' = [inHand EXCEPT ![chosen] = <<>>]
  <2>1. inHand[chosen] # <<>>
    BY <1>1, <1>t DEF TypeInv, HandsOK, Media
  <2>2. Head(inHand[chosen]) \in Nat
    BY <2>1, <1>t, TakeHead
  <2>3. Written(m)' = Written(m) + (IF m = chosen THEN 1 ELSE 0)
    BY <1>5, <1>t, <2>2, WrittenGrows
  <2>4. PICK w \in Nat, h \in Nat, q \in Nat, p \in Nat, e \in Nat :
           /\ w = Written(m) /\ h = Len(inHand[m]) /\ q = Len(packetQ[m])
           /\ p = Len(packet[m]) /\ e = Len(encoder[m])
           /\ Packets(m) = w + h + q + p + e
    BY MediumParts
  <2>5. CASE m # chosen
    <3>1. Written(m)' = Written(m) /\ inHand'[m] = inHand[m]
      BY <1>5, <1>t, <2>3, <2>4, <2>5
    <3>2. Packets(m)' = Packets(m)
      BY <1>1, <3>1 DEF Packets
    <3> QED BY <1>1, <1>2, <1>3, <3>1, <3>2 DEF ChainInv
  <2>6. CASE m = chosen
    <3>1. inHand'[m] = <<>> /\ Len(inHand'[m]) = 0
      BY <1>5, <1>t, <2>6
    <3>2. h = 1
      <4>1. h <= 1
        BY <2>4, MediumNumbers
      <4>2. h # 0
        BY <2>1, <2>4, <2>6, MediumSeqs, EmptySeq
      <4> QED BY <4>1, <4>2
    <3>3. Written(m)' = w + 1
      BY <2>3, <2>4, <2>6
    <3>4. Packets(m)' = Packets(m)
      <4>1. Packets(m)' = e + p + q + 0 + (w + 1)
        BY <1>1, <2>4, <3>1, <3>3 DEF Packets
      <4>2. Packets(m) = w + 1 + q + p + e
        BY <2>4, <3>2
      <4> QED BY <4>1, <4>2
    <3>5. Written(m)' + Len(inHand'[m]) = Written(m) + Len(inHand[m])
      <4>1. Written(m)' + Len(inHand'[m]) = w + 1 + 0
        BY <3>1, <3>3
      <4>2. Written(m) + Len(inHand[m]) = w + 1
        BY <2>4, <3>2
      <4> QED BY <4>1, <4>2
    <3>6. Consecutive(inHand'[m], Written(m)')
      BY <3>1 DEF Consecutive
    <3> QED BY <1>1, <1>2, <1>3, <3>4, <3>5, <3>6 DEF ChainInv
  <2> QED BY <2>5, <2>6
<1> QED BY <1>4, <1>5, Zenon DEF MuxWrite

\* The muxer's other steps; at its end it is not live any more.
LEMMA MuxChain ==
    ASSUME TypeInv, NEW m \in Media, ChainInv(m), MuxStep
    PROVE  ChainInv(m)' /\ (Live(m)' => Packets(m)' = Packets(m))
<1>t. pc \in [Threads -> ThreadPcs] /\ m \in Threads /\ m # "mux" /\ "mux" \in Threads
  BY DEF TypeInv, RecorderTypeOK, Media, Threads
<1>1. CASE MuxOpen \/ MuxTop \/ MuxCompare
  <2>1. UNCHANGED <<packetQ, inHand, written, packet, encoder, nextPts, packetAbort>> /\ pc["mux"] # "done"
    BY <1>1 DEF MuxOpen, MuxTop, MuxCompare, muxVars, MuxOnly, encodeVars
  <2>2. \E to : Go("mux", to)
    BY <1>1, Zenon DEF MuxOpen, MuxTop, MuxCompare
  <2>3. pc'[m] = pc[m]
    BY <1>t, <2>2 DEF Go
  <2> QED BY <2>1, <2>3, ChainSame DEF Live
<1>2. CASE MuxPops
  <2>1. {"popAudio", "compare"} \subseteq ThreadPcs \ {"done"} /\ {"video", "audio"} \subseteq Media
    BY DEF ThreadPcs, Media
  <2> QED BY <1>2, <2>1, PopChain DEF MuxPops
<1>3. CASE MuxWrite
  BY <1>3, WriteChain
<1>4. CASE MuxTrailer
  <2>1. /\ UNCHANGED <<written>> /\ inHand' = [n \in Media |-> <<>>] /\ pc'["mux"] = "done"
    BY <1>4, <1>t DEF MuxTrailer, Go
  <2>2. ~Live(m)' /\ inHand'[m] = <<>>
    BY <2>1 DEF Live
  <2> QED BY <2>2 DEF ChainInv, Consecutive
<1> QED BY <1>1, <1>2, <1>3, <1>4 DEF MuxStep

\* Every step keeps the chain of packets of each medium.
LEMMA NextPacketInv == StopInv /\ PacketInv /\ (ThreadStep \/ CallerStep \/ BeginStop) => PacketInv'
<1> SUFFICES ASSUME StopInv, PacketInv, ThreadStep \/ CallerStep \/ BeginStop, NEW m \in Media
             PROVE  ChainInv(m)'
  BY DEF PacketInv
<1>t. /\ TypeInv /\ CallerInv /\ AbortInv /\ ChainInv(m)
      /\ pc \in [Threads -> ThreadPcs] /\ m \in Threads /\ m # "mux" /\ m # "record" /\ "mux" \in Threads
  BY DEF StopInv, TypeInv, RecorderTypeOK, Media, Threads, PacketInv
<1>1. CASE CallbackBegin \/ CallbackPush
  <2>1. UNCHANGED <<packetQ, inHand, written, packet, encoder, nextPts, packetAbort, pc>>
    BY <1>1 DEF CallbackBegin, CallbackPush, PushFrame, queueVars, muxVars, encodeVars
  <2> QED BY <1>t, <2>1, ChainSame DEF Live
<1>2. CASE RecordStep
  <2>1. RecordOnly
    BY <1>2, Zenon DEF RecordStep, RecordOpen, RecordTop, RecordFrame, RecordNothing,
       RecordPush
  <2>2. UNCHANGED <<packetQ, packetAbort>>
    BY <1>2 DEF RecordStep, RecordOpen, RecordTop, RecordFrame, RecordNothing,
       RecordPush, PushFrame, queueVars
  <2>3. pc'[m] = pc[m] /\ pc'["mux"] = pc["mux"]
    BY <1>2, <1>t, RecordGoes
  <2>4. UNCHANGED <<inHand, written, packet, encoder, nextPts>>
    BY <2>1 DEF RecordOnly, muxVars, encodeVars
  <2> QED BY <1>t, <2>2, <2>3, <2>4, ChainSame DEF Live
<1>3. ASSUME NEW n \in Media, EncodeStep(n) PROVE ChainInv(m)'
  <2>1. CASE n = m
    BY <1>3, <1>t, <2>1, EncodeChain
  <2>2. CASE n # m
    BY <1>3, <1>t, <2>2, OtherEncodeChain
  <2> QED BY <2>1, <2>2
<1>4. CASE MuxStep
  BY <1>4, <1>t, MuxChain
<1>5. CASE CallerStep \/ BeginStop
  <2>1. UNCHANGED <<inHand, written, packet, encoder, nextPts>>
    BY <1>5, CallerFrame DEF CallerOnly, muxVars, encodeVars
  <2>2. Live(m)' => ~packetAbort[m] /\ packetQ'[m] = packetQ[m]
    <3>1. CASE AbortQueues
      BY <3>1, <1>t DEF AbortQueues, AbortFrames, AbortPackets, TypeInv, RecorderTypeOK,
         Live
    <3>2. CASE ~AbortQueues
      <4>1. UNCHANGED queueVars
        BY <3>2, <1>5, Zenon DEF CallerStep, OpenDevice, InitEncoders, InitEncoder,
           StartDevice,
           CloseDevice, CreateThreads, CreateThread, TellThreads, JoinThreads, BeginStop
      <4> QED BY <4>1 DEF queueVars, Live
    <3> QED BY <3>1, <3>2
  <2>3. \A t \in Threads : ~packetAbort[m] => pc'[t] = pc[t] \/ (pc[t] = "none" /\ pc'[t] = "open")
    BY <1>5, <1>t, CallerMoves, BeforeCreation DEF AllAborted
  <2>4. Live(m)' => Live(m)
    BY <1>t, <2>2, <2>3 DEF Live
  <2>5. Live(m)' => (pc'[m] \in Leaving <=> pc[m] \in Leaving) /\ (pc'[m] = "send" <=> pc[m] = "send")
    BY <1>t, <2>2, <2>3 DEF Leaving
  <2>6. CASE Live(m)'
    BY <1>t, <2>1, <2>2, <2>4, <2>5, <2>6, ChainSame
  <2>7. CASE ~Live(m)'
    <3>1. Written(m)' = Written(m)
      BY <2>1 DEF Written
    <3> QED BY <1>t, <2>1, <2>7, <3>1 DEF ChainInv
  <2> QED BY <2>6, <2>7
<1> QED BY <1>1, <1>2, <1>3, <1>4, <1>5 DEF ThreadStep

-----------------------------------------------------------------------------
(* Order *)

\* The time of a packet grows with its number.
LEMMA TimeGrows ==
    ASSUME NEW m \in Media, NEW k \in Nat
    PROVE  Time(m, k) \in Nat /\ Time(m, k + 1) \in Nat /\ Time(m, k) <= Time(m, k + 1)
<1>1. PICK p \in Nat : p = Period[m]
  BY RecorderAssumption
<1>2. Time(m, k) = k * p /\ Time(m, k + 1) = (k + 1) * p
  BY <1>1 DEF Time
<1>3. (k + 1) * p = k * p + p /\ k * p \in Nat
  OBVIOUS
<1> QED BY <1>2, <1>3

\* The packet in the muxer's hand is the next one of its medium.
LEMMA InHandIsNext ==
    ASSUME TypeInv, PacketInv, NEW m \in Media, inHand[m] # <<>>
    PROVE  Head(inHand[m]) = Written(m) /\ Written(m) \in Nat
<1>1. Consecutive(inHand[m], Written(m))
  BY DEF PacketInv, ChainInv
<1> QED BY <1>1, MediumSeqs, MediumNumbers, TailConsecutive

\* Only MuxCompare lets the muxer write, only MuxWrite writes.
LEMMA WriteMoves ==
    TypeInv /\ (ThreadStep \/ CallerStep \/ BeginStop) =>
        \/ MuxCompare
        \/ MuxWrite
        \/ UNCHANGED written /\ (pc'["mux"] = "write" => pc["mux"] = "write" /\ UNCHANGED chosen)
<1> SUFFICES ASSUME TypeInv, ThreadStep \/ CallerStep \/ BeginStop, ~MuxCompare, ~MuxWrite
             PROVE  UNCHANGED written /\ (pc'["mux"] = "write" => pc["mux"] = "write" /\ UNCHANGED chosen)
  OBVIOUS
<1>t. pc \in [Threads -> ThreadPcs] /\ "mux" \in Threads
  BY DEF TypeInv, RecorderTypeOK, Threads
<1>1. CASE CallbackBegin \/ CallbackPush
  BY <1>1 DEF CallbackBegin, CallbackPush, muxVars
<1>2. CASE RecordStep
  <2>1. RecordOnly
    BY <1>2, Zenon DEF RecordStep, RecordOpen, RecordTop, RecordFrame, RecordNothing,
       RecordPush
  <2>2. pc'["mux"] = pc["mux"]
    BY <1>2, <1>t, RecordGoes
  <2> QED BY <2>1, <2>2 DEF RecordOnly, muxVars
<1>3. ASSUME NEW n \in Media, EncodeStep(n)
      PROVE  UNCHANGED written /\ (pc'["mux"] = "write" => pc["mux"] = "write" /\ UNCHANGED chosen)
  <2>1. EncodeOnly
    BY <1>3, EncodeFrame
  <2>2. pc'["mux"] = pc["mux"]
    BY <1>3, <1>t, EncodeGoes DEF Media
  <2> QED BY <2>1, <2>2 DEF EncodeOnly, muxVars
<1>4. CASE MuxStep
  <2>1. UNCHANGED <<written, chosen>>
    BY <1>4, Zenon DEF MuxStep, MuxOpen, MuxTop, MuxPops, MuxPop, MuxTrailer, muxVars
  <2>2. \E to \in {"crashed", "top", "done", "trailer", "popVideo", "popAudio", "compare"} : Go("mux", to)
    BY <1>4 DEF MuxStep, MuxOpen, MuxTop, MuxPops, MuxPop, MuxTrailer
  <2>3. pc'["mux"] # "write"
    BY <1>t, <2>2 DEF Go
  <2> QED BY <2>1, <2>3
<1>5. CASE CallerStep \/ BeginStop
  <2>1. UNCHANGED <<written, chosen>>
    BY <1>5, CallerFrame DEF CallerOnly, muxVars
  <2>2. pc'["mux"] \in {pc["mux"], "open"}
    BY <1>5, <1>t, CallerMoves
  <2> QED BY <2>1, <2>2
<1> QED BY <1>1, <1>2, <1>3, <1>4, <1>5 DEF ThreadStep

\* The muxer chooses the earlier of the two next packets.
LEMMA CompareOrder == TypeInv /\ PacketInv /\ OrderInv /\ MuxCompare => OrderInv'
<1> SUFFICES ASSUME TypeInv, PacketInv, OrderInv, MuxCompare PROVE OrderInv'
  OBVIOUS
<1>1. UNCHANGED written /\ \A m \in Media : Written(m)' = Written(m)
  BY DEF MuxCompare, Written
<1>2. inHand["video"] # <<>> /\ inHand["audio"] # <<>>
  BY DEF MuxCompare, TypeInv, HandsOK
<1>3. /\ Head(inHand["video"]) = Written("video") /\ Written("video") \in Nat
      /\ Head(inHand["audio"]) = Written("audio") /\ Written("audio") \in Nat
  BY <1>2, InHandIsNext DEF Media
<1>4. Time("video", Written("video")) \in Nat /\ Time("audio", Written("audio")) \in Nat
  BY <1>3, TimeGrows DEF Media
<1>5. pc'["mux"] = "write" =>
        chosen' = IF Time("video", Written("video")) <= Time("audio", Written("audio"))
                  THEN "video" ELSE "audio"
  BY <1>3 DEF MuxCompare, Go, TypeInv, RecorderTypeOK, Threads
<1>6. pc'["mux"] = "write" =>
        \A m \in Media : Time(chosen', Written(chosen')) <= Time(m, Written(m))
  BY <1>4, <1>5 DEF Media
<1>7. chosen' \in Media
  BY MuxTypeInv DEF MuxStep, TypeInv, RecorderTypeOK
<1>8. LastTime' = LastTime
  BY <1>1 DEF LastTime
<1>9. Written(chosen)' = Written(chosen')
  BY <1>1 DEF Written
<1>10. pc'["mux"] = "write" =>
         \A m \in Media : Time(chosen', Written(chosen)') <= Time(m, Written(m)')
  BY <1>1, <1>6, <1>9
<1>11. written' # <<>> => \A m \in Media : LastTime' <= Time(m, Written(m)')
  BY <1>1, <1>8 DEF OrderInv
<1>12. \A m \in Media : Time(m, Written(m))' = Time(m, Written(m)') /\ Time(chosen, Written(chosen))' = Time(chosen', Written(chosen)')
  BY DEF Time
<1> QED BY <1>10, <1>11, <1>12 DEF OrderInv

\* What is written is the next packet of its medium, and no earlier than the last.
LEMMA WriteOrder ==
    TypeInv /\ PacketInv /\ OrderInv /\ WrittenInOrder /\ MuxWrite => OrderInv' /\ WrittenInOrder'
<1> SUFFICES ASSUME TypeInv, PacketInv, OrderInv, WrittenInOrder, MuxWrite
             PROVE  OrderInv' /\ WrittenInOrder'
  OBVIOUS
<1>t. /\ written \in Seq(Media \X Nat) /\ chosen \in Media /\ pc \in [Threads -> ThreadPcs]
      /\ "mux" \in Threads
  BY DEF TypeInv, RecorderTypeOK, Threads
<1>0. pc'["mux"] # "write"
  <2>1. Go("mux", "crashed") \/ Go("mux", "top")
    BY Zenon DEF MuxWrite
  <2> QED BY <1>t, <2>1 DEF Go
<1>1. CASE UNCHANGED written
  <2>1. LastTime' = LastTime /\ \A m \in Media : Time(m, Written(m))' = Time(m, Written(m))
    BY <1>1 DEF LastTime, Time, Written
  <2> QED BY <1>0, <1>1, <2>1 DEF OrderInv, WrittenInOrder, Time
<1>2. CASE written' = Append(written, <<chosen, Head(inHand[chosen])>>)
  <2> DEFINE k == Written(chosen)
             n == Len(written)
  <2>1. inHand[chosen] # <<>> /\ pc["mux"] = "write"
    BY <1>t DEF TypeInv, HandsOK, MuxWrite, Media
  <2>2. Head(inHand[chosen]) = k /\ k \in Nat
    BY <1>t, <2>1, InHandIsNext
  <2>3. written' = Append(written, <<chosen, k>>)
    BY <1>2, <2>2
  <2>4. \A m \in Media : Written(m)' = Written(m) + (IF m = chosen THEN 1 ELSE 0)
    BY <1>t, <2>2, <2>3, WrittenGrows
  <2>5. {j \in 1 .. n : written'[j][1] = chosen} = {i \in DOMAIN written : written[i][1] = chosen}
    BY <1>t, <2>2, <2>3, WrittenGrows
  <2>6. n \in Nat /\ DOMAIN written = 1 .. n
    BY <1>t, LenProperties
  <2>7. <<chosen, k>> \in Media \X Nat
    BY <1>t, <2>2
  <2>8. /\ Len(written') = n + 1 /\ written' \in Seq(Media \X Nat)
        /\ written'[n + 1] = <<chosen, k>>
        /\ \A i \in 1 .. n : written'[i] = written[i]
    BY <1>t, <2>3, <2>7, AppendProperties
  <2>9. DOMAIN written' = 1 .. n + 1
    BY <2>8, LenProperties
  <2>10. \A m \in Media : Time(chosen, k) <= Time(m, Written(m))
    BY <2>1 DEF OrderInv
  <2>11. \A m \in Media : Written(m) \in Nat /\ Time(m, Written(m)) \in Nat
    BY WrittenFinite, TimeGrows, <1>t
  <2>12. Time(chosen, k) <= Time(chosen, k + 1) /\ Time(chosen, k) \in Nat
    BY <1>t, <2>2, TimeGrows
  <2>13. OrderInv'
    <3>1. LastTime' = Time(chosen, k)
      BY <2>8 DEF LastTime, Time
    <3>2. ASSUME NEW m \in Media PROVE Time(chosen, k) <= Time(m, Written(m)')
      <4>1. CASE m = chosen
        <5>1. Written(m)' = k + 1
          BY <2>4, <4>1
        <5> QED BY <2>12, <4>1, <5>1
      <4>2. CASE m # chosen
        <5>1. Written(m)' = Written(m)
          BY <2>4, <2>11, <4>2
        <5> QED BY <2>10, <5>1
      <4> QED BY <4>1, <4>2
    <3>3. \A m \in Media : Time(m, Written(m))' = Time(m, Written(m)')
      BY DEF Time
    <3> QED BY <1>0, <3>1, <3>2, <3>3 DEF OrderInv
  <2>14. ASSUME NEW i \in 1 .. n
         PROVE  Time(written'[i][1], written'[i][2]) <= Time(written'[i + 1][1], written'[i + 1][2])
    <3>1. CASE i < n
      <4>1. i \in 1 .. n - 1 /\ i + 1 \in 1 .. n
        BY <2>6, <3>1
      <4>2. Time(written[i][1], written[i][2]) <= Time(written[i + 1][1], written[i + 1][2])
        BY <4>1 DEF WrittenInOrder
      <4> QED BY <2>8, <4>1, <4>2
    <3>2. CASE i = n
      <4>1. LastTime = Time(written[i][1], written[i][2])
        BY <3>2 DEF LastTime
      <4>2. written # <<>>
        BY <1>t, <2>6, <3>2, EmptySeq
      <4>3. LastTime <= Time(chosen, k)
        BY <1>t, <4>2 DEF OrderInv
      <4>4. written'[i] = written[i] /\ written'[i + 1][1] = chosen /\ written'[i + 1][2] = k
        BY <2>8, <3>2
      <4> QED BY <4>1, <4>3, <4>4
    <3>3. i < n \/ i = n
      <4>1. n \in Nat
        BY <2>6
      <4> HIDE DEF n
      <4> QED BY <4>1
    <3> QED BY <3>1, <3>2, <3>3
  <2>15. ASSUME NEW i \in 1 .. n + 1
         PROVE  written'[i][2] = Cardinality({j \in 1 .. i - 1 : written'[j][1] = written'[i][1]})
    <3>1. CASE i \in 1 .. n
      <4>1. {j \in 1 .. i - 1 : written'[j][1] = written'[i][1]} = {j \in 1 .. i - 1 : written[j][1] = written[i][1]}
        <5>1. \A j \in 1 .. i - 1 : j \in 1 .. n
          BY <2>6, <3>1
        <5> QED BY <2>8, <3>1, <5>1
      <4>2. written[i][2] = Cardinality({j \in 1 .. i - 1 : written[j][1] = written[i][1]})
        BY <2>6, <3>1 DEF WrittenInOrder
      <4> QED BY <2>8, <3>1, <4>1, <4>2
    <3>2. CASE i = n + 1
      <4>1. written'[i][2] = k /\ written'[i][1] = chosen /\ i - 1 = n
        BY <2>6, <2>8, <3>2
      <4>2. {j \in 1 .. i - 1 : written'[j][1] = written'[i][1]} = {j \in DOMAIN written : written[j][1] = chosen}
        BY <2>5, <4>1
      <4> QED BY <4>1, <4>2 DEF Written
    <3> QED BY <2>6, <3>1, <3>2
  <2>16. 1 .. Len(written') - 1 = 1 .. n
    BY <2>6, <2>8
  <2>17. WrittenInOrder'
    BY <2>9, <2>14, <2>15, <2>16 DEF WrittenInOrder, Time
  <2> QED BY <2>13, <2>17
<1> QED BY <1>1, <1>2, Zenon DEF MuxWrite

\* Every step keeps the file sorted.
LEMMA NextOrderInv ==
    TypeInv /\ PacketInv /\ OrderInv /\ WrittenInOrder /\ (ThreadStep \/ CallerStep \/ BeginStop)
        => OrderInv' /\ WrittenInOrder'
<1> SUFFICES ASSUME TypeInv, PacketInv, OrderInv, WrittenInOrder, ThreadStep \/ CallerStep \/ BeginStop
             PROVE OrderInv' /\ WrittenInOrder'
  OBVIOUS
<1>1. CASE UNCHANGED written
  <2>1. WrittenInOrder'
    BY <1>1 DEF WrittenInOrder, Time
  <2>2. CASE MuxCompare
    BY <2>1, <2>2, CompareOrder
  <2>3. CASE MuxWrite
    BY <2>3, WriteOrder
  <2>4. CASE pc'["mux"] = "write" => pc["mux"] = "write" /\ UNCHANGED chosen
    <3>1. LastTime' = LastTime /\ \A m \in Media : Time(m, Written(m))' = Time(m, Written(m))
      BY <1>1 DEF LastTime, Time, Written
    <3>2. pc'["mux"] = "write" => Time(chosen, Written(chosen))' = Time(chosen, Written(chosen))
      BY <1>1, <2>4 DEF Time, Written
    <3>3. OrderInv'
      BY <1>1, <2>4, <3>1, <3>2 DEF OrderInv
    <3> QED BY <2>1, <3>3
  <2> QED BY <2>2, <2>3, <2>4, WriteMoves
<1>2. CASE MuxWrite
  BY <1>2, WriteOrder
<1> QED BY <1>1, <1>2, WriteMoves DEF MuxCompare

-----------------------------------------------------------------------------
(* Contexts, and why encoder threads leave *)

\* Initially nothing was captured, queued or written.
LEMMA InitDataInv ==
    Init => FrameInv /\ PacketInv /\ OrderInv /\ WrittenInOrder /\ ContextInv /\ LeaveInv
<1> SUFFICES ASSUME Init
             PROVE  FrameInv /\ PacketInv /\ OrderInv /\ WrittenInOrder /\ ContextInv /\ LeaveInv
  OBVIOUS
<1>1. ASSUME NEW m \in Media
      PROVE  /\ frameQ[m] = 0 /\ captured[m] = 0 /\ nextPts[m] = 0 /\ pc[m] = "none"
             /\ packetQ[m] = <<>> /\ packet[m] = <<>> /\ encoder[m] = <<>> /\ inHand[m] = <<>>
             /\ ~initDone[m]
  BY DEF Init, Media, Threads
<1>2. pc["record"] = "none" /\ pc["mux"] = "none" /\ callback = "out" /\ written = <<>> /\ round = 0
  BY DEF Init, Threads
<1>3. FrameInv
  BY <1>1, <1>2 DEF FrameInv, InPush, One
<1>4. \A m \in Media : Written(m) = 0
  <2>1. \A m \in Media : {i \in DOMAIN written : written[i][1] = m} = {}
    BY <1>2
  <2> QED BY <2>1, FS_EmptySet DEF Written
<1>5. PacketInv
  <2>1. Len(<<>>) = 0 /\ \A k : Consecutive(<<>>, k)
    BY DEF Consecutive
  <2>2. ASSUME NEW m \in Media PROVE Packets(m) = 0 /\ One(pc[m] = "send") = 0
    <3>1. Packets(m) = 0 + 0 + 0 + 0 + 0
      BY <1>1, <1>4, <2>1 DEF Packets
    <3>2. pc[m] # "send"
      BY <1>1
    <3> QED BY <3>1, <3>2 DEF One
  <2> QED BY <1>1, <2>1, <2>2 DEF PacketInv, ChainInv
<1>6. OrderInv /\ WrittenInOrder
  BY <1>2 DEF OrderInv, WrittenInOrder
<1>7. ContextInv /\ LeaveInv
  BY <1>1, <1>2 DEF ContextInv, LeaveInv
<1> QED BY <1>3, <1>5, <1>6, <1>7

\* The caller sets a context only before it creates the thread that uses it.
LEMMA CallerContexts ==
    ASSUME StopInv, CallerStep \/ BeginStop, NEW m \in Media, round' = 1, initDone'[m]
    PROVE  \/ pc'[m] = "none" /\ context'[m] = "open"
           \/ /\ round = 1 /\ initDone[m] /\ context'[m] = context[m]
              /\ \/ pc'[m] = pc[m] /\ (exit[m] => exit'[m])
                 \/ pc[m] = "none" /\ pc'[m] = "open"
<1>t. /\ CallerInv /\ AbortInv /\ round \in Nat /\ initDone \in [Media -> BOOLEAN]
      /\ context \in [Media -> {"null", "allocated", "open"}]
      /\ pc \in [Threads -> ThreadPcs] /\ exit \in [Threads -> BOOLEAN]
      /\ m \in Threads /\ Media \subseteq Threads
  BY RecorderAssumption DEF StopInv, TypeInv, RecorderTypeOK, Media, Threads
<1>1. CASE OpenDevice
  <2>1. round = 0 /\ UNCHANGED initDone
    BY <1>1, <1>t DEF OpenDevice, codecVars
  <2> QED BY <1>t, <2>1 DEF CallerInv
<1>2. ASSUME NEW n \in Media, NEW from, NEW to, InitEncoder(n, from, to),
             from \in {"initAudio", "initVideo"}
      PROVE  \/ pc'[m] = "none" /\ context'[m] = "open"
             \/ /\ round = 1 /\ initDone[m] /\ context'[m] = context[m]
                /\ pc'[m] = pc[m] /\ (exit[m] => exit'[m])
  <2>1. UNCHANGED <<pc, exit, round>> /\ callerPc = from
    BY <1>2 DEF InitEncoder, Continue
  <2>2. \/ /\ context' = [context EXCEPT ![n] = "open"]
           /\ initDone' = [initDone EXCEPT ![n] = TRUE]
        \/ initDone' = [initDone EXCEPT ![n] = FALSE] /\ context' = [context EXCEPT ![n] = "allocated"]
    BY <1>2, Zenon DEF InitEncoder
  <2>3. CASE n = m
    <3>1. context' = [context EXCEPT ![n] = "open"]
      BY <1>t, <2>2, <2>3
    <3>2. pc[m] = "none"
      BY <1>2, <1>t, <2>1 DEF CallerInv, NotYet, FirstStart
    <3> QED BY <1>t, <2>1, <2>3, <3>1, <3>2
  <2>4. CASE n # m
    <3>1. initDone'[m] = initDone[m]
      BY <1>t, <2>2, <2>4
    <3>2. context'[m] = context[m]
      BY <1>t, <2>2, <2>4
    <3> QED BY <2>1, <3>1, <3>2
  <2> QED BY <2>3, <2>4
<1>3. CASE CreateThreads
  <2>1. /\ UNCHANGED <<codecVars, round>> /\ callerPc # "idle"
        /\ \E t \in Threads : /\ NotYet(t) /\ Go(t, "open")
                              /\ exit' = [exit EXCEPT ![t] = FALSE]
    BY <1>3 DEF CreateThreads, CreateThread, Continue, NotYet, Threads
  <2>2. FirstStart
    BY <2>1 DEF FirstStart
  <2>3. PICK t \in Threads : NotYet(t) /\ Go(t, "open") /\ exit' = [exit EXCEPT ![t] = FALSE]
    BY <2>1
  <2>4. CASE t = m
    BY <1>t, <2>1, <2>2, <2>3, <2>4 DEF CallerInv, Go, codecVars
  <2>5. CASE t # m
    BY <1>t, <2>1, <2>3, <2>5 DEF Go, codecVars
  <2> QED BY <2>4, <2>5
<1>4. CASE StartDevice \/ CloseDevice \/ AbortQueues \/ JoinThreads \/ BeginStop \/ TellThreads
  <2>1. UNCHANGED <<pc, codecVars, round>>
    BY <1>4, Zenon DEF StartDevice, CloseDevice, AbortQueues, JoinThreads, BeginStop,
       TellThreads, StopOnly
  <2>2. exit[m] => exit'[m]
    <3>1. UNCHANGED exit \/ TellThreads
      BY <1>4, Zenon DEF StartDevice, CloseDevice, AbortQueues, JoinThreads, BeginStop
    <3> QED BY <3>1, <1>t DEF TellThreads, Tell
  <2> QED BY <2>1, <2>2 DEF codecVars
<1> QED BY <1>1, <1>2, <1>3, <1>4 DEF CallerStep, InitEncoders, Media

\* Outside the caller only EncodeFree touches a context.
LEMMA ThreadContexts ==
    ASSUME TypeInv, ThreadStep
    PROVE  /\ UNCHANGED <<round, initDone, exit>>
           /\ \/ UNCHANGED context
              \/ \E m \in Media : /\ context' = [context EXCEPT ![m] = "null"]
                                  /\ pc'[m] = "done" /\ EncodeFree(m)
<1>1. UNCHANGED <<round, initDone, exit>>
  BY ThreadFrame DEF ThreadOnly
<1>2. UNCHANGED context \/ \E m \in Media : EncodeFree(m)
  <2>1. CallbackBegin \/ CallbackPush => UNCHANGED context
    BY DEF CallbackBegin, CallbackPush, codecVars
  <2>2. RecordStep => UNCHANGED context
    BY DEF RecordStep, RecordOpen, RecordTop, RecordFrame, RecordNothing, RecordPush,
           RecordOnly,
       codecVars
  <2>3. ASSUME NEW m \in Media, EncodeStep(m) PROVE UNCHANGED context \/ EncodeFree(m)
    BY <2>3, Zenon DEF EncodeStep, EncodeOpen, EncodeTop, EncodePop, EncodeSend,
       EncodeReceive,
       EncodePush, EncodeFlush
  <2>4. MuxStep => UNCHANGED context
    BY MuxFrame DEF MuxOnly, codecVars
  <2> QED BY <2>1, <2>2, <2>3, <2>4, Zenon DEF ThreadStep
<1>3. ASSUME NEW m \in Media, EncodeFree(m)
      PROVE  context' = [context EXCEPT ![m] = "null"] /\ pc'[m] = "done" /\ EncodeFree(m)
  BY <1>3 DEF EncodeFree, Go, TypeInv, RecorderTypeOK, Media, Threads
<1> QED BY <1>1, <1>2, <1>3, Zenon

\* Which threads can die, and where.
LEMMA Crashing ==
    ASSUME TypeInv, ThreadStep
    PROVE  /\ pc'["record"] = "crashed" => pc["record"] = "crashed"
           /\ pc'["mux"] = "crashed" => \/ pc["mux"] = "crashed"
                                        \/ UNCHANGED context /\ \E m \in Media : context[m] = "null"
           /\ \A m \in Media : pc'[m] = "crashed" =>
                  \/ pc[m] = "crashed"
                  \/ pc[m] # "done" /\ context[m] = "null"
<1>t. /\ pc \in [Threads -> ThreadPcs] /\ Media \subseteq Threads /\ {"record", "mux"} \subseteq Threads
      /\ "mux" \notin Media /\ "record" \notin Media /\ chosen \in Media
      /\ context \in [Media -> {"null", "allocated", "open"}]
  BY DEF TypeInv, RecorderTypeOK, Media, Threads
<1>1. CASE CallbackBegin \/ CallbackPush
  BY <1>1 DEF CallbackBegin, CallbackPush
<1>2. CASE RecordStep
  <2>1. pc'["record"] # "crashed"
    BY <1>2, RecordGoes
  <2> QED BY <1>2, <1>t, <2>1, RecordGoes
<1>3. ASSUME NEW n \in Media, EncodeStep(n)
      PROVE  /\ pc'["record"] = pc["record"] /\ pc'["mux"] = pc["mux"]
             /\ \A m \in Media : pc'[m] = "crashed" =>
                    pc[m] = "crashed" \/ (pc[m] # "done" /\ context[m] = "null")
  <2>1. \A t \in Threads \ {n} : pc'[t] = pc[t]
    BY <1>3, EncodeGoes
  <2>2. ASSUME pc'[n] = "crashed", pc[n] # "crashed" PROVE pc[n] # "done" /\ context[n] = "null"
    <3>1. EncodeSend(n) \/ EncodeFlush(n)
      <4>1. CASE EncodeOpen(n) \/ EncodeTop(n) \/ EncodePop(n) \/ EncodeFree(n)
        <5>1. \E to \in {"top", "done", "flush", "pop", "send"} : Go(n, to)
          BY <1>t, <4>1 DEF EncodeOpen, EncodeTop, EncodePop, EncodeFree
        <5> QED BY <1>t, <2>2, <5>1 DEF Go
      <4>2. CASE EncodeReceive(n)
        BY <1>t, <2>2, <4>2 DEF EncodeReceive, AfterReceive, Go
      <4>3. CASE EncodePush(n)
        BY <2>2, <4>3 DEF EncodePush
      <4> QED BY <1>3, <4>1, <4>2, <4>3 DEF EncodeStep
    <3>2. CASE EncodeSend(n)
      BY <1>t, <2>2, <3>2 DEF EncodeSend, Go
    <3>3. CASE EncodeFlush(n)
      BY <1>t, <2>2, <3>3 DEF EncodeFlush, Go
    <3> QED BY <3>1, <3>2, <3>3
  <2> QED BY <1>t, <2>1, <2>2
<1>4. CASE MuxStep
  <2>1. UNCHANGED context
    BY <1>4, MuxFrame DEF MuxOnly, codecVars
  <2>2. \/ \E to \in ThreadPcs \ {"crashed"} : Go("mux", to)
        \/ Go("mux", "crashed") /\ \E m \in Media : context[m] = "null"
    <3>1. CASE MuxOpen
      BY <3>1 DEF MuxOpen, ThreadPcs
    <3>2. CASE MuxCompare \/ MuxWrite
      BY <1>t, <3>2 DEF MuxCompare, MuxWrite, ThreadPcs
    <3>3. CASE MuxTop \/ MuxPops \/ MuxTrailer
      <4>1. \E to \in {"top", "done", "trailer", "popVideo", "popAudio", "compare"} : Go("mux", to)
        BY <3>3 DEF MuxTop, MuxPops, MuxPop, MuxTrailer
      <4> QED BY <4>1 DEF ThreadPcs
    <3> QED BY <1>4, <3>1, <3>2, <3>3 DEF MuxStep
  <2>3. \A t \in Threads \ {"mux"} : pc'[t] = pc[t]
    BY <1>t, <2>2 DEF Go
  <2>4. pc'["mux"] = "crashed" => \E m \in Media : context[m] = "null"
    BY <1>t, <2>2 DEF Go
  <2> QED BY <1>t, <2>1, <2>3, <2>4
<1> QED BY <1>1, <1>2, <1>3, <1>4 DEF ThreadStep

\* A context goes away with its encoder thread only.
LEMMA NextContextInv ==
    StopInv /\ ContextInv /\ (ThreadStep \/ CallerStep \/ BeginStop) => ContextInv'
<1> SUFFICES ASSUME StopInv, ContextInv, ThreadStep \/ CallerStep \/ BeginStop PROVE ContextInv'
  OBVIOUS
<1>t. /\ TypeInv /\ CallerInv /\ AbortInv
      /\ pc \in [Threads -> ThreadPcs] /\ Media \subseteq Threads /\ {"record", "mux"} \subseteq Threads
      /\ context \in [Media -> {"null", "allocated", "open"}]
  BY DEF StopInv, TypeInv, RecorderTypeOK, Media, Threads
<1>1. CASE ThreadStep
  <2>0. UNCHANGED <<round, initDone>>
    BY <1>1, <1>t, ThreadContexts
  <2>1. ASSUME NEW m \in Media, round = 1, initDone[m]
        PROVE  context'[m] = "open" \/ (context'[m] = "null" /\ pc'[m] = "done")
    <3>1. context[m] = "open" \/ (context[m] = "null" /\ pc[m] = "done")
      BY <2>1 DEF ContextInv
    <3>2. pc[m] = "done" => pc'[m] = "done"
      BY <1>1, <1>t, ThreadMoves
    <3>3. CASE UNCHANGED context
      BY <3>1, <3>2, <3>3
    <3>4. ASSUME NEW n \in Media, context' = [context EXCEPT ![n] = "null"], pc'[n] = "done"
          PROVE  context'[m] = "open" \/ (context'[m] = "null" /\ pc'[m] = "done")
      BY <1>t, <3>1, <3>2, <3>4
    <3> QED BY <1>1, <1>t, <3>3, <3>4, ThreadContexts
  <2>2. ASSUME NEW m \in Media, pc'[m] = "crashed", round = 1 PROVE ~initDone[m]
    <3>1. pc[m] = "crashed" \/ (pc[m] # "done" /\ context[m] = "null")
      BY <1>1, <1>t, <2>2, Crashing
    <3> QED BY <2>2, <3>1 DEF ContextInv
  <2>3. ASSUME pc'["mux"] = "crashed" PROVE \E m \in Media : context'[m] = "null"
    <3>1. \E m \in Media : context[m] = "null"
      BY <1>1, <1>t, <2>3, Crashing DEF ContextInv
    <3>2. UNCHANGED context \/ \E n \in Media : context' = [context EXCEPT ![n] = "null"]
      BY <1>1, <1>t, ThreadContexts
    <3> QED BY <1>t, <3>1, <3>2
  <2>4. pc'["record"] # "crashed"
    BY <1>1, <1>t, Crashing DEF ContextInv
  <2> QED BY <2>0, <2>1, <2>2, <2>3, <2>4 DEF ContextInv
<1>2. CASE CallerStep \/ BeginStop
  <2>0. \A t \in Threads : pc'[t] = pc[t] \/ pc'[t] = "open"
    BY <1>2, <1>t, CallerMoves
  <2>1. ASSUME NEW m \in Media, round' = 1, initDone'[m]
        PROVE  context'[m] = "open" \/ (context'[m] = "null" /\ pc'[m] = "done")
    <3>1. CASE context'[m] = "open"
      BY <3>1
    <3>2. CASE /\ round = 1 /\ initDone[m] /\ context'[m] = context[m]
               /\ pc'[m] = pc[m] \/ pc[m] = "none"
      BY <3>2 DEF ContextInv
    <3> QED BY <1>2, <2>1, <3>1, <3>2, CallerContexts
  <2>2. ASSUME NEW m \in Media, pc'[m] = "crashed", round' = 1 PROVE ~initDone'[m]
    <3>1. pc[m] = "crashed"
      BY <1>t, <2>0, <2>2
    <3> QED BY <1>2, <2>2, <3>1, CallerContexts DEF ContextInv
  <2>3. ASSUME pc'["mux"] = "crashed" PROVE \E m \in Media : context'[m] = "null"
    <3>1. pc["mux"] = "crashed"
      BY <1>t, <2>0, <2>3
    <3>2. ~NotYet("mux")
      BY <1>t, <3>1, BeforeCreation
    <3>3. UNCHANGED context
      BY <1>2, <3>2, Zenon DEF CallerStep, OpenDevice, InitEncoders, InitEncoder,
         StartDevice,
         CreateThreads, CreateThread, CloseDevice, TellThreads, AbortQueues, JoinThreads,
         BeginStop,
         StopOnly, Continue, NotYet, codecVars
    <3> QED BY <3>1, <3>3 DEF ContextInv
  <2>4. pc'["record"] # "crashed"
    BY <1>t, <2>0 DEF ContextInv
  <2> QED BY <2>1, <2>2, <2>3, <2>4 DEF ContextInv
<1> QED BY <1>1, <1>2

\* A medium's queue is never reopened, and the muxer that has ended is not started again.
LEMMA LiveBefore ==
    ASSUME StopInv, ThreadStep \/ CallerStep \/ BeginStop, NEW m \in Media, Live(m)'
    PROVE  Live(m)
<1>t. /\ TypeInv /\ CallerInv /\ AbortInv /\ "mux" \in Threads
      /\ packetAbort \in [Media -> BOOLEAN]
  BY DEF StopInv, TypeInv, RecorderTypeOK, Threads
<1>1. CASE ThreadStep
  <2>1. UNCHANGED packetAbort
    BY <1>1, ThreadFrame DEF ThreadOnly
  <2>2. pc["mux"] = "done" => pc'["mux"] = "done"
    BY <1>1, <1>t, ThreadMoves
  <2> QED BY <2>1, <2>2 DEF Live
<1>2. CASE CallerStep \/ BeginStop
  <2>1. ~packetAbort[m]
    <3>1. CASE AbortQueues
      BY <1>t, <3>1 DEF AbortQueues, AbortFrames, AbortPackets, Live
    <3>2. CASE ~AbortQueues
      BY <1>2, <3>2, Zenon DEF CallerStep, OpenDevice, InitEncoders, InitEncoder,
         StartDevice,
         CloseDevice, CreateThreads, CreateThread, TellThreads, JoinThreads, BeginStop,
         queueVars, Live
    <3> QED BY <3>1, <3>2
  <2>2. pc["mux"] = "done" => pc'["mux"] = "done"
    BY <1>2, <1>t, <2>1, CallerMoves, BeforeCreation DEF AllAborted
  <2> QED BY <2>1, <2>2 DEF Live
<1> QED BY <1>1, <1>2

\* While the muxer and the queue of a medium live, no packet of it is lost, and only
\* EncodeSend makes one.
LEMMA PacketsKept ==
    ASSUME StopInv, PacketInv, ThreadStep \/ CallerStep \/ BeginStop, NEW m \in Media, Live(m)'
    PROVE  EncodeSend(m) \/ Packets(m)' = Packets(m)
<1>t. /\ TypeInv /\ ChainInv(m) /\ Live(m) /\ packetQ \in [Media -> Seq(Nat)]
  BY LiveBefore DEF StopInv, PacketInv, TypeInv, RecorderTypeOK
<1>1. CASE CallbackBegin \/ CallbackPush \/ RecordStep
  <2>1. UNCHANGED <<packetQ, inHand, written, packet, encoder>>
    BY <1>1 DEF CallbackBegin, CallbackPush, PushFrame, queueVars, muxVars, encodeVars,
       RecordStep,
       RecordOpen, RecordTop, RecordFrame, RecordNothing, RecordPush, RecordOnly
  <2> QED BY <2>1 DEF Packets, Written
<1>2. ASSUME NEW n \in Media, EncodeStep(n) PROVE EncodeSend(m) \/ Packets(m)' = Packets(m)
  <2>1. CASE n = m
    BY <1>2, <1>t, <2>1, EncodeChain
  <2>2. CASE n # m
    BY <1>2, <1>t, <2>2, OtherEncodeChain
  <2> QED BY <2>1, <2>2
<1>3. CASE MuxStep
  BY <1>3, <1>t, MuxChain
<1>4. CASE CallerStep \/ BeginStop
  <2>1. UNCHANGED <<inHand, written, packet, encoder>>
    BY <1>4, CallerFrame DEF CallerOnly, muxVars, encodeVars
  <2>2. packetQ'[m] = packetQ[m]
    <3>1. CASE AbortQueues
      BY <1>t, <3>1 DEF AbortQueues, AbortFrames, AbortPackets, TypeInv, RecorderTypeOK,
         Live
    <3>2. CASE ~AbortQueues
      BY <1>4, <3>2, Zenon DEF CallerStep, OpenDevice, InitEncoders, InitEncoder,
         StartDevice,
         CloseDevice, CreateThreads, CreateThread, TellThreads, JoinThreads, BeginStop,
         queueVars
    <3> QED BY <3>1, <3>2
  <2> QED BY <2>1, <2>2 DEF Packets, Written
<1> QED BY <1>1, <1>2, <1>3, <1>4 DEF ThreadStep

\* An encoder thread is past its loop.
Gone == {"flush", "flushReceive", "free", "done"}

\* Why an encoder thread of the first round is past its loop.
HasReason(m) == \/ exit[m]
                \/ nextPts[m] > Packets(m)
                \/ pc["mux"] = "done"
                \/ pc[m] = "done" /\ context[m] = "open"

\* An encoder thread leaves its loop for a reason.
LEMMA EncoderLeaves ==
    ASSUME StopInv, PacketInv, ContextInv, LeaveInv, NEW m \in Media, EncodeStep(m),
           round = 1, initDone[m], pc'[m] \in Gone, Live(m)'
    PROVE  HasReason(m)'
<1>t. /\ TypeInv /\ ToldInv /\ ChainInv(m) /\ Live(m)
      /\ pc \in [Threads -> ThreadPcs] /\ m \in Threads
      /\ context \in [Media -> {"null", "allocated", "open"}]
      /\ nextPts[m] \in Nat /\ Packets(m) \in Nat
  BY LiveBefore, MediumNumbers DEF StopInv, PacketInv, TypeInv, RecorderTypeOK, Threads,
     Media, ThreadStep
<1>f. UNCHANGED exit /\ pc'["mux"] = pc["mux"]
  BY <1>t, EncodeFrame, EncodeGoes DEF EncodeOnly, Media, Threads
<1>p. EncodeSend(m) \/ Packets(m)' = Packets(m)
  BY PacketsKept DEF ThreadStep
<1>1. CASE EncodeOpen(m)
  <2>1. pc[m] = "open" /\ UNCHANGED context /\ pc'[m] = "done"
    BY <1>1, <1>t DEF EncodeOpen, Go, Gone
  <2>2. context[m] = "open"
    BY <2>1 DEF ContextInv
  <2> QED BY <2>1, <2>2 DEF HasReason
<1>2. CASE EncodeTop(m)
  <2>1. exit[m]
    BY <1>2, <1>t DEF EncodeTop, Go, Gone
  <2> QED BY <2>1, <1>f DEF HasReason
<1>3. CASE EncodePop(m)
  <2>1. frameAbort[m]
    BY <1>3, <1>t DEF EncodePop, Go, Gone
  <2>2. exit[m]
    BY <1>t, <2>1 DEF ToldInv, OneAborted, Media
  <2> QED BY <2>2, <1>f DEF HasReason
<1>4. CASE EncodeSend(m)
  <2>1. pc[m] = "send" /\ UNCHANGED <<packetQ, nextPts, packet, inHand, written>>
    BY <1>4 DEF EncodeSend, EncodeOnly, muxVars
  <2>2. UNCHANGED encoder
    BY <1>4, <1>t DEF EncodeSend, Go, Gone
  <2>3. Packets(m)' = Packets(m)
    BY <2>1, <2>2 DEF Packets, Written
  <2>4. nextPts[m] = Packets(m) + 1
    BY <1>t, <2>1 DEF ChainInv, Leaving, One
  <2>5. nextPts'[m] > Packets(m)'
    BY <1>t, <2>1, <2>3, <2>4
  <2> QED BY <2>5 DEF HasReason
<1>5. CASE EncodeReceive(m) \/ EncodePush(m) \/ EncodeFlush(m) \/ EncodeFree(m)
  <2>1. UNCHANGED nextPts
    BY <1>5 DEF EncodeReceive, EncodePush, EncodeFlush, EncodeFree, encodeVars
  <2>2. pc[m] \in Gone
    <3>1. CASE EncodeReceive(m)
      BY <1>t, <3>1 DEF EncodeReceive, AfterReceive, Go, Gone
    <3>2. CASE EncodePush(m)
      BY <3>2 DEF EncodePush
    <3>3. CASE EncodeFlush(m) \/ EncodeFree(m)
      BY <3>3 DEF EncodeFlush, EncodeFree, Gone
    <3> QED BY <1>5, <3>1, <3>2, <3>3
  <2>3. HasReason(m)
    BY <2>2 DEF LeaveInv, Gone, HasReason
  <2>4. Packets(m)' = Packets(m)
    <3>1. ~EncodeSend(m)
      BY <2>2 DEF EncodeSend, Gone
    <3> QED BY <1>p, <3>1
  <2>5. pc[m] = "done" => pc'[m] = "done" /\ UNCHANGED context
    <3>1. pc[m] = "done" => EncodePush(m)
      BY <1>5 DEF EncodeReceive, AfterReceive, EncodeFlush, EncodeFree
    <3> QED BY <3>1 DEF EncodePush
  <2> QED BY <1>f, <2>1, <2>3, <2>4, <2>5 DEF HasReason
<1> QED BY <1>1, <1>2, <1>3, <1>4, <1>5 DEF EncodeStep

\* Every step keeps the reasons encoder threads have for leaving.
LEMMA NextLeaveInv ==
    StopInv /\ PacketInv /\ ContextInv /\ LeaveInv /\ (ThreadStep \/ CallerStep \/ BeginStop)
        => LeaveInv'
<1> SUFFICES ASSUME StopInv, PacketInv, ContextInv, LeaveInv,
                    ThreadStep \/ CallerStep \/ BeginStop,
                    NEW m \in Media, round' = 1, initDone'[m], pc'[m] \in Gone
             PROVE  HasReason(m)'
  BY DEF LeaveInv, Gone, HasReason
<1>t. /\ TypeInv /\ CallerInv /\ AbortInv /\ ToldInv
      /\ pc \in [Threads -> ThreadPcs] /\ m \in Threads /\ "mux" \in Threads /\ m # "mux"
      /\ context \in [Media -> {"null", "allocated", "open"}]
  BY DEF StopInv, TypeInv, RecorderTypeOK, Threads, Media
<1>told. ToldInv'
  <2>1. ThreadStep => ToldInv'
    BY <1>t, ThreadStopInv
  <2>2. CallerStep \/ BeginStop => ToldInv'
    BY <1>t, CallerToldInv
  <2> QED BY <2>1, <2>2
<1>1. CASE ~Live(m)'
  <2>1. packetAbort'[m] \/ pc'["mux"] = "done"
    BY <1>1 DEF Live
  <2>2. packetAbort'[m] => exit'[m]
    BY <1>told DEF ToldInv, OneAborted, Media
  <2> QED BY <2>1, <2>2 DEF HasReason
<1>2. CASE Live(m)' /\ EncodeStep(m)
  <2>1. UNCHANGED <<round, initDone>>
    BY <1>2, EncodeFrame DEF EncodeOnly, callerVars
  <2> QED BY <1>2, <2>1, EncoderLeaves
<1>3. CASE Live(m)' /\ ~EncodeStep(m) /\ ThreadStep
  <2>1. UNCHANGED <<round, initDone, exit>>
    BY <1>3, ThreadFrame DEF ThreadOnly
  <2>2. Packets(m)' = Packets(m)
    BY <1>3, PacketsKept DEF EncodeStep
  <2>3. pc'[m] = pc[m] /\ nextPts'[m] = nextPts[m]
    <3>1. CASE CallbackBegin \/ CallbackPush
      BY <3>1 DEF CallbackBegin, CallbackPush, encodeVars
    <3>2. CASE RecordStep
      <4>1. RecordOnly
        BY <3>2, Zenon DEF RecordStep, RecordOpen, RecordTop, RecordFrame, RecordNothing,
           RecordPush
      <4>2. m # "record"
        BY DEF Media
      <4> QED BY <1>t, <3>2, <4>1, <4>2, RecordGoes DEF RecordOnly, encodeVars
    <3>3. ASSUME NEW n \in Media, EncodeStep(n) PROVE pc'[m] = pc[m] /\ nextPts'[m] = nextPts[m]
      BY <1>3, <1>t, <3>3, EncodeGoes
    <3>4. CASE MuxStep
      <4>1. UNCHANGED nextPts
        BY <3>4, MuxFrame DEF MuxOnly, encodeVars
      <4>2. \E to : Go("mux", to)
        BY <3>4, Zenon DEF MuxStep, MuxOpen, MuxTop, MuxPops, MuxPop, MuxCompare,
           MuxWrite, MuxTrailer
      <4> QED BY <1>t, <4>1, <4>2 DEF Go
    <3> QED BY <1>3, <3>1, <3>2, <3>3, <3>4 DEF ThreadStep
  <2>4. HasReason(m)
    BY <2>1, <2>3 DEF LeaveInv, Gone, HasReason
  <2>5. pc["mux"] = "done" => pc'["mux"] = "done"
    BY <1>3, <1>t, ThreadMoves
  <2>6. context'[m] = context[m]
    <3>1. CASE UNCHANGED context
      BY <3>1
    <3>2. ASSUME NEW n \in Media, context' = [context EXCEPT ![n] = "null"], EncodeFree(n)
          PROVE  context'[m] = context[m]
      BY <1>3, <1>t, <3>2 DEF EncodeStep
    <3> QED BY <1>3, <1>t, <3>1, <3>2, ThreadContexts
  <2> QED BY <2>1, <2>2, <2>3, <2>4, <2>5, <2>6 DEF HasReason
<1>4. CASE Live(m)' /\ ~EncodeStep(m) /\ (CallerStep \/ BeginStop)
  <2>1. /\ round = 1 /\ initDone[m] /\ context'[m] = context[m]
        /\ pc'[m] = pc[m] /\ (exit[m] => exit'[m])
    BY <1>4, CallerContexts DEF Gone
  <2>2. HasReason(m)
    BY <2>1 DEF LeaveInv, Gone, HasReason
  <2>3. Packets(m)' = Packets(m)
    BY <1>4, PacketsKept DEF EncodeStep
  <2>4. UNCHANGED nextPts
    BY <1>4, CallerFrame DEF CallerOnly, encodeVars
  <2>5. Live(m) /\ pc["mux"] # "done"
    BY <1>4, LiveBefore DEF Live
  <2> QED BY <2>1, <2>2, <2>3, <2>4, <2>5 DEF HasReason
<1> QED BY <1>1, <1>2, <1>3, <1>4

-----------------------------------------------------------------------------
(* Theorems *)

\* Doing nothing changes none of it.
LEMMA StutterFileInv == FileInv /\ UNCHANGED vars => FileInv'
<1> SUFFICES ASSUME FileInv, UNCHANGED vars PROVE FileInv'
  OBVIOUS
<1>1. UNCHANGED <<frameQ, frameAbort, packetQ, packetAbort, callback, captured, initDone,
context,
                  exit, pc, nextPts, encoder, packet, inHand, chosen, written, callerPc, round>>
  BY DEF vars, queueVars, deviceVars, codecVars, encodeVars, muxVars, callerVars
<1>2. FrameInv'
  BY <1>1 DEF FileInv, FrameInv, InPush, One
<1>3. PacketInv'
  <2>1. ASSUME NEW m \in Media, ChainInv(m) PROVE ChainInv(m)'
    BY <1>1, <2>1, ChainSame DEF Live
  <2> QED BY <2>1 DEF FileInv, PacketInv
<1>4. OrderInv' /\ WrittenInOrder'
  BY <1>1 DEF FileInv, OrderInv, WrittenInOrder, LastTime, Time, Written
<1>5. ContextInv' /\ LeaveInv'
  BY <1>1 DEF FileInv, ContextInv, LeaveInv, Packets, Written
<1> QED BY <1>2, <1>3, <1>4, <1>5 DEF FileInv

\* Both invariants hold throughout.
LEMMA FileInvariant == Spec => [](StopInv /\ FileInv)
<1>1. Init => FileInv
  BY InitDataInv DEF FileInv
<1>2. StopInv /\ FileInv /\ [Next]_vars => FileInv'
  <2> SUFFICES ASSUME StopInv, FileInv, [Next]_vars PROVE FileInv'
    OBVIOUS
  <2>1. CASE UNCHANGED vars
    BY <2>1, StutterFileInv
  <2>2. CASE ThreadStep \/ CallerStep \/ BeginStop
    <3>1. TypeInv
      BY DEF StopInv
    <3>2. FrameInv' /\ PacketInv'
      BY <2>2, NextFrameInv, NextPacketInv DEF FileInv
    <3>3. OrderInv' /\ WrittenInOrder'
      BY <2>2, <3>1, NextOrderInv DEF FileInv
    <3>4. ContextInv' /\ LeaveInv'
      BY <2>2, NextContextInv, NextLeaveInv DEF FileInv
    <3> QED BY <3>2, <3>3, <3>4 DEF FileInv
  <2> QED BY <2>1, <2>2, NextSteps
<1> QED BY <1>1, <1>2, StopInvariant, PTL DEF Spec

\* The file is sorted by time over both media and holds of each the first packets
\* without a gap, whatever the capacities, periods and encoder delays are and
\* however the four threads interleave (muxThread, lines 603-652).
THEOREM FileInOrder == Spec => []WrittenInOrder
<1>1. FileInv => WrittenInOrder
  BY DEF FileInv
<1> QED BY <1>1, FileInvariant, PTL

\* Until stop() aborts the queues, what was captured of a medium is about to be
\* queued, queued, in the encoder, on its way to the muxer or in the file.
THEOREM NothingLost == Spec => []NothingLostWhileRecording
<1>1. StopInv /\ FileInv => NothingLostWhileRecording
  <2> SUFFICES ASSUME StopInv, FileInv, NEW m \in Media,
                      ~frameAbort[m], ~packetAbort[m], pc["mux"] # "done", pc[m] \notin Leaving
               PROVE  captured[m] = One(InPush(m)) + frameQ[m] + One(pc[m] = "send") + Packets(m)
    BY DEF NothingLostWhileRecording, Leaving
  <2>1. captured[m] = One(InPush(m)) + frameQ[m] + nextPts[m]
    BY DEF FileInv, FrameInv
  <2>2. nextPts[m] = Packets(m) + One(pc[m] = "send")
    BY DEF FileInv, PacketInv, ChainInv, Live
  <2>3. PICK i \in Nat, s \in Nat : i = One(InPush(m)) /\ s = One(pc[m] = "send")
    BY DEF One
  <2>4. PICK f \in Nat, n \in Nat : f = frameQ[m] /\ n = Packets(m)
    <3>1. frameQ[m] \in 0..QueueMax /\ QueueMax \in Nat
      BY RecorderAssumption DEF StopInv, TypeInv, RecorderTypeOK
    <3>2. Packets(m) \in Nat
      BY MediumNumbers DEF StopInv
    <3> QED BY <3>1, <3>2
  <2>5. captured[m] = i + f + (n + s)
    BY <2>1, <2>2, <2>3, <2>4
  <2>6. captured[m] = i + f + s + n
    BY <2>5
  <2> QED BY <2>3, <2>4, <2>6
<1> QED BY <1>1, FileInvariant, PTL

\* In a first round whose encoders opened, a null context is met only after stop()
\* told an encoder thread to leave, or one refused a frame it had numbered.
THEOREM NoCrash == Spec => []NoCrashWhileRecording
<1>1. StopInv /\ FileInv => NoCrashWhileRecording
  <2> SUFFICES ASSUME StopInv, FileInv, round = 1, \A m \in Media : initDone[m],
                      NEW t \in Threads, pc[t] = "crashed"
               PROVE  \E m \in Media : exit[m] \/ (context[m] = "null" /\ nextPts[m] > Packets(m))
    BY DEF NoCrashWhileRecording, Crashed, InitFailed
  <2>1. t = "mux"
    BY DEF FileInv, ContextInv, Threads, Media
  <2>2. PICK m \in Media : context[m] = "null"
    BY <2>1 DEF FileInv, ContextInv
  <2>3. pc[m] = "done"
    BY <2>2 DEF FileInv, ContextInv
  <2>4. exit[m] \/ nextPts[m] > Packets(m) \/ pc["mux"] = "done" \/ (pc[m] = "done" /\ context[m] = "open")
    BY <2>3 DEF FileInv, LeaveInv
  <2> QED BY <2>1, <2>2, <2>4
<1> QED BY <1>1, FileInvariant, PTL
-----------------------------------------------------------------------------
(* Where the recorder comes to rest *)

\* stop() has told thread t to leave.
Told(t) == \/ callerPc \in Aborting \cup Joining
           \/ t = "record" /\ callerPc \in {"tellVideo", "tellAudio", "tellMux"}
           \/ t = "video" /\ callerPc \in {"tellAudio", "tellMux"}
           \/ t = "audio" /\ callerPc = "tellMux"

\* The caller is in start(), or in stop() before it closes the device.
Opened == {"record", "video", "audio", "mux", "recording", "close"}

\* What a thread that waits can count on: nobody captures more than MaxFrames; every
\* thread start() went past exists; those stop() has told to leave know it; and the
\* device that goes with an audio encoder of the first round is open and, once
\* started, runs.
RestInv ==
    /\ \A m \in Media : captured[m] <= MaxFrames[m]
    /\ \A t \in Threads : ~NotYet(t) => pc[t] # "none"
    /\ \A t \in Threads : Told(t) => exit[t]
    /\ round = 1 /\ (callerPc \in {"initAudio", "initVideo"}
                       \/ (initDone["audio"] /\ callerPc \in Opened \cup {"start"}))
           => mAudioDevID
    /\ round = 1 /\ mAudioDevID /\ callerPc \in Opened => ~devicePaused

\* Initially nothing is captured, created, told or opened.
LEMMA InitRestInv == Init => RestInv
<1> SUFFICES ASSUME Init PROVE RestInv
  OBVIOUS
<1>1. \A m \in Media : captured[m] <= MaxFrames[m]
  BY RecorderAssumption DEF Init
<1>2. callerPc = "idle" /\ round = 0
  BY DEF Init
<1> QED BY <1>1, <1>2 DEF RestInv, NotYet, Told, Aborting, Joining

\* Nobody captures more than MaxFrames of a medium.
LEMMA CapturedBounded ==
    ASSUME TypeInv, RestInv, ThreadStep \/ CallerStep \/ BeginStop
    PROVE  \A m \in Media : captured'[m] <= MaxFrames[m]
<1>t. captured \in [Media -> Nat] /\ MaxFrames \in [Media -> Nat]
      /\ \A m \in Media : captured[m] <= MaxFrames[m]
  BY RecorderAssumption DEF TypeInv, RecorderTypeOK, RestInv
<1>1. \/ UNCHANGED captured
      \/ \E m \in Media : captured[m] < MaxFrames[m] /\ captured' = [captured EXCEPT ![m] = @ + 1]
  <2>1. CASE CallbackBegin \/ CallbackPush
    BY <2>1 DEF CallbackBegin, CallbackPush, Media
  <2>2. CASE RecordStep
    BY <2>2 DEF RecordStep, RecordOpen, RecordTop, RecordFrame, RecordNothing, RecordPush, Media
  <2>3. ASSUME NEW m \in Media, EncodeStep(m) PROVE UNCHANGED captured
    BY <2>3, EncodeFrame DEF EncodeOnly
  <2>4. CASE MuxStep
    BY <2>4, MuxFrame DEF MuxOnly
  <2>5. CASE CallerStep \/ BeginStop
    BY <2>5, CallerFrame DEF CallerOnly
  <2> QED BY <2>1, <2>2, <2>3, <2>4, <2>5 DEF ThreadStep
<1> QED BY <1>t, <1>1

\* The threads keep what the others count on.
LEMMA ThreadRestInv == TypeInv /\ RestInv /\ ThreadStep => RestInv'
<1> SUFFICES ASSUME TypeInv, RestInv, ThreadStep PROVE RestInv'
  OBVIOUS
<1>1. UNCHANGED <<callerPc, round, initDone, exit>>
  BY ThreadFrame DEF ThreadOnly
<1>2. UNCHANGED <<mAudioDevID, devicePaused>>
  <2>1. CASE CallbackBegin \/ CallbackPush
    BY <2>1 DEF CallbackBegin, CallbackPush
  <2>2. CASE RecordStep
    BY <2>2, Zenon DEF RecordStep, RecordOpen, RecordTop, RecordFrame, RecordNothing, RecordPush,
       RecordOnly, deviceVars
  <2>3. ASSUME NEW m \in Media, EncodeStep(m) PROVE UNCHANGED <<mAudioDevID, devicePaused>>
    BY <2>3, EncodeFrame DEF EncodeOnly, deviceVars
  <2>4. CASE MuxStep
    BY <2>4, MuxFrame DEF MuxOnly, deviceVars
  <2> QED BY <2>1, <2>2, <2>3, <2>4 DEF ThreadStep
<1>3. \A t \in Threads : pc[t] # "none" => pc'[t] # "none"
  BY ThreadMoves
<1>4. \A t \in Threads : (NotYet(t)' <=> NotYet(t)) /\ (Told(t)' <=> Told(t))
  BY <1>1 DEF NotYet, Told
<1> QED BY <1>1, <1>2, <1>3, <1>4, CapturedBounded DEF RestInv

\* start() leaves out no thread, and stop() tells each one.
LEMMA CallerThreads ==
    ASSUME TypeInv, RestInv, CallerStep \/ BeginStop, NEW t \in Threads
    PROVE  /\ ~NotYet(t)' => pc'[t] # "none"
           /\ Told(t)' => exit'[t]
<1>t. pc \in [Threads -> ThreadPcs] /\ exit \in [Threads -> BOOLEAN]
      /\ (~NotYet(t) => pc[t] # "none") /\ (Told(t) => exit[t])
  BY DEF TypeInv, RecorderTypeOK, RestInv
<1>1. CASE CreateThreads
  <2>1. ~Told(t)'
    BY <1>1 DEF CreateThreads, CreateThread, Continue, Told, Aborting, Joining
  <2>2. ~NotYet(t)' => ~NotYet(t) \/ Go(t, "open")
    BY <1>1 DEF CreateThreads, CreateThread, Continue, NotYet, Threads
  <2>3. \A u \in Threads : pc'[u] = pc[u] \/ pc'[u] = "open"
    BY <1>t, <1>1 DEF CreateThreads, CreateThread, Go, Threads
  <2>4. Go(t, "open") => pc'[t] = "open"
    BY <1>t DEF Go
  <2> QED BY <1>t, <2>1, <2>2, <2>3, <2>4
<1>2. CASE TellThreads
  <2>1. UNCHANGED pc /\ (~NotYet(t)' => ~NotYet(t))
    BY <1>2 DEF TellThreads, Tell, Continue, NotYet
  <2>2. /\ exit[t] => exit'[t]
        /\ Told(t)' => Told(t) \/ exit'[t]
    BY <1>t, <1>2 DEF TellThreads, Tell, Continue, Told, Aborting, Joining, Threads
  <2> QED BY <1>t, <2>1, <2>2
<1>3. CASE OpenDevice \/ InitEncoders \/ StartDevice \/ CloseDevice \/ AbortQueues \/ JoinThreads \/ BeginStop
  <2>1. UNCHANGED <<pc, exit>>
    BY <1>3, Zenon DEF OpenDevice, InitEncoders, InitEncoder, StartDevice, CloseDevice,
       AbortQueues, JoinThreads, BeginStop
  <2>2. (~NotYet(t)' => ~NotYet(t)) /\ (Told(t)' => Told(t))
    BY <1>3 DEF OpenDevice, InitEncoders, InitEncoder, StartDevice, CloseDevice,
       AbortQueues, JoinThreads, Join, BeginStop, Continue, NotYet, Told, Aborting, Joining, Threads
  <2> QED BY <1>t, <2>1, <2>2
<1> QED BY <1>1, <1>2, <1>3 DEF CallerStep

\* The device of a first round whose audio encoder opened is open until stop()
\* closes it, and runs from start() on.
LEMMA CallerDevice ==
    ASSUME TypeInv, CallerInv, RestInv, CallerStep \/ BeginStop, round' = 1
    PROVE  /\ (callerPc' \in {"initAudio", "initVideo"}
                 \/ (initDone'["audio"] /\ callerPc' \in Opened \cup {"start"})) => mAudioDevID'
           /\ mAudioDevID' /\ callerPc' \in Opened => ~devicePaused'
<1>t. /\ round \in Nat /\ mAudioDevID \in BOOLEAN /\ devicePaused \in BOOLEAN
      /\ initDone \in [Media -> BOOLEAN]
      /\ round = 0 => callerPc = "idle" /\ ~initDone["audio"]
  BY RecorderAssumption DEF TypeInv, RecorderTypeOK, CallerInv, Media
<1>r. /\ round = 1 /\ (callerPc \in {"initAudio", "initVideo"}
                         \/ (initDone["audio"] /\ callerPc \in Opened \cup {"start"})) => mAudioDevID
      /\ round = 1 /\ mAudioDevID /\ callerPc \in Opened => ~devicePaused
  BY DEF RestInv
<1>1. CASE OpenDevice
  <2>1. callerPc = "idle" /\ UNCHANGED initDone /\ round' = round + 1
        /\ (mAudioDevID' \/ callerPc' = "start") /\ callerPc' \notin Opened
    BY <1>1 DEF OpenDevice, Continue, codecVars, Opened
  <2> QED BY <1>t, <2>1
<1>2. CASE InitEncoders
  <2>1. round = 1 /\ UNCHANGED <<mAudioDevID, devicePaused>> /\ callerPc' \notin Opened
        /\ callerPc \in {"initAudio", "initVideo"}
    BY <1>2 DEF InitEncoders, InitEncoder, Continue, Opened
  <2> QED BY <1>r, <2>1
<1>3. CASE StartDevice
  <2>1. round = 1 /\ UNCHANGED <<mAudioDevID, initDone>> /\ callerPc = "start" /\ callerPc' = "record"
        /\ (mAudioDevID => ~devicePaused')
    BY <1>3 DEF StartDevice, Continue, codecVars
  <2> QED BY <1>r, <2>1 DEF Opened
<1>4. CASE CreateThreads \/ BeginStop
  <2>1. round = 1 /\ UNCHANGED <<mAudioDevID, devicePaused, initDone>> /\ callerPc \in Opened
        /\ callerPc' \notin {"initAudio", "initVideo"}
    BY <1>4 DEF CreateThreads, CreateThread, BeginStop, Continue, StopOnly, codecVars, Opened
  <2> QED BY <1>r, <2>1
<1>5. CASE CloseDevice \/ TellThreads \/ AbortQueues \/ JoinThreads
  <2>1. callerPc' \notin Opened \cup {"start", "initAudio", "initVideo"}
    BY <1>5 DEF CloseDevice, TellThreads, Tell, AbortQueues, JoinThreads, Join, Continue, Opened
  <2> QED BY <2>1
<1> QED BY <1>1, <1>2, <1>3, <1>4, <1>5 DEF CallerStep

\* What the threads can count on holds throughout.
LEMMA RestInvariant == Spec => []RestInv
<1>1. Init => RestInv
  BY InitRestInv
<1>2. StopInv /\ RestInv /\ [Next]_vars => RestInv'
  <2> SUFFICES ASSUME StopInv, RestInv, [Next]_vars PROVE RestInv'
    OBVIOUS
  <2>t. TypeInv /\ CallerInv
    BY DEF StopInv
  <2>1. CASE ThreadStep
    BY <2>1, <2>t, ThreadRestInv
  <2>2. CASE CallerStep \/ BeginStop
    <3>1. \A m \in Media : captured'[m] <= MaxFrames[m]
      BY <2>2, <2>t, CapturedBounded
    <3>2. \A t \in Threads : (~NotYet(t)' => pc'[t] # "none") /\ (Told(t)' => exit'[t])
      BY <2>2, <2>t, CallerThreads
    <3> QED BY <2>2, <2>t, <3>1, <3>2, CallerDevice DEF RestInv
  <2>3. CASE UNCHANGED vars
    BY <2>3 DEF RestInv, vars, queueVars, deviceVars, codecVars, callerVars, NotYet, Told
  <2> QED BY <2>1, <2>2, <2>3, NextSteps
<1> QED BY <1>1, <1>2, StopInvariant, PTL DEF Spec

\* While it records, the first round's threads wait for want of input only.
LEMMA RecordingRests ==
    ASSUME StopInv, RestInv, Waiting, callerPc = "recording",
           ~InitFailed, \A t \in Threads : pc[t] # "done"
    PROVE  NoInput
<1>t. /\ TypeInv /\ AbortInv /\ QueueMax \in Nat \ {0} /\ round \in Nat
      /\ \A m \in Media : frameQ[m] \in Nat /\ initDone[m] \in BOOLEAN /\ m \in Threads
      /\ "mux" \in Threads /\ "record" \in Threads /\ "audio" \in Media /\ "video" \in Media
      /\ \A m \in Media : captured[m] <= MaxFrames[m]
  BY RecorderAssumption DEF StopInv, TypeInv, RecorderTypeOK, RestInv, Threads, Media
<1>1. \A t \in Threads : ~NotRunning(t)
  BY DEF RestInv, NotYet, NotRunning
<1>2. PICK m \in Media : inHand[m] = <<>> /\ packetQ[m] = <<>> /\ ~packetAbort[m]
  BY <1>t, <1>1 DEF Waiting, MuxWaits, MuxNeeds, Media
<1>3. frameQ[m] = 0 /\ ~frameAbort[m]
  <2>1. EncoderWaits(m)
    BY DEF Waiting
  <2>2. ~PacketsFull(m)
    BY <1>t, <1>2 DEF PacketsFull
  <2> QED BY <1>t, <1>1, <2>1, <2>2 DEF EncoderWaits
<1>4. ~FramesFull(m)
  BY <1>t, <1>3 DEF FramesFull
<1>5. round = 1
  <2>1. FirstStart
    BY <1>2, <1>t DEF AbortInv, AllAborted
  <2>2. round # 0
    BY DEF StopInv, CallerInv
  <2> QED BY <2>1, <2>2 DEF FirstStart
<1>6. ~InPush(m) /\ captured[m] = MaxFrames[m]
  <2>1. CASE m = "video"
    <3>1. RecordWaits
      BY DEF Waiting
    <3>2. pc["record"] = "read" /\ captured["video"] = MaxFrames["video"]
      BY <1>t, <1>1, <1>4, <2>1, <3>1 DEF RecordWaits
    <3> QED BY <2>1, <3>2 DEF InPush
  <2>2. CASE m = "audio"
    <3>1. mAudioDevID
      BY <1>5, <1>t DEF RestInv, Opened, InitFailed
    <3>2. ~devicePaused
      BY <1>5, <3>1 DEF RestInv, Opened
    <3>3. callback = "out" /\ captured["audio"] = MaxFrames["audio"]
      BY <1>4, <2>2, <3>1, <3>2 DEF Waiting, CallbackWaits
    <3> QED BY <2>2, <3>3 DEF InPush
  <2> QED BY <2>1, <2>2 DEF Media
<1> QED BY <1>2, <1>3, <1>6 DEF NoInput

\* stop() does not wait for a thread but the muxer, and for it only where it spins.
LEMMA JoiningRests ==
    ASSUME StopInv, RestInv, Waiting, callerPc \in Joining
    PROVE  JoinHangs
<1>t. AllAborted /\ Media \subseteq Threads /\ {"record", "mux"} \subseteq Threads
  BY DEF StopInv, AbortInv, Threads, Media
<1>1. \A t \in Threads : pc[t] # "none" /\ exit[t]
  BY DEF RestInv, NotYet, Told, Joining
<1>2. \A m \in Media : pc[m] = "done"
  BY <1>t, <1>1 DEF Waiting, EncoderWaits, PacketsFull, NotRunning, AllAborted
<1>3. pc["record"] = "done"
  BY <1>t, <1>1 DEF Waiting, RecordWaits, FramesFull, NotRunning, AllAborted, Media
<1>4. pc["mux"] = "done" \/ (pc["mux"] = "open" /\ InitFailed)
  BY <1>t, <1>1 DEF Waiting, MuxWaits, MuxNeeds, NotRunning, AllAborted, Media
<1>5. pc[Joins[callerPc]] # "done"
  BY DEF Waiting, CallerWaits, Joining
<1> QED BY <1>2, <1>3, <1>4, <1>5 DEF JoinHangs, Joins, Joining, Media

\* When everyone waits, for whatever capacities, delays and numbers of frames, the
\* recorder is idle, or it records and lacks input, has lost a thread or had failed
\* to initialize, or stop() hangs in one of two places: closing the device under a
\* callback that waits on a full queue (line 177), or joining the muxer that waits
\* for encoders init() did not open (line 585).  So if, as the runs check, nothing
\* can move only where everyone waits, the recorder rests in these places only.
THEOREM RecorderRests ==
    Spec => /\ [](Waiting => AtRest)
            /\ [](Stopped => Waiting) => []RestsKnown
<1>1. StopInv /\ RestInv => (Waiting => AtRest)
  <2> SUFFICES ASSUME StopInv, RestInv, Waiting PROVE AtRest
    OBVIOUS
  <2>1. callerPc \in {"idle", "recording", "close"} \cup Joining
    BY DEF Waiting, CallerWaits, Joins, Joining
  <2>2. CASE callerPc = "recording"
    BY <2>2, RecordingRests DEF AtRest
  <2>3. CASE callerPc = "close"
    <3>1. CallerWaits /\ CallbackWaits
      BY DEF Waiting
    <3>2. callback # "out"
      BY <2>3, <3>1 DEF CallerWaits, Joins
    <3>3. callback = "push" /\ FramesFull("audio")
      BY <3>1, <3>2 DEF CallbackWaits
    <3> QED BY <2>3, <3>3 DEF FramesFull, CloseHangs, AtRest
  <2>4. CASE callerPc \in Joining
    BY <2>4, JoiningRests DEF AtRest
  <2> QED BY <2>1, <2>2, <2>3, <2>4 DEF AtRest
<1>2. (Waiting => AtRest) /\ (Stopped => Waiting) => RestsKnown
  BY Zenon DEF RestsKnown
<1> QED BY <1>1, <1>2, StopInvariant, RestInvariant, PTL

=============================================================================
