--------------------------- MODULE RtpDepacketizer ---------------------------
(***************************************************************************)
(* The client's side of a stream: RtpClientStream::receiveThread() hands   *)
(* every packet to processRtpPackage() of RtpClientH264Proto, ...HEVCProto *)
(* or ...MPEG4Proto.  The first two collect NAL units with start codes in  *)
(* mData and call mBufferReadyCB with each complete buffer.  A buffer is a *)
(* sequence of pieces as in RtpPacketizer, of StartCode and of the header  *)
(* the client writes in front of a fragmented NAL unit.                    *)
(*                                                                         *)
(* BitWriter begins with a full reservoir of zeros and has no room left    *)
(* when the bits come (BitWriter.cpp 4, 19): that header is all zeros, and *)
(* so are those of the server's HEVC and AAC packets.  The client takes    *)
(* every HEVC packet that is not a single NAL unit for one of type 0, and  *)
(* finds no access unit in a packet of AAC.                                *)
(***************************************************************************)
EXTENDS RtpPacketizer

VARIABLES mData,       \* the buffer so far
          mSentCSD,    \* the codec data was delivered
          delivered,   \* the buffers handed to mBufferReadyCB
          receiving    \* the receive thread runs

depacketizerVars == <<mData, mSentCSD, delivered, receiving>>

\* What recvBufLength leaves for the payload: 2048 bytes with the RTP header.
ReceiveSize == 2048 - 12

StartCode == <<<<0, 0>>, 0, 0>>
ZeroHeader == <<<<0, 0>>, 0, HeaderSize>>
CodecData == <<<<0, 0>>, 1, 1>>

DepacketizerInit == /\ mData = <<>>
                    /\ mSentCSD = FALSE
                    /\ delivered = <<>>
                    /\ receiving = TRUE

\* The first packet makes the codec data the first buffer.
Before == IF mSentCSD THEN delivered ELSE Append(delivered, <<CodecData>>)

\* Mutant: mData is not cleared after a buffer was handed over.
DeliverAndKeep(data) == /\ delivered' = Append(Before, data)
                        /\ mData' = data

Deliver(data) == /\ delivered' = Append(Before, data)
                 /\ mData' = <<>>

\* Mutant: one start code for all NAL units of an aggregate.
WithOneStartCode(pieces) == <<StartCode>> \o pieces

WithStartCodes(pieces) ==
    [k \in 1 .. 2 * Len(pieces) |->
        IF k % 2 = 1 THEN StartCode ELSE pieces[k \div 2]]

\* The whole payload, taken for one NAL unit: that of another packet begins with
\* the header, and the first length or the fragment's own header (LengthField).
Payload(packet) == IF packet.kind = "single" THEN packet.pieces
                   ELSE <<ZeroHeader, LengthField>> \o packet.pieces

ProcessSingle(packet) ==
    /\ packet.type < Aggregation
    /\ codec = "H264" => packet.type >= 1
    /\ Deliver(mData \o <<StartCode>> \o Payload(packet))

ProcessAggregate(packet) ==
    /\ packet.type = Aggregation
    /\ Deliver(mData \o WithStartCodes(packet.pieces))

\* The header of the NAL unit that begins in this fragment, as it is written for
\* a slice.
NaluHeader(packet) ==
    LET fields == IF codec = "HEVC" THEN <<<<0, 1>>, <<Slice, 6>>, <<0, 6>>, <<1, 3>>>>
                  ELSE <<<<0, 1>>, <<3, 2>>, <<Slice, 5>>>>
        written == Written(HeaderSize, fields)
    IN IF written = Zeros(Len(written)) THEN ZeroHeader
       ELSE <<packet.pieces[1][1], 0, HeaderSize>>

\* Fragments are joined as they come.
ProcessFragment(packet) ==
    /\ packet.type = Fragmentation
    /\ LET data == mData \o (IF packet.start THEN <<StartCode, NaluHeader(packet)>> ELSE <<>>)
                         \o packet.pieces
       IN  IF packet.end THEN Deliver(data)
           ELSE mData' = data /\ delivered' = Before

ProcessVideo(packet) == /\ packet.kind \in {"single", "aggregate", "fragment"}
                        /\ \/ ProcessSingle(packet)
                           \/ ProcessAggregate(packet) \/ ProcessFragment(packet)
                        /\ mSentCSD' = TRUE

\* AAC: as many access units as the length of the AU headers says; the server
\* sends one.
ProcessAudio(packet) ==
    /\ packet.kind = "audio"
    /\ delivered' = IF ValueOf(packet.auHeaders, 0, 16) < 16 THEN delivered
                    ELSE Append(delivered, packet.pieces)
    /\ UNCHANGED <<mData, mSentCSD>>

\* receiveThread() with one packet; for one that is longer than its buffer
\* recvfrom() fails, which ends the thread.
Receive(packet) ==
    /\ receiving
    /\ \/ /\ packet.size <= ReceiveSize
          /\ ProcessVideo(packet) \/ ProcessAudio(packet)
          /\ UNCHANGED receiving
       \/ /\ packet.size > ReceiveSize
          /\ receiving' = FALSE
          /\ UNCHANGED <<mData, mSentCSD, delivered>>
=============================================================================
