---------------------------- MODULE RtpPacketizer ----------------------------
(***************************************************************************)
(* The server's side of a stream: RtpServerStream::sendPacket() cuts the   *)
(* access unit it is given into RTP packets, one buildRtpPackage() after   *)
(* the other.  RtpServerH264Proto and RtpServerHEVCProto are the same up   *)
(* to the size of the NAL unit header; RtpServerAACProto sends the access  *)
(* unit as it is.                                                          *)
(*                                                                         *)
(* A NAL unit is its size in bytes; its name is <<frame, position>>.  A    *)
(* piece <<nalu, from, to>> is the bytes from..to-1 of it.  A packet is    *)
(*   "single": one NAL unit,                                               *)
(*   "aggregate" (STAP-A, AP): several, each with its length,              *)
(*   "fragment" (FU-A, FU): a range of one, "start" and "end" marked,      *)
(*   "audio": an access unit of AAC,                                       *)
(*   "garbled": of a length that stands nowhere, see Fragment below.       *)
(* What the client tells packets apart by, the type in the payload header  *)
(* or the AU headers of AAC, is what BitWriter makes of it.  Sequence      *)
(* number, time stamp, marker and payload type are left out: the client    *)
(* looks at none of them.                                                  *)
(***************************************************************************)
EXTENDS BitWriter, FiniteSets

CONSTANTS MaxPayload,    \* RTP_MAX_PAYLOAD_SIZE: 1460 in the code
          Codecs,        \* what the stream may be: "H264", "HEVC", "AAC"
          AccessUnits,   \* the access units: sequences of sizes
          MaxFrames      \* how many are sent

ASSUME RtpAssumption == /\ Codecs \subseteq {"H264", "HEVC", "AAC"}
                        /\ MaxPayload \in Nat /\ MaxPayload > 4
                        /\ \A unit \in AccessUnits : unit \in Seq(Nat \ {0})
                        /\ MaxFrames \in Nat

VARIABLES codec,         \* of the stream
          mNalus,        \* the NAL units of the access unit in hand
          mCurrNalu,     \* the next of them
          mIsFirstPack,
          mOffset,       \* where the next fragment begins: <<nalu, byte>>
          mPayloadSize,  \* how much of that NAL unit is left
          sender,        \* "idle", "sending" in sendPacket(), or "crashed"
          sent,          \* the access units so far, this one included
          wire           \* the packets on their way

packetizerVars == <<codec, mNalus, mCurrNalu, mIsFirstPack, mOffset, mPayloadSize,
                    sender, sent>>

HeaderSize == IF codec = "HEVC" THEN 2 ELSE 1
FuHeaderSize == HeaderSize + 1
LengthSize == 2

\* RtpPayloadType: below Aggregation it is the type of a NAL unit, such as Slice.
Slice == 1
Aggregation == IF codec = "HEVC" THEN 48 ELSE 24
Fragmentation == IF codec = "HEVC" THEN 49 ELSE 28

\* The type in the header of a packet: H.264 assigns it, HEVC has it written.
TypeIn(type) ==
    IF codec = "HEVC"
    THEN ValueOf(Written(HeaderSize, <<<<0, 1>>, <<type, 6>>, <<0, 6>>, <<1, 3>>>>), 1, 6)
    ELSE type

AuHeaders(size) == Written(4, <<<<16, 16>>, <<size, 13>>, <<0, 3>>>>)

GarbledSize == 2 ^ 14

PacketizerInit == /\ codec \in Codecs
                  /\ mNalus = <<>>
                  /\ mCurrNalu = 1
                  /\ mIsFirstPack = TRUE
                  /\ mOffset = <<<<0, 0>>, 0>>
                  /\ mPayloadSize = 0
                  /\ sender = "idle"
                  /\ sent = <<>>
                  /\ wire = <<>>

Nalu(i) == <<Len(sent), i>>
Whole(i) == <<Nalu(i), 0, mNalus[i]>>
LengthField == <<<<0, 0>>, 0, LengthSize>>
IsBig(size) == size > MaxPayload

Transmit(packet) == wire' = Append(wire, packet)

\* mPayloadSize is left as it is.
PrepareInternal == mIsFirstPack' = TRUE /\ mOffset' = <<<<0, 0>>, 0>>

\* sendPacket() gets an access unit, prepare() splits it into NAL units.
Prepare == /\ sender = "idle"
           /\ Len(sent) < MaxFrames
           /\ \E unit \in AccessUnits : /\ codec = "AAC" => Len(unit) = 1
                                        /\ mNalus' = unit
                                        /\ sent' = Append(sent, unit)
           /\ mCurrNalu' = 1
           /\ PrepareInternal
           /\ sender' = "sending"
           /\ UNCHANGED <<codec, mPayloadSize, wire>>

\* The bytes the NAL units i..j of one access unit take in an aggregate, with their lengths.
Aggregated(unit, i, j) ==
    LET total[k \in i - 1 .. j] ==
            IF k < i THEN 0 ELSE total[k - 1] + LengthSize + unit[k]
    IN  total[j]

\* Mutant: the length in front of each NAL unit is not counted.
PackedTight(i, used) ==
    {j \in i .. Len(mNalus) :
        /\ \A k \in i .. j : ~IsBig(mNalus[k])
        /\ used + Aggregated(mNalus, i, j) - LengthSize * (j - i + 1) <= MaxPayload}

\* Those of the NAL units from i on that are packed behind "used" bytes: the
\* loop goes on as long as the next one is not big and fits.
Packed(i, used) ==
    {j \in i .. Len(mNalus) :
        /\ \A k \in i .. j : ~IsBig(mNalus[k])
        /\ used + Aggregated(mNalus, i, j) <= MaxPayload}

\* buildRtpPackage() at a NAL unit that is not big: it and those after it that
\* fit go into one aggregate, or stay a packet of their own if it is one.
Aggregate ==
    /\ sender = "sending" /\ codec # "AAC"
    /\ mCurrNalu <= Len(mNalus) /\ ~IsBig(mNalus[mCurrNalu])
    /\ LET packed == Packed(mCurrNalu, HeaderSize)
           next == mCurrNalu + Cardinality(packed)
       IN  /\ packed # {}
           /\ mCurrNalu' = next
           /\ Transmit([kind |-> IF next = mCurrNalu + 1 THEN "single" ELSE "aggregate",
                   type |-> IF next = mCurrNalu + 1 THEN Slice ELSE TypeIn(Aggregation),
                   pieces |-> [k \in 1 .. next - mCurrNalu |-> Whole(mCurrNalu + k - 1)],
                   size |-> IF next = mCurrNalu + 1 THEN mNalus[mCurrNalu]
                            ELSE HeaderSize + Aggregated(mNalus, mCurrNalu, next - 1)])
    /\ UNCHANGED <<codec, mNalus, mIsFirstPack, mOffset, mPayloadSize, sender, sent>>

\* buildRtpPackage() at a big NAL unit: its next fragment.  mIsFirstPack is
\* only set for the first big one of the access unit: at a later one the loop
\* sends the last fragment of the first again.  After the last fragment the
\* loop does not stop, but packs small NAL units behind it; if that is one of
\* them, the bytes behind the fragment's header are taken for the length of a
\* single NAL unit (lines 237-242), which is 2^14 at least: moving that many
\* bytes in a buffer of 1472 goes unnoticed or ends the program.
Fragment ==
    /\ sender = "sending" /\ codec # "AAC"
    /\ mCurrNalu <= Len(mNalus) /\ IsBig(mNalus[mCurrNalu])
    /\ LET offset == IF mIsFirstPack THEN <<Nalu(mCurrNalu), HeaderSize>> ELSE mOffset
           left == IF mIsFirstPack THEN mNalus[mCurrNalu] - HeaderSize ELSE mPayloadSize
           isEnd == FuHeaderSize + left <= MaxPayload
           copied == IF isEnd THEN left ELSE MaxPayload - FuHeaderSize
           packed == IF isEnd THEN Packed(mCurrNalu + 1, FuHeaderSize + left) ELSE {}
           behind == Cardinality(packed)
       IN  /\ mIsFirstPack' = FALSE
           /\ mOffset' = IF isEnd THEN offset ELSE <<offset[1], offset[2] + copied>>
           /\ mPayloadSize' = IF isEnd THEN left ELSE left - copied
           /\ mCurrNalu' = IF isEnd THEN mCurrNalu + 1 + behind ELSE mCurrNalu
           /\ Transmit(IF behind = 1
                  THEN [kind |-> "garbled", pieces |-> <<>>, size |-> GarbledSize]
                  ELSE [kind |-> "fragment", type |-> TypeIn(Fragmentation),
                        start |-> mIsFirstPack, end |-> isEnd,
                        pieces |-> <<<<offset[1], offset[2], offset[2] + copied>>>>
                                   \o [k \in 1 .. 2 * behind |->
                                          IF k % 2 = 1 THEN LengthField
                                          ELSE Whole(mCurrNalu + k \div 2)],
                        size |-> FuHeaderSize + copied
                                 + Aggregated(mNalus, mCurrNalu + 1, mCurrNalu + behind)])
           /\ sender' \in IF behind = 1 THEN {"sending", "crashed"} ELSE {"sending"}
    /\ UNCHANGED <<codec, mNalus, sent>>

\* RtpServerAACProto::buildRtpPackage(): one packet, whatever its size.  The
\* buffer on the heap has room for MaxPayload bytes behind the RTP header: to
\* copy a longer access unit into it (line 74) goes unnoticed, and the packet is
\* sent as long as it is, or it ends the program.
Audio ==
    /\ sender = "sending" /\ codec = "AAC"
    /\ mCurrNalu = 1
    /\ mCurrNalu' = 2
    /\ \/ /\ Transmit([kind |-> "audio", auHeaders |-> AuHeaders(mNalus[1]),
                       pieces |-> <<Whole(1)>>, size |-> 4 + mNalus[1]])
          /\ UNCHANGED sender
       \/ /\ 4 + mNalus[1] > MaxPayload
          /\ sender' = "crashed"
          /\ UNCHANGED wire
    /\ UNCHANGED <<codec, mNalus, mIsFirstPack, mOffset, mPayloadSize, sent>>

\* buildRtpPackage() returns 0 and sendPacket() is done: nothing is left, or
\* the next NAL unit fits in no aggregate and yet is not big.
Finish ==
    /\ sender = "sending"
    /\ mCurrNalu <= Len(mNalus) => /\ codec # "AAC"
                                   /\ ~IsBig(mNalus[mCurrNalu])
                                   /\ Packed(mCurrNalu, HeaderSize) = {}
    /\ sender' = "idle"
    /\ UNCHANGED <<codec, mNalus, mCurrNalu, mIsFirstPack, mOffset, mPayloadSize,
                   sent, wire>>
=============================================================================
