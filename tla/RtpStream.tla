------------------------------ MODULE RtpStream ------------------------------
(***************************************************************************)
(* A stream from RtpServerStream to RtpClientStream over UDP, which is     *)
(* external: a packet arrives, is lost, is overtaken by the next, or comes *)
(* twice.  At most MaxInFlight packets are on their way, and at most       *)
(* MaxDoubled are doubled.                                                 *)
(***************************************************************************)
EXTENDS RtpDepacketizer

CONSTANTS MaxInFlight, MaxDoubled

ASSUME NetworkAssumption == MaxInFlight \in Nat \ {0} /\ MaxDoubled \in Nat

VARIABLES arrived,    \* the NAL units that were received in one piece
          lost,       \* those of which a packet was lost
          reordered,  \* a packet was overtaken
          doubled     \* the packets that came twice

historyVars == <<arrived, lost, reordered, doubled>>
vars == <<packetizerVars, wire, depacketizerVars, historyVars>>

Init == /\ PacketizerInit
        /\ DepacketizerInit
        /\ arrived = {}
        /\ lost = {}
        /\ reordered = FALSE
        /\ doubled = {}

NalusOf(packet) == {packet.pieces[k][1] : k \in DOMAIN packet.pieces}

\* What a packet brings of whole NAL units a receiver can tell apart.
WholeNalusOf(packet) ==
    IF packet.kind = "single" \/ (packet.kind = "aggregate" /\ codec = "H264")
    THEN NalusOf(packet) ELSE {}

SendPacket == /\ \/ Prepare
                 \/ Len(wire) < MaxInFlight /\ (Aggregate \/ Fragment \/ Audio)
                 \/ Finish
              /\ UNCHANGED <<depacketizerVars, historyVars>>

Arrive == /\ wire # <<>>
          /\ Receive(Head(wire))
          /\ wire' = Tail(wire)
          /\ arrived' = IF receiving' THEN arrived \cup WholeNalusOf(Head(wire)) ELSE arrived
          /\ UNCHANGED <<packetizerVars, lost, reordered, doubled>>

Lose == /\ wire # <<>>
        /\ wire' = Tail(wire)
        /\ lost' = lost \cup NalusOf(Head(wire))
        /\ UNCHANGED <<packetizerVars, depacketizerVars, arrived, reordered, doubled>>

Overtake == /\ Len(wire) > 1
            /\ wire' = <<wire[2], wire[1]>> \o SubSeq(wire, 3, Len(wire))
            /\ reordered' = TRUE
            /\ UNCHANGED <<packetizerVars, depacketizerVars, arrived, lost, doubled>>

\* The network makes a copy of the packet that is next to arrive.
Duplicate == /\ wire # <<>> /\ Len(wire) < MaxInFlight
             /\ Head(wire) \notin doubled /\ Cardinality(doubled) < MaxDoubled
             /\ wire' = <<Head(wire)>> \o wire
             /\ doubled' = doubled \cup {Head(wire)}
             /\ UNCHANGED <<packetizerVars, depacketizerVars, arrived, lost, reordered>>

Next == SendPacket \/ Arrive \/ Lose \/ Overtake \/ Duplicate

Spec == Init /\ [][Next]_vars

-----------------------------------------------------------------------------
Size(nalu) == sent[nalu[1]][nalu[2]]

\* A run of pieces is the bytes from..Size of a NAL unit.
IsRange(pieces, nalu, from) ==
    /\ pieces # <<>>
    /\ \A k \in DOMAIN pieces :
           /\ pieces[k][1] = nalu
           /\ pieces[k][2] = IF k = 1 THEN from ELSE pieces[k - 1][3]
    /\ pieces[Len(pieces)][3] = Size(nalu)

\* From a start code up to the next one or the end of the buffer a NAL unit is
\* found as it was sent, or with its header replaced by zeros.
IsUnit(unit, nalu) ==
    \/ IsRange(unit, nalu, 0)
    \/ /\ unit # <<>> /\ Head(unit) = ZeroHeader
       /\ IsRange(Tail(unit), nalu, HeaderSize)

\* The places in a buffer where a NAL unit of this name is found.
Found(buffer, nalu) ==
    {k \in DOMAIN buffer :
        /\ buffer[k] = StartCode
        /\ \E n \in k + 1 .. Len(buffer) :
               /\ n = Len(buffer) \/ buffer[n + 1] = StartCode
               /\ IsUnit(SubSeq(buffer, k + 1, n), nalu)}

Times(nalu) == UNION {{<<b, k>> : k \in Found(delivered[b], nalu)} :
                         b \in DOMAIN delivered}

SentNalus == UNION {{<<f, i>> : i \in DOMAIN sent[f]} : f \in DOMAIN sent}

\* A NAL unit that arrives in one piece is delivered, whatever was lost,
\* overtaken or left in mData before it.
WholeNalusSurvive == \A nalu \in arrived : Times(nalu) # {}

\* The NAL units that begin in a packet, with their first byte or with the one
\* behind a header of their own.
BeginIn(packet) ==
    {packet.pieces[k][1] :
        k \in {k \in DOMAIN packet.pieces : packet.pieces[k][2] \in {0, HeaderSize}}}

\* Only a NAL unit whose first packet came twice may be delivered twice: the
\* client reads no sequence number (RtpClientStream.cpp 71-151) and takes the
\* copy for a packet of its own.  Whatever else comes twice, is lost or
\* overtaken, what mData held is gone once delivered.
TwiceOnlyIfDoubled ==
    \A nalu \in SentNalus : \/ Cardinality(Times(nalu)) <= 1
                            \/ \E packet \in doubled : nalu \in BeginIn(packet)

\* What the server itself does not get across of an access unit:
\*   everything from a NAL unit on that is not big and fits in no aggregate,
CutOff(unit, i) ==
    \E j \in 1 .. i : /\ ~IsBig(unit[j])
                      /\ HeaderSize + LengthSize + unit[j] > MaxPayload

\*   a big NAL unit after another one,
Repeated(unit, i) == IsBig(unit[i]) /\ \E j \in 1 .. i - 1 : IsBig(unit[j])

\*   small ones that fit into the packet of a last fragment, and with them the
\*   NAL unit it belongs to.
LastFragment(unit) ==
    LET first == CHOOSE j \in DOMAIN unit : /\ IsBig(unit[j])
                                            /\ \A k \in 1 .. j - 1 : ~IsBig(unit[k])
    IN  1 + ((unit[first] - HeaderSize - 1) % (MaxPayload - FuHeaderSize))

Behind(unit, j, i) ==
    /\ IsBig(unit[j])
    /\ i \in j + 1 .. Len(unit)
    /\ \A k \in j + 1 .. i : ~IsBig(unit[k])
    /\ FuHeaderSize + LastFragment(unit) + Aggregated(unit, j + 1, i) <= MaxPayload

Mangled(unit, i) == \E j \in DOMAIN unit : Behind(unit, j, i) \/ (j = i /\ Behind(unit, j, j + 1))

ServerLoses(unit, i) == CutOff(unit, i) \/ Repeated(unit, i) \/ Mangled(unit, i)

OnItsWay(nalu) == \/ sender = "sending" /\ nalu[1] = Len(sent)
                  \/ \E k \in DOMAIN wire : nalu \in NalusOf(wire[k])

\* The copy of a fragment in the middle tears its NAL unit.
TornByCopy(nalu) ==
    \E packet \in doubled : /\ packet.kind = "fragment" /\ ~packet.start /\ ~packet.end
                            /\ nalu \in NalusOf(packet)

\* In a stream of H.264 nothing else goes missing: damage stays inside the
\* access unit, fragments of a NAL unit are joined again when all of them
\* arrive in order, even if those of the one before did not.  Of HEVC only what
\* needs no header of its own arrives, of AAC nothing (BitWriter.cpp 4).
ArrivesButFor(nalu) ==
    CASE codec = "H264" -> \/ Times(nalu) # {}
                           \/ nalu \in lost \/ OnItsWay(nalu) \/ TornByCopy(nalu)
                           \/ sender = "crashed"
                           \/ ServerLoses(sent[nalu[1]], nalu[2])
      [] codec = "HEVC" -> Times(nalu) # {} => nalu \in arrived
      [] codec = "AAC" -> delivered = <<>>

\* What ends the program of the server, and what ends the receive thread.
Overruns(nalu) == IF codec = "AAC" THEN 4 + Size(nalu) > MaxPayload
                  ELSE Mangled(sent[nalu[1]], nalu[2])
TooLong(nalu) == Overruns(nalu) /\ (codec = "AAC" => 4 + Size(nalu) > ReceiveSize)

\* What goes missing, and why: as long as no packet was overtaken and the
\* receive thread runs, of single NAL units; for good, only with an access unit
\* of AAC that overruns the server's buffer or a NAL unit of video packed
\* behind the fragments of another one.
LossesKnown ==
    /\ ~reordered /\ receiving => \A nalu \in SentNalus : ArrivesButFor(nalu)
    /\ sender = "crashed" => \E nalu \in SentNalus : Overruns(nalu)
    /\ ~receiving => \E nalu \in SentNalus : TooLong(nalu)

\* RtpServerProto.h, line 30: "RTP Header: 12 bytes -> max payload size = 1460
\* bytes".
PacketsFit == \A k \in DOMAIN wire : wire[k].size <= MaxPayload
=============================================================================
