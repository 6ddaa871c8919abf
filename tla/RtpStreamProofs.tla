--------------------------- MODULE RtpStreamProofs ---------------------------
(***************************************************************************)
(* Proofs about a stream, for every maximum payload, all access units and  *)
(* every network: the packets hold pieces of the NAL units that were sent, *)
(* a NAL unit that arrives in one piece is found in a buffer of the        *)
(* client, whatever happened to the packets around it, and none is         *)
(* delivered twice, but for one whose first packet came twice.             *)
(***************************************************************************)
EXTENDS RtpStream, SequenceTheorems, FiniteSetTheorems, TLAPS

-----------------------------------------------------------------------------
(* The invariant *)

Piece == (Nat \X Nat) \X Nat \X Nat

\* sendPacket() is at a NAL unit of the last access unit, or behind all of them.
UnitInv ==
    /\ codec \in {"H264", "HEVC", "AAC"} /\ mIsFirstPack \in BOOLEAN
    /\ sent \in Seq(Seq(Nat \ {0}))
    /\ mCurrNalu \in Nat \ {0}
    /\ sender = "sending" => /\ sent # <<>> /\ mNalus = sent[Len(sent)]
                             /\ mCurrNalu <= Len(mNalus) + 1
    /\ sender = "sending" /\ codec = "AAC" => Len(mNalus) = 1

\* What is left of a NAL unit in fragments is behind what was sent of it.
OffsetInv ==
    sender = "sending" /\ ~mIsFirstPack =>
        /\ mOffset[1] \in SentNalus /\ mOffset[2] \in Nat /\ mPayloadSize \in Nat
        /\ mOffset[2] + mPayloadSize = Size(mOffset[1])

\* The piece is a whole NAL unit.
Entire(piece) == /\ piece[1] \in SentNalus
                 /\ piece = <<piece[1], 0, Size(piece[1])>>

\* The piece is a part of a NAL unit of the stream, or a length written in front of one.
Inside(piece) == \/ piece = LengthField
                 \/ /\ piece[1] \in SentNalus
                    /\ piece[2] \in 0 .. piece[3] /\ piece[3] <= Size(piece[1])

\* Nothing else is put into a packet: what is left of a NAL unit when its fragments
\* were sent, and where they ended, never takes a copy out of its access unit.
PiecesInside ==
    \A k \in DOMAIN wire : \A n \in DOMAIN wire[k].pieces : Inside(wire[k].pieces[n])

\* What a packet is marked as it is.
PacketOK(p) ==
    /\ p.pieces \in Seq(Piece)
    /\ \A n \in DOMAIN p.pieces : Inside(p.pieces[n])
    /\ p.kind # "garbled" => p.pieces # <<>>
    /\ p.kind = "single" => /\ p.type = Slice /\ Len(p.pieces) = 1 /\ Entire(p.pieces[1])
    /\ p.kind = "aggregate" /\ codec = "H264" =>
           /\ p.type = Aggregation /\ \A n \in DOMAIN p.pieces : Entire(p.pieces[n])

\* The packets on their way.
WireInv == /\ wire \in Seq(Range(wire))
           /\ \A k \in DOMAIN wire : PacketOK(wire[k])

\* A whole NAL unit between two start codes, or at the end of the buffer.
Placed(buffer, k, nalu) ==
    /\ k \in DOMAIN buffer /\ k + 1 \in DOMAIN buffer
    /\ buffer[k] = StartCode /\ buffer[k + 1] = <<nalu, 0, Size(nalu)>>
    /\ k + 1 = Len(buffer) \/ buffer[k + 2] = StartCode

\* The NAL units that arrived in one piece are in buffers that were delivered.
DeliveredInv ==
    /\ mData \in Seq(Piece) /\ delivered \in Seq(Seq(Piece))
    /\ \A nalu \in arrived :
           /\ nalu \in SentNalus
           /\ \E b \in DOMAIN delivered :
                  \E k \in DOMAIN delivered[b] : Placed(delivered[b], k, nalu)

IInv == UnitInv /\ OffsetInv /\ WireInv /\ DeliveredInv

-----------------------------------------------------------------------------
(* Lemmas *)

\* The name of a NAL unit is that of an access unit and of a place in it.
LEMMA NaluNames ==
    ASSUME UnitInv
    PROVE  /\ \A nalu \in SentNalus :
                  /\ nalu \in Nat \X Nat /\ Size(nalu) \in Nat
                  /\ nalu[1] \in 1 .. Len(sent) /\ nalu[2] \in 1 .. Len(sent[nalu[1]])
           /\ \A f \in 1 .. Len(sent) : \A i \in 1 .. Len(sent[f]) :
                  <<f, i>> \in SentNalus
PROOF
<1>1. /\ sent \in Seq(Seq(Nat \ {0})) /\ DOMAIN sent = 1 .. Len(sent) /\ Len(sent) \in Nat
      /\ \A f \in 1 .. Len(sent) : /\ sent[f] \in Seq(Nat \ {0}) /\ Len(sent[f]) \in Nat
                                   /\ DOMAIN sent[f] = 1 .. Len(sent[f])
  BY LenProperties, ElementOfSeq DEF UnitInv
<1>2. ASSUME NEW nalu \in SentNalus
      PROVE  /\ nalu \in Nat \X Nat /\ Size(nalu) \in Nat
             /\ nalu[1] \in 1 .. Len(sent) /\ nalu[2] \in 1 .. Len(sent[nalu[1]])
  <2>1. PICK f \in 1 .. Len(sent), i \in Nat : i \in 1 .. Len(sent[f]) /\ nalu = <<f, i>>
    BY <1>1 DEF SentNalus
  <2>2. sent[f][i] \in Nat \ {0}
    BY <1>1, <2>1, ElementOfSeq
  <2> QED BY <1>1, <2>1, <2>2 DEF Size
<1>3. ASSUME NEW f \in 1 .. Len(sent), NEW i \in 1 .. Len(sent[f])
      PROVE  <<f, i>> \in SentNalus
  BY <1>1 DEF SentNalus
<1> QED BY <1>2, <1>3

\* An access unit more leaves the NAL units sent as they are.
LEMMA SentOnce ==
    ASSUME UnitInv, NEW unit \in Seq(Nat \ {0}), sent' = Append(sent, unit)
    PROVE  /\ \A nalu \in SentNalus : nalu \in SentNalus' /\ Size(nalu)' = Size(nalu)
           /\ sent' \in Seq(Seq(Nat \ {0})) /\ sent' # <<>> /\ sent'[Len(sent')] = unit
PROOF
<1>1. /\ sent \in Seq(Seq(Nat \ {0})) /\ Len(sent) \in Nat
  BY LenProperties DEF UnitInv
<1>2. /\ sent' \in Seq(Seq(Nat \ {0})) /\ sent' # <<>> /\ Len(sent') = Len(sent) + 1
      /\ sent'[Len(sent) + 1] = unit /\ \A f \in 1 .. Len(sent) : sent'[f] = sent[f]
      /\ DOMAIN sent' = 1 .. Len(sent) + 1
  BY <1>1, AppendProperties, LenProperties
<1>3. ASSUME NEW nalu \in SentNalus
      PROVE  nalu \in SentNalus' /\ Size(nalu)' = Size(nalu)
  <2>1. /\ nalu \in Nat \X Nat /\ nalu[1] \in 1 .. Len(sent)
        /\ nalu[2] \in 1 .. Len(sent[nalu[1]])
    BY NaluNames
  <2>2. /\ nalu[1] \in DOMAIN sent' /\ sent'[nalu[1]] = sent[nalu[1]]
        /\ DOMAIN sent[nalu[1]] = 1 .. Len(sent[nalu[1]])
    BY <1>1, <1>2, <2>1, LenProperties, ElementOfSeq
  <2>3. nalu = <<nalu[1], nalu[2]>>
    BY <2>1
  <2> QED BY <2>1, <2>2, <2>3 DEF SentNalus, Size
<1> QED BY <1>2, <1>3

\* The NAL units packed are among those that are left.
LEMMA PackedBound ==
    ASSUME NEW i \in Nat, NEW used, Len(mNalus) \in Nat, i <= Len(mNalus) + 1
    PROVE  /\ Cardinality(Packed(i, used)) \in Nat
           /\ i + Cardinality(Packed(i, used)) <= Len(mNalus) + 1
           /\ Packed(i, used) # {} => Cardinality(Packed(i, used)) > 0
PROOF
<1> DEFINE left == i .. Len(mNalus)
<1>1. IsFiniteSet(left) /\ Cardinality(left) = Len(mNalus) - i + 1
  BY FS_Interval
<1>2. Packed(i, used) \in SUBSET left
  BY DEF Packed
<1>3. IsFiniteSet(Packed(i, used)) /\ Cardinality(Packed(i, used)) <= Cardinality(left)
  BY <1>1, <1>2, FS_Subset
<1>4. /\ Cardinality(Packed(i, used)) \in Nat
      /\ Packed(i, used) # {} => Cardinality(Packed(i, used)) # 0
  BY <1>3, FS_CardinalityType, FS_EmptySet
<1> HIDE DEF left
<1> QED BY <1>1, <1>3, <1>4

\* A NAL unit in hand is a whole NAL unit of the stream.
LEMMA WholeNalu ==
    ASSUME UnitInv, sender = "sending", NEW i \in 1 .. Len(mNalus)
    PROVE  /\ Nalu(i) \in SentNalus /\ Size(Nalu(i)) = mNalus[i] /\ mNalus[i] \in Nat \ {0}
           /\ Whole(i) \in Piece /\ Inside(Whole(i)) /\ Entire(Whole(i))
PROOF
<1>1. /\ sent \in Seq(Seq(Nat \ {0})) /\ sent # <<>> /\ Len(sent) \in 1 .. Len(sent)
      /\ mNalus = sent[Len(sent)]
  BY EmptySeq, LenProperties DEF UnitInv
<1>2. mNalus \in Seq(Nat \ {0}) /\ mNalus[i] \in Nat \ {0}
  BY <1>1, ElementOfSeq
<1>3. Nalu(i) \in SentNalus /\ Nalu(i) \in Nat \X Nat
  BY <1>1, NaluNames DEF Nalu
<1>4. Size(Nalu(i)) = mNalus[i]
  BY <1>1 DEF Nalu, Size
<1> QED BY <1>2, <1>3, <1>4 DEF Whole, Piece, Inside, Entire

\* What a state holds stays, when neither the NAL units sent nor the codec change.
LEMMA SameStream ==
    ASSUME UNCHANGED <<codec, sent>>
    PROVE  /\ SentNalus' = SentNalus
           /\ \A p : PacketOK(p) => PacketOK(p)'
           /\ \A nalu : Size(nalu)' = Size(nalu)
           /\ UNCHANGED <<wire>> /\ WireInv => WireInv'
PROOF
<1>1. SentNalus' = SentNalus
  BY DEF SentNalus
<1>2. \A nalu : Size(nalu)' = Size(nalu)
  BY DEF Size
<1>3. \A p : PacketOK(p) => PacketOK(p)'
  BY <1>1, <1>2 DEF PacketOK, Inside, Entire, Aggregation
<1> QED BY <1>1, <1>2, <1>3 DEF WireInv

\* A packet more on its way.
LEMMA TransmitOK ==
    ASSUME WireInv, NEW p, Transmit(p), PacketOK(p)', UNCHANGED <<codec, sent>>
    PROVE  WireInv'
PROOF
<1> DEFINE S == Range(wire) \cup {p}
<1>1. wire \in Seq(S) /\ p \in S /\ wire' = Append(wire, p)
  BY SeqMonotonic DEF WireInv, Transmit
<1> HIDE DEF S
<1>2. /\ wire' \in Seq(S) /\ Len(wire') = Len(wire) + 1 /\ Len(wire) \in Nat
      /\ wire'[Len(wire) + 1] = p /\ \A k \in 1 .. Len(wire) : wire'[k] = wire[k]
      /\ DOMAIN wire' = 1 .. Len(wire) + 1 /\ DOMAIN wire = 1 .. Len(wire)
  BY <1>1, AppendProperties, LenProperties
<1>3. wire' \in Seq(Range(wire'))
  BY <1>2, SeqOfRange
<1>4. PICK w : w = wire'
  OBVIOUS
<1>5. ASSUME NEW k \in DOMAIN w PROVE PacketOK(w[k])'
  <2>1. CASE k = Len(wire) + 1
    BY <1>2, <1>4, <2>1
  <2>2. CASE k \in 1 .. Len(wire)
    <3>1. PacketOK(wire[k]) /\ w[k] = wire[k]
      BY <1>2, <1>4, <2>2 DEF WireInv
    <3> QED BY <3>1, SameStream
  <2> QED BY <1>2, <1>4, <2>1, <2>2
<1> QED BY <1>3, <1>4, <1>5 DEF WireInv

\* The client keeps what it has when only the server or the network go on.
LEMMA ClientHolds ==
    ASSUME DeliveredInv, UNCHANGED <<depacketizerVars, arrived>>,
           \A nalu \in SentNalus : nalu \in SentNalus' /\ Size(nalu)' = Size(nalu)
    PROVE  DeliveredInv'
PROOF
<1>1. UNCHANGED <<mData, delivered, arrived>>
  BY DEF depacketizerVars
<1>2. ASSUME NEW nalu \in arrived
      PROVE  /\ nalu \in SentNalus'
             /\ \E b \in DOMAIN delivered' :
                    \E k \in DOMAIN delivered'[b] : Placed(delivered[b], k, nalu)'
  <2>1. nalu \in SentNalus /\ Size(nalu)' = Size(nalu)
    BY DEF DeliveredInv
  <2>2. PICK b \in DOMAIN delivered :
            \E k \in DOMAIN delivered[b] : Placed(delivered[b], k, nalu)
    BY DEF DeliveredInv
  <2>3. PICK k \in DOMAIN delivered[b] : Placed(delivered[b], k, nalu)
    BY <2>2
  <2>4. Placed(delivered[b], k, nalu)'
    BY <1>1, <2>1, <2>3 DEF Placed, StartCode
  <2> QED BY <1>1, <2>1, <2>4
<1> QED BY <1>1, <1>2 DEF DeliveredInv

\* The client keeps what it has when the server goes on.
LEMMA ClientKeeps ==
    ASSUME DeliveredInv, UNCHANGED <<depacketizerVars, historyVars>>,
           \A nalu \in SentNalus : nalu \in SentNalus' /\ Size(nalu)' = Size(nalu)
    PROVE  DeliveredInv'
PROOF
<1>1. UNCHANGED <<depacketizerVars, arrived>>
  BY DEF historyVars
<1> QED BY <1>1, ClientHolds

-----------------------------------------------------------------------------
(* The server *)

\* A stream begins with nothing sent.
LEMMA InitIInv == Init => IInv
PROOF
<1> SUFFICES ASSUME Init PROVE IInv
  OBVIOUS
<1> USE DEF Init, PacketizerInit, DepacketizerInit
<1>1. UnitInv
  BY RtpAssumption, EmptySeq DEF UnitInv
<1>2. OffsetInv
  BY DEF OffsetInv
<1>3. WireInv
  BY EmptySeq DEF WireInv
<1>4. DeliveredInv
  BY EmptySeq DEF DeliveredInv
<1> QED BY <1>1, <1>2, <1>3, <1>4 DEF IInv

\* A packet in flight keeps its pieces when a unit more is sent.
LEMMA PrepareKeepsIInv ==
    ASSUME IInv, Prepare, UNCHANGED <<depacketizerVars, historyVars>>
    PROVE  IInv'
PROOF
<1>1. UnitInv /\ WireInv /\ DeliveredInv
  BY DEF IInv
<1>2. PICK unit \in AccessUnits : /\ codec = "AAC" => Len(unit) = 1
                                  /\ mNalus' = unit /\ sent' = Append(sent, unit)
  BY DEF Prepare
<1>3. unit \in Seq(Nat \ {0}) /\ Len(unit) \in Nat
  BY RtpAssumption, LenProperties
<1>4. /\ \A nalu \in SentNalus : nalu \in SentNalus' /\ Size(nalu)' = Size(nalu)
      /\ sent' \in Seq(Seq(Nat \ {0})) /\ sent' # <<>> /\ sent'[Len(sent')] = unit
  BY <1>1, <1>2, <1>3, SentOnce
<1>5. UnitInv'
  BY <1>1, <1>2, <1>3, <1>4 DEF UnitInv, Prepare, PrepareInternal
<1>6. OffsetInv'
  BY DEF OffsetInv, Prepare, PrepareInternal
<1>7. WireInv'
  <2>1. UNCHANGED <<codec, wire>>
    BY DEF Prepare
  <2>2. ASSUME NEW p, PacketOK(p) PROVE PacketOK(p)'
    <3>1. \A piece : Inside(piece) => Inside(piece)'
      BY <1>4 DEF Inside
    <3>2. \A piece : Entire(piece) => Entire(piece)'
      BY <1>4 DEF Entire
    <3> QED BY <2>1, <2>2, <3>1, <3>2 DEF PacketOK, Aggregation
  <2> QED BY <1>1, <2>1, <2>2 DEF WireInv
<1>8. DeliveredInv'
  BY <1>1, <1>4, ClientKeeps
<1> QED BY <1>5, <1>6, <1>7, <1>8 DEF IInv

\* buildRtpPackage() packs whole NAL units, from the one it is at on.
LEMMA AggregateSends ==
    ASSUME UnitInv, Aggregate
    PROVE  \E count \in Nat \ {0} : \E p :
               /\ mCurrNalu' = mCurrNalu + count /\ mCurrNalu + count <= Len(mNalus) + 1
               /\ Transmit(p) /\ PacketOK(p) /\ p.kind \in {"single", "aggregate"}
               /\ DOMAIN p.pieces = 1 .. count
               /\ \A k \in 1 .. count : p.pieces[k] = Whole(mCurrNalu + k - 1)
PROOF
<1> DEFINE count == Cardinality(Packed(mCurrNalu, HeaderSize))
           next == mCurrNalu + count
           pieces == [k \in 1 .. next - mCurrNalu |-> Whole(mCurrNalu + k - 1)]
           p == [kind |-> IF next = mCurrNalu + 1 THEN "single" ELSE "aggregate",
                 type |-> IF next = mCurrNalu + 1 THEN Slice ELSE TypeIn(Aggregation),
                 pieces |-> pieces,
                 size |-> IF next = mCurrNalu + 1 THEN mNalus[mCurrNalu]
                          ELSE HeaderSize + Aggregated(mNalus, mCurrNalu, next - 1)]
<1>1. sender = "sending" /\ mCurrNalu \in Nat \ {0}
  BY DEF Aggregate, UnitInv
<1>2. Len(mNalus) \in Nat /\ mCurrNalu <= Len(mNalus)
  BY <1>1, EmptySeq, LenProperties, ElementOfSeq DEF UnitInv, Aggregate
<1>3. count \in Nat /\ count > 0 /\ next <= Len(mNalus) + 1
  BY <1>1, <1>2, PackedBound DEF Aggregate
<1>4. mCurrNalu' = next /\ Transmit(p)
  BY DEF Aggregate
<1> HIDE DEF count
<1>5. \A k \in 1 .. next - mCurrNalu :
          /\ pieces[k] \in Piece /\ Inside(pieces[k]) /\ Entire(pieces[k])
  <2>1. ASSUME NEW k \in 1 .. next - mCurrNalu PROVE mCurrNalu + k - 1 \in 1 .. Len(mNalus)
    BY <1>1, <1>2, <1>3
  <2> QED BY <1>1, <2>1, WholeNalu
<1>6. pieces \in Seq(Piece) /\ Len(pieces) = count /\ DOMAIN pieces = 1 .. count
  <2>1. next - mCurrNalu = count
    BY <1>1, <1>3
  <2>2. /\ DOMAIN pieces = 1 .. count /\ pieces \in [1 .. count -> Piece]
    BY <1>5, <2>1
  <2> HIDE DEF pieces
  <2> QED BY <1>3, <2>2
<1>7. \A k \in 1 .. count : pieces[k] = Whole(mCurrNalu + k - 1)
  <2>1. next - mCurrNalu = count
    BY <1>1, <1>3
  <2> QED BY <2>1
<1> HIDE DEF pieces
<1>8. PacketOK(p)
  <2>1. next = mCurrNalu + 1 => count = 1
    BY <1>1, <1>3
  <2>2. \A n \in DOMAIN pieces : Inside(pieces[n]) /\ Entire(pieces[n])
    BY <1>1, <1>3, <1>5, <1>6
  <2>3. pieces # <<>>
    BY <1>3, <1>6
  <2>4. codec = "H264" => TypeIn(Aggregation) = Aggregation
    BY DEF TypeIn
  <2>5. 1 \in DOMAIN pieces
    BY <1>3, <1>6
  <2> QED BY <1>6, <2>1, <2>2, <2>3, <2>4, <2>5 DEF PacketOK
<1>9. p.kind \in {"single", "aggregate"} /\ p.pieces = pieces
  OBVIOUS
<1> HIDE DEF p
<1> QED BY <1>3, <1>4, <1>6, <1>7, <1>8, <1>9

\* Its pieces are in the packet, and it goes on behind them.
LEMMA AggregateKeepsIInv ==
    ASSUME IInv, Aggregate, UNCHANGED <<depacketizerVars, historyVars>>
    PROVE  IInv'
PROOF
<1>1. /\ UnitInv /\ OffsetInv /\ WireInv /\ DeliveredInv
      /\ UNCHANGED <<codec, mNalus, mIsFirstPack, mOffset, mPayloadSize, sender, sent>>
  BY DEF IInv, Aggregate
<1>2. PICK count \in Nat \ {0} : \E p : /\ mCurrNalu' = mCurrNalu + count
                                        /\ mCurrNalu + count <= Len(mNalus) + 1
                                        /\ Transmit(p) /\ PacketOK(p)
  BY <1>1, AggregateSends
<1>3. UnitInv'
  <2>1. mCurrNalu' \in Nat \ {0} /\ mCurrNalu' <= Len(mNalus) + 1
    BY <1>1, <1>2 DEF UnitInv
  <2> QED BY <1>1, <2>1 DEF UnitInv
<1>4. OffsetInv'
  BY <1>1, SameStream DEF OffsetInv
<1>5. WireInv'
  BY <1>1, <1>2, SameStream, TransmitOK
<1>6. DeliveredInv'
  BY <1>1, SameStream, ClientKeeps
<1> QED BY <1>3, <1>4, <1>5, <1>6 DEF IInv

\* buildRtpPackage() of AAC: the access unit as it is.
LEMMA AudioKeepsIInv ==
    ASSUME IInv, Audio, UNCHANGED <<depacketizerVars, historyVars>>
    PROVE  IInv'
PROOF
<1> DEFINE p == [kind |-> "audio", auHeaders |-> AuHeaders(mNalus[1]),
                 pieces |-> <<Whole(1)>>, size |-> 4 + mNalus[1]]
<1>1. /\ UnitInv /\ OffsetInv /\ WireInv /\ DeliveredInv
      /\ sender = "sending" /\ codec = "AAC" /\ mCurrNalu' = 2
      /\ \/ Transmit(p) /\ UNCHANGED sender
         \/ sender' = "crashed" /\ UNCHANGED wire
      /\ UNCHANGED <<codec, mNalus, mIsFirstPack, mOffset, mPayloadSize, sent>>
  <2>1. Audio /\ IInv
    OBVIOUS
  <2> HIDE DEF p
  <2>2. \/ Transmit(p) /\ UNCHANGED sender
        \/ sender' = "crashed" /\ UNCHANGED wire
    BY <2>1 DEF Audio, p
  <2> QED BY <2>1, <2>2 DEF IInv, Audio
<1>2. Len(mNalus) = 1
  BY <1>1 DEF UnitInv
<1>3. UnitInv'
  BY <1>1, <1>2 DEF UnitInv
<1>4. OffsetInv'
  BY <1>1, SameStream DEF OffsetInv
<1>5. PacketOK(p)
  <2>1. Whole(1) \in Piece /\ Inside(Whole(1))
    BY <1>1, <1>2, WholeNalu
  <2> QED BY <2>1 DEF PacketOK
<1> HIDE DEF p
<1>6. WireInv'
  <2>1. CASE Transmit(p)
    BY <1>1, <1>5, <2>1, SameStream, TransmitOK
  <2>2. CASE UNCHANGED wire
    BY <1>1, <2>2, SameStream
  <2> QED BY <1>1, <2>1, <2>2
<1>7. DeliveredInv'
  BY <1>1, SameStream, ClientKeeps
<1> QED BY <1>3, <1>4, <1>6, <1>7 DEF IInv

\* A packet with a fragment of the NAL unit in hand, and whole NAL units behind it.
FragmentOf(p, offset, copied, behind) ==
    \/ p.kind = "garbled" /\ p.pieces = <<>>
    \/ /\ p.kind = "fragment" /\ p.start = mIsFirstPack
       /\ DOMAIN p.pieces = 1 .. 1 + 2 * behind
       /\ p.pieces[1] = <<offset[1], offset[2], offset[2] + copied>>
       /\ \A k \in 1 .. 2 * behind : p.pieces[k + 1] =
              IF k % 2 = 1 THEN LengthField ELSE Whole(mCurrNalu + k \div 2)

\* buildRtpPackage() at a big NAL unit: what is left, and where it begins, are
\* those of a NAL unit of the stream, that of the fragments before or the next.
LEMMA FragmentSends ==
    ASSUME UnitInv, OffsetInv, Fragment
    PROVE  /\ UnitInv' /\ OffsetInv'
           /\ \E behind, copied \in Nat : \E p, offset :
                  /\ offset = IF mIsFirstPack THEN <<Nalu(mCurrNalu), HeaderSize>> ELSE mOffset
                  /\ Transmit(p) /\ PacketOK(p)
                  /\ mCurrNalu' \in {mCurrNalu, mCurrNalu + 1 + behind}
                  /\ behind > 0 => mCurrNalu' = mCurrNalu + 1 + behind
                  /\ FragmentOf(p, offset, copied, behind)
PROOF
<1> DEFINE offset == IF mIsFirstPack THEN <<Nalu(mCurrNalu), HeaderSize>> ELSE mOffset
           left == IF mIsFirstPack THEN mNalus[mCurrNalu] - HeaderSize ELSE mPayloadSize
           isEnd == FuHeaderSize + left <= MaxPayload
           copied == IF isEnd THEN left ELSE MaxPayload - FuHeaderSize
           packed == IF isEnd THEN Packed(mCurrNalu + 1, FuHeaderSize + left) ELSE {}
           behind == Cardinality(packed)
           first == <<offset[1], offset[2], offset[2] + copied>>
           rest == [k \in 1 .. 2 * behind |->
                       IF k % 2 = 1 THEN LengthField ELSE Whole(mCurrNalu + k \div 2)]
           p == IF behind = 1
                THEN [kind |-> "garbled", pieces |-> <<>>, size |-> GarbledSize]
                ELSE [kind |-> "fragment", type |-> TypeIn(Fragmentation),
                      start |-> mIsFirstPack, end |-> isEnd,
                      pieces |-> <<first>> \o rest,
                      size |-> FuHeaderSize + copied
                               + Aggregated(mNalus, mCurrNalu + 1, mCurrNalu + behind)]
<1>1. /\ sender = "sending" /\ codec # "AAC" /\ mCurrNalu \in Nat \ {0}
      /\ UNCHANGED <<codec, mNalus, sent>>
  BY DEF Fragment, UnitInv
<1>2. Len(mNalus) \in Nat /\ mCurrNalu \in 1 .. Len(mNalus)
  BY <1>1, EmptySeq, LenProperties, ElementOfSeq DEF UnitInv, Fragment
<1>3. /\ mIsFirstPack' = FALSE
      /\ mOffset' = IF isEnd THEN offset ELSE <<offset[1], offset[2] + copied>>
      /\ mPayloadSize' = IF isEnd THEN left ELSE left - copied
      /\ mCurrNalu' = IF isEnd THEN mCurrNalu + 1 + behind ELSE mCurrNalu
      /\ sender' \in {"sending", "crashed"}
  BY DEF Fragment
<1>4. Transmit(p)
  BY DEF Fragment
<1>5. /\ offset[1] \in SentNalus /\ offset[2] \in Nat /\ left \in Nat
      /\ offset[2] + left = Size(offset[1])
  <2>1. CASE mIsFirstPack
    <3>1. /\ Nalu(mCurrNalu) \in SentNalus /\ mNalus[mCurrNalu] \in Nat
          /\ Size(Nalu(mCurrNalu)) = mNalus[mCurrNalu]
      BY <1>1, <1>2, WholeNalu
    <3>2. mNalus[mCurrNalu] > MaxPayload
      BY DEF Fragment, IsBig
    <3> QED BY <2>1, <3>1, <3>2, RtpAssumption DEF HeaderSize
  <2>2. CASE ~mIsFirstPack
    BY <1>1, <2>2 DEF OffsetInv
  <2> QED BY <2>1, <2>2
<1>6. copied \in Nat /\ copied <= left
  BY <1>5, RtpAssumption DEF FuHeaderSize, HeaderSize
<1>7. /\ behind \in Nat
      /\ mCurrNalu + 1 + behind <= Len(mNalus) + 1
  <2>1. CASE isEnd
    BY <1>2, <2>1, PackedBound
  <2>2. CASE ~isEnd
    BY <1>2, <2>2, FS_EmptySet
  <2> QED BY <2>1, <2>2
<1>8. UnitInv'
  <2>1. mCurrNalu' \in Nat \ {0} /\ mCurrNalu' <= Len(mNalus) + 1
    <3> HIDE DEF behind, isEnd
    <3> QED BY <1>2, <1>3, <1>7
  <2>2. codec' # "AAC"
    BY <1>1
  <2> QED BY <1>1, <1>3, <2>1, <2>2 DEF UnitInv
<1>9. OffsetInv'
  <2>1. /\ mOffset'[1] \in SentNalus /\ mOffset'[2] \in Nat /\ mPayloadSize' \in Nat
        /\ mOffset'[2] + mPayloadSize' = Size(mOffset'[1])
    <3>1. CASE isEnd
      BY <1>3, <1>5, <3>1
    <3>2. CASE ~isEnd
      <4> HIDE DEF offset, left, copied, isEnd
      <4> QED BY <1>3, <1>5, <1>6, <3>2
    <3> QED BY <3>1, <3>2
  <2> QED BY <1>1, <2>1, SameStream DEF OffsetInv, Size
<1>first. first = <<offset[1], offset[2], offset[2] + copied>>
  OBVIOUS
<1>go. /\ mCurrNalu' \in {mCurrNalu, mCurrNalu + 1 + behind}
       /\ behind > 0 => mCurrNalu' = mCurrNalu + 1 + behind
  <2>1. ~isEnd => behind = 0
    BY FS_EmptySet
  <2> HIDE DEF behind, isEnd
  <2> QED BY <1>3, <2>1
<1> HIDE DEF isEnd
<1>10. first \in Piece /\ Inside(first)
  <2> HIDE DEF offset, left, copied
  <2>1. offset[1] \in Nat \X Nat
    BY <1>1, <1>5, NaluNames
  <2>2. offset[2] + copied \in Nat /\ offset[2] \in 0 .. offset[2] + copied
    BY <1>5, <1>6
  <2>3. Size(offset[1]) = offset[2] + left
    BY <1>5
  <2>4. offset[2] + copied <= Size(offset[1])
    BY <1>5, <1>6, <2>3
  <2> QED BY <1>5, <2>1, <2>2, <2>4 DEF Piece, Inside
<1> HIDE DEF first
<1>11. \A k \in 1 .. 2 * behind : rest[k] \in Piece /\ Inside(rest[k])
  <2> HIDE DEF behind
  <2> TAKE k \in 1 .. 2 * behind
  <2>1. CASE k % 2 = 1
    <3>1. LengthField \in Piece /\ Inside(LengthField)
      BY DEF LengthField, LengthSize, Piece, Inside
    <3> QED BY <2>1, <3>1
  <2>2. CASE k % 2 # 1
    <3>1. mCurrNalu + k \div 2 \in 1 .. Len(mNalus)
      BY <1>2, <1>7, <2>2
    <3>2. Whole(mCurrNalu + k \div 2) \in Piece /\ Inside(Whole(mCurrNalu + k \div 2))
      BY <1>1, <3>1, WholeNalu
    <3> QED BY <2>2, <3>2
  <2> QED BY <2>1, <2>2
<1> HIDE DEF behind, left, copied, offset
<1>12. rest \in Seq(Piece) /\ Len(rest) = 2 * behind
  <2>1. rest \in [1 .. 2 * behind -> Piece] /\ DOMAIN rest = 1 .. 2 * behind
    BY <1>11
  <2> HIDE DEF rest
  <2> QED BY <1>7, <2>1
<1>rest. \A k \in 1 .. 2 * behind :
             rest[k] = IF k % 2 = 1 THEN LengthField ELSE Whole(mCurrNalu + k \div 2)
  OBVIOUS
<1> HIDE DEF rest
<1> DEFINE pieces == <<first>> \o rest
<1>13. /\ pieces \in Seq(Piece) /\ DOMAIN pieces = 1 .. 1 + 2 * behind
       /\ pieces # <<>> /\ pieces[1] = first
       /\ \A k \in 1 .. 2 * behind : pieces[k + 1] = rest[k]
  <2>1. <<first>> \in Seq(Piece) /\ Len(<<first>>) = 1 /\ <<first>>[1] = first
    BY <1>10
  <2>2. /\ <<first>> \o rest \in Seq(Piece) /\ Len(<<first>> \o rest) = 1 + 2 * behind
        /\ \A k \in 1 .. 1 + 2 * behind :
               (<<first>> \o rest)[k] = IF k <= 1 THEN <<first>>[k] ELSE rest[k - 1]
    BY <1>12, <2>1, ConcatProperties
  <2>3. DOMAIN (<<first>> \o rest) = 1 .. 1 + 2 * behind
    BY <2>2, LenProperties
  <2>4. pieces[1] = first
    BY <1>7, <2>1, <2>2
  <2>5. ASSUME NEW k \in 1 .. 2 * behind PROVE pieces[k + 1] = rest[k]
    <3>1. k + 1 \in 1 .. 1 + 2 * behind /\ ~(k + 1 <= 1) /\ k + 1 - 1 = k
      BY <1>7
    <3> QED BY <2>2, <3>1
  <2>6. pieces # <<>>
    BY <1>7, <2>2, EmptySeq
  <2> QED BY <2>2, <2>3, <2>4, <2>5, <2>6
<1>14. /\ behind = 1 => p.kind = "garbled" /\ p.pieces = <<>>
       /\ behind # 1 => p.kind = "fragment" /\ p.start = mIsFirstPack /\ p.pieces = pieces
  <2>1. CASE behind = 1
    BY <2>1
  <2>2. CASE behind # 1
    BY <2>2, Zenon
  <2> QED BY <2>1, <2>2
<1> HIDE DEF pieces, p
<1>15. PacketOK(p)
  <2>1. \A k \in DOMAIN pieces : Inside(pieces[k])
    <3> TAKE k \in DOMAIN pieces
    <3>1. CASE k = 1
      BY <1>10, <1>13, <3>1
    <3>2. CASE k # 1
      <4> PICK j \in 1 .. 2 * behind : k = j + 1
        <5>1. k - 1 \in 1 .. 2 * behind /\ k = (k - 1) + 1
          BY <1>7, <1>13, <3>2
        <5> QED BY <5>1
      <4> QED BY <1>11, <1>13
    <3> QED BY <3>1, <3>2
  <2>2. <<>> \in Seq(Piece) /\ DOMAIN <<>> = {}
    BY EmptySeq
  <2>3. CASE behind = 1
    BY <1>14, <2>2, <2>3 DEF PacketOK
  <2>4. CASE behind # 1
    BY <1>13, <1>14, <2>1, <2>4 DEF PacketOK
  <2> QED BY <2>3, <2>4
<1> PICK many : many = behind
  OBVIOUS
<1> PICK bytes : bytes = copied
  OBVIOUS
<1> PICK packet : packet = p
  OBVIOUS
<1> PICK from : from = offset
  OBVIOUS
<1>16. /\ Transmit(packet) /\ PacketOK(packet)
       /\ mCurrNalu' \in {mCurrNalu, mCurrNalu + 1 + many}
       /\ many > 0 => mCurrNalu' = mCurrNalu + 1 + many
       /\ FragmentOf(packet, from, bytes, many)
  BY <1>first, <1>go, <1>rest, <1>4, <1>13, <1>14, <1>15 DEF FragmentOf
<1>17. many \in Nat /\ bytes \in Nat
  BY <1>6, <1>7
<1>18. from = IF mIsFirstPack THEN <<Nalu(mCurrNalu), HeaderSize>> ELSE mOffset
  BY DEF offset
<1> QED BY <1>8, <1>9, <1>16, <1>17, <1>18

\* The next fragment is in the packet, and what is behind it.
LEMMA FragmentKeepsIInv ==
    ASSUME IInv, Fragment, UNCHANGED <<depacketizerVars, historyVars>>
    PROVE  IInv'
PROOF
<1>1. /\ UnitInv /\ OffsetInv /\ WireInv /\ DeliveredInv /\ UNCHANGED <<codec, sent>>
  BY DEF IInv, Fragment
<1>2. UnitInv' /\ OffsetInv'
  BY <1>1, FragmentSends
<1>3. PICK p : Transmit(p) /\ PacketOK(p)
  BY <1>1, FragmentSends
<1>4. WireInv'
  BY <1>1, <1>3, SameStream, TransmitOK
<1>5. DeliveredInv'
  BY <1>1, SameStream, ClientKeeps
<1> QED BY <1>2, <1>4, <1>5 DEF IInv

\* sendPacket() is done.
LEMMA FinishKeepsIInv ==
    ASSUME IInv, Finish, UNCHANGED <<depacketizerVars, historyVars>>
    PROVE  IInv'
PROOF
<1>1. /\ UnitInv /\ WireInv /\ DeliveredInv /\ sender' = "idle"
      /\ UNCHANGED <<codec, mNalus, mCurrNalu, mIsFirstPack, sent, wire>>
  BY DEF IInv, Finish
<1>2. UnitInv' /\ OffsetInv'
  BY <1>1 DEF UnitInv, OffsetInv
<1>3. WireInv'
  BY <1>1, SameStream
<1>4. DeliveredInv'
  BY <1>1, SameStream, ClientKeeps
<1> QED BY <1>2, <1>3, <1>4 DEF IInv

-----------------------------------------------------------------------------
(* The network *)

\* The server does not look at what the network does.
LEMMA ServerKeeps ==
    ASSUME IInv, UNCHANGED packetizerVars
    PROVE  UnitInv' /\ OffsetInv' /\ UNCHANGED <<codec, sent>>
PROOF
<1>1. UnitInv /\ OffsetInv
  BY DEF IInv
<1>2. /\ UNCHANGED <<codec, sent>> /\ UNCHANGED <<mNalus, mCurrNalu, sender>>
      /\ UNCHANGED <<mIsFirstPack, mOffset, mPayloadSize>>
  BY DEF packetizerVars
<1>3. UnitInv'
  BY <1>1, <1>2 DEF UnitInv
<1>4. OffsetInv'
  BY <1>1, <1>2, SameStream DEF OffsetInv
<1> QED BY <1>2, <1>3, <1>4

\* The packets behind the first stay what they are.
LEMMA TailOK ==
    ASSUME WireInv, wire # <<>>, wire' = Tail(wire), UNCHANGED <<codec, sent>>
    PROVE  WireInv' /\ PacketOK(Head(wire))
PROOF
<1> PICK S : wire \in Seq(S)
  BY DEF WireInv
<1>1. Len(wire) \in Nat \ {0} /\ DOMAIN wire = 1 .. Len(wire) /\ Head(wire) = wire[1]
  BY EmptySeq, LenProperties
<1>2. /\ wire' \in Seq(S) /\ Len(wire') = Len(wire) - 1 /\ DOMAIN wire' = 1 .. Len(wire')
      /\ \A k \in 1 .. Len(wire') : wire'[k] = wire[k + 1]
  BY HeadTailProperties, LenProperties
<1>3. wire' \in Seq(Range(wire'))
  BY <1>2, SeqOfRange
<1>4. ASSUME NEW k \in DOMAIN wire' PROVE PacketOK(wire'[k])
  <2>1. k + 1 \in DOMAIN wire /\ wire'[k] = wire[k + 1]
    BY <1>1, <1>2
  <2> QED BY <2>1 DEF WireInv
<1>5. PacketOK(Head(wire))
  BY <1>1 DEF WireInv
<1>6. WireInv'
  <2> PICK w : w = wire'
    OBVIOUS
  <2>1. \A k \in DOMAIN w : PacketOK(w[k])'
    BY <1>4, SameStream
  <2> QED BY <1>3, <2>1 DEF WireInv
<1> QED BY <1>5, <1>6

\* A packet is lost.
LEMMA LoseKeepsIInv ==
    ASSUME IInv, Lose
    PROVE  IInv'
PROOF
<1>1. /\ WireInv /\ DeliveredInv /\ wire # <<>> /\ wire' = Tail(wire)
      /\ UNCHANGED packetizerVars /\ UNCHANGED <<depacketizerVars, arrived>>
  BY DEF IInv, Lose
<1>2. UnitInv' /\ OffsetInv' /\ UNCHANGED <<codec, sent>>
  BY <1>1, ServerKeeps
<1>3. WireInv'
  BY <1>1, <1>2, TailOK
<1>4. DeliveredInv'
  BY <1>1, <1>2, SameStream, ClientHolds
<1> QED BY <1>2, <1>3, <1>4 DEF IInv

\* A packet is overtaken by the next.
LEMMA OvertakeKeepsIInv ==
    ASSUME IInv, Overtake
    PROVE  IInv'
PROOF
<1>1. /\ WireInv /\ DeliveredInv /\ Len(wire) > 1
      /\ wire' = <<wire[2], wire[1]>> \o SubSeq(wire, 3, Len(wire))
      /\ UNCHANGED packetizerVars /\ UNCHANGED <<depacketizerVars, arrived>>
  BY DEF IInv, Overtake
<1>2. UnitInv' /\ OffsetInv' /\ UNCHANGED <<codec, sent>>
  BY <1>1, ServerKeeps
<1>3. WireInv'
  <2> PICK S : wire \in Seq(S)
    BY <1>1 DEF WireInv
  <2> PICK q : q = SubSeq(wire, 3, Len(wire))
    OBVIOUS
  <2> PICK s : s = <<wire[2], wire[1]>>
    OBVIOUS
  <2>1. Len(wire) \in Nat /\ DOMAIN wire = 1 .. Len(wire)
    BY LenProperties
  <2>2. /\ q \in Seq(S) /\ Len(q) = Len(wire) - 2
        /\ \A k \in 1 .. Len(wire) - 2 : q[k] = wire[k + 2]
    <3>1. \A k \in 3 .. Len(wire) : wire[k] \in S
      BY ElementOfSeq
    <3>2. /\ SubSeq(wire, 3, Len(wire)) \in Seq(S)
          /\ Len(SubSeq(wire, 3, Len(wire))) =
                 IF 3 <= Len(wire) THEN Len(wire) - 3 + 1 ELSE 0
          /\ \A k \in 1 .. Len(wire) - 3 + 1 : SubSeq(wire, 3, Len(wire))[k] = wire[3 + k - 1]
      BY <2>1, <3>1, SubSeqProperties
    <3> QED BY <1>1, <2>1, <3>2
  <2>3. s \in Seq(S) /\ Len(s) = 2 /\ s[1] = wire[2] /\ s[2] = wire[1]
    BY <1>1, <2>1, ElementOfSeq
  <2>4. /\ s \o q \in Seq(S) /\ Len(s \o q) = Len(wire)
        /\ \A k \in 1 .. Len(wire) : (s \o q)[k] = IF k <= 2 THEN s[k] ELSE q[k - 2]
    BY <2>1, <2>2, <2>3, ConcatProperties
  <2> PICK w : w = s \o q
    OBVIOUS
  <2>5. w \in Seq(Range(w)) /\ DOMAIN w = 1 .. Len(wire)
    BY <2>4, SeqOfRange, LenProperties
  <2>6. ASSUME NEW k \in DOMAIN w PROVE PacketOK(w[k])'
    <3>1. PICK j \in DOMAIN wire : w[k] = wire[j]
      <4>1. k \in 1 .. Len(wire) /\ w[k] = IF k <= 2 THEN s[k] ELSE q[k - 2]
        BY <2>4, <2>5
      <4>2. CASE k <= 2
        <5>1. w[k] = wire[3 - k] /\ 3 - k \in DOMAIN wire
          BY <1>1, <2>1, <2>3, <4>1, <4>2
        <5> QED BY <5>1
      <4>3. CASE k > 2
        <5>1. k - 2 \in 1 .. Len(wire) - 2 /\ k - 2 + 2 = k
          BY <2>1, <4>1, <4>3
        <5>2. w[k] = wire[k] /\ k \in DOMAIN wire
          BY <2>1, <2>2, <4>1, <4>3, <5>1
        <5> QED BY <5>2
      <4> QED BY <2>1, <4>1, <4>2, <4>3
    <3>2. PacketOK(w[k])
      BY <1>1, <3>1 DEF WireInv
    <3> QED BY <1>2, <3>2, SameStream
  <2>7. wire' = w
    BY <1>1
  <2> QED BY <2>5, <2>6, <2>7 DEF WireInv
<1>4. DeliveredInv'
  BY <1>1, <1>2, SameStream, ClientHolds
<1> QED BY <1>2, <1>3, <1>4 DEF IInv

\* The wire with one packet more in front.
LEMMA Copied ==
    ASSUME WireInv, Duplicate
    PROVE  /\ 1 \in DOMAIN wire /\ Head(wire) = wire[1]
           /\ wire' \in Seq(Range(wire')) /\ DOMAIN wire' = 1 .. Len(wire) + 1
           /\ Len(wire) \in Nat /\ DOMAIN wire = 1 .. Len(wire)
           /\ \A k \in DOMAIN wire' :
                 \/ k = 1 /\ wire'[k] = wire[1]
                 \/ k > 1 /\ k - 1 \in DOMAIN wire /\ wire'[k] = wire[k - 1]
PROOF
<1> PICK S : wire \in Seq(S)
  BY DEF WireInv
<1> PICK p : p = wire[1]
  OBVIOUS
<1> PICK s : s = <<p>>
  OBVIOUS
<1>1. /\ Len(wire) \in Nat \ {0} /\ DOMAIN wire = 1 .. Len(wire) /\ Head(wire) = p
      /\ wire' = <<Head(wire)>> \o wire /\ 1 \in DOMAIN wire
  BY EmptySeq, LenProperties DEF Duplicate
<1>2. p \in S
  BY <1>1, ElementOfSeq
<1>3. s \in Seq(S) /\ Len(s) = 1 /\ s[1] = p
  BY <1>2
<1> PICK w : w = s \o wire
  OBVIOUS
<1>4. /\ w \in Seq(S) /\ Len(w) = 1 + Len(wire)
      /\ \A k \in 1 .. 1 + Len(wire) : w[k] = IF k <= 1 THEN s[k] ELSE wire[k - 1]
  BY <1>1, <1>3, ConcatProperties
<1>5. w \in Seq(Range(w)) /\ DOMAIN w = 1 .. Len(wire) + 1
  <2>1. w \in Seq(Range(w)) /\ DOMAIN w = 1 .. Len(w)
    BY <1>4, SeqOfRange, LenProperties
  <2>2. 1 + Len(wire) = Len(wire) + 1
    BY <1>1
  <2> QED BY <1>4, <2>1, <2>2
<1>6. \A k \in DOMAIN w : \/ k = 1 /\ w[k] = p
                          \/ k > 1 /\ k - 1 \in DOMAIN wire /\ w[k] = wire[k - 1]
  BY <1>1, <1>3, <1>4, <1>5
<1>7. wire' = w
  BY <1>1
<1> QED BY <1>1, <1>5, <1>6, <1>7

\* A packet is doubled.
LEMMA DuplicateKeepsIInv ==
    ASSUME IInv, Duplicate
    PROVE  IInv'
PROOF
<1>1. /\ WireInv /\ DeliveredInv
      /\ UNCHANGED packetizerVars /\ UNCHANGED <<depacketizerVars, arrived>>
  BY DEF IInv, Duplicate
<1>2. UnitInv' /\ OffsetInv' /\ UNCHANGED <<codec, sent>>
  BY <1>1, ServerKeeps
<1>3. WireInv'
  <2> PICK w : w = wire'
    OBVIOUS
  <2>1. /\ w \in Seq(Range(w))
        /\ \A k \in DOMAIN w : \E j \in DOMAIN wire : w[k] = wire[j]
    BY <1>1, Copied
  <2>2. \A k \in DOMAIN w : PacketOK(w[k])
    BY <1>1, <2>1 DEF WireInv
  <2>3. \A k \in DOMAIN w : PacketOK(w[k])'
    BY <1>2, <2>2, SameStream
  <2> QED BY <2>1, <2>3 DEF WireInv
<1>4. DeliveredInv'
  BY <1>1, <1>2, SameStream, ClientHolds
<1> QED BY <1>2, <1>3, <1>4 DEF IInv

-----------------------------------------------------------------------------
(* The client *)

\* What the client writes between the pieces is a piece.
LEMMA ClientPieces ==
    ASSUME codec \in {"H264", "HEVC", "AAC"}
    PROVE  /\ StartCode \in Piece /\ ZeroHeader \in Piece /\ LengthField \in Piece
           /\ <<CodecData>> \in Seq(Piece)
PROOF
<1>1. CodecData \in Piece
  BY DEF CodecData, Piece
<1> QED BY <1>1 DEF StartCode, ZeroHeader, HeaderSize, LengthField, LengthSize, Piece

\* An aggregate is unpacked with a start code in front of every NAL unit.
LEMMA StartCodes ==
    ASSUME NEW pieces \in Seq(Piece), StartCode \in Piece
    PROVE  /\ WithStartCodes(pieces) \in Seq(Piece)
           /\ Len(WithStartCodes(pieces)) = 2 * Len(pieces)
           /\ \A k \in 1 .. 2 * Len(pieces) : WithStartCodes(pieces)[k] =
                  IF k % 2 = 1 THEN StartCode ELSE pieces[k \div 2]
PROOF
<1> PICK n \in Nat : n = Len(pieces)
  BY LenProperties
<1> PICK start : start = StartCode
  OBVIOUS
<1> DEFINE codes == [k \in 1 .. 2 * n |-> IF k % 2 = 1 THEN start ELSE pieces[k \div 2]]
<1>1. \A k \in 1 .. 2 * n : codes[k] \in Piece
  <2> TAKE k \in 1 .. 2 * n
  <2>1. CASE k % 2 = 1
    BY <2>1
  <2>2. CASE k % 2 # 1
    <3>1. k \div 2 \in 1 .. n
      BY <2>2
    <3>2. pieces[k \div 2] \in Piece
      BY <3>1, ElementOfSeq
    <3> QED BY <2>2, <3>2
  <2> QED BY <2>1, <2>2
<1>2. /\ codes \in [1 .. 2 * n -> Piece] /\ DOMAIN codes = 1 .. 2 * n
      /\ \A k \in 1 .. 2 * n : codes[k] = IF k % 2 = 1 THEN start ELSE pieces[k \div 2]
  BY <1>1
<1>3. WithStartCodes(pieces) = codes
  BY DEF WithStartCodes
<1> HIDE DEF codes
<1>4. codes \in Seq(Piece) /\ Len(codes) = 2 * n
  BY <1>2
<1> QED BY <1>2, <1>3, <1>4

\* A NAL unit placed in the buffer handed over is placed when mData is before it.
LEMMA PlacedBehind ==
    ASSUME NEW data \in Seq(Piece), NEW codes \in Seq(Piece), NEW nalu,
           NEW k \in Nat, Placed(codes, k, nalu)
    PROVE  \E n \in DOMAIN (data \o codes) : Placed(data \o codes, n, nalu)
PROOF
<1>1. /\ Len(data) \in Nat /\ Len(codes) \in Nat
      /\ k \in 1 .. Len(codes) /\ k + 1 \in 1 .. Len(codes)
      /\ codes[k] = StartCode /\ codes[k + 1] = <<nalu, 0, Size(nalu)>>
      /\ k + 1 = Len(codes) \/ codes[k + 2] = StartCode
  BY LenProperties DEF Placed
<1> PICK buffer : buffer = data \o codes
  OBVIOUS
<1>2. /\ buffer \in Seq(Piece) /\ Len(buffer) = Len(data) + Len(codes)
      /\ \A j \in 1 .. Len(data) + Len(codes) :
             buffer[j] = IF j <= Len(data) THEN data[j] ELSE codes[j - Len(data)]
  BY ConcatProperties
<1>3. DOMAIN buffer = 1 .. Len(data) + Len(codes)
  BY <1>2, LenProperties
<1>4. \A i \in 1 .. Len(codes) : buffer[Len(data) + i] = codes[i]
  <2> TAKE i \in 1 .. Len(codes)
  <2>1. Len(data) + i \in 1 .. Len(data) + Len(codes) /\ ~(Len(data) + i <= Len(data))
    BY <1>1
  <2>2. Len(data) + i - Len(data) = i
    BY <1>1
  <2> QED BY <1>2, <2>1, <2>2
<1> PICK n \in Nat : n = Len(data) + k
  BY <1>1
<1>5. n \in DOMAIN buffer /\ buffer[n] = StartCode
  BY <1>1, <1>3, <1>4
<1>6. n + 1 \in DOMAIN buffer /\ buffer[n + 1] = <<nalu, 0, Size(nalu)>>
  <2>1. n + 1 = Len(data) + (k + 1)
    BY <1>1
  <2>2. buffer[n + 1] = codes[k + 1]
    BY <1>1, <1>4, <2>1
  <2> QED BY <1>1, <1>3, <2>1, <2>2
<1>7. n + 1 = Len(buffer) \/ buffer[n + 2] = StartCode
  <2>1. CASE k + 1 = Len(codes)
    BY <1>1, <1>2, <2>1
  <2>2. CASE k + 1 # Len(codes)
    <3>1. k + 2 \in 1 .. Len(codes) /\ n + 2 = Len(data) + (k + 2)
      BY <1>1, <2>2
    <3>2. buffer[n + 2] = codes[k + 2]
      BY <1>4, <3>1
    <3> QED BY <1>1, <2>2, <3>2
  <2> QED BY <2>1, <2>2
<1> QED BY <1>5, <1>6, <1>7 DEF Placed

\* Every NAL unit of an aggregate is placed when it is unpacked.
LEMMA PlacedInAggregate ==
    ASSUME NEW pieces \in Seq(Piece), StartCode \in Piece, NEW j \in DOMAIN pieces,
           NEW nalu, pieces[j] = <<nalu, 0, Size(nalu)>>
    PROVE  \E k \in Nat : Placed(WithStartCodes(pieces), k, nalu)
PROOF
<1> PICK n \in Nat : n = Len(pieces)
  BY LenProperties
<1> PICK codes : codes = WithStartCodes(pieces)
  OBVIOUS
<1>1. /\ codes \in Seq(Piece) /\ Len(codes) = 2 * n
      /\ \A k \in 1 .. 2 * n : codes[k] = IF k % 2 = 1 THEN StartCode ELSE pieces[k \div 2]
  BY StartCodes
<1>2. DOMAIN codes = 1 .. 2 * n /\ j \in 1 .. n
  BY <1>1, LenProperties
<1>3. 2 * j - 1 \in 1 .. 2 * n /\ (2 * j - 1) % 2 = 1
  BY <1>2
<1>4. 2 * j \in 1 .. 2 * n /\ (2 * j) % 2 = 0 /\ (2 * j) \div 2 = j /\ 2 * j - 1 + 1 = 2 * j
  BY <1>2
<1>5. codes[2 * j - 1] = StartCode /\ codes[2 * j] = pieces[j]
  <2>1. codes[2 * j - 1] = StartCode
    BY <1>1, <1>3
  <2>2. codes[2 * j] = pieces[(2 * j) \div 2]
    BY <1>1, <1>4
  <2> QED BY <1>4, <2>1, <2>2
<1>6. 2 * j = Len(codes) \/ codes[2 * j - 1 + 2] = StartCode
  <2>1. CASE j = n
    BY <1>1, <2>1
  <2>2. CASE j # n
    <3>1. 2 * j - 1 + 2 \in 1 .. 2 * n /\ (2 * j - 1 + 2) % 2 = 1
      BY <1>2, <2>2
    <3> QED BY <1>1, <3>1
  <2> QED BY <2>1, <2>2
<1> WITNESS 2 * j - 1 \in Nat
<1> QED BY <1>2, <1>3, <1>4, <1>5, <1>6 DEF Placed

\* A NAL unit alone is placed behind its start code.
LEMMA PlacedAlone ==
    ASSUME NEW pieces \in Seq(Piece), Len(pieces) = 1, StartCode \in Piece,
           NEW nalu, pieces[1] = <<nalu, 0, Size(nalu)>>
    PROVE  /\ <<StartCode>> \o pieces \in Seq(Piece)
           /\ Placed(<<StartCode>> \o pieces, 1, nalu)
PROOF
<1> PICK start : start = StartCode
  OBVIOUS
<1>1. <<start>> \in Seq(Piece) /\ Len(<<start>>) = 1 /\ <<start>>[1] = start
  OBVIOUS
<1>2. /\ <<start>> \o pieces \in Seq(Piece)
      /\ Len(<<start>> \o pieces) = Len(<<start>>) + Len(pieces)
      /\ \A k \in 1 .. Len(<<start>>) + Len(pieces) : (<<start>> \o pieces)[k] =
             IF k <= Len(<<start>>) THEN <<start>>[k] ELSE pieces[k - Len(<<start>>)]
  BY <1>1, ConcatProperties
<1>3. DOMAIN (<<start>> \o pieces) = 1 .. 2
  BY <1>2, LenProperties
<1>4. (<<start>> \o pieces)[1] = start /\ (<<start>> \o pieces)[2] = pieces[1]
  BY <1>1, <1>2
<1> QED BY <1>2, <1>3, <1>4 DEF Placed

\* What is in a buffer stays there when the client delivers one more.
LEMMA DeliveredKept ==
    ASSUME DeliveredInv, UNCHANGED <<codec, sent>>,
           NEW data \in Seq(Piece), <<CodecData>> \in Seq(Piece),
           NEW before, before = delivered \/ before = Before,
           delivered' = Append(before, data) \/ delivered' = before
    PROVE  /\ delivered' \in Seq(Seq(Piece))
           /\ \A nalu \in arrived :
                  /\ nalu \in SentNalus'
                  /\ \E b \in DOMAIN delivered' :
                         \E k \in DOMAIN delivered'[b] : Placed(delivered[b], k, nalu)'
           /\ delivered' = Append(before, data) =>
                  \E b \in DOMAIN delivered' : delivered'[b] = data
PROOF
<1>1. delivered \in Seq(Seq(Piece)) /\ Len(delivered) \in Nat
      /\ DOMAIN delivered = 1 .. Len(delivered)
  BY LenProperties DEF DeliveredInv
<1>2. /\ before \in Seq(Seq(Piece)) /\ Len(before) \in Nat /\ Len(delivered) <= Len(before)
      /\ \A b \in 1 .. Len(delivered) : before[b] = delivered[b]
  <2>1. CASE before = delivered
    BY <1>1, <2>1
  <2>2. CASE before # delivered
    <3>1. before = Append(delivered, <<CodecData>>)
      BY <2>2 DEF Before
    <3>2. /\ before \in Seq(Seq(Piece)) /\ Len(before) = Len(delivered) + 1
          /\ \A b \in 1 .. Len(delivered) : before[b] = delivered[b]
      <4> PICK csd : csd = <<CodecData>>
        OBVIOUS
      <4>1. csd \in Seq(Piece) /\ delivered \in Seq(Seq(Piece))
        BY <1>1
      <4>2. /\ Append(delivered, csd) \in Seq(Seq(Piece))
            /\ Len(Append(delivered, csd)) = Len(delivered) + 1
            /\ \A b \in 1 .. Len(delivered) : Append(delivered, csd)[b] = delivered[b]
        BY ONLY <4>1, AppendProperties
      <4> QED BY <3>1, <4>2
    <3> QED BY <1>1, <3>2
  <2> QED BY <2>1, <2>2
<1>3. /\ delivered' \in Seq(Seq(Piece)) /\ Len(delivered') \in Nat
      /\ Len(delivered) <= Len(delivered')
      /\ \A b \in 1 .. Len(delivered) : delivered'[b] = delivered[b]
      /\ delivered' = Append(before, data) =>
             Len(before) + 1 \in 1 .. Len(delivered') /\ delivered'[Len(before) + 1] = data
  <2>1. CASE delivered' = Append(before, data)
    <3>1. /\ delivered' \in Seq(Seq(Piece)) /\ Len(delivered') = Len(before) + 1
          /\ \A b \in 1 .. Len(before) : delivered'[b] = before[b]
          /\ delivered'[Len(before) + 1] = data
      BY <1>2, <2>1, AppendProperties
    <3>2. ASSUME NEW b \in 1 .. Len(delivered) PROVE delivered'[b] = delivered[b]
      <4>1. b \in 1 .. Len(before)
        BY <1>1, <1>2
      <4> QED BY <1>2, <3>1, <4>1
    <3>3. Len(delivered') \in Nat /\ Len(before) + 1 \in 1 .. Len(delivered')
      BY <1>2, <3>1
    <3> QED BY <1>1, <1>2, <3>1, <3>2, <3>3
  <2>2. CASE delivered' = before /\ delivered' # Append(before, data)
    BY <1>2, <2>2
  <2> QED BY <2>1, <2>2
<1>4. DOMAIN delivered' = 1 .. Len(delivered')
  BY <1>3, LenProperties
<1>5. ASSUME NEW nalu \in arrived
      PROVE  /\ nalu \in SentNalus'
             /\ \E b \in DOMAIN delivered' :
                    \E k \in DOMAIN delivered'[b] : Placed(delivered[b], k, nalu)'
  <2>1. PICK b \in DOMAIN delivered :
            \E k \in DOMAIN delivered[b] : Placed(delivered[b], k, nalu)
    BY DEF DeliveredInv
  <2>2. PICK k \in DOMAIN delivered[b] : Placed(delivered[b], k, nalu)
    BY <2>1
  <2>3. b \in DOMAIN delivered' /\ delivered'[b] = delivered[b]
    <3>1. b \in 1 .. Len(delivered) /\ b \in 1 .. Len(delivered')
      BY <1>1, <1>3
    <3> QED BY <1>3, <1>4, <3>1
  <2>4. Placed(delivered[b], k, nalu)'
    BY <2>2, <2>3, SameStream DEF Placed, StartCode
  <2>5. nalu \in SentNalus'
    BY SameStream DEF DeliveredInv
  <2> QED BY <2>2, <2>3, <2>4, <2>5
<1> QED BY <1>3, <1>4, <1>5

\* Whatever a packet of video is taken for, mData is extended by pieces of it.
LEMMA VideoIsPieces ==
    ASSUME UnitInv, DeliveredInv, NEW p, PacketOK(p), ProcessVideo(p)
    PROVE  \E data \in Seq(Piece) :
               \/ delivered' = Append(Before, data) /\ mData' = <<>>
               \/ delivered' = Before /\ mData' = data
PROOF
<1>1. /\ StartCode \in Piece /\ ZeroHeader \in Piece /\ LengthField \in Piece
      /\ mData \in Seq(Piece) /\ p.pieces \in Seq(Piece) /\ p.pieces # <<>>
      /\ codec \in {"H264", "HEVC", "AAC"}
  BY ClientPieces DEF UnitInv, DeliveredInv, PacketOK, ProcessVideo
<1>2. CASE ProcessSingle(p)
  <2>1. Payload(p) \in Seq(Piece)
    <3>1. <<ZeroHeader, LengthField>> \in Seq(Piece)
      BY <1>1
    <3> QED BY <1>1, <3>1, ConcatProperties DEF Payload
  <2>2. <<StartCode>> \in Seq(Piece)
    BY <1>1
  <2>3. mData \o <<StartCode>> \o Payload(p) \in Seq(Piece)
    BY <1>1, <2>1, <2>2, ConcatProperties
  <2> QED BY <1>2, <2>3 DEF ProcessSingle, Deliver
<1>3. CASE ProcessAggregate(p)
  <2>1. mData \o WithStartCodes(p.pieces) \in Seq(Piece)
    BY <1>1, StartCodes, ConcatProperties
  <2> QED BY <1>3, <2>1 DEF ProcessAggregate, Deliver
<1>4. CASE ProcessFragment(p)
  <2> DEFINE header == IF p.start THEN <<StartCode, NaluHeader(p)>> ELSE <<>>
             data == mData \o header \o p.pieces
  <2>1. NaluHeader(p) \in Piece
    <3>1. p.pieces[1] \in Piece
      BY <1>1, EmptySeq, ElementOfSeq
    <3>2. p.pieces[1][1] \in Nat \X Nat /\ HeaderSize \in Nat
      BY <3>1 DEF Piece, HeaderSize
    <3>3. NaluHeader(p) \in {ZeroHeader, <<p.pieces[1][1], 0, HeaderSize>>}
      BY DEF NaluHeader
    <3>4. <<p.pieces[1][1], 0, HeaderSize>> \in Piece
      <4> PICK name : name = p.pieces[1][1]
        OBVIOUS
      <4> PICK size : size = HeaderSize
        OBVIOUS
      <4> QED BY <3>2 DEF Piece
    <3> QED BY <1>1, <3>3, <3>4
  <2>2. header \in Seq(Piece)
    <3>1. <<StartCode, NaluHeader(p)>> \in Seq(Piece)
      BY <1>1, <2>1
    <3>2. <<>> \in Seq(Piece)
      BY EmptySeq
    <3>3. CASE p.start
      BY <3>1, <3>3
    <3>4. CASE ~p.start
      BY <3>2, <3>4
    <3> QED BY <3>3, <3>4
  <2>3. /\ p.end => Deliver(data)
        /\ ~p.end => mData' = data /\ delivered' = Before
    BY <1>4 DEF ProcessFragment
  <2> HIDE DEF header
  <2>4. data \in Seq(Piece)
    BY <1>1, <2>2, ConcatProperties
  <2> HIDE DEF data
  <2>5. CASE p.end
    BY <2>3, <2>4, <2>5 DEF Deliver
  <2>6. CASE ~p.end
    BY <2>3, <2>4, <2>6
  <2> QED BY <2>5, <2>6
<1> QED BY <1>2, <1>3, <1>4 DEF ProcessVideo

\* The NAL units a packet brings in one piece are placed in the buffer handed over.
LEMMA WholeIsPlaced ==
    ASSUME UnitInv, DeliveredInv, NEW p, PacketOK(p), ProcessVideo(p),
           NEW nalu \in WholeNalusOf(p)
    PROVE  /\ nalu \in SentNalus
           /\ \E data \in Seq(Piece) :
                  /\ delivered' = Append(Before, data)
                  /\ \E k \in DOMAIN data : Placed(data, k, nalu)
PROOF
<1>1. /\ StartCode \in Piece /\ mData \in Seq(Piece) /\ p.pieces \in Seq(Piece)
      /\ DOMAIN p.pieces = 1 .. Len(p.pieces)
      /\ codec \in {"H264", "HEVC", "AAC"}
  BY ClientPieces, LenProperties DEF UnitInv, DeliveredInv, PacketOK
<1>2. PICK j \in DOMAIN p.pieces : nalu = p.pieces[j][1]
  BY DEF WholeNalusOf, NalusOf
<1>3. CASE p.kind = "single"
  <2>1. /\ p.type = Slice /\ Len(p.pieces) = 1 /\ Entire(p.pieces[1]) /\ j = 1
    BY <1>1, <1>2, <1>3 DEF PacketOK
  <2>2. ProcessSingle(p) /\ Payload(p) = p.pieces
    BY <1>3, <2>1 DEF ProcessVideo, ProcessAggregate, ProcessFragment, Slice, Aggregation,
                      Fragmentation, Payload
  <2>3. nalu \in SentNalus /\ p.pieces[1] = <<nalu, 0, Size(nalu)>>
    BY <1>2, <2>1 DEF Entire
  <2> PICK codes : codes = <<StartCode>> \o p.pieces
    OBVIOUS
  <2>4. codes \in Seq(Piece) /\ Placed(codes, 1, nalu)
    BY <1>1, <2>1, <2>3, PlacedAlone
  <2>5. /\ mData \o codes \in Seq(Piece)
        /\ \E k \in DOMAIN (mData \o codes) : Placed(mData \o codes, k, nalu)
    BY <1>1, <2>4, PlacedBehind, ConcatProperties
  <2>6. mData \o <<StartCode>> \o p.pieces = mData \o codes
    <3> PICK start : start = <<StartCode>>
      OBVIOUS
    <3> PICK pieces : pieces = p.pieces
      OBVIOUS
    <3>1. start \in Seq(Piece) /\ pieces \in Seq(Piece) /\ mData \in Seq(Piece)
      BY <1>1
    <3>2. (mData \o start) \o pieces = mData \o (start \o pieces)
      BY ONLY <3>1, ConcatAssociative
    <3> QED BY <3>2
  <2>7. delivered' = Append(Before, mData \o codes)
    BY <2>2, <2>6 DEF ProcessSingle, Deliver
  <2> QED BY <2>3, <2>5, <2>7
<1>4. CASE p.kind = "aggregate" /\ codec = "H264"
  <2>1. p.type = Aggregation /\ Entire(p.pieces[j])
    BY <1>2, <1>4 DEF PacketOK
  <2>2. ProcessAggregate(p)
    BY <1>4, <2>1 DEF ProcessVideo, ProcessSingle, ProcessFragment, Aggregation, Fragmentation
  <2>3. nalu \in SentNalus /\ p.pieces[j] = <<nalu, 0, Size(nalu)>>
    BY <1>2, <2>1 DEF Entire
  <2> PICK codes : codes = WithStartCodes(p.pieces)
    OBVIOUS
  <2>4. codes \in Seq(Piece) /\ \E k \in Nat : Placed(codes, k, nalu)
    BY <1>1, <1>2, <2>3, StartCodes, PlacedInAggregate
  <2>5. /\ mData \o codes \in Seq(Piece)
        /\ \E k \in DOMAIN (mData \o codes) : Placed(mData \o codes, k, nalu)
    BY <1>1, <2>4, PlacedBehind, ConcatProperties
  <2>6. delivered' = Append(Before, mData \o codes)
    BY <2>2 DEF ProcessAggregate, Deliver
  <2> QED BY <2>3, <2>5, <2>6
<1> QED BY <1>3, <1>4 DEF WholeNalusOf

\* A packet arrives.
LEMMA ArriveKeepsIInv ==
    ASSUME IInv, Arrive
    PROVE  IInv'
PROOF
<1> PICK p : p = Head(wire)
  OBVIOUS
<1>1. /\ UnitInv /\ WireInv /\ DeliveredInv /\ wire # <<>> /\ wire' = Tail(wire)
      /\ UNCHANGED packetizerVars /\ Receive(p)
      /\ arrived' \in {arrived, arrived \cup WholeNalusOf(p)}
      /\ receiving' = FALSE => arrived' = arrived
  BY DEF IInv, Arrive
<1>2. UnitInv' /\ OffsetInv' /\ UNCHANGED <<codec, sent>>
  BY <1>1, ServerKeeps
<1>3. WireInv' /\ PacketOK(p)
  BY <1>1, <1>2, TailOK
<1>4. <<CodecData>> \in Seq(Piece) /\ <<>> \in Seq(Piece)
  BY <1>1, ClientPieces, EmptySeq DEF UnitInv
<1>5. CASE ProcessVideo(p)
  <2>1. PICK data \in Seq(Piece) :
            \/ delivered' = Append(Before, data) /\ mData' = <<>>
            \/ delivered' = Before /\ mData' = data
    BY <1>1, <1>3, <1>5, VideoIsPieces
  <2>2. mData' \in Seq(Piece)
    BY <1>4, <2>1
  <2>3. /\ delivered' \in Seq(Seq(Piece))
        /\ \A nalu \in arrived :
               /\ nalu \in SentNalus'
               /\ \E b \in DOMAIN delivered' :
                      \E k \in DOMAIN delivered'[b] : Placed(delivered[b], k, nalu)'
    BY <1>1, <1>2, <1>4, <2>1, DeliveredKept
  <2>4. ASSUME NEW nalu \in WholeNalusOf(p)
        PROVE  /\ nalu \in SentNalus'
               /\ \E b \in DOMAIN delivered' :
                      \E k \in DOMAIN delivered'[b] : Placed(delivered[b], k, nalu)'
    <3>1. PICK buffer \in Seq(Piece) :
              /\ delivered' = Append(Before, buffer)
              /\ \E k \in DOMAIN buffer : Placed(buffer, k, nalu)
      BY <1>1, <1>3, <1>5, <2>4, WholeIsPlaced
    <3>2. PICK k \in DOMAIN buffer : Placed(buffer, k, nalu)
      BY <3>1
    <3>3. PICK b \in DOMAIN delivered' : delivered'[b] = buffer
      BY <1>1, <1>2, <1>4, <3>1, DeliveredKept
    <3>4. Placed(delivered[b], k, nalu)'
      BY <1>2, <3>2, <3>3, SameStream DEF Placed, StartCode
    <3>5. nalu \in SentNalus'
      BY <1>1, <1>2, <1>3, <1>5, <2>4, SameStream, WholeIsPlaced
    <3> QED BY <3>2, <3>3, <3>4, <3>5
  <2>5. \A nalu \in arrived' :
            /\ nalu \in SentNalus'
            /\ \E b \in DOMAIN delivered' :
                   \E k \in DOMAIN delivered'[b] : Placed(delivered[b], k, nalu)'
    BY <1>1, <2>3, <2>4
  <2>6. DeliveredInv'
    BY <2>2, <2>3, <2>5 DEF DeliveredInv
  <2> QED BY <1>2, <1>3, <2>6 DEF IInv
<1>6. CASE ProcessAudio(p) \/ (receiving' = FALSE /\ UNCHANGED <<mData, mSentCSD, delivered>>)
  <2>1. arrived' = arrived /\ UNCHANGED mData
    BY <1>1, <1>6 DEF WholeNalusOf, ProcessAudio
  <2>2. p.pieces \in Seq(Piece)
    BY <1>3 DEF PacketOK
  <2>3. delivered' = Append(delivered, p.pieces) \/ delivered' = delivered
    BY <1>6 DEF ProcessAudio
  <2>4. /\ delivered' \in Seq(Seq(Piece))
        /\ \A nalu \in arrived :
               /\ nalu \in SentNalus'
               /\ \E b \in DOMAIN delivered' :
                      \E k \in DOMAIN delivered'[b] : Placed(delivered[b], k, nalu)'
    BY <1>1, <1>2, <1>4, <2>2, <2>3, DeliveredKept
  <2>5. DeliveredInv'
    BY <1>1, <2>1, <2>4 DEF DeliveredInv
  <2> QED BY <1>2, <1>3, <2>5 DEF IInv
<1> QED BY <1>1, <1>5, <1>6 DEF Receive

-----------------------------------------------------------------------------
(* The theorems *)

\* Every step keeps the invariant.
LEMMA NextKeepsIInv == IInv /\ [Next]_vars => IInv'
PROOF
<1> SUFFICES ASSUME IInv, [Next]_vars PROVE IInv'
  OBVIOUS
<1>1. CASE SendPacket
  <2>1. UNCHANGED <<depacketizerVars, historyVars>>
    BY <1>1 DEF SendPacket
  <2>2. Prepare \/ Aggregate \/ Fragment \/ Audio \/ Finish
    BY <1>1 DEF SendPacket
  <2> QED BY <2>1, <2>2, PrepareKeepsIInv, AggregateKeepsIInv, FragmentKeepsIInv,
             AudioKeepsIInv, FinishKeepsIInv
<1>2. CASE Arrive \/ Lose \/ Overtake \/ Duplicate
  BY <1>2, ArriveKeepsIInv, LoseKeepsIInv, OvertakeKeepsIInv, DuplicateKeepsIInv
<1>3. CASE UNCHANGED vars
  <2>1. /\ UNCHANGED packetizerVars /\ UNCHANGED wire
        /\ UNCHANGED <<depacketizerVars, historyVars>>
    BY <1>3 DEF vars
  <2>2. UnitInv' /\ OffsetInv' /\ UNCHANGED <<codec, sent>>
    BY <2>1, ServerKeeps
  <2>3. WireInv' /\ DeliveredInv'
    BY <2>1, <2>2, SameStream, ClientKeeps DEF IInv
  <2> QED BY <2>2, <2>3 DEF IInv
<1> QED BY <1>1, <1>2, <1>3 DEF Next

\* The invariant holds in every state of a stream.
LEMMA StreamIsInductive == Spec => []IInv
PROOF
<1>1. Init => IInv
  BY InitIInv
<1>2. IInv /\ [Next]_vars => IInv'
  BY NextKeepsIInv
<1> QED BY <1>1, <1>2, PTL DEF Spec

\* The fragments and aggregates the server builds hold parts of the NAL units of the
\* stream: mOffset and mPayloadSize, kept from one buildRtpPackage() to the next,
\* never reach out of the access unit they belong to.
THEOREM PiecesStayInside == Spec => []PiecesInside
PROOF
<1>1. IInv => PiecesInside
  BY DEF IInv, WireInv, PacketOK, PiecesInside
<1> QED BY <1>1, StreamIsInductive, PTL

\* A NAL unit that is placed in a buffer is found there.
LEMMA PlacedIsFound ==
    ASSUME NEW buffer \in Seq(Piece), NEW k, NEW nalu, Placed(buffer, k, nalu)
    PROVE  k \in Found(buffer, nalu)
PROOF
<1>1. Len(buffer) \in Nat /\ DOMAIN buffer = 1 .. Len(buffer)
  BY LenProperties
<1>2. k \in 1 .. Len(buffer) /\ k + 1 \in 1 .. Len(buffer)
  BY <1>1 DEF Placed
<1>3. /\ buffer[k] = StartCode /\ buffer[k + 1] = <<nalu, 0, Size(nalu)>>
      /\ k + 1 = Len(buffer) \/ buffer[k + 2] = StartCode
  BY DEF Placed
<1>4. PICK n : n = k + 1
  OBVIOUS
<1>5. n \in 1 .. Len(buffer) /\ n \in k + 1 .. Len(buffer) /\ n \in Nat
  BY <1>1, <1>2, <1>4
<1>6. n = Len(buffer) \/ buffer[n + 1] = StartCode
  <2>1. n + 1 = k + 2
    BY <1>2, <1>4
  <2> QED BY <1>3, <1>4, <2>1
<1>7. PICK unit : unit = SubSeq(buffer, n, n)
  OBVIOUS
<1>8. unit \in Seq(Piece) /\ Len(unit) = 1 /\ unit[1] = buffer[n]
  <2>1. \A i \in n .. n : buffer[i] \in Piece
    BY <1>1, <1>5
  <2>2. /\ SubSeq(buffer, n, n) \in Seq(Piece)
        /\ Len(SubSeq(buffer, n, n)) = IF n <= n THEN n - n + 1 ELSE 0
        /\ \A i \in 1 .. n - n + 1 : SubSeq(buffer, n, n)[i] = buffer[n + i - 1]
    BY <1>5, <2>1, SubSeqProperties
  <2>3. 1 \in 1 .. n - n + 1 /\ n - n + 1 = 1 /\ n + 1 - 1 = n
    BY <1>5
  <2> QED BY <1>5, <1>7, <2>2, <2>3
<1>9. IsUnit(unit, nalu)
  <2>1. DOMAIN unit = {1} /\ unit # <<>>
    <3>1. DOMAIN unit = 1 .. Len(unit)
      BY <1>8, LenProperties
    <3>2. DOMAIN unit = {1}
      BY <1>8, <3>1
    <3>3. Len(<<>>) = 0
      OBVIOUS
    <3> QED BY <1>8, <3>2, <3>3
  <2>2. unit[1][1] = nalu /\ unit[1][2] = 0 /\ unit[1][3] = Size(nalu)
    BY <1>3, <1>4, <1>8
  <2>3. IsRange(unit, nalu, 0)
    BY <1>8, <2>1, <2>2 DEF IsRange
  <2> QED BY <2>3 DEF IsUnit
<1>10. IsUnit(SubSeq(buffer, k + 1, n), nalu)
  BY <1>4, <1>7, <1>9
<1> QED BY <1>1, <1>2, <1>3, <1>5, <1>6, <1>10 DEF Found

\* A NAL unit that arrives in one piece is found, as it was sent, in a buffer the
\* client delivers, whatever was lost, overtaken or left in mData before.
THEOREM WholeNalusAreDelivered == Spec => []WholeNalusSurvive
PROOF
<1>1. IInv => WholeNalusSurvive
  <2> SUFFICES ASSUME IInv, NEW nalu \in arrived PROVE Times(nalu) # {}
    BY DEF WholeNalusSurvive
  <2>1. PICK b \in DOMAIN delivered :
            \E k \in DOMAIN delivered[b] : Placed(delivered[b], k, nalu)
    BY DEF IInv, DeliveredInv
  <2>2. PICK k \in DOMAIN delivered[b] : Placed(delivered[b], k, nalu)
    BY <2>1
  <2> PICK buffer : buffer = delivered[b]
    OBVIOUS
  <2>3. buffer \in Seq(Piece)
    BY ElementOfSeq, LenProperties DEF IInv, DeliveredInv
  <2>4. k \in Found(buffer, nalu)
    BY <2>2, <2>3, PlacedIsFound
  <2>5. <<b, k>> \in Times(nalu)
    BY <2>1, <2>4 DEF Times
  <2> QED BY <2>5
<1> QED BY <1>1, StreamIsInductive, PTL

-----------------------------------------------------------------------------
(* Where NAL units begin *)

\* The name of what is no NAL unit: start codes, lengths, headers and codec data.
NoName == <<0, 0>>

\* The NAL units that may begin twice: their first packet was doubled.
Twice == UNION {BeginIn(packet) : packet \in doubled}

\* A piece with which a NAL unit begins in a buffer: from its first byte, or from the
\* one behind its header.
Begins(piece) == piece[1] # NoName /\ piece[2] \in {0, HeaderSize}

\* The NAL units that begin in a packet, and nowhere else.
Claims(p) == {p.pieces[n][1] : n \in {n \in DOMAIN p.pieces :
                  p.kind # "audio" /\ Begins(p.pieces[n]) /\ p.pieces[n][1] \notin Twice}}

\* At place k of a buffer a NAL unit begins, one of those that are to begin once: with
\* a start code, and then its first byte, or a header of zeros and the byte behind its
\* own.
Opens(buffer, k, nalu) ==
    /\ k \in DOMAIN buffer /\ k + 1 \in DOMAIN buffer
    /\ buffer[k] = StartCode /\ nalu # NoName /\ nalu \notin Twice
    /\ \/ buffer[k + 1][1] = nalu /\ buffer[k + 1][2] = 0
       \/ /\ k + 2 \in DOMAIN buffer /\ buffer[k + 1] = ZeroHeader
          /\ buffer[k + 2][1] = nalu /\ buffer[k + 2][2] = HeaderSize

Opened(buffer) == {nalu \in {buffer[k][1] : k \in DOMAIN buffer} :
                       \E k \in DOMAIN buffer : Opens(buffer, k, nalu)}

OpenedOnce(buffer) ==
    \A nalu \in Opened(buffer) : \A k, l \in DOMAIN buffer :
        Opens(buffer, k, nalu) /\ Opens(buffer, l, nalu) => k = l

\* What follows a buffer does not belong to what it ends with.
Closed(buffer) == buffer # <<>> => buffer[Len(buffer)][1] # NoName

\* A NAL unit that is still to be sent, or the first piece of it.
Ahead(nalu) ==
    \/ nalu[1] > Len(sent)
    \/ /\ nalu[1] = Len(sent) /\ sender = "sending"
       /\ \/ nalu[2] > mCurrNalu
          \/ nalu[2] = mCurrNalu /\ (mIsFirstPack \/ ~IsBig(mNalus[mCurrNalu]))

\* A packet of video begins a NAL unit, unless it goes on with one, and none twice.
PacketOnce(p) ==
    p.kind \in {"single", "aggregate", "fragment"} =>
        /\ p.pieces[1][1] # NoName /\ p.pieces[Len(p.pieces)][1] # NoName
        /\ Begins(p.pieces[1]) \/ (p.kind = "fragment" /\ ~p.start)
        /\ \A m, n \in DOMAIN p.pieces :
               Begins(p.pieces[m]) /\ Begins(p.pieces[n]) /\ p.pieces[m][1] = p.pieces[n][1]
                   => m = n

OnceInv ==
    /\ sender = "sending" /\ ~mIsFirstPack => mOffset[2] > HeaderSize
    /\ \A j \in DOMAIN wire : PacketOnce(wire[j])
    /\ Closed(mData) /\ OpenedOnce(mData)
    /\ \A b \in DOMAIN delivered : OpenedOnce(delivered[b])

\* A NAL unit whose first packet was not doubled begins in one place: it is ahead, in one packet, in mData or in one of
\* the buffers that were delivered.
WireApart ==
    \A j \in DOMAIN wire : \A nalu \in Claims(wire[j]) :
        /\ ~Ahead(nalu) /\ nalu \notin Opened(mData)
        /\ \A k \in DOMAIN wire : nalu \in Claims(wire[k]) => j = k

DeliveredApart ==
    \A b \in DOMAIN delivered : \A nalu \in Opened(delivered[b]) :
        /\ ~Ahead(nalu) /\ nalu \notin Opened(mData)
        /\ \A j \in DOMAIN wire : nalu \notin Claims(wire[j])
        /\ \A c \in DOMAIN delivered : nalu \in Opened(delivered[c]) => b = c

ApartInv == /\ WireApart /\ DeliveredApart
            /\ \A nalu \in Opened(mData) : ~Ahead(nalu)

-----------------------------------------------------------------------------
(* The server and the network, once more *)

\* What begins where depends on the codec and on what was doubled only.
LEMMA SameNames ==
    ASSUME UNCHANGED <<codec, doubled>>
    PROVE  /\ \A p : Claims(p)' = Claims(p) /\ (PacketOnce(p) => PacketOnce(p)')
           /\ \A s : Opened(s)' = Opened(s) /\ (OpenedOnce(s) => OpenedOnce(s)')
PROOF
<1>1. HeaderSize' = HeaderSize
  BY DEF HeaderSize
<1>2. \A piece : Begins(piece)' = Begins(piece)
  BY <1>1 DEF Begins
<1>0. Twice' = Twice
  BY <1>1 DEF Twice, BeginIn
<1>3. \A s, k, nalu : Opens(s, k, nalu)' = Opens(s, k, nalu)
  BY <1>0, <1>1 DEF Opens, ZeroHeader
<1>4. \A p : Claims(p)' = Claims(p) /\ (PacketOnce(p) => PacketOnce(p)')
  BY <1>0, <1>2 DEF Claims, PacketOnce
<1>5. \A s : Opened(s)' = Opened(s)
  BY <1>3 DEF Opened
<1>6. \A s : OpenedOnce(s) => OpenedOnce(s)'
  BY <1>3, <1>5 DEF OpenedOnce
<1> QED BY <1>4, <1>5, <1>6

\* What begins in a buffer or a packet is the name of a NAL unit.
LEMMA OpenedNames ==
    ASSUME NEW s \in Seq(Piece), NEW nalu
    PROVE  /\ nalu \in Opened(s) => nalu \in Nat \X Nat /\ nalu # NoName
           /\ nalu \in Opened(s) <=> \E k \in DOMAIN s : Opens(s, k, nalu)
PROOF
<1>1. \A k \in DOMAIN s : s[k] \in Piece
  BY ElementOfSeq, LenProperties
<1>2. \A k \in DOMAIN s : s[k][1] \in Nat \X Nat
  BY <1>1 DEF Piece
<1>3. ASSUME NEW k \in DOMAIN s, Opens(s, k, nalu)
      PROVE  nalu \in {s[n][1] : n \in DOMAIN s} /\ nalu # NoName
  BY <1>3 DEF Opens
<1> QED BY <1>2, <1>3 DEF Opened

\* Likewise what begins in a packet.
LEMMA ClaimedNames ==
    ASSUME NEW p, PacketOK(p), NEW nalu
    PROVE  /\ nalu \in Claims(p) => nalu \in Nat \X Nat
           /\ nalu \in Claims(p) <=> \E n \in DOMAIN p.pieces :
                  /\ p.kind # "audio" /\ Begins(p.pieces[n]) /\ p.pieces[n][1] = nalu
                  /\ nalu \notin Twice
PROOF
<1>1. p.pieces \in Seq(Piece)
  BY DEF PacketOK
<1>2. \A k \in DOMAIN p.pieces : p.pieces[k] \in Piece
  BY <1>1, ElementOfSeq, LenProperties
<1>3. \A k \in DOMAIN p.pieces : p.pieces[k][1] \in Nat \X Nat
  BY <1>2 DEF Piece
<1> QED BY <1>3 DEF Claims

\* The server goes on: what it puts on its way was ahead, and is no longer.
LEMMA ServerApart ==
    ASSUME IInv, OnceInv, ApartInv, UNCHANGED <<codec, doubled, depacketizerVars>>,
           sender' = "sending" /\ ~mIsFirstPack' => mOffset'[2] > HeaderSize',
           \A nalu \in Nat \X Nat : Ahead(nalu)' => Ahead(nalu),
           \/ UNCHANGED wire
           \/ \E p : /\ Transmit(p) /\ PacketOK(p) /\ PacketOnce(p)
                     /\ \A nalu \in Claims(p) : Ahead(nalu) /\ ~Ahead(nalu)'
    PROVE  OnceInv' /\ ApartInv'
PROOF
<1>1. /\ UNCHANGED <<mData, delivered>> /\ mData \in Seq(Piece)
      /\ delivered \in Seq(Seq(Piece)) /\ WireInv
  BY DEF depacketizerVars, IInv, DeliveredInv
<1>2. \A b \in DOMAIN delivered : delivered[b] \in Seq(Piece)
  BY <1>1, ElementOfSeq, LenProperties
<1>3. /\ \A p : Claims(p)' = Claims(p) /\ (PacketOnce(p) => PacketOnce(p)')
      /\ \A s : Opened(s)' = Opened(s) /\ (OpenedOnce(s) => OpenedOnce(s)')
  BY SameNames
<1>4. \A j \in DOMAIN wire : \A nalu \in Claims(wire[j]) : nalu \in Nat \X Nat
  BY <1>1, ClaimedNames DEF WireInv
<1>5. /\ \A nalu \in Opened(mData) : ~Ahead(nalu)'
      /\ \A b \in DOMAIN delivered : \A nalu \in Opened(delivered[b]) : ~Ahead(nalu)'
  BY <1>1, <1>2, OpenedNames DEF ApartInv, DeliveredApart
<1>6. /\ Closed(mData)' /\ OpenedOnce(mData)'
      /\ \A b \in DOMAIN delivered' : OpenedOnce(delivered[b])'
  <2>1. OpenedOnce(mData)'
    BY <1>1, <1>3 DEF OnceInv
  <2> PICK d : d = delivered'
    OBVIOUS
  <2>2. \A b \in DOMAIN d : OpenedOnce(d[b])'
    BY <1>1, <1>3 DEF OnceInv
  <2> QED BY <1>1, <2>1, <2>2 DEF OnceInv, Closed
<1> PICK w : w = wire'
  OBVIOUS
<1> PICK opened : opened = Opened(mData)
  OBVIOUS
<1>7. Opened(mData)' = opened
  BY <1>1, <1>3
<1> DEFINE Kept ==
          /\ \A j \in DOMAIN w : PacketOnce(w[j])
          /\ \A j \in DOMAIN w : \A nalu \in Claims(w[j]) :
                /\ ~Ahead(nalu)' /\ nalu \notin opened
                /\ \A k \in DOMAIN w : nalu \in Claims(w[k]) => j = k
          /\ \A b \in DOMAIN delivered : \A nalu \in Opened(delivered[b]) :
                \A j \in DOMAIN w : nalu \notin Claims(w[j])
<1>8. Kept
  <2>1. CASE UNCHANGED wire
    BY <1>4, <2>1 DEF OnceInv, ApartInv, WireApart, DeliveredApart
  <2>2. ASSUME NEW p, Transmit(p), PacketOK(p), PacketOnce(p),
               \A nalu \in Claims(p) : Ahead(nalu) /\ ~Ahead(nalu)'
        PROVE  Kept
    <3> PICK S : wire \in Seq(S)
      BY <1>1 DEF WireInv
    <3>1. wire \in Seq(S \cup {p}) /\ w = Append(wire, p)
      BY <2>2, SeqMonotonic DEF Transmit
    <3>2. /\ DOMAIN w = 1 .. Len(wire) + 1 /\ w[Len(wire) + 1] = p /\ Len(wire) \in Nat
          /\ \A k \in 1 .. Len(wire) : w[k] = wire[k]
          /\ DOMAIN wire = 1 .. Len(wire)
      BY <3>1, AppendProperties, LenProperties
    <3>3. \A j \in DOMAIN w : (j \in DOMAIN wire /\ w[j] = wire[j]) \/ (j = Len(wire) + 1 /\ w[j] = p)
      BY <3>2
    <3>4. Len(wire) + 1 \notin DOMAIN wire
      BY <3>2
    <3>5. /\ \A j \in DOMAIN wire : \A nalu \in Claims(wire[j]) :
                ~Ahead(nalu) /\ nalu \notin Claims(p) /\ ~Ahead(nalu)'
          /\ \A nalu \in Claims(p) : nalu \notin opened
          /\ \A b \in DOMAIN delivered : \A nalu \in Opened(delivered[b]) : nalu \notin Claims(p)
      BY <1>4, <2>2 DEF ApartInv, WireApart, DeliveredApart
    <3>6. \A j \in DOMAIN w : PacketOnce(w[j])
      BY <2>2, <3>3 DEF OnceInv
    <3>7. ASSUME NEW j \in DOMAIN w, NEW nalu \in Claims(w[j])
          PROVE  /\ ~Ahead(nalu)' /\ nalu \notin opened
                 /\ \A k \in DOMAIN w : nalu \in Claims(w[k]) => j = k
      <4>1. CASE j \in DOMAIN wire /\ w[j] = wire[j]
        <5>1. /\ nalu \in Claims(wire[j]) /\ nalu \notin opened
              /\ \A k \in DOMAIN wire : nalu \in Claims(wire[k]) => j = k
          BY <3>7, <4>1 DEF ApartInv, WireApart
        <5> QED BY <3>3, <3>5, <4>1, <5>1
      <4>2. CASE j = Len(wire) + 1 /\ w[j] = p
        BY <2>2, <3>3, <3>5, <3>7, <4>2
      <4> QED BY <3>3, <4>1, <4>2
    <3>8. \A b \in DOMAIN delivered : \A nalu \in Opened(delivered[b]) :
              \A j \in DOMAIN w : nalu \notin Claims(w[j])
      BY <3>3, <3>5 DEF ApartInv, DeliveredApart
    <3> QED BY <3>6, <3>7, <3>8
  <2> QED BY <2>1, <2>2
<1>9. OnceInv'
  <2>1. \A j \in DOMAIN w : PacketOnce(w[j])'
    BY <1>3, <1>8
  <2> QED BY <1>6, <2>1 DEF OnceInv
<1>10. WireApart'
  <2>1. \A j \in DOMAIN w : \A nalu \in Claims(w[j])' :
            /\ ~Ahead(nalu)' /\ nalu \notin opened
            /\ \A k \in DOMAIN w : nalu \in Claims(w[k])' => j = k
    BY <1>3, <1>8
  <2> QED BY <1>7, <2>1 DEF WireApart
<1>11. DeliveredApart'
  <2> PICK d : d = delivered
    OBVIOUS
  <2>1. \A b \in DOMAIN d : \A nalu \in Opened(d[b])' :
          /\ ~Ahead(nalu)' /\ nalu \notin opened
          /\ \A j \in DOMAIN w : nalu \notin Claims(w[j])'
          /\ \A c \in DOMAIN d : nalu \in Opened(d[c])' => b = c
    BY <1>3, <1>5, <1>8 DEF ApartInv, DeliveredApart
  <2>2. d = delivered'
    BY <1>1
  <2> QED BY <1>7, <2>1, <2>2 DEF DeliveredApart
<1> QED BY <1>5, <1>7, <1>9, <1>10, <1>11 DEF ApartInv

\* Packets that are lost, overtaken or received leave the others apart.
LEMMA WireFewer ==
    ASSUME OnceInv, ApartInv, UNCHANGED <<packetizerVars, depacketizerVars, doubled>>,
           NEW f \in [DOMAIN wire' -> DOMAIN wire],
           \A k \in DOMAIN wire' : wire'[k] = wire[f[k]],
           \A k, l \in DOMAIN wire' : f[k] = f[l] => k = l
    PROVE  OnceInv' /\ ApartInv'
PROOF
<1>1. /\ UNCHANGED <<codec, mNalus, mCurrNalu, mIsFirstPack, mOffset, sender, sent>>
      /\ UNCHANGED <<mData, delivered>>
  BY DEF packetizerVars, depacketizerVars
<1>2. /\ \A p : Claims(p)' = Claims(p) /\ (PacketOnce(p) => PacketOnce(p)')
      /\ \A s : Opened(s)' = Opened(s) /\ (OpenedOnce(s) => OpenedOnce(s)')
  BY <1>1, SameNames
<1>3. HeaderSize' = HeaderSize /\ \A nalu : Ahead(nalu)' = Ahead(nalu)
  BY <1>1 DEF HeaderSize, Ahead, IsBig
<1> PICK w : w = wire'
  OBVIOUS
<1> PICK d : d = delivered
  OBVIOUS
<1>4. d' = d /\ delivered' = d /\ delivered = d
  BY <1>1
<1>5. OnceInv'
  <2>1. \A j \in DOMAIN w : PacketOnce(w[j])'
    BY <1>2 DEF OnceInv
  <2>2. \A b \in DOMAIN d : OpenedOnce(d[b])'
    BY <1>2 DEF OnceInv
  <2>3. Closed(mData)' /\ OpenedOnce(mData)'
    BY <1>1, <1>2 DEF OnceInv, Closed
  <2> QED BY <1>1, <1>3, <1>4, <2>1, <2>2, <2>3 DEF OnceInv
<1> PICK opened : opened = Opened(mData)
  OBVIOUS
<1>6. Opened(mData)' = opened /\ \A nalu \in opened : ~Ahead(nalu)'
  BY <1>1, <1>2, <1>3 DEF ApartInv
<1>7. WireApart'
  <2>1. \A j \in DOMAIN w : \A nalu \in Claims(w[j]) :
            /\ ~Ahead(nalu)' /\ nalu \notin opened
            /\ \A k \in DOMAIN w : nalu \in Claims(w[k]) => j = k
    <3> TAKE j \in DOMAIN w
    <3> TAKE nalu \in Claims(w[j])
    <3>1. f[j] \in DOMAIN wire /\ w[j] = wire[f[j]]
      OBVIOUS
    <3>2. /\ ~Ahead(nalu) /\ nalu \notin opened
          /\ \A k \in DOMAIN wire : nalu \in Claims(wire[k]) => f[j] = k
      BY <3>1 DEF ApartInv, WireApart
    <3>3. ASSUME NEW k \in DOMAIN w, nalu \in Claims(w[k]) PROVE j = k
      <4>1. f[k] \in DOMAIN wire /\ w[k] = wire[f[k]]
        OBVIOUS
      <4>2. f[j] = f[k]
        BY <3>2, <3>3, <4>1
      <4> QED BY <4>2
    <3> QED BY <1>3, <3>2, <3>3
  <2>2. \A j \in DOMAIN w : \A nalu \in Claims(w[j])' :
            /\ ~Ahead(nalu)' /\ nalu \notin opened
            /\ \A k \in DOMAIN w : nalu \in Claims(w[k])' => j = k
    BY <1>2, <2>1
  <2> QED BY <1>6, <2>2 DEF WireApart
<1>8. DeliveredApart'
  <2>1. \A b \in DOMAIN d : \A nalu \in Opened(d[b]) :
            /\ ~Ahead(nalu)' /\ nalu \notin opened
            /\ \A j \in DOMAIN w : nalu \notin Claims(w[j])
            /\ \A c \in DOMAIN d : nalu \in Opened(d[c]) => b = c
    BY <1>3 DEF ApartInv, DeliveredApart
  <2>2. \A b \in DOMAIN d : \A nalu \in Opened(d[b])' :
            /\ ~Ahead(nalu)' /\ nalu \notin opened
            /\ \A j \in DOMAIN w : nalu \notin Claims(w[j])'
            /\ \A c \in DOMAIN d : nalu \in Opened(d[c])' => b = c
    BY <1>2, <2>1
  <2> QED BY <1>4, <1>6, <2>2 DEF DeliveredApart
<1> QED BY <1>5, <1>6, <1>7, <1>8 DEF ApartInv

\* A packet is lost.
LEMMA LoseApart ==
    ASSUME IInv, OnceInv, ApartInv, Lose
    PROVE  OnceInv' /\ ApartInv'
PROOF
<1>1. /\ UNCHANGED <<packetizerVars, depacketizerVars, doubled>>
      /\ wire # <<>> /\ wire' = Tail(wire)
  BY DEF Lose
<1> PICK S : wire \in Seq(S)
  BY DEF IInv, WireInv
<1>2. Len(wire) \in Nat \ {0} /\ DOMAIN wire = 1 .. Len(wire)
  BY <1>1, EmptySeq, LenProperties
<1>3. /\ wire' \in Seq(S) /\ Len(wire') = Len(wire) - 1 /\ DOMAIN wire' = 1 .. Len(wire')
      /\ \A k \in 1 .. Len(wire') : wire'[k] = wire[k + 1]
  BY <1>1, HeadTailProperties, LenProperties
<1> DEFINE f == [k \in DOMAIN wire' |-> k + 1]
<1>4. f \in [DOMAIN wire' -> DOMAIN wire]
  BY <1>2, <1>3
<1>5. \A k \in DOMAIN wire' : f[k] = k + 1 /\ wire'[k] = wire[f[k]]
  BY <1>3
<1>6. \A k, l \in DOMAIN wire' : f[k] = f[l] => k = l
  BY <1>2, <1>3, <1>5
<1> HIDE DEF f
<1> QED BY <1>1, <1>4, <1>5, <1>6, WireFewer

\* A packet is overtaken by the next.
LEMMA OvertakeApart ==
    ASSUME IInv, OnceInv, ApartInv, Overtake
    PROVE  OnceInv' /\ ApartInv'
PROOF
<1>1. /\ UNCHANGED <<packetizerVars, depacketizerVars, doubled>> /\ Len(wire) > 1
      /\ wire' = <<wire[2], wire[1]>> \o SubSeq(wire, 3, Len(wire))
  BY DEF Overtake
<1> PICK S : wire \in Seq(S)
  BY DEF IInv, WireInv
<1> PICK q : q = SubSeq(wire, 3, Len(wire))
  OBVIOUS
<1> PICK s : s = <<wire[2], wire[1]>>
  OBVIOUS
<1>2. Len(wire) \in Nat /\ DOMAIN wire = 1 .. Len(wire)
  BY LenProperties
<1>3. /\ q \in Seq(S) /\ Len(q) = Len(wire) - 2
      /\ \A k \in 1 .. Len(wire) - 2 : q[k] = wire[k + 2]
  <2>1. \A k \in 3 .. Len(wire) : wire[k] \in S
    BY ElementOfSeq
  <2>2. /\ SubSeq(wire, 3, Len(wire)) \in Seq(S)
        /\ Len(SubSeq(wire, 3, Len(wire))) =
               IF 3 <= Len(wire) THEN Len(wire) - 3 + 1 ELSE 0
        /\ \A k \in 1 .. Len(wire) - 3 + 1 : SubSeq(wire, 3, Len(wire))[k] = wire[3 + k - 1]
    BY <1>2, <2>1, SubSeqProperties
  <2> QED BY <1>1, <1>2, <2>2
<1>4. s \in Seq(S) /\ Len(s) = 2 /\ s[1] = wire[2] /\ s[2] = wire[1]
  BY <1>1, <1>2, ElementOfSeq
<1>5. /\ s \o q \in Seq(S) /\ Len(s \o q) = Len(wire)
      /\ \A k \in 1 .. Len(wire) : (s \o q)[k] = IF k <= 2 THEN s[k] ELSE q[k - 2]
  BY <1>2, <1>3, <1>4, ConcatProperties
<1> PICK w : w = s \o q
  OBVIOUS
<1>6. DOMAIN w = 1 .. Len(wire)
  BY <1>5, LenProperties
<1>7. wire' = w
  BY <1>1
<1> DEFINE f == [k \in DOMAIN w |-> IF k <= 2 THEN 3 - k ELSE k]
<1>8. /\ f \in [DOMAIN w -> DOMAIN wire]
      /\ \A k, l \in DOMAIN w : f[k] = f[l] => k = l
  BY <1>1, <1>2, <1>6
<1>9. \A k \in DOMAIN w : w[k] = wire[f[k]]
  <2> TAKE k \in DOMAIN w
  <2>1. k \in 1 .. Len(wire) /\ w[k] = IF k <= 2 THEN s[k] ELSE q[k - 2]
    BY <1>5, <1>6
  <2>2. CASE k <= 2
    BY <1>4, <2>1, <2>2
  <2>3. CASE k > 2
    <3>1. k - 2 \in 1 .. Len(wire) - 2 /\ k - 2 + 2 = k
      BY <1>2, <2>1, <2>3
    <3>2. w[k] = wire[k] /\ f[k] = k
      BY <1>2, <1>3, <2>1, <2>3, <3>1
    <3> QED BY <3>2
  <2> QED BY <1>2, <2>1, <2>2, <2>3
<1> HIDE DEF f
<1>10. /\ f \in [DOMAIN wire' -> DOMAIN wire]
       /\ \A k \in DOMAIN wire' : wire'[k] = wire[f[k]]
       /\ \A k, l \in DOMAIN wire' : f[k] = f[l] => k = l
  BY ONLY <1>7, <1>8, <1>9
<1> QED BY <1>1, <1>10, WireFewer

\* A packet is doubled: what begins in it may begin twice from now on, the rest is
\* where it was.
LEMMA DuplicateApart ==
    ASSUME IInv, OnceInv, ApartInv, Duplicate
    PROVE  OnceInv' /\ ApartInv'
PROOF
<1> PICK p : p = Head(wire)
  OBVIOUS
<1>1. /\ UNCHANGED <<codec, mNalus, mCurrNalu, mIsFirstPack, mOffset, sender, sent>>
      /\ UNCHANGED <<mData, delivered>> /\ doubled' = doubled \cup {p} /\ WireInv
  BY DEF Duplicate, packetizerVars, depacketizerVars, IInv
<1>2. HeaderSize' = HeaderSize /\ \A nalu : Ahead(nalu)' = Ahead(nalu)
  BY <1>1 DEF HeaderSize, Ahead, IsBig
<1>3. Twice \subseteq Twice' /\ BeginIn(p) \subseteq Twice'
  BY <1>1, <1>2 DEF Twice, BeginIn
<1>4. \A piece : Begins(piece)' = Begins(piece)
  BY <1>2 DEF Begins
<1>5. /\ \A q : Claims(q)' \subseteq Claims(q)
      /\ \A q : (PacketOnce(q) => PacketOnce(q)')
  <2>1. \A q : Claims(q)' \subseteq Claims(q)
    BY <1>3, <1>4 DEF Claims
  <2>2. \A q : (PacketOnce(q) => PacketOnce(q)')
    BY <1>4 DEF PacketOnce
  <2> QED BY <2>1, <2>2
<1>6. Claims(p)' = {}
  BY <1>3, <1>4 DEF Claims, Begins, BeginIn
<1>7. \A s, k, nalu : Opens(s, k, nalu)' => Opens(s, k, nalu)
  BY <1>2, <1>3 DEF Opens, ZeroHeader
<1>8. \A s : Opened(s)' \subseteq Opened(s)
  BY <1>7 DEF Opened
<1>9. \A s : OpenedOnce(s) => OpenedOnce(s)'
  BY <1>7, <1>8 DEF OpenedOnce
<1> PICK w : w = wire'
  OBVIOUS
<1>10. /\ p = wire[1] /\ 1 \in DOMAIN wire
       /\ \A k \in DOMAIN w :
             \/ k = 1 /\ w[k] = p
             \/ k > 1 /\ k - 1 \in DOMAIN wire /\ w[k] = wire[k - 1]
       /\ DOMAIN w = 1 .. Len(wire) + 1 /\ Len(wire) \in Nat
  BY <1>1, Copied
<1> PICK d : d = delivered
  OBVIOUS
<1>11. d' = d /\ delivered' = d /\ delivered = d
  BY <1>1
<1>12. OnceInv'
  <2>0. \A j \in DOMAIN w : PacketOnce(w[j])
    BY <1>10 DEF OnceInv
  <2>1. \A j \in DOMAIN w : PacketOnce(w[j])'
    BY <1>5, <2>0
  <2>2. \A b \in DOMAIN d : OpenedOnce(d[b])'
    BY <1>9 DEF OnceInv
  <2>3. Closed(mData)' /\ OpenedOnce(mData)'
    BY <1>1, <1>9 DEF OnceInv, Closed
  <2> QED BY <1>1, <1>2, <1>11, <2>1, <2>2, <2>3 DEF OnceInv
<1> PICK opened : opened = Opened(mData)'
  OBVIOUS
<1>13. \A nalu \in opened : nalu \in Opened(mData) /\ ~Ahead(nalu)'
  BY <1>1, <1>2, <1>8 DEF ApartInv
<1>14. ASSUME NEW j \in DOMAIN w, NEW nalu \in Claims(w[j])'
       PROVE  j > 1 /\ j - 1 \in DOMAIN wire /\ nalu \in Claims(wire[j - 1])
  <2>1. w[j] # p
    BY <1>6, <1>14
  <2>2. j > 1 /\ j - 1 \in DOMAIN wire /\ w[j] = wire[j - 1]
    BY <1>10, <2>1
  <2>3. nalu \in Claims(w[j])
    BY <1>5
  <2> QED BY <2>2, <2>3
<1>15. WireApart'
  <2>1. ASSUME NEW j \in DOMAIN w, NEW nalu \in Claims(w[j])'
        PROVE  /\ ~Ahead(nalu)' /\ nalu \notin opened
               /\ \A k \in DOMAIN w : nalu \in Claims(w[k])' => j = k
    <3>1. j > 1 /\ j - 1 \in DOMAIN wire /\ nalu \in Claims(wire[j - 1])
      BY <1>14
    <3>2. /\ ~Ahead(nalu) /\ nalu \notin Opened(mData)
          /\ \A k \in DOMAIN wire : nalu \in Claims(wire[k]) => j - 1 = k
      BY <3>1 DEF ApartInv, WireApart
    <3>3. ASSUME NEW k \in DOMAIN w, nalu \in Claims(w[k])' PROVE j = k
      <4>1. k > 1 /\ k - 1 \in DOMAIN wire /\ nalu \in Claims(wire[k - 1])
        BY <1>14, <3>3
      <4>2. j - 1 = k - 1
        BY <3>2, <4>1
      <4>3. j \in Nat /\ k \in Nat
        BY <1>10
      <4> QED BY <4>2, <4>3
    <3> QED BY <1>2, <1>13, <3>2, <3>3
  <2> QED BY <2>1 DEF WireApart
<1>16. DeliveredApart'
  <2>1. ASSUME NEW b \in DOMAIN d, NEW nalu \in Opened(d[b])'
        PROVE  /\ ~Ahead(nalu)' /\ nalu \notin opened
               /\ \A j \in DOMAIN w : nalu \notin Claims(w[j])'
               /\ \A c \in DOMAIN d : nalu \in Opened(d[c])' => b = c
    <3>1. nalu \in Opened(d[b])
      BY <1>8
    <3>2. /\ ~Ahead(nalu) /\ nalu \notin Opened(mData)
          /\ \A j \in DOMAIN wire : nalu \notin Claims(wire[j])
          /\ \A c \in DOMAIN d : nalu \in Opened(d[c]) => b = c
      BY <3>1 DEF ApartInv, DeliveredApart
    <3>3. \A j \in DOMAIN w : nalu \notin Claims(w[j])'
      BY <1>14, <3>2
    <3>4. \A c \in DOMAIN d : nalu \in Opened(d[c])' => b = c
      BY <1>8, <3>2
    <3> QED BY <1>2, <1>13, <3>2, <3>3, <3>4
  <2> QED BY <1>11, <2>1 DEF DeliveredApart
<1> QED BY <1>12, <1>13, <1>15, <1>16 DEF ApartInv

-----------------------------------------------------------------------------
(* The client, once more *)

\* Of the pieces of a packet none is a start code.
LEMMA PiecesAreNoStart ==
    ASSUME UnitInv, NEW p, PacketOK(p), NEW n \in DOMAIN p.pieces
    PROVE  p.pieces[n] # StartCode
PROOF
<1>1. Inside(p.pieces[n])
  BY DEF PacketOK
<1>2. LengthField # StartCode
  BY DEF LengthField, LengthSize, StartCode
<1>3. StartCode[1] \notin SentNalus
  <2>1. ASSUME StartCode[1] \in SentNalus PROVE FALSE
    <3>1. StartCode[1][1] \in 1 .. Len(sent)
      BY <2>1, NaluNames
    <3>2. StartCode[1][1] = 0
      BY DEF StartCode
    <3> QED BY <3>1, <3>2
  <2> QED BY <2>1
<1> QED BY <1>1, <1>2, <1>3 DEF Inside

\* Where a NAL unit begins in two buffers joined, it begins in one of them.
LEMMA Joined ==
    ASSUME NEW data \in Seq(Piece), NEW add \in Seq(Piece), Closed(data),
           NEW k, NEW nalu, Opens(data \o add, k, nalu)
    PROVE  /\ k \in Nat
           /\ \/ k <= Len(data) /\ Opens(data, k, nalu)
              \/ k > Len(data) /\ Opens(add, k - Len(data), nalu)
PROOF
<1> PICK buffer : buffer = data \o add
  OBVIOUS
<1>1. /\ Len(data) \in Nat /\ DOMAIN data = 1 .. Len(data)
      /\ Len(add) \in Nat /\ DOMAIN add = 1 .. Len(add)
  BY LenProperties
<1>2. /\ buffer \in Seq(Piece) /\ Len(buffer) = Len(data) + Len(add)
      /\ \A j \in 1 .. Len(data) + Len(add) :
             buffer[j] = IF j <= Len(data) THEN data[j] ELSE add[j - Len(data)]
  BY ConcatProperties
<1>3. DOMAIN buffer = 1 .. Len(data) + Len(add)
  BY <1>2, LenProperties
<1>4. /\ k \in DOMAIN buffer /\ k + 1 \in DOMAIN buffer
      /\ buffer[k] = StartCode /\ nalu # NoName /\ nalu \notin Twice
      /\ \/ buffer[k + 1][1] = nalu /\ buffer[k + 1][2] = 0
         \/ /\ k + 2 \in DOMAIN buffer /\ buffer[k + 1] = ZeroHeader
            /\ buffer[k + 2][1] = nalu /\ buffer[k + 2][2] = HeaderSize
  BY DEF Opens
<1>5. k \in 1 .. Len(data) + Len(add) /\ k + 1 \in 1 .. Len(data) + Len(add)
  BY <1>3, <1>4
<1>6. CASE k > Len(data)
  <2>0. k - Len(data) \in Nat /\ k \in Nat
    BY <1>1, <1>5, <1>6
  <2> PICK j \in Nat : j = k - Len(data)
    BY <2>0
  <2>1. j \in DOMAIN add /\ j + 1 \in DOMAIN add /\ buffer[k] = add[j] /\ buffer[k + 1] = add[j + 1]
    BY <1>1, <1>2, <1>5, <1>6
  <2>2. k + 2 \in DOMAIN buffer => j + 2 \in DOMAIN add /\ buffer[k + 2] = add[j + 2]
    BY <1>1, <1>2, <1>3, <1>5, <1>6
  <2>3. Opens(add, j, nalu)
    BY <1>4, <2>1, <2>2 DEF Opens
  <2> QED BY <1>5, <1>6, <2>3
<1>7. CASE k <= Len(data)
  <2>1. data # <<>> /\ data[Len(data)][1] # NoName
    BY <1>1, <1>5, <1>7, EmptySeq DEF Closed
  <2>2. StartCode[1] = NoName /\ ZeroHeader[1] = NoName
    BY DEF StartCode, ZeroHeader, NoName
  <2>3. buffer[k] = data[k] /\ k # Len(data)
    BY <1>1, <1>2, <1>4, <1>5, <1>7, <2>1, <2>2
  <2>4. k \in DOMAIN data /\ k + 1 \in DOMAIN data /\ buffer[k + 1] = data[k + 1]
    <3>1. k \in Nat /\ k + 1 <= Len(data) /\ k + 1 \in 1 .. Len(data) + Len(add)
      <4>1. k \in Nat
        BY <1>1, <1>5
      <4>2. k # Len(data)
        BY <2>3
      <4>3. k + 1 <= Len(data)
        <5> PICK n \in Nat : n = Len(data)
          BY <1>1
        <5>1. k <= n /\ k # n
          BY <1>7, <4>2
        <5>2. k + 1 <= n
          BY <4>1, <5>1
        <5> QED BY <5>2
      <4> QED BY <1>5, <4>1, <4>3
    <3> QED BY <1>1, <1>2, <1>5, <3>1
  <2>5. buffer[k + 1] = ZeroHeader => k + 2 \in DOMAIN data /\ buffer[k + 2] = data[k + 2]
    <3>1. ASSUME buffer[k + 1] = ZeroHeader PROVE k + 1 # Len(data)
      BY <2>1, <2>2, <2>4, <3>1
    <3> QED BY <1>1, <1>2, <1>5, <1>7, <2>3, <2>4, <3>1
  <2>6. Opens(data, k, nalu)
    BY <1>4, <2>3, <2>4, <2>5 DEF Opens
  <2> QED BY <1>5, <1>7, <2>6
<1> QED BY <1>1, <1>5, <1>6, <1>7

\* What the client adds to mData for a packet begins what the packet does, and once.
Adds(p, add) ==
    /\ add # <<>> /\ Closed(add)
    /\ \A k, nalu : Opens(add, k, nalu) => nalu \in Claims(p)
    /\ \A k, l, nalu : Opens(add, k, nalu) /\ Opens(add, l, nalu) => k = l

\* A packet behind what the client writes in front of it: a NAL unit begins in front.
LEMMA BehindFront ==
    ASSUME UnitInv, NEW p, PacketOK(p), PacketOnce(p), p.pieces # <<>>,
           p.kind \in {"single", "aggregate", "fragment"}, NEW front \in Seq(Piece)
    PROVE  /\ front \o p.pieces \in Seq(Piece) /\ front \o p.pieces # <<>>
           /\ Closed(front \o p.pieces)
           /\ (front \o p.pieces)[Len(front) + 1] = p.pieces[1]
           /\ \A k \in 1 .. Len(front) : (front \o p.pieces)[k] = front[k]
           /\ \A k, nalu : Opens(front \o p.pieces, k, nalu) => k \in 1 .. Len(front)
PROOF
<1> PICK pieces : pieces = p.pieces
  OBVIOUS
<1>1. /\ pieces \in Seq(Piece) /\ Len(pieces) \in Nat \ {0} /\ DOMAIN pieces = 1 .. Len(pieces)
      /\ Len(front) \in Nat
  BY LenProperties, EmptySeq DEF PacketOK
<1> PICK buffer : buffer = front \o pieces
  OBVIOUS
<1>2. /\ buffer \in Seq(Piece) /\ Len(buffer) = Len(front) + Len(pieces)
      /\ \A j \in 1 .. Len(front) + Len(pieces) :
             buffer[j] = IF j <= Len(front) THEN front[j] ELSE pieces[j - Len(front)]
  BY <1>1, ConcatProperties
<1>3. DOMAIN buffer = 1 .. Len(front) + Len(pieces)
  BY <1>2, LenProperties
<1>4. \A i \in 1 .. Len(pieces) : buffer[Len(front) + i] = pieces[i]
  BY <1>1, <1>2
<1>5. buffer # <<>>
  BY <1>1, <1>2, EmptySeq
<1>6. buffer[Len(buffer)] = pieces[Len(pieces)] /\ buffer[Len(front) + 1] = pieces[1]
  BY <1>1, <1>2, <1>4
<1>7. Closed(buffer)
  BY <1>6 DEF Closed, PacketOnce
<1>8. ASSUME NEW k, NEW nalu, Opens(buffer, k, nalu) PROVE k \in 1 .. Len(front)
  <2>1. k \in 1 .. Len(front) + Len(pieces) /\ buffer[k] = StartCode
    BY <1>3, <1>8 DEF Opens
  <2>2. ASSUME k > Len(front) PROVE FALSE
    <3> PICK i \in Nat : i = k - Len(front)
      BY <1>1, <2>1, <2>2
    <3>1. i \in DOMAIN pieces /\ buffer[k] = pieces[i]
      BY <1>1, <1>2, <2>1, <2>2
    <3> QED BY <2>1, <3>1, PiecesAreNoStart
  <2> QED BY <1>1, <2>1, <2>2
<1>9. \A k \in 1 .. Len(front) : buffer[k] = front[k]
  BY <1>1, <1>2
<1> QED BY <1>2, <1>5, <1>6, <1>7, <1>8, <1>9

\* A payload taken for one NAL unit begins that NAL unit, or nothing that was sent.
LEMMA SingleAdds ==
    ASSUME UnitInv, NEW p, PacketOK(p), PacketOnce(p), p.pieces # <<>>,
           p.kind \in {"single", "aggregate", "fragment"}
    PROVE  <<StartCode>> \o Payload(p) \in Seq(Piece) /\ Adds(p, <<StartCode>> \o Payload(p))
PROOF
<1> PICK pieces : pieces = p.pieces
  OBVIOUS
<1>1. StartCode \in Piece /\ ZeroHeader \in Piece /\ LengthField \in Piece /\ pieces \in Seq(Piece)
  BY ClientPieces DEF UnitInv, PacketOK
<1>2. StartCode[1] = NoName /\ ZeroHeader[1] = NoName /\ LengthField[1] = NoName
      /\ ZeroHeader # StartCode /\ LengthField # StartCode
  BY DEF StartCode, ZeroHeader, LengthField, LengthSize, HeaderSize, NoName
<1>3. CASE p.kind = "single"
  <2> PICK front : front = <<StartCode>>
    OBVIOUS
  <2>1. front \in Seq(Piece) /\ Len(front) = 1 /\ front[1] = StartCode
    BY <1>1
  <2> PICK add : add = front \o pieces
    OBVIOUS
  <2>2. /\ add \in Seq(Piece) /\ add # <<>> /\ Closed(add) /\ add[2] = pieces[1]
        /\ \A k, nalu : Opens(add, k, nalu) => k = 1
    <3>1. /\ add \in Seq(Piece) /\ add # <<>> /\ Closed(add)
          /\ add[Len(front) + 1] = pieces[1]
          /\ \A k, nalu : Opens(add, k, nalu) => k \in 1 .. Len(front)
      BY <1>3, <2>1, BehindFront
    <3>2. Len(front) + 1 = 2 /\ 1 .. Len(front) = {1}
      BY <2>1
    <3> QED BY <3>1, <3>2
  <2>3. ASSUME NEW k, NEW nalu, Opens(add, k, nalu) PROVE nalu \in Claims(p)
    <3>1. /\ nalu # NoName /\ pieces[1] # ZeroHeader /\ 1 \in DOMAIN pieces
          /\ pieces[1][1] = nalu /\ pieces[1][2] = 0
      <4>1. k = 1 /\ k + 1 = 2
        BY <2>2, <2>3
      <4>2. pieces[1][1] # NoName
        BY <1>3 DEF PacketOnce
      <4>3. 1 \in DOMAIN pieces
        BY <1>1, EmptySeq, LenProperties
      <4> QED BY <1>2, <2>2, <2>3, <4>1, <4>2, <4>3 DEF Opens
    <3>2. Begins(pieces[1]) /\ nalu \notin Twice
      BY <2>3, <3>1 DEF Begins, Opens
    <3> QED BY <1>3, <3>1, <3>2, ClaimedNames
  <2>4. <<StartCode>> \o Payload(p) = add
    BY <1>3 DEF Payload
  <2> QED BY <2>2, <2>3, <2>4 DEF Adds
<1>4. CASE p.kind # "single"
  <2> PICK start : start = <<StartCode>>
    OBVIOUS
  <2> PICK header : header = <<ZeroHeader, LengthField>>
    OBVIOUS
  <2>0. /\ start \in Seq(Piece) /\ Len(start) = 1 /\ start[1] = StartCode
        /\ header \in Seq(Piece) /\ Len(header) = 2
        /\ header[1] = ZeroHeader /\ header[2] = LengthField
    BY <1>1
  <2> PICK front : front = start \o header
    OBVIOUS
  <2>1. /\ front \in Seq(Piece) /\ Len(front) = 3 /\ front[1] = StartCode
        /\ front[2] = ZeroHeader /\ front[3] = LengthField
    <3>1. /\ front \in Seq(Piece) /\ Len(front) = Len(start) + Len(header)
          /\ \A k \in 1 .. Len(start) + Len(header) :
                 front[k] = IF k <= Len(start) THEN start[k] ELSE header[k - Len(start)]
      BY <2>0, ConcatProperties
    <3> QED BY <2>0, <3>1
  <2> PICK add : add = front \o pieces
    OBVIOUS
  <2>2. /\ add \in Seq(Piece) /\ add # <<>> /\ Closed(add)
        /\ add[1] = StartCode /\ add[2] = ZeroHeader /\ add[3] = LengthField
        /\ \A k, nalu : Opens(add, k, nalu) => k \in 1 .. 3
    <3>1. /\ add \in Seq(Piece) /\ add # <<>> /\ Closed(add)
          /\ \A k \in 1 .. Len(front) : add[k] = front[k]
          /\ \A k, nalu : Opens(add, k, nalu) => k \in 1 .. Len(front)
      <4>1. add = front \o p.pieces /\ front \in Seq(Piece)
        BY <2>1
      <4>2. /\ front \o p.pieces \in Seq(Piece) /\ front \o p.pieces # <<>>
            /\ Closed(front \o p.pieces)
            /\ (front \o p.pieces)[Len(front) + 1] = p.pieces[1]
            /\ \A k \in 1 .. Len(front) : (front \o p.pieces)[k] = front[k]
            /\ \A k, nalu : Opens(front \o p.pieces, k, nalu) => k \in 1 .. Len(front)
        BY <4>1, BehindFront
      <4> QED BY <4>1, <4>2
    <3>2. 1 \in 1 .. Len(front) /\ 2 \in 1 .. Len(front) /\ 3 \in 1 .. Len(front)
      BY <2>1
    <3>3. add[1] = front[1] /\ add[2] = front[2] /\ add[3] = front[3]
      BY <3>1, <3>2
    <3> QED BY <2>1, <3>1, <3>3
  <2>3. ASSUME NEW k, NEW nalu, Opens(add, k, nalu) PROVE FALSE
    <3>1. k = 1
      <4>1. k = 1 \/ k = 2 \/ k = 3
        <5>1. k \in 1 .. 3
          BY <2>2, <2>3, Zenon
        <5> QED BY <5>1
      <4>2. add[k] = StartCode
        BY <2>3 DEF Opens
      <4> QED BY <1>2, <2>2, <4>1, <4>2
    <3>3. k + 1 = 2 /\ k + 2 = 3
      BY <3>1
    <3> QED BY <1>2, <2>2, <2>3, <3>3 DEF Opens
  <2>4. <<StartCode>> \o Payload(p) = add
    <3>1. Payload(p) = <<ZeroHeader, LengthField>> \o pieces
      BY <1>4 DEF Payload
    <3>2. start \in Seq(Piece) /\ header \in Seq(Piece) /\ pieces \in Seq(Piece)
      BY <1>1, <2>0
    <3>3. (start \o header) \o pieces = start \o (header \o pieces)
      BY ONLY <3>2, ConcatAssociative
    <3> QED BY <3>1, <3>3
  <2> QED BY <2>2, <2>3, <2>4 DEF Adds
<1> QED BY <1>3, <1>4

\* Unpacked, an aggregate begins what it holds.
LEMMA AggregateAdds ==
    ASSUME UnitInv, NEW p, PacketOK(p), PacketOnce(p), p.pieces # <<>>,
           p.kind \in {"single", "aggregate", "fragment"}
    PROVE  WithStartCodes(p.pieces) \in Seq(Piece) /\ Adds(p, WithStartCodes(p.pieces))
PROOF
<1> PICK pieces : pieces = p.pieces
  OBVIOUS
<1> PICK add : add = WithStartCodes(pieces)
  OBVIOUS
<1> PICK size : size = Len(pieces)
  OBVIOUS
<1>1. StartCode \in Piece /\ pieces \in Seq(Piece)
  BY ClientPieces DEF UnitInv, PacketOK
<1>2. size \in Nat \ {0} /\ DOMAIN pieces = 1 .. size
  BY <1>1, EmptySeq, LenProperties
<1>3. /\ add \in Seq(Piece) /\ Len(add) = 2 * size
      /\ \A k \in 1 .. 2 * size : add[k] = IF k % 2 = 1 THEN StartCode ELSE pieces[k \div 2]
  BY <1>1, StartCodes
<1>4. DOMAIN add = 1 .. 2 * size
  BY <1>3, LenProperties
<1>5. add # <<>> /\ Closed(add)
  <2>1. 2 * size \in 1 .. 2 * size /\ (2 * size) % 2 # 1 /\ (2 * size) \div 2 = size
    <3>1. size \in Nat /\ size # 0
      BY <1>2
    <3> QED BY ONLY <3>1
  <2>2. add[2 * size] = pieces[size]
    BY <1>3, <2>1
  <2>3. add # <<>>
    BY <1>2, <1>3, EmptySeq
  <2>4. pieces[size][1] # NoName
    BY DEF PacketOnce
  <2> QED BY <1>3, <2>2, <2>3, <2>4 DEF Closed
<1>6. ASSUME NEW k, NEW nalu, Opens(add, k, nalu)
      PROVE  \E n \in DOMAIN pieces :
                 k = 2 * n - 1 /\ Begins(pieces[n]) /\ pieces[n][1] = nalu
  <2>1. /\ k \in 1 .. 2 * size /\ k + 1 \in 1 .. 2 * size /\ add[k] = StartCode /\ nalu # NoName
        /\ \/ add[k + 1][1] = nalu /\ add[k + 1][2] = 0
           \/ /\ k + 2 \in 1 .. 2 * size /\ add[k + 1] = ZeroHeader /\ add[k + 2][1] = nalu
    BY <1>4, <1>6 DEF Opens
  <2>2. k % 2 = 1
    <3>1. ASSUME k % 2 # 1 PROVE FALSE
      <4>1. k \div 2 \in DOMAIN pieces
        BY <1>2, <2>1, <3>1
      <4>2. pieces[k \div 2] = StartCode
        BY <1>3, <2>1, <3>1
      <4> QED BY <4>1, <4>2, PiecesAreNoStart
    <3> QED BY <3>1
  <2> PICK n \in Nat : k = 2 * n - 1
    <3>1. (k + 1) \div 2 \in Nat /\ k = 2 * ((k + 1) \div 2) - 1
      BY <2>1, <2>2
    <3> QED BY <3>1
  <2>3. n \in 1 .. size /\ (k + 1) % 2 # 1 /\ (k + 1) \div 2 = n
    BY <1>2, <2>1
  <2>4. add[k + 1] = pieces[n]
    BY <1>3, <2>1, <2>3
  <2>5. ~(k + 2 \in 1 .. 2 * size /\ add[k + 2][1] = nalu)
    <3>1. ASSUME k + 2 \in 1 .. 2 * size PROVE add[k + 2] = StartCode
      <4>1. (k + 2) % 2 = 1
        BY <2>1, <2>2
      <4> QED BY <1>3, <3>1, <4>1
    <3>2. StartCode[1] = NoName
      BY DEF StartCode, NoName
    <3> QED BY <2>1, <3>1, <3>2
  <2>6. pieces[n][1] = nalu /\ pieces[n][2] = 0
    BY <2>1, <2>4, <2>5
  <2>7. Begins(pieces[n])
    BY <2>1, <2>6 DEF Begins
  <2> QED BY <1>2, <2>3, <2>6, <2>7
<1>7. ASSUME NEW k, NEW nalu, Opens(add, k, nalu) PROVE nalu \in Claims(p)
  <2>1. PICK n \in DOMAIN pieces : Begins(pieces[n]) /\ pieces[n][1] = nalu
    BY <1>6, <1>7
  <2>2. nalu \notin Twice
    BY <1>7 DEF Opens
  <2> QED BY <2>1, <2>2, ClaimedNames
<1>8. ASSUME NEW k, NEW l, NEW nalu, Opens(add, k, nalu), Opens(add, l, nalu) PROVE k = l
  <2>1. PICK m \in DOMAIN pieces : k = 2 * m - 1 /\ Begins(pieces[m]) /\ pieces[m][1] = nalu
    BY <1>6, <1>8
  <2>2. PICK n \in DOMAIN pieces : l = 2 * n - 1 /\ Begins(pieces[n]) /\ pieces[n][1] = nalu
    BY <1>6, <1>8
  <2>3. m = n
    BY <2>1, <2>2 DEF PacketOnce
  <2> QED BY <2>1, <2>2, <2>3
<1> QED BY <1>3, <1>5, <1>7, <1>8 DEF Adds

\* A fragment begins the NAL unit it is the first of, the others nothing.
LEMMA FragmentAdds ==
    ASSUME UnitInv, NEW p, PacketOK(p), PacketOnce(p), p.pieces # <<>>,
           p.kind \in {"single", "aggregate", "fragment"},
           NEW add, add = (IF p.start THEN <<StartCode, NaluHeader(p)>> ELSE <<>>) \o p.pieces
    PROVE  add \in Seq(Piece) /\ Adds(p, add)
PROOF
<1> PICK pieces : pieces = p.pieces
  OBVIOUS
<1>1. StartCode \in Piece /\ ZeroHeader \in Piece /\ pieces \in Seq(Piece)
      /\ 1 \in DOMAIN pieces /\ pieces[1] \in Piece
  BY ClientPieces, EmptySeq, ElementOfSeq, LenProperties DEF UnitInv, PacketOK
<1>2. CASE ~p.start
  <2> PICK front : front = <<>>
    OBVIOUS
  <2>1. front \in Seq(Piece) /\ Len(front) = 0
    BY EmptySeq
  <2>2. /\ add \in Seq(Piece) /\ add # <<>> /\ Closed(add)
        /\ \A k, nalu : Opens(add, k, nalu) => k \in 1 .. 0
    BY <1>2, <2>1, BehindFront
  <2>3. \A k, nalu : ~Opens(add, k, nalu)
    BY <2>2
  <2> QED BY <2>2, <2>3 DEF Adds
<1>3. CASE p.start
  <2>1. NaluHeader(p) \in Piece
        /\ NaluHeader(p) \in {ZeroHeader, <<pieces[1][1], 0, HeaderSize>>}
    <3>1. pieces[1][1] \in Nat \X Nat /\ HeaderSize \in Nat
      BY <1>1 DEF Piece, HeaderSize
    <3>2. NaluHeader(p) \in {ZeroHeader, <<pieces[1][1], 0, HeaderSize>>}
      BY DEF NaluHeader
    <3>3. <<pieces[1][1], 0, HeaderSize>> \in Piece
      <4> PICK name : name = pieces[1][1]
        OBVIOUS
      <4> PICK size : size = HeaderSize
        OBVIOUS
      <4> QED BY <3>1 DEF Piece
    <3> QED BY <1>1, <3>2, <3>3
  <2> PICK header : header = NaluHeader(p)
    OBVIOUS
  <2> PICK front : front = <<StartCode, header>>
    OBVIOUS
  <2>2. front \in Seq(Piece) /\ Len(front) = 2 /\ front[1] = StartCode /\ front[2] = header
    BY <1>1, <2>1
  <2>3. /\ add \in Seq(Piece) /\ add # <<>> /\ Closed(add) /\ add[3] = pieces[1]
        /\ add[1] = StartCode /\ add[2] = header
        /\ \A k, nalu : Opens(add, k, nalu) => k \in 1 .. 2
    <3>1. /\ add \in Seq(Piece) /\ add # <<>> /\ Closed(add)
          /\ add[Len(front) + 1] = pieces[1]
          /\ \A k \in 1 .. Len(front) : add[k] = front[k]
          /\ \A k, nalu : Opens(add, k, nalu) => k \in 1 .. Len(front)
      <4>1. add = front \o p.pieces /\ front \in Seq(Piece)
        BY <1>3, <2>2
      <4>2. /\ front \o p.pieces \in Seq(Piece) /\ front \o p.pieces # <<>>
            /\ Closed(front \o p.pieces)
            /\ (front \o p.pieces)[Len(front) + 1] = p.pieces[1]
            /\ \A k \in 1 .. Len(front) : (front \o p.pieces)[k] = front[k]
            /\ \A k, nalu : Opens(front \o p.pieces, k, nalu) => k \in 1 .. Len(front)
        BY <4>1, BehindFront
      <4> QED BY <4>1, <4>2
    <3>2. Len(front) + 1 = 3 /\ 1 \in 1 .. Len(front) /\ 2 \in 1 .. Len(front)
      BY <2>2
    <3>3. add[1] = front[1] /\ add[2] = front[2]
      BY <3>1, <3>2
    <3> QED BY <2>2, <3>1, <3>2, <3>3
  <2>4. header # StartCode
    <3>1. ZeroHeader # StartCode
      BY DEF ZeroHeader, StartCode, HeaderSize
    <3>2. <<pieces[1][1], 0, HeaderSize>> # StartCode
      <4>1. HeaderSize # 0
        BY DEF HeaderSize
      <4> PICK size : size = HeaderSize
        OBVIOUS
      <4> PICK name : name = pieces[1][1]
        OBVIOUS
      <4> QED BY <4>1 DEF StartCode
    <3> QED BY <2>1, <3>1, <3>2
  <2>5. ASSUME NEW k, NEW nalu, Opens(add, k, nalu) PROVE k = 1 /\ nalu \in Claims(p)
    <3>1. add[1] = StartCode /\ add[2] = header /\ add[3] = pieces[1]
      BY <2>3
    <3>2. k = 1
      <4>1. k = 1 \/ k = 2
        BY <2>3, <2>5
      <4>2. add[k] = StartCode
        BY <2>5 DEF Opens
      <4> QED BY <2>4, <3>1, <4>1, <4>2
    <3>3. k + 1 = 2 /\ k + 2 = 3
      BY <3>2
    <3>4. pieces[1][1] = nalu
      <4>1. \/ header[1] = nalu /\ nalu # NoName
            \/ pieces[1][1] = nalu
        BY <2>5, <3>1, <3>3 DEF Opens
      <4>2. ZeroHeader[1] = NoName
        BY DEF ZeroHeader, NoName
      <4> PICK name : name = pieces[1][1]
        OBVIOUS
      <4> PICK size : size = HeaderSize
        OBVIOUS
      <4>3. <<name, 0, size>>[1] = name
        OBVIOUS
      <4> QED BY <2>1, <4>1, <4>2, <4>3
    <3>5. Begins(pieces[1]) /\ nalu \notin Twice
      BY <1>3, <2>5 DEF PacketOnce, Opens
    <3> QED BY <1>1, <3>2, <3>4, <3>5, ClaimedNames
  <2> QED BY <2>3, <2>5 DEF Adds
<1> QED BY <1>2, <1>3

\* Whatever a packet of video is taken for, what it adds to mData begins what it does.
LEMMA VideoAdds ==
    ASSUME UnitInv, DeliveredInv, NEW p, PacketOK(p), PacketOnce(p), ProcessVideo(p)
    PROVE  \E add \in Seq(Piece) :
               /\ Adds(p, add)
               /\ \/ delivered' = Append(Before, mData \o add) /\ mData' = <<>>
                  \/ delivered' = Before /\ mData' = mData \o add
PROOF
<1>1. /\ StartCode \in Piece /\ mData \in Seq(Piece) /\ p.pieces \in Seq(Piece)
      /\ p.pieces # <<>> /\ p.kind \in {"single", "aggregate", "fragment"}
      /\ codec \in {"H264", "HEVC", "AAC"}
  BY ClientPieces DEF UnitInv, DeliveredInv, PacketOK, ProcessVideo
<1>2. CASE ProcessSingle(p)
  <2> PICK start : start = <<StartCode>>
    OBVIOUS
  <2> PICK payload : payload = Payload(p)
    OBVIOUS
  <2>1. start \o payload \in Seq(Piece) /\ Adds(p, start \o payload)
    BY <1>1, SingleAdds
  <2>2. (mData \o start) \o payload = mData \o (start \o payload)
    <3>1. start \in Seq(Piece) /\ mData \in Seq(Piece)
      BY <1>1
    <3>2. payload \in Seq(Piece)
      <4>1. <<ZeroHeader, LengthField>> \in Seq(Piece)
        BY ClientPieces DEF UnitInv
      <4> QED BY <1>1, <4>1, ConcatProperties DEF Payload
    <3> QED BY ONLY <3>1, <3>2, ConcatAssociative
  <2>3. delivered' = Append(Before, mData \o (start \o payload)) /\ mData' = <<>>
    BY <1>2, <2>2 DEF ProcessSingle, Deliver
  <2> QED BY <2>1, <2>3
<1>3. CASE ProcessAggregate(p)
  <2>1. WithStartCodes(p.pieces) \in Seq(Piece) /\ Adds(p, WithStartCodes(p.pieces))
    BY <1>1, AggregateAdds
  <2> QED BY <1>3, <2>1 DEF ProcessAggregate, Deliver
<1>4. CASE ProcessFragment(p)
  <2> DEFINE header == IF p.start THEN <<StartCode, NaluHeader(p)>> ELSE <<>>
             data == mData \o header \o p.pieces
             add == header \o p.pieces
  <2>1. NaluHeader(p) \in Piece
    <3>1. p.pieces[1] \in Piece
      BY <1>1, EmptySeq, ElementOfSeq
    <3>2. p.pieces[1][1] \in Nat \X Nat /\ HeaderSize \in Nat
      BY <3>1 DEF Piece, HeaderSize
    <3>3. NaluHeader(p) \in {ZeroHeader, <<p.pieces[1][1], 0, HeaderSize>>}
      BY DEF NaluHeader
    <3>4. <<p.pieces[1][1], 0, HeaderSize>> \in Piece
      <4> PICK name : name = p.pieces[1][1]
        OBVIOUS
      <4> PICK size : size = HeaderSize
        OBVIOUS
      <4> QED BY <3>2 DEF Piece
    <3> QED BY <1>1, <3>3, <3>4, ClientPieces
  <2>2. header \in Seq(Piece)
    <3>1. <<StartCode, NaluHeader(p)>> \in Seq(Piece)
      BY <1>1, <2>1
    <3>2. <<>> \in Seq(Piece)
      BY EmptySeq
    <3>3. CASE p.start
      BY <3>1, <3>3
    <3>4. CASE ~p.start
      BY <3>2, <3>4
    <3> QED BY <3>3, <3>4
  <2>3. add \in Seq(Piece) /\ Adds(p, add)
    BY <1>1, FragmentAdds
  <2>4. /\ p.end => Deliver(data)
        /\ ~p.end => mData' = data /\ delivered' = Before
    BY <1>4 DEF ProcessFragment
  <2> HIDE DEF header
  <2>5. data = mData \o add
    <3> PICK pieces : pieces = p.pieces
      OBVIOUS
    <3>1. mData \in Seq(Piece) /\ header \in Seq(Piece) /\ pieces \in Seq(Piece)
      BY <1>1, <2>2
    <3>2. (mData \o header) \o pieces = mData \o (header \o pieces)
      BY ONLY <3>1, ConcatAssociative
    <3> QED BY <3>2
  <2> HIDE DEF data, add
  <2>6. \/ delivered' = Append(Before, data) /\ mData' = <<>>
        \/ delivered' = Before /\ mData' = data
    BY <2>4 DEF Deliver
  <2> QED BY <2>3, <2>5, <2>6
<1> QED BY <1>2, <1>3, <1>4 DEF ProcessVideo

\* Buffers in which no NAL unit begins twice.
Apart(buffers) ==
    \A b \in DOMAIN buffers :
        /\ OpenedOnce(buffers[b])
        /\ \A nalu \in Opened(buffers[b]) :
               \A c \in DOMAIN buffers : nalu \in Opened(buffers[c]) => b = c

\* A buffer more, in which other NAL units begin.
LEMMA AppendApart ==
    ASSUME NEW buffers \in Seq(Seq(Piece)), NEW s \in Seq(Piece), Apart(buffers), OpenedOnce(s),
           \A b \in DOMAIN buffers : \A nalu \in Opened(buffers[b]) : nalu \notin Opened(s)
    PROVE  /\ Append(buffers, s) \in Seq(Seq(Piece)) /\ Apart(Append(buffers, s))
           /\ \A b \in DOMAIN Append(buffers, s) : \A nalu \in Opened(Append(buffers, s)[b]) :
                 \/ nalu \in Opened(s)
                 \/ \E c \in DOMAIN buffers : nalu \in Opened(buffers[c])
PROOF
<1> PICK all : all = Append(buffers, s)
  OBVIOUS
<1>1. /\ all \in Seq(Seq(Piece)) /\ DOMAIN all = 1 .. Len(buffers) + 1 /\ Len(buffers) \in Nat
      /\ all[Len(buffers) + 1] = s /\ \A k \in 1 .. Len(buffers) : all[k] = buffers[k]
      /\ DOMAIN buffers = 1 .. Len(buffers)
  BY AppendProperties, LenProperties
<1>2. \A b \in DOMAIN all : \/ b \in DOMAIN buffers /\ all[b] = buffers[b]
                            \/ b = Len(buffers) + 1 /\ all[b] = s
  BY <1>1
<1>3. \A b \in DOMAIN all : \A nalu \in Opened(all[b]) :
          nalu \in Opened(s) \/ \E c \in DOMAIN buffers : nalu \in Opened(buffers[c])
  BY <1>2
<1>4. ASSUME NEW b \in DOMAIN all
      PROVE  /\ OpenedOnce(all[b])
             /\ \A nalu \in Opened(all[b]) :
                    \A c \in DOMAIN all : nalu \in Opened(all[c]) => b = c
  <2>1. CASE b \in DOMAIN buffers /\ all[b] = buffers[b]
    BY <1>2, <2>1 DEF Apart
  <2>2. CASE b = Len(buffers) + 1 /\ all[b] = s
    BY <1>2, <2>2
  <2> QED BY <1>2, <2>1, <2>2
<1> QED BY <1>1, <1>3, <1>4 DEF Apart

\* In a buffer without two pieces, or without start codes, nothing begins.
LEMMA OpensNothing ==
    ASSUME NEW s \in Seq(Piece), \/ Len(s) <= 1
                                 \/ \A n \in DOMAIN s : s[n] # StartCode
    PROVE  Opened(s) = {} /\ OpenedOnce(s)
PROOF
<1>1. DOMAIN s = 1 .. Len(s) /\ Len(s) \in Nat
  BY LenProperties
<1>2. \A k, nalu : ~Opens(s, k, nalu)
  BY <1>1 DEF Opens
<1>3. Opened(s) = {}
  BY <1>2 DEF Opened
<1> QED BY <1>3 DEF OpenedOnce

\* With the codec data delivered or not, the buffers are apart.
LEMMA BeforeApart ==
    ASSUME UnitInv, DeliveredInv, Apart(delivered)
    PROVE  /\ Before \in Seq(Seq(Piece)) /\ Apart(Before)
           /\ \A b \in DOMAIN Before : \A nalu \in Opened(Before[b]) :
                  \E c \in DOMAIN delivered : nalu \in Opened(delivered[c])
PROOF
<1> PICK data : data = <<CodecData>>
  OBVIOUS
<1>1. data \in Seq(Piece) /\ Len(data) <= 1 /\ delivered \in Seq(Seq(Piece))
  BY ClientPieces DEF UnitInv, DeliveredInv
<1>2. Opened(data) = {} /\ OpenedOnce(data)
  BY ONLY <1>1, OpensNothing
<1>3. CASE mSentCSD
  BY <1>1, <1>3 DEF Before
<1>4. CASE ~mSentCSD
  <2>1. Before = Append(delivered, data)
    BY <1>4 DEF Before
  <2>2. /\ Append(delivered, data) \in Seq(Seq(Piece)) /\ Apart(Append(delivered, data))
        /\ \A b \in DOMAIN Append(delivered, data) :
               \A nalu \in Opened(Append(delivered, data)[b]) :
                   \/ nalu \in Opened(data)
                   \/ \E c \in DOMAIN delivered : nalu \in Opened(delivered[c])
    BY <1>1, <1>2, AppendApart
  <2> QED BY <1>2, <2>1, <2>2
<1> QED BY <1>3, <1>4

\* A packet arrives: what began in it begins in mData or in a buffer now.
LEMMA ReceivedApart ==
    ASSUME IInv, OnceInv, ApartInv, wire # <<>>, wire' = Tail(wire),
           UNCHANGED <<packetizerVars, doubled>>,
           NEW p, p = Head(wire), NEW data \in Seq(Piece), mData' = data,
           Closed(data), OpenedOnce(data),
           NEW buffers \in Seq(Seq(Piece)), delivered' = buffers, Apart(buffers),
           \A nalu \in Opened(data) : nalu \in Opened(mData) \/ nalu \in Claims(p),
           \A b \in DOMAIN buffers : \A nalu \in Opened(buffers[b]) :
               /\ nalu \notin Opened(data)
               /\ \/ nalu \in Opened(mData) \/ nalu \in Claims(p)
                  \/ \E c \in DOMAIN delivered : nalu \in Opened(delivered[c])
    PROVE  OnceInv' /\ ApartInv'
PROOF
<1>1. UNCHANGED <<codec, mNalus, mCurrNalu, mIsFirstPack, mOffset, sender, sent>>
  BY DEF packetizerVars
<1>2. /\ \A q : Claims(q)' = Claims(q) /\ (PacketOnce(q) => PacketOnce(q)')
      /\ \A s : Opened(s)' = Opened(s) /\ (OpenedOnce(s) => OpenedOnce(s)')
  BY <1>1, SameNames
<1>3. HeaderSize' = HeaderSize /\ \A nalu : Ahead(nalu)' = Ahead(nalu)
  BY <1>1 DEF HeaderSize, Ahead, IsBig
<1>0. PICK w : w = wire'
  OBVIOUS
<1>4. /\ 1 \in DOMAIN wire /\ p = wire[1]
      /\ \A k \in DOMAIN w : k # 0 /\ k + 1 \in DOMAIN wire /\ w[k] = wire[k + 1]
      /\ \A k, l \in DOMAIN w : k + 1 = l + 1 => k = l
      /\ \A k \in DOMAIN w : k + 1 # 1
  <2> PICK S : wire \in Seq(S)
    BY DEF IInv, WireInv
  <2>1. Len(wire) \in Nat \ {0} /\ DOMAIN wire = 1 .. Len(wire) /\ Head(wire) = wire[1]
    BY EmptySeq, LenProperties
  <2>2. /\ w \in Seq(S) /\ Len(w) = Len(wire) - 1 /\ DOMAIN w = 1 .. Len(w)
        /\ \A k \in 1 .. Len(w) : w[k] = wire[k + 1]
    BY <1>0, HeadTailProperties, LenProperties
  <2> QED BY <2>1, <2>2
<1>5. /\ \A nalu \in Claims(p) : ~Ahead(nalu) /\ nalu \notin Opened(mData)
      /\ \A j \in DOMAIN w : \A nalu \in Claims(w[j]) :
            /\ ~Ahead(nalu) /\ nalu \notin Opened(mData) /\ nalu \notin Claims(p)
            /\ \A k \in DOMAIN w : nalu \in Claims(w[k]) => j = k
  <2>1. \A nalu \in Claims(p) : ~Ahead(nalu) /\ nalu \notin Opened(mData)
    BY <1>4 DEF ApartInv, WireApart
  <2>2. ASSUME NEW j \in DOMAIN w, NEW nalu \in Claims(w[j])
        PROVE  /\ ~Ahead(nalu) /\ nalu \notin Opened(mData) /\ nalu \notin Claims(p)
               /\ \A k \in DOMAIN w : nalu \in Claims(w[k]) => j = k
    <3>1. /\ ~Ahead(nalu) /\ nalu \notin Opened(mData)
          /\ \A k \in DOMAIN wire : nalu \in Claims(wire[k]) => j + 1 = k
      BY <1>4 DEF ApartInv, WireApart
    <3> QED BY <1>4, <3>1
  <2> QED BY <2>1, <2>2
<1>6. /\ \A b \in DOMAIN delivered : \A nalu \in Opened(delivered[b]) :
            /\ ~Ahead(nalu) /\ nalu \notin Opened(mData) /\ nalu \notin Claims(p)
            /\ \A j \in DOMAIN w : nalu \notin Claims(w[j])
      /\ \A nalu \in Opened(mData) : ~Ahead(nalu)
  BY <1>4 DEF ApartInv, DeliveredApart
<1>7. OnceInv'
  <2>1. \A j \in DOMAIN w : PacketOnce(w[j])'
    BY <1>2, <1>4 DEF OnceInv
  <2>2. \A b \in DOMAIN buffers : OpenedOnce(buffers[b])'
    BY <1>2 DEF Apart
  <2>3. OpenedOnce(data)'
    BY <1>2
  <2> QED BY <1>0, <1>1, <1>3, <2>1, <2>2, <2>3 DEF OnceInv, Closed
<1> PICK opened : opened = Opened(data)
  OBVIOUS
<1>8. Opened(mData)' = opened
  BY <1>2
<1>9. WireApart'
  <2>1. \A j \in DOMAIN w : \A nalu \in Claims(w[j]) : nalu \notin opened
    BY <1>5
  <2>2. \A j \in DOMAIN w : \A nalu \in Claims(w[j]) :
            /\ ~Ahead(nalu)' /\ nalu \notin opened
            /\ \A k \in DOMAIN w : nalu \in Claims(w[k]) => j = k
    BY ONLY <1>3, <1>5, <2>1
  <2>3. \A j \in DOMAIN w : \A nalu \in Claims(w[j])' :
            /\ ~Ahead(nalu)' /\ nalu \notin opened
            /\ \A k \in DOMAIN w : nalu \in Claims(w[k])' => j = k
    BY ONLY <1>2, <2>2
  <2> QED BY ONLY <1>0, <1>8, <2>3 DEF WireApart
<1>10. DeliveredApart'
  <2>1. \A b \in DOMAIN buffers : \A nalu \in Opened(buffers[b]) :
          /\ ~Ahead(nalu) /\ nalu \notin opened
          /\ \A j \in DOMAIN w : nalu \notin Claims(w[j])
          /\ \A c \in DOMAIN buffers : nalu \in Opened(buffers[c]) => b = c
    <3> TAKE b \in DOMAIN buffers
    <3> TAKE nalu \in Opened(buffers[b])
    <3>1. /\ nalu \notin opened
          /\ \/ nalu \in Opened(mData) \/ nalu \in Claims(p)
             \/ \E c \in DOMAIN delivered : nalu \in Opened(delivered[c])
      OBVIOUS
    <3>2. \A c \in DOMAIN buffers : nalu \in Opened(buffers[c]) => b = c
      BY DEF Apart
    <3>3. ~Ahead(nalu)
      BY ONLY <1>5, <1>6, <3>1
    <3>4. \A j \in DOMAIN w : nalu \notin Claims(w[j])
      BY ONLY <1>5, <1>6, <3>1
    <3> QED BY <3>1, <3>2, <3>3, <3>4
  <2>2. \A b \in DOMAIN buffers : \A nalu \in Opened(buffers[b])' :
          /\ ~Ahead(nalu)' /\ nalu \notin opened
          /\ \A j \in DOMAIN w : nalu \notin Claims(w[j])'
          /\ \A c \in DOMAIN buffers : nalu \in Opened(buffers[c])' => b = c
    BY <1>2, <1>3, <2>1
  <2> QED BY <1>0, <1>8, <2>2 DEF DeliveredApart
<1>11. \A nalu \in opened : ~Ahead(nalu)'
  BY <1>3, <1>5, <1>6
<1> QED BY <1>7, <1>8, <1>9, <1>10, <1>11 DEF ApartInv

\* What a packet adds to mData, and mData as it was, begin no NAL unit twice.
LEMMA JoinedOnce ==
    ASSUME OnceInv, mData \in Seq(Piece), NEW p, NEW add \in Seq(Piece), Adds(p, add),
           \A nalu \in Claims(p) : nalu \notin Opened(mData)
    PROVE  /\ mData \o add \in Seq(Piece) /\ Closed(mData \o add) /\ OpenedOnce(mData \o add)
           /\ \A nalu \in Opened(mData \o add) : nalu \in Opened(mData) \/ nalu \in Claims(p)
PROOF
<1> PICK data : data = mData \o add
  OBVIOUS
<1>1. /\ Len(mData) \in Nat /\ Len(add) \in Nat \ {0}
  BY LenProperties, EmptySeq DEF Adds
<1>2. /\ data \in Seq(Piece) /\ Len(data) = Len(mData) + Len(add)
      /\ \A j \in 1 .. Len(mData) + Len(add) :
             data[j] = IF j <= Len(mData) THEN mData[j] ELSE add[j - Len(mData)]
  BY ConcatProperties
<1>3. Closed(data)
  <2>1. data[Len(mData) + Len(add)] = add[Len(add)]
    BY <1>1, <1>2
  <2> QED BY <1>2, <2>1 DEF Adds, Closed
<1>4. ASSUME NEW k, NEW nalu, Opens(data, k, nalu)
      PROVE  /\ k \in Nat
             /\ \/ k <= Len(mData) /\ Opens(mData, k, nalu) /\ nalu \in Opened(mData)
                \/ k > Len(mData) /\ Opens(add, k - Len(mData), nalu) /\ nalu \in Claims(p)
  <2>1. /\ k \in Nat
        /\ \/ k <= Len(mData) /\ Opens(mData, k, nalu)
           \/ k > Len(mData) /\ Opens(add, k - Len(mData), nalu)
    BY <1>4, Joined DEF OnceInv
  <2>2. Opens(mData, k, nalu) => nalu \in Opened(mData)
    <3>1. Opens(mData, k, nalu) => k \in DOMAIN mData
      BY DEF Opens
    <3> QED BY <3>1, OpenedNames
  <2>3. Opens(add, k - Len(mData), nalu) => nalu \in Claims(p)
    BY DEF Adds
  <2> QED BY <2>1, <2>2, <2>3
<1>5. \A nalu \in Opened(data) : nalu \in Opened(mData) \/ nalu \in Claims(p)
  BY <1>2, <1>4, OpenedNames
<1>6. OpenedOnce(data)
  <2> SUFFICES ASSUME NEW nalu \in Opened(data), NEW k \in DOMAIN data, NEW l \in DOMAIN data,
                      Opens(data, k, nalu), Opens(data, l, nalu)
               PROVE  k = l
    BY DEF OpenedOnce
  <2>1. /\ k \in Nat
        /\ \/ k <= Len(mData) /\ Opens(mData, k, nalu) /\ nalu \in Opened(mData)
           \/ k > Len(mData) /\ Opens(add, k - Len(mData), nalu) /\ nalu \in Claims(p)
    BY <1>4
  <2>2. /\ l \in Nat
        /\ \/ l <= Len(mData) /\ Opens(mData, l, nalu) /\ nalu \in Opened(mData)
           \/ l > Len(mData) /\ Opens(add, l - Len(mData), nalu) /\ nalu \in Claims(p)
    BY <1>4
  <2>3. CASE nalu \in Opened(mData)
    <3>1. Opens(mData, k, nalu) /\ Opens(mData, l, nalu)
      BY <2>1, <2>2, <2>3
    <3>2. k \in DOMAIN mData /\ l \in DOMAIN mData
      BY <3>1 DEF Opens
    <3> QED BY <2>3, <3>1, <3>2 DEF OnceInv, OpenedOnce
  <2>4. CASE nalu \in Claims(p)
    <3>1. Opens(add, k - Len(mData), nalu) /\ Opens(add, l - Len(mData), nalu)
      BY <2>1, <2>2, <2>4
    <3>2. k - Len(mData) = l - Len(mData)
      BY <3>1 DEF Adds
    <3> QED BY <1>1, <2>1, <2>2, <3>2
  <2> QED BY <2>1, <2>3, <2>4
<1> QED BY <1>2, <1>3, <1>5, <1>6

\* A packet arrives, and is processed whichever way.
LEMMA ArriveApart ==
    ASSUME IInv, OnceInv, ApartInv, Arrive
    PROVE  OnceInv' /\ ApartInv'
PROOF
<1> PICK p : p = Head(wire)
  OBVIOUS
<1>1. /\ UnitInv /\ WireInv /\ DeliveredInv /\ wire # <<>> /\ wire' = Tail(wire)
      /\ UNCHANGED <<packetizerVars, doubled>> /\ Receive(p)
  BY DEF IInv, Arrive
<1>2. p = wire[1] /\ 1 \in DOMAIN wire
  <2> PICK S : wire \in Seq(S)
    BY <1>1 DEF WireInv
  <2> QED BY <1>1, EmptySeq, LenProperties
<1>3. /\ PacketOK(p) /\ PacketOnce(p)
      /\ \A nalu \in Claims(p) : nalu \notin Opened(mData)
      /\ \A b \in DOMAIN delivered : \A nalu \in Opened(delivered[b]) :
            nalu \notin Claims(p) /\ nalu \notin Opened(mData)
  BY <1>1, <1>2 DEF OnceInv, WireInv, ApartInv, WireApart, DeliveredApart
<1>4. /\ mData \in Seq(Piece) /\ delivered \in Seq(Seq(Piece)) /\ Apart(delivered)
      /\ Closed(mData) /\ OpenedOnce(mData)
  BY <1>1 DEF DeliveredInv, OnceInv, ApartInv, DeliveredApart, Apart
<1>5. CASE ProcessVideo(p)
  <2> PICK buffers : buffers = Before
    OBVIOUS
  <2>1. /\ buffers \in Seq(Seq(Piece)) /\ Apart(buffers)
        /\ \A b \in DOMAIN buffers : \A nalu \in Opened(buffers[b]) :
               \E c \in DOMAIN delivered : nalu \in Opened(delivered[c])
    BY <1>1, <1>4, BeforeApart
  <2> PICK add \in Seq(Piece) :
          /\ Adds(p, add)
          /\ \/ delivered' = Append(Before, mData \o add) /\ mData' = <<>>
             \/ delivered' = Before /\ mData' = mData \o add
    BY <1>1, <1>3, <1>5, VideoAdds
  <2> PICK data : data = mData \o add
    OBVIOUS
  <2>2. /\ data \in Seq(Piece) /\ Closed(data) /\ OpenedOnce(data)
        /\ \A nalu \in Opened(data) : nalu \in Opened(mData) \/ nalu \in Claims(p)
    BY <1>3, <1>4, JoinedOnce
  <2>3. \A b \in DOMAIN buffers : \A nalu \in Opened(buffers[b]) : nalu \notin Opened(data)
    BY <1>3, <2>1, <2>2
  <2>4. CASE delivered' = Append(buffers, data) /\ mData' = <<>>
    <3>0. PICK all : all = Append(buffers, data)
      OBVIOUS
    <3> PICK none : none = <<>>
      OBVIOUS
    <3>1. /\ all \in Seq(Seq(Piece)) /\ Apart(all)
          /\ \A b \in DOMAIN all : \A nalu \in Opened(all[b]) :
                 \/ nalu \in Opened(data)
                 \/ \E c \in DOMAIN buffers : nalu \in Opened(buffers[c])
      BY ONLY <2>1, <2>2, <2>3, <3>0, AppendApart
    <3>2. none \in Seq(Piece) /\ Len(none) <= 1 /\ Closed(none)
      BY EmptySeq DEF Closed
    <3>3. Opened(none) = {} /\ OpenedOnce(none)
      BY ONLY <3>2, OpensNothing
    <3>4. \A b \in DOMAIN all : \A nalu \in Opened(all[b]) :
              \/ nalu \in Opened(mData) \/ nalu \in Claims(p)
              \/ \E c \in DOMAIN delivered : nalu \in Opened(delivered[c])
      BY <2>1, <2>2, <3>1
    <3>5. mData' = none /\ delivered' = all
      BY <2>4, <3>0
    <3>6. \A b \in DOMAIN all : \A nalu \in Opened(all[b]) : nalu \notin Opened(none)
      BY <3>3
    <3>7. p = Head(wire) /\ IInv /\ OnceInv /\ ApartInv
      OBVIOUS
    <3>8. \A nalu \in Opened(none) : nalu \in Opened(mData) \/ nalu \in Claims(p)
      BY <3>3
    <3> QED BY ONLY <1>1, <3>1, <3>2, <3>3, <3>4, <3>5, <3>6, <3>7, <3>8, ReceivedApart
  <2>5. CASE delivered' = buffers /\ mData' = data
    BY <1>1, <2>1, <2>2, <2>3, <2>5, ReceivedApart
  <2> QED BY <2>4, <2>5
<1>6. CASE ProcessAudio(p) \/ UNCHANGED <<mData, mSentCSD, delivered>>
  <2> PICK pieces : pieces = p.pieces
    OBVIOUS
  <2> PICK data : data = mData
    OBVIOUS
  <2> PICK buffers : buffers = delivered'
    OBVIOUS
  <2>1. pieces \in Seq(Piece) /\ \A n \in DOMAIN pieces : pieces[n] # StartCode
    BY <1>1, <1>3, PiecesAreNoStart DEF PacketOK
  <2>2. Opened(pieces) = {} /\ OpenedOnce(pieces)
    BY ONLY <2>1, OpensNothing
  <2>3. mData' = data /\ (buffers = Append(delivered, pieces) \/ buffers = delivered)
    BY <1>6 DEF ProcessAudio
  <2>4. /\ buffers \in Seq(Seq(Piece)) /\ Apart(buffers)
        /\ \A b \in DOMAIN buffers : \A nalu \in Opened(buffers[b]) :
               \E c \in DOMAIN delivered : nalu \in Opened(delivered[c])
    <3>1. CASE buffers = delivered
      BY <1>4, <3>1
    <3>2. CASE buffers = Append(delivered, pieces)
      <4>1. /\ Append(delivered, pieces) \in Seq(Seq(Piece))
            /\ Apart(Append(delivered, pieces))
            /\ \A b \in DOMAIN Append(delivered, pieces) :
                   \A nalu \in Opened(Append(delivered, pieces)[b]) :
                       \/ nalu \in Opened(pieces)
                       \/ \E c \in DOMAIN delivered : nalu \in Opened(delivered[c])
        BY <1>4, <2>1, <2>2, AppendApart
      <4> QED BY <2>2, <3>2, <4>1
    <3> QED BY <2>3, <3>1, <3>2
  <2>5. \A b \in DOMAIN buffers : \A nalu \in Opened(buffers[b]) : nalu \notin Opened(data)
    BY <1>3, <2>4
  <2> QED BY <1>1, <1>4, <2>3, <2>4, <2>5, ReceivedApart
<1> QED BY <1>1, <1>5, <1>6 DEF Receive

-----------------------------------------------------------------------------
(* No NAL unit is delivered twice *)

\* At the start nothing was sent.
LEMMA InitApart == Init => OnceInv /\ ApartInv
PROOF
<1> SUFFICES ASSUME Init PROVE OnceInv /\ ApartInv
  OBVIOUS
<1> PICK none : none = <<>>
  OBVIOUS
<1>1. /\ wire = none /\ mData = none /\ delivered = none /\ sender = "idle"
      /\ none \in Seq(Piece) /\ Len(none) <= 1 /\ DOMAIN none = {} /\ Closed(none)
  BY EmptySeq DEF Init, PacketizerInit, DepacketizerInit, Closed
<1>2. Opened(none) = {} /\ OpenedOnce(none)
  BY ONLY <1>1, OpensNothing
<1> QED BY <1>1, <1>2 DEF OnceInv, ApartInv, WireApart, DeliveredApart

\* sendPacket() gets an access unit: its NAL units were ahead.
LEMMA PrepareApart ==
    ASSUME IInv, OnceInv, ApartInv, Prepare, UNCHANGED <<depacketizerVars, doubled>>
    PROVE  OnceInv' /\ ApartInv'
PROOF
<1>1. UNCHANGED <<codec, wire>> /\ mIsFirstPack' = TRUE /\ Len(sent) \in Nat
      /\ Len(sent') = Len(sent) + 1
  <2>1. PICK unit \in AccessUnits : sent' = Append(sent, unit)
    BY DEF Prepare
  <2>2. unit \in Seq(Nat \ {0}) /\ sent \in Seq(Seq(Nat \ {0}))
    BY RtpAssumption DEF IInv, UnitInv
  <2>3. Len(sent) \in Nat /\ Len(sent') = Len(sent) + 1
    BY <2>1, <2>2, AppendProperties, LenProperties
  <2> QED BY <2>3 DEF Prepare, PrepareInternal
<1>2. ASSUME NEW nalu \in Nat \X Nat, Ahead(nalu)' PROVE Ahead(nalu)
  <2>1. nalu[1] \in Nat /\ nalu[1] >= Len(sent')
    BY <1>1, <1>2 DEF Ahead
  <2> QED BY <1>1, <2>1 DEF Ahead
<1> QED BY <1>1, <1>2, ServerApart

\* sendPacket() is done: what was cut off is not ahead any more.
LEMMA FinishApart ==
    ASSUME IInv, OnceInv, ApartInv, Finish, UNCHANGED <<depacketizerVars, doubled>>
    PROVE  OnceInv' /\ ApartInv'
PROOF
<1>1. UNCHANGED <<codec, wire, sent>> /\ sender' = "idle"
  BY DEF Finish
<1>2. \A nalu : Ahead(nalu)' => Ahead(nalu)
  BY <1>1 DEF Ahead
<1> QED BY <1>1, <1>2, ServerApart

\* A packet of AAC begins nothing in mData.
LEMMA AudioApart ==
    ASSUME IInv, OnceInv, ApartInv, Audio, UNCHANGED <<depacketizerVars, doubled>>
    PROVE  OnceInv' /\ ApartInv'
PROOF
<1> DEFINE p == [kind |-> "audio", auHeaders |-> AuHeaders(mNalus[1]),
                 pieces |-> <<Whole(1)>>, size |-> 4 + mNalus[1]]
<1>1. /\ UNCHANGED <<codec, mNalus, mIsFirstPack, mOffset, sent>>
      /\ mCurrNalu = 1 /\ mCurrNalu' = 2 /\ sender = "sending" /\ UnitInv
      /\ sender' \in {"sending", "crashed"} /\ codec = "AAC"
      /\ Transmit(p) \/ UNCHANGED wire
  <2>1. Audio /\ IInv
    OBVIOUS
  <2> HIDE DEF p
  <2>2. Transmit(p) \/ UNCHANGED wire
    BY <2>1 DEF Audio, p
  <2> QED BY <2>1, <2>2 DEF IInv, Audio
<1>2. PacketOK(p)
  <2>1. Len(mNalus) = 1
    BY <1>1 DEF UnitInv
  <2>2. Whole(1) \in Piece /\ Inside(Whole(1))
    BY <1>1, <2>1, WholeNalu
  <2> QED BY <2>2 DEF PacketOK
<1>3. Claims(p) = {} /\ PacketOnce(p)
  BY DEF Claims, PacketOnce
<1> HIDE DEF p
<1>4. ASSUME NEW nalu \in Nat \X Nat, Ahead(nalu)' PROVE Ahead(nalu)
  <2>1. nalu[2] \in Nat
    OBVIOUS
  <2> QED BY <1>1, <1>4, <2>1 DEF Ahead
<1>5. sender' = "sending" /\ ~mIsFirstPack' => mOffset'[2] > HeaderSize'
  BY <1>1 DEF OnceInv, HeaderSize
<1> QED BY <1>1, <1>2, <1>3, <1>4, <1>5, ServerApart

\* The name of a NAL unit in hand.
LEMMA NameOfWhole ==
    ASSUME UnitInv, sender = "sending", NEW i \in Nat
    PROVE  /\ Whole(i)[1] = <<Len(sent), i>> /\ Nalu(i) = <<Len(sent), i>>
           /\ Len(sent) \in Nat \ {0} /\ <<Len(sent), i>> # NoName /\ Begins(Whole(i))
PROOF
<1>1. Len(sent) \in Nat \ {0}
  BY EmptySeq, LenProperties DEF UnitInv
<1> PICK f : f = Len(sent)
  OBVIOUS
<1>2. <<f, i>> # NoName
  BY <1>1 DEF NoName
<1> PICK name : name = <<f, i>>
  OBVIOUS
<1> PICK size : size = mNalus[i]
  OBVIOUS
<1>3. Nalu(i) = name /\ Whole(i) = <<name, 0, size>>
  BY DEF Nalu, Whole
<1>4. Whole(i)[1] = name /\ Whole(i)[2] = 0
  BY <1>3
<1> QED BY <1>1, <1>2, <1>3, <1>4 DEF Begins

\* An aggregate begins the NAL units it holds, all of them ahead.
LEMMA AggregateApart ==
    ASSUME IInv, OnceInv, ApartInv, Aggregate, UNCHANGED <<depacketizerVars, doubled>>
    PROVE  OnceInv' /\ ApartInv'
PROOF
<1>1. /\ UnitInv /\ sender = "sending" /\ mCurrNalu \in Nat \ {0}
      /\ ~IsBig(mNalus[mCurrNalu])
      /\ UNCHANGED <<codec, mNalus, mIsFirstPack, mOffset, mPayloadSize, sender, sent>>
  BY DEF IInv, Aggregate, UnitInv
<1> PICK count \in Nat \ {0} : \E p :
        /\ mCurrNalu' = mCurrNalu + count /\ mCurrNalu + count <= Len(mNalus) + 1
        /\ Transmit(p) /\ PacketOK(p) /\ p.kind \in {"single", "aggregate"}
        /\ DOMAIN p.pieces = 1 .. count
        /\ \A k \in 1 .. count : p.pieces[k] = Whole(mCurrNalu + k - 1)
  BY <1>1, AggregateSends
<1>2. PICK p : /\ mCurrNalu' = mCurrNalu + count
               /\ Transmit(p) /\ PacketOK(p) /\ p.kind \in {"single", "aggregate"}
               /\ DOMAIN p.pieces = 1 .. count
               /\ \A k \in 1 .. count : p.pieces[k] = Whole(mCurrNalu + k - 1)
  OBVIOUS
<1> PICK pieces : pieces = p.pieces
  OBVIOUS
<1>3. Len(pieces) = count /\ 1 \in 1 .. count /\ count \in 1 .. count
  <2>1. pieces \in Seq(Piece)
    BY <1>2 DEF PacketOK
  <2>2. Len(pieces) \in Nat /\ 1 .. Len(pieces) = 1 .. count
    BY <1>2, <2>1, LenProperties
  <2> QED BY <2>2
<1>4. \A k \in 1 .. count : /\ pieces[k][1] = <<Len(sent), mCurrNalu + k - 1>>
                            /\ pieces[k][1] # NoName /\ Begins(pieces[k])
  <2> TAKE k \in 1 .. count
  <2>1. mCurrNalu + k - 1 \in Nat
    BY <1>1
  <2> QED BY <1>1, <1>2, <2>1, NameOfWhole
<1>5. PacketOnce(p)
  <2>1. pieces[1][1] # NoName /\ pieces[Len(pieces)][1] # NoName /\ Begins(pieces[1])
    BY <1>3, <1>4
  <2>2. ASSUME NEW m \in 1 .. count, NEW n \in 1 .. count, pieces[m][1] = pieces[n][1]
        PROVE  m = n
    <3>1. <<Len(sent), mCurrNalu + m - 1>> = <<Len(sent), mCurrNalu + n - 1>>
      BY <1>4, <2>2
    <3>2. mCurrNalu + m - 1 = mCurrNalu + n - 1
      BY <3>1
    <3> QED BY <1>1, <3>2
  <2> QED BY <1>2, <2>1, <2>2 DEF PacketOnce
<1>6. Len(sent) \in Nat
  BY <1>1, NameOfWhole
<1>7. ASSUME NEW nalu \in Claims(p) PROVE Ahead(nalu) /\ ~Ahead(nalu)'
  <2>1. PICK k \in 1 .. count : pieces[k][1] = nalu
    BY <1>2 DEF Claims
  <2>2. nalu[1] = Len(sent) /\ nalu[2] = mCurrNalu + k - 1
    <3>1. nalu = <<Len(sent), mCurrNalu + k - 1>>
      BY <1>4, <2>1
    <3> QED BY <3>1
  <2>3. Ahead(nalu)
    BY <1>1, <2>2 DEF Ahead
  <2>4. ~Ahead(nalu)'
    BY <1>1, <1>2, <1>6, <2>2 DEF Ahead
  <2> QED BY <2>3, <2>4
<1>8. ASSUME NEW nalu \in Nat \X Nat, Ahead(nalu)' PROVE Ahead(nalu)
  <2>1. nalu[2] \in Nat
    OBVIOUS
  <2> QED BY <1>1, <1>2, <1>8, <2>1 DEF Ahead
<1>9. sender' = "sending" /\ ~mIsFirstPack' => mOffset'[2] > HeaderSize'
  BY <1>1 DEF OnceInv, HeaderSize
<1> QED BY <1>1, <1>2, <1>5, <1>7, <1>8, <1>9, ServerApart

\* The first fragment begins its NAL unit, the last one those packed behind it.
LEMMA FragmentApart ==
    ASSUME IInv, OnceInv, ApartInv, Fragment, UNCHANGED <<depacketizerVars, doubled>>
    PROVE  OnceInv' /\ ApartInv'
PROOF
<1>1. /\ UnitInv /\ OffsetInv /\ sender = "sending" /\ mCurrNalu \in Nat \ {0}
      /\ IsBig(mNalus[mCurrNalu]) /\ UNCHANGED <<codec, mNalus, sent>>
      /\ mIsFirstPack' = FALSE /\ mIsFirstPack \in BOOLEAN
  BY DEF IInv, Fragment, UnitInv
<1> PICK behind \in Nat : \E copied \in Nat : \E p, offset :
        /\ offset = IF mIsFirstPack THEN <<Nalu(mCurrNalu), HeaderSize>> ELSE mOffset
        /\ Transmit(p) /\ PacketOK(p)
        /\ mCurrNalu' \in {mCurrNalu, mCurrNalu + 1 + behind}
        /\ behind > 0 => mCurrNalu' = mCurrNalu + 1 + behind
        /\ FragmentOf(p, offset, copied, behind)
  BY <1>1, FragmentSends
<1> PICK copied \in Nat : \E p, offset :
        /\ offset = IF mIsFirstPack THEN <<Nalu(mCurrNalu), HeaderSize>> ELSE mOffset
        /\ Transmit(p) /\ PacketOK(p)
        /\ mCurrNalu' \in {mCurrNalu, mCurrNalu + 1 + behind}
        /\ behind > 0 => mCurrNalu' = mCurrNalu + 1 + behind
        /\ FragmentOf(p, offset, copied, behind)
  OBVIOUS
<1>2. PICK p, offset :
        /\ offset = IF mIsFirstPack THEN <<Nalu(mCurrNalu), HeaderSize>> ELSE mOffset
        /\ Transmit(p) /\ PacketOK(p)
        /\ mCurrNalu' \in {mCurrNalu, mCurrNalu + 1 + behind}
        /\ behind > 0 => mCurrNalu' = mCurrNalu + 1 + behind
        /\ FragmentOf(p, offset, copied, behind)
  OBVIOUS
<1>3. Len(sent) \in Nat \ {0}
  BY <1>1, NameOfWhole
<1>4. sender' = "sending" /\ ~mIsFirstPack' => mOffset'[2] > HeaderSize'
  <2>1. HeaderSize' = HeaderSize /\ HeaderSize \in {1, 2} /\ FuHeaderSize = HeaderSize + 1
    BY <1>1 DEF HeaderSize, FuHeaderSize
  <2>2. CASE mIsFirstPack
    <3> PICK size : size = mNalus[mCurrNalu]
      OBVIOUS
    <3>1. /\ size > MaxPayload /\ size \in Nat
      <4>1. mCurrNalu \in 1 .. Len(mNalus)
        BY <1>1, EmptySeq, LenProperties, ElementOfSeq DEF UnitInv, Fragment
      <4> QED BY <1>1, <4>1, WholeNalu DEF IsBig
    <3>2. ~(FuHeaderSize + (size - HeaderSize) <= MaxPayload)
      BY <2>1, <3>1, RtpAssumption
    <3>3. mOffset' = <<Nalu(mCurrNalu), HeaderSize + (MaxPayload - FuHeaderSize)>>
      BY <2>2, <3>2 DEF Fragment
    <3> QED BY <2>1, <3>3, RtpAssumption
  <2>3. CASE ~mIsFirstPack
    <3>1. mOffset[2] > HeaderSize /\ mOffset[2] \in Nat /\ mPayloadSize \in Nat
      BY <1>1, <2>3 DEF OnceInv, OffsetInv
    <3>2. \/ mOffset' = mOffset
          \/ mOffset' = <<mOffset[1], mOffset[2] + (MaxPayload - FuHeaderSize)>>
      BY <2>3 DEF Fragment
    <3> QED BY <2>1, <3>1, <3>2, RtpAssumption
  <2> QED BY <2>2, <2>3
<1>5. CASE p.kind = "garbled" /\ p.pieces = <<>>
  <2>1. Claims(p) = {} /\ PacketOnce(p)
    BY <1>5 DEF Claims, PacketOnce
  <2>2. ASSUME NEW nalu \in Nat \X Nat, Ahead(nalu)' PROVE Ahead(nalu)
    <3>1. nalu[2] \in Nat
      OBVIOUS
    <3> QED BY <1>1, <1>2, <2>2, <3>1 DEF Ahead
  <2> QED BY <1>1, <1>2, <1>4, <2>1, <2>2, ServerApart
<1>6. CASE /\ p.kind = "fragment" /\ p.start = mIsFirstPack
           /\ DOMAIN p.pieces = 1 .. 1 + 2 * behind
           /\ p.pieces[1] = <<offset[1], offset[2], offset[2] + copied>>
           /\ \A k \in 1 .. 2 * behind : p.pieces[k + 1] =
                  IF k % 2 = 1 THEN LengthField ELSE Whole(mCurrNalu + k \div 2)
  <2> PICK pieces : pieces = p.pieces
    OBVIOUS
  <2>1. Len(pieces) = 1 + 2 * behind /\ 1 \in DOMAIN pieces
    <3>1. pieces \in Seq(Piece)
      BY <1>2 DEF PacketOK
    <3>2. Len(pieces) \in Nat /\ 1 .. Len(pieces) = 1 .. 1 + 2 * behind
      BY <1>6, <3>1, LenProperties
    <3> QED BY <3>2
  <2>2. /\ pieces[1][1] = offset[1] /\ pieces[1][2] = offset[2]
    BY <1>6
  <2>3. /\ mIsFirstPack => /\ pieces[1][1] = <<Len(sent), mCurrNalu>>
                           /\ Begins(pieces[1])
        /\ ~mIsFirstPack => ~Begins(pieces[1])
        /\ pieces[1][1] # NoName
    <3>1. CASE mIsFirstPack
      <4>1. offset[1] = <<Len(sent), mCurrNalu>> /\ offset[2] = HeaderSize
            /\ offset[1] # NoName
        BY <1>1, <1>2, <3>1, NameOfWhole
      <4> QED BY <2>2, <3>1, <4>1 DEF Begins
    <3>2. CASE ~mIsFirstPack
      <4>1. offset[2] > HeaderSize /\ offset[2] \in Nat /\ offset[1] \in SentNalus
        BY <1>1, <1>2, <3>2 DEF OnceInv, OffsetInv
      <4>2. offset[1] # NoName
        BY <1>1, <4>1, NaluNames DEF NoName
      <4>3. HeaderSize \in {1, 2}
        BY DEF HeaderSize
      <4> QED BY <2>2, <3>2, <4>1, <4>2, <4>3 DEF Begins
    <3> QED BY <3>1, <3>2
  <2>4. \A n \in DOMAIN pieces : n # 1 =>
            \/ pieces[n][1] = NoName /\ n # 1 + 2 * behind
            \/ \E i \in 1 .. behind : /\ n = 1 + 2 * i
                                      /\ pieces[n][1] = <<Len(sent), mCurrNalu + i>>
                                      /\ pieces[n][1] # NoName
    <3> SUFFICES ASSUME NEW n \in DOMAIN pieces, n # 1
                 PROVE  \/ pieces[n][1] = NoName /\ n # 1 + 2 * behind
                        \/ \E i \in 1 .. behind : /\ n = 1 + 2 * i
                                                  /\ pieces[n][1] = <<Len(sent), mCurrNalu + i>>
                                                  /\ pieces[n][1] # NoName
      OBVIOUS
    <3>1. n \in 1 .. 1 + 2 * behind
      BY <1>6
    <3>2. PICK k \in 1 .. 2 * behind : n = k + 1
      <4>1. n - 1 \in 1 .. 2 * behind /\ n = (n - 1) + 1
        BY <3>1
      <4> QED BY <4>1
    <3>3. pieces[n] = IF k % 2 = 1 THEN LengthField ELSE Whole(mCurrNalu + k \div 2)
      BY <1>6, <3>2
    <3>4. CASE k % 2 = 1
      <4>1. pieces[n][1] = NoName
        BY <3>3, <3>4 DEF LengthField, NoName
      <4>2. k # 2 * behind
        BY <3>4
      <4> QED BY <3>2, <4>1, <4>2
    <3>5. CASE k % 2 # 1
      <4>1. k \div 2 \in 1 .. behind /\ n = 1 + 2 * (k \div 2)
        BY <3>2, <3>5
      <4>2. /\ Whole(mCurrNalu + k \div 2)[1] = <<Len(sent), mCurrNalu + k \div 2>>
            /\ <<Len(sent), mCurrNalu + k \div 2>> # NoName
        <5>1. mCurrNalu + k \div 2 \in Nat
          BY <1>1, <4>1
        <5> QED BY <1>1, <5>1, NameOfWhole
      <4> QED BY <3>3, <3>5, <4>1, <4>2
    <3> QED BY <3>4, <3>5
  <2>5. PacketOnce(p)
    <3>1. pieces[Len(pieces)][1] # NoName
      <4>1. CASE behind = 0
        BY <2>1, <2>3, <4>1
      <4>2. CASE behind # 0
        <5>1. 1 + 2 * behind \in DOMAIN pieces /\ 1 + 2 * behind # 1
          BY <1>6, <4>2
        <5> QED BY <2>1, <2>4, <5>1
      <4> QED BY <4>1, <4>2
    <3>2. ASSUME NEW m \in DOMAIN pieces, NEW n \in DOMAIN pieces,
                 Begins(pieces[m]), Begins(pieces[n]), pieces[m][1] = pieces[n][1], n # 1
          PROVE  m = n
      <4>1. pieces[m][1] # NoName /\ pieces[n][1] # NoName
        BY <3>2 DEF Begins
      <4>2. PICK i \in 1 .. behind : n = 1 + 2 * i /\ pieces[n][1] = <<Len(sent), mCurrNalu + i>>
        BY <2>4, <3>2, <4>1
      <4>3. CASE m = 1
        <5>1. <<Len(sent), mCurrNalu>> = <<Len(sent), mCurrNalu + i>>
          BY <1>1, <2>3, <3>2, <4>2, <4>3
        <5>2. mCurrNalu = mCurrNalu + i
          BY <5>1
        <5> QED BY <1>1, <5>2
      <4>4. CASE m # 1
        <5>1. PICK j \in 1 .. behind :
                  m = 1 + 2 * j /\ pieces[m][1] = <<Len(sent), mCurrNalu + j>>
          BY <2>4, <4>1, <4>4
        <5>2. <<Len(sent), mCurrNalu + j>> = <<Len(sent), mCurrNalu + i>>
          BY <3>2, <4>2, <5>1
        <5>3. mCurrNalu + j = mCurrNalu + i
          BY <5>2
        <5> QED BY <1>1, <4>2, <5>1, <5>3
      <4> QED BY <4>3, <4>4
    <3>3. \A m, n \in DOMAIN pieces :
              Begins(pieces[m]) /\ Begins(pieces[n]) /\ pieces[m][1] = pieces[n][1] => m = n
      BY <3>2
    <3> QED BY <1>1, <1>6, <2>3, <3>1, <3>3 DEF PacketOnce
  <2>6. ASSUME NEW nalu \in Claims(p)
        PROVE  \E i \in 0 .. behind : /\ nalu = <<Len(sent), mCurrNalu + i>>
                                      /\ i = 0 => mIsFirstPack
    <3>1. PICK n \in DOMAIN pieces : Begins(pieces[n]) /\ pieces[n][1] = nalu
      BY <1>2, ClaimedNames
    <3>2. CASE n = 1
      <4>1. mIsFirstPack /\ nalu = <<Len(sent), mCurrNalu + 0>> /\ 0 \in 0 .. behind
        BY <1>1, <2>3, <3>1, <3>2
      <4> QED BY <4>1
    <3>3. CASE n # 1
      <4>1. nalu # NoName
        BY <3>1 DEF Begins
      <4>2. PICK i \in 1 .. behind : nalu = <<Len(sent), mCurrNalu + i>>
        BY <2>4, <3>1, <3>3, <4>1
      <4>3. i \in 0 .. behind /\ i # 0
        OBVIOUS
      <4> QED BY <4>2, <4>3
    <3> QED BY <3>2, <3>3
  <2>7. ASSUME NEW nalu \in Claims(p) PROVE Ahead(nalu) /\ ~Ahead(nalu)'
    <3>1. PICK i \in 0 .. behind : /\ nalu = <<Len(sent), mCurrNalu + i>>
                                   /\ i = 0 => mIsFirstPack
      BY <2>6
    <3>2. nalu[1] = Len(sent) /\ nalu[2] = mCurrNalu + i
      BY <3>1
    <3>3. Ahead(nalu)
      BY <1>1, <3>1, <3>2 DEF Ahead
    <3>4. i > 0 => mCurrNalu' = mCurrNalu + 1 + behind
      BY <1>2
    <3>5. ~Ahead(nalu)'
      <4>1. CASE i = 0
        BY <1>1, <1>2, <1>3, <3>2, <4>1 DEF Ahead, IsBig
      <4>2. CASE i # 0
        BY <1>1, <1>3, <3>2, <3>4, <4>2 DEF Ahead
      <4> QED BY <4>1, <4>2
    <3> QED BY <3>3, <3>5
  <2>8. ASSUME NEW nalu \in Nat \X Nat, Ahead(nalu)' PROVE Ahead(nalu)
    <3>1. nalu[2] \in Nat
      OBVIOUS
    <3> QED BY <1>1, <1>2, <2>8, <3>1 DEF Ahead
  <2> QED BY <1>1, <1>2, <1>4, <2>5, <2>7, <2>8, ServerApart
<1> QED BY <1>2, <1>5, <1>6 DEF FragmentOf

\* Every step keeps what begins where apart.
LEMMA NextKeepsApart ==
    ASSUME IInv, OnceInv, ApartInv, [Next]_vars
    PROVE  OnceInv' /\ ApartInv'
PROOF
<1>1. CASE SendPacket
  <2>1. UNCHANGED <<depacketizerVars, doubled>>
    BY <1>1 DEF SendPacket, historyVars
  <2>2. Prepare \/ Aggregate \/ Fragment \/ Audio \/ Finish
    BY <1>1 DEF SendPacket
  <2> QED BY <2>1, <2>2, PrepareApart, AggregateApart, FragmentApart, AudioApart, FinishApart
<1>2. CASE Arrive \/ Lose \/ Overtake \/ Duplicate
  BY <1>2, ArriveApart, LoseApart, OvertakeApart, DuplicateApart
<1>3. CASE UNCHANGED vars
  <2>1. /\ UNCHANGED <<codec, mNalus, mCurrNalu, mIsFirstPack, mOffset, sender, sent>>
        /\ UNCHANGED <<wire, depacketizerVars, doubled>>
    BY <1>3 DEF vars, packetizerVars, historyVars
  <2>2. HeaderSize' = HeaderSize /\ \A nalu : Ahead(nalu)' = Ahead(nalu)
    BY <2>1 DEF HeaderSize, Ahead, IsBig
  <2>3. sender' = "sending" /\ ~mIsFirstPack' => mOffset'[2] > HeaderSize'
    BY <2>1, <2>2 DEF OnceInv
  <2> QED BY <2>1, <2>2, <2>3, ServerApart
<1> QED BY <1>1, <1>2, <1>3 DEF Next

\* A NAL unit that is found in a buffer begins there.
LEMMA FoundOpens ==
    ASSUME NEW buffer \in Seq(Piece), NEW nalu, nalu # NoName, nalu \notin Twice,
           NEW k \in Found(buffer, nalu)
    PROVE  Opens(buffer, k, nalu)
PROOF
<1>1. Len(buffer) \in Nat /\ DOMAIN buffer = 1 .. Len(buffer)
  BY LenProperties
<1>2. k \in 1 .. Len(buffer) /\ buffer[k] = StartCode
  BY <1>1 DEF Found
<1>3. PICK n \in k + 1 .. Len(buffer) : IsUnit(SubSeq(buffer, k + 1, n), nalu)
  BY DEF Found
<1> PICK unit : unit = SubSeq(buffer, k + 1, n)
  OBVIOUS
<1>4. /\ unit \in Seq(Piece) /\ Len(unit) = n - k
      /\ \A i \in 1 .. n - k : unit[i] = buffer[k + i]
  <2>1. \A i \in k + 1 .. n : buffer[i] \in Piece
    BY <1>1, <1>2, ElementOfSeq
  <2>2. k + 1 \in Int /\ n \in Int /\ k + 1 <= n
    BY <1>2
  <2>3. /\ unit \in Seq(Piece)
        /\ Len(unit) = IF k + 1 <= n THEN n - (k + 1) + 1 ELSE 0
        /\ \A i \in 1 .. n - (k + 1) + 1 : unit[i] = buffer[k + 1 + i - 1]
    BY <2>1, <2>2, SubSeqProperties
  <2>4. n - (k + 1) + 1 = n - k /\ \A i \in 1 .. n - k : k + 1 + i - 1 = k + i
    BY <1>2
  <2>5. Len(unit) = n - k
    BY <2>2, <2>3, <2>4
  <2>6. \A i \in 1 .. n - k : unit[i] = buffer[k + i]
    <3>1. \A i \in 1 .. n - k : unit[i] = buffer[k + 1 + i - 1]
      BY <2>3, <2>4
    <3> QED BY <2>4, <3>1
  <2> QED BY <2>3, <2>5, <2>6
<1>5. unit[1] = buffer[k + 1] /\ k + 1 \in DOMAIN buffer /\ DOMAIN unit = 1 .. n - k
  BY <1>1, <1>2, <1>4, LenProperties
<1>6. CASE IsRange(unit, nalu, 0)
  <2>1. 1 \in DOMAIN unit
    BY <1>2, <1>5
  <2>2. unit[1][1] = nalu /\ unit[1][2] = 0
    BY <1>6, <2>1 DEF IsRange
  <2> QED BY <1>1, <1>2, <1>5, <2>2 DEF Opens
<1>7. CASE Head(unit) = ZeroHeader /\ IsRange(Tail(unit), nalu, HeaderSize)
  <2> PICK rest : rest = Tail(unit)
    OBVIOUS
  <2>1. rest # <<>> /\ IsRange(rest, nalu, HeaderSize) /\ unit # <<>>
    <3>1. Len(unit) # 0
      BY <1>2, <1>4
    <3>2. unit # <<>>
      BY <1>4, <3>1, EmptySeq
    <3> QED BY <1>7, <3>2 DEF IsRange
  <2>2. /\ Head(unit) = unit[1] /\ rest \in Seq(Piece) /\ Len(rest) = Len(unit) - 1
        /\ \A i \in 1 .. Len(rest) : rest[i] = unit[i + 1]
    BY <1>4, <2>1, HeadTailProperties
  <2>3. Len(rest) \in Nat \ {0} /\ DOMAIN rest = 1 .. Len(rest)
    BY <2>1, <2>2, EmptySeq, LenProperties
  <2>4. 1 \in DOMAIN rest /\ 2 \in 1 .. n - k
    BY <1>2, <1>4, <2>2, <2>3
  <2>5. rest[1] = buffer[k + 2]
    <3>1. rest[1] = unit[2]
      BY <2>2, <2>3, <2>4
    <3> QED BY <1>4, <2>4, <3>1
  <2>6. rest[1][1] = nalu /\ rest[1][2] = HeaderSize
    BY <2>1, <2>4 DEF IsRange
  <2>7. k + 2 \in DOMAIN buffer
    BY <1>1, <1>2, <2>4
  <2> QED BY <1>1, <1>2, <1>5, <1>7, <2>2, <2>5, <2>6, <2>7 DEF Opens
<1> QED BY <1>3, <1>6, <1>7 DEF IsUnit

\* Only a NAL unit whose first packet came twice may be delivered twice, whatever else
\* comes twice, is lost or overtaken: what mData held is gone once delivered, and no
\* packet or fragment begins a NAL unit again, though the server sends the last
\* fragment of one again at a later one.
THEOREM DeliveredAtMostOnce == Spec => []TwiceOnlyIfDoubled
PROOF
<1>1. Init => IInv /\ OnceInv /\ ApartInv
  BY InitIInv, InitApart
<1>2. IInv /\ OnceInv /\ ApartInv /\ [Next]_vars => (IInv /\ OnceInv /\ ApartInv)'
  BY NextKeepsIInv, NextKeepsApart
<1>3. IInv /\ OnceInv /\ ApartInv => TwiceOnlyIfDoubled
  <2> SUFFICES ASSUME IInv, OnceInv, ApartInv, NEW nalu \in SentNalus, nalu \notin Twice
               PROVE  Cardinality(Times(nalu)) <= 1
    BY DEF TwiceOnlyIfDoubled, Twice
  <2>1. nalu # NoName
    BY NaluNames DEF IInv, NoName
  <2>2. \A b \in DOMAIN delivered : delivered[b] \in Seq(Piece)
    BY ElementOfSeq, LenProperties DEF IInv, DeliveredInv
  <2>3. ASSUME NEW b \in DOMAIN delivered, NEW k \in Found(delivered[b], nalu)
        PROVE  /\ Opens(delivered[b], k, nalu) /\ k \in DOMAIN delivered[b]
               /\ nalu \in Opened(delivered[b])
    <3>1. Opens(delivered[b], k, nalu)
      BY <2>1, <2>2, <2>3, FoundOpens
    <3>2. k \in DOMAIN delivered[b]
      BY <3>1 DEF Opens
    <3> QED BY <2>2, <3>1, <3>2, OpenedNames
  <2>4. ASSUME NEW s \in Times(nalu), NEW t \in Times(nalu) PROVE s = t
    <3>1. PICK b \in DOMAIN delivered : \E k \in Found(delivered[b], nalu) : s = <<b, k>>
      BY DEF Times
    <3>2. PICK k \in Found(delivered[b], nalu) : s = <<b, k>>
      BY <3>1
    <3>3. PICK c \in DOMAIN delivered : \E l \in Found(delivered[c], nalu) : t = <<c, l>>
      BY DEF Times
    <3>4. PICK l \in Found(delivered[c], nalu) : t = <<c, l>>
      BY <3>3
    <3>5. nalu \in Opened(delivered[b]) /\ nalu \in Opened(delivered[c])
      BY <2>3
    <3>6. b = c
      BY <3>5 DEF ApartInv, DeliveredApart
    <3>7. /\ Opens(delivered[b], k, nalu) /\ Opens(delivered[b], l, nalu)
          /\ k \in DOMAIN delivered[b] /\ l \in DOMAIN delivered[b]
      BY <2>3, <3>6
    <3>8. k = l
      BY <3>5, <3>7 DEF OnceInv, OpenedOnce
    <3> QED BY <3>2, <3>4, <3>6, <3>8
  <2>5. CASE Times(nalu) = {}
    BY <2>5, FS_EmptySet
  <2>6. CASE Times(nalu) # {}
    <3>1. PICK t : Times(nalu) = {t}
      BY <2>4, <2>6
    <3>2. Cardinality({t}) = 1
      BY FS_Singleton
    <3> QED BY <3>1, <3>2
  <2> QED BY <2>5, <2>6
<1> QED BY <1>1, <1>2, <1>3, PTL DEF Spec
=============================================================================
