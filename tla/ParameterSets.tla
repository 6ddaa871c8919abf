---------------------------- MODULE ParameterSets ----------------------------
(***************************************************************************)
(* How the server finds the NAL units of a stream.  Files keep them in one *)
(* of two ways: each behind a start code (Annex B), or behind its length,  *)
(* with the parameter sets in a configuration record (avcC, hvcC).         *)
(* parseCsdAVC() and parseCsdHEVC() read the parameter sets out of either, *)
(* prepare() the units of an access unit.  Annex B is searched by          *)
(* findStartcode(), four bytes at a time, from an address that may have    *)
(* any alignment.                                                          *)
(*                                                                         *)
(* Data is a sequence of bytes; a pointer is an index into it, and the end *)
(* is Len + 1.  What a file holds (Append, AnnexB, Record) is external.    *)
(***************************************************************************)
EXTENDS Naturals, Sequences, FiniteSetsExt, SequencesExt

CONSTANTS Headers,       \* codec |-> the headers of units: sequences of bytes
          Tails,         \* what may follow the header
          MaxUnits,
          LengthSizes    \* bytes of a length: 1, 2 or 4

VARIABLES codec,         \* "AVC" or "HEVC"
          address,       \* of the data, modulo 4
          lengthSize,    \* of the file, if it is one with lengths
          units          \* [bytes, longCode]: the units, and the start codes of four bytes

vars == <<codec, address, lengthSize, units>>

Byte == 0..255

\* No unit holds a start code or ends with a zero: that is what emulation prevention is for.
LegalUnit(u) == /\ u \in Seq(Byte) /\ u # <<>>
                /\ u[Len(u)] # 0
                /\ \A i \in 1 .. Len(u) - 2 : ~(u[i] = 0 /\ u[i + 1] = 0 /\ u[i + 2] < 3)

ASSUME FormatAssumption == /\ DOMAIN Headers \subseteq {"AVC", "HEVC"}
                           /\ \A c \in DOMAIN Headers, t \in Tails :
                                \A h \in Headers[c] : LegalUnit(h \o t) /\ Len(h \o t) < 256
                           /\ LengthSizes \subseteq {1, 2, 4}
                           /\ MaxUnits \in 0..255

-----------------------------------------------------------------------------
(* The files.                                                                *)

Big(n, size) == [i \in 1..size |-> (n \div 2 ^ (8 * (size - i))) % 256]

Bytes == [i \in DOMAIN units |-> units[i].bytes]
TypeOf(u) == IF codec = "AVC" THEN u[1] % 32 ELSE (u[1] \div 2) % 64
OfType(t) == SelectSeq(Bytes, LAMBDA u : TypeOf(u) = t)

AnnexB == FlattenSeq([i \in DOMAIN units |->
              (IF units[i].longCode THEN <<0, 0, 0, 1>> ELSE <<0, 0, 1>>) \o units[i].bytes])
WithLengths(list, size) == FlattenSeq([i \in DOMAIN list |->
                               Big(Len(list[i]), size) \o list[i]])

\* The parameter sets the code keeps.
AVC_SPS == 7
AVC_PPS == 8
HEVC_VPS == 32
HEVC_SPS == 33
HEVC_PPS == 34
HEVC_SEI_PREFIX == 39
HevcTypes == <<HEVC_VPS, HEVC_SPS, HEVC_PPS, HEVC_SEI_PREFIX>>
Kept == IF codec = "AVC" THEN {AVC_SPS, AVC_PPS} ELSE Range(HevcTypes)

AvcRecord == <<1, 100, 0, 31, 252 + lengthSize - 1>>
             \o <<224 + Len(OfType(AVC_SPS))>> \o WithLengths(OfType(AVC_SPS), 2)
             \o <<Len(OfType(AVC_PPS))>> \o WithLengths(OfType(AVC_PPS), 2)

HevcArray(t) == <<128 + t>> \o Big(Len(OfType(t)), 2) \o WithLengths(OfType(t), 2)
HevcRecord == <<1>> \o [i \in 1..20 |-> 0] \o <<12 + lengthSize - 1, Len(HevcTypes)>>
              \o FlattenSeq([i \in DOMAIN HevcTypes |-> HevcArray(HevcTypes[i])])

Record == IF codec = "AVC" THEN AvcRecord ELSE HevcRecord

Init == /\ codec \in DOMAIN Headers
        /\ address \in 0..3
        /\ lengthSize \in LengthSizes
        /\ units = <<>>

AppendUnit == /\ Len(units) < MaxUnits
              /\ \E h \in Headers[codec], t \in Tails, long \in BOOLEAN :
                   units' = Append(units, [bytes |-> h \o t, longCode |-> long])
              /\ UNCHANGED <<codec, address, lengthSize>>

Spec == Init /\ [][AppendUnit]_vars

-----------------------------------------------------------------------------
(* BitReader(data + from - 1, size): the bits skip .. skip + n - 1, first one *)
(* highest; nothing is read past the end, the value is 0 then.               *)

GetBits(data, from, size, skip, n) ==
    LET bit(k) == (data[from + (k \div 8)] \div (2 ^ (7 - (k % 8)))) % 2
    IN IF skip + n > 8 * size THEN 0
       ELSE FoldLeft(LAMBDA value, k : 2 * value + bit(k), 0,
                     [i \in 1..n |-> skip + i - 1])

-----------------------------------------------------------------------------
(* Start codes.                                                              *)

IsCode(data, p) == data[p] = 0 /\ data[p + 1] = 0 /\ data[p + 2] = 1

\* Mutant: the scan goes on without the start codes that begin in a word's last byte.
CodesInWordButLast(data, p) ==
    IF \A i \in 0..3 : data[p + i] # 0 THEN {}
    ELSE {q \in {p, p + 1} : data[p + 1] = 0 /\ IsCode(data, q)}
         \cup {q \in {p + 2} : data[p + 3] = 0 /\ IsCode(data, q)}

\* The start codes that begin in the four bytes at p, if one of the four is zero.
CodesInWord(data, p) ==
    IF \A i \in 0..3 : data[p + i] # 0 THEN {}
    ELSE {q \in {p, p + 1} : data[p + 1] = 0 /\ IsCode(data, q)}
         \cup {q \in {p + 2, p + 3} : data[p + 3] = 0 /\ IsCode(data, q)}

\* Byte by byte to an address that 4 divides, then by words, and the rest by bytes; the
\* last three bytes are never looked at.
FindStartcodeInternal(data, p) ==
    LET end == Len(data) + 1
        aligned == p + 4 - ((address + p - 1) % 4)
        bytewise == {q \in p .. aligned - 1 : q + 3 < end}
        words == {q \in aligned .. end : (q - aligned) % 4 = 0 /\ q + 6 < end}
        rest == {q \in (IF words = {} THEN aligned ELSE Max(words) + 4) .. end : q + 3 < end}
        codes == {q \in bytewise \cup rest : IsCode(data, q)}
                 \cup UNION {CodesInWord(data, q) : q \in words}
    IN IF codes = {} THEN end ELSE Min(codes)

FindStartcode(data, p) ==
    LET out == FindStartcodeInternal(data, p)
    IN IF p < out /\ out <= Len(data) /\ data[out - 1] = 0 THEN out - 1 ELSE out

\* Past the zeros at p and the byte that ends them, the 1 of the start code.
AfterStartcode(data, p) ==
    LET ones == {q \in p .. Len(data) : data[q] # 0}
    IN IF ones = {} THEN Len(data) + 1 ELSE Min(ones) + 1

\* The loop that splits Annex B, from a start code or the end on.
Split(data) ==
    LET end == Len(data) + 1
        from[p \in 1..end] ==
            LET start == AfterStartcode(data, p)
                next == FindStartcode(data, start)
            IN IF start = end THEN <<>>
               ELSE <<SubSeq(data, start, next - 1)>> \o from[next]
    IN from[FindStartcode(data, 1)]

-----------------------------------------------------------------------------
(* The parameter sets; of several of one type the last one stays.            *)

Sets(found) == [t \in Kept |->
    LET at == {i \in DOMAIN found : found[i].type = t}
    IN IF at = {} THEN <<>> ELSE found[Max(at)].bytes]

\* n units behind lengths of two bytes, from p on: added to found, and where they end.
Entries(data, found, p, n, type) ==
    LET entry(acc, i) ==
            LET first == acc.next + 2
                length == GetBits(data, acc.next, Len(data) - acc.next + 1, 0, 16)
            IN [found |-> Append(acc.found, [type |-> type,
                                             bytes |-> SubSeq(data, first, first + length - 1)]),
                next |-> first + length]
    IN FoldLeft(entry, [found |-> found, next |-> p], [i \in 1..n |-> i])

IsAvcRecord(data) == Len(data) >= 7 /\ data[1] = 1
IsHevcRecord(data) == Len(data) >= 23 /\ data[1] = 1

ParseAvcRecord(data) ==
    LET sps == Entries(data, <<>>, 7, data[6] % 32, AVC_SPS)
    IN Sets(Entries(data, sps.found, sps.next + 1, data[sps.next], AVC_PPS).found)

ParseHevcRecord(data) ==
    LET array(acc, j) ==
            LET bits(skip, n) == GetBits(data, acc.next, Len(data) - acc.next + 1, skip, n)
            IN Entries(data, acc.found, acc.next + 3, bits(8, 16), bits(2, 6))
    IN Sets(FoldLeft(array, [found |-> <<>>, next |-> 24],
                     [j \in 1 .. data[23] |-> j]).found)

NaluType(nalu) == IF nalu = <<>> THEN 0
                  ELSE IF codec = "AVC" THEN GetBits(nalu, 1, 1, 3, 5)
                  ELSE GetBits(nalu, 1, Len(nalu), 1, 6)

ParseAnnexB(data) == LET nalus == Split(data)
                     IN Sets([i \in DOMAIN nalus |-> [type |-> NaluType(nalus[i]),
                                                      bytes |-> nalus[i]]])

ParseCsdAvc(data) == IF IsAvcRecord(data) THEN ParseAvcRecord(data) ELSE ParseAnnexB(data)
ParseCsdHevc(data) == IF IsHevcRecord(data) THEN ParseHevcRecord(data) ELSE ParseAnnexB(data)
ParseCsd(data) == IF codec = "AVC" THEN ParseCsdAvc(data) ELSE ParseCsdHevc(data)

\* mNaluLengthSize: 0 unless the data was a record.
AvcLengthSize(data) == IF IsAvcRecord(data) THEN GetBits(data, 1, Len(data), 38, 2) + 1 ELSE 0
HevcLengthSize(data) == IF IsHevcRecord(data) THEN GetBits(data, 1, Len(data), 174, 2) + 1 ELSE 0
NaluLengthSize(data) == IF codec = "AVC" THEN AvcLengthSize(data) ELSE HevcLengthSize(data)

\* The units of an access unit, behind lengths of size bytes.
WithoutLengths(data, size) ==
    LET from[p \in 1 .. Len(data) + 1] ==
            LET first == p + size
                next == first + GetBits(data, p, Len(data), 0, 8 * size)
            IN IF p > Len(data) THEN <<>>
               ELSE <<SubSeq(data, first, next - 1)>> \o from[next]
    IN from[1]

Prepare(data, size) == IF size > 0 THEN WithoutLengths(data, size) ELSE Split(data)

-----------------------------------------------------------------------------
\* Whichever way a file keeps them, and wherever the data lies, the server finds the
\* parameter sets the file has, the last of each type, and every unit of an access unit,
\* to the byte (Utils.cpp 58-324, RtpServerProto.cpp 107-151 and 271-318): no start code is
\* missed between two steps of the scan or before the last three bytes, none is made out
\* of a unit, and the two readings of one stream agree.
FormatsAgree ==
    LET stream == AnnexB
        record == Record
        unit == Bytes
        sets == Sets([i \in DOMAIN units |-> [type |-> TypeOf(unit[i]), bytes |-> unit[i]]])
    IN /\ ParseCsd(stream) = sets
       /\ ParseCsd(record) = sets
       /\ Prepare(stream, NaluLengthSize(stream)) = unit
       /\ Prepare(WithLengths(unit, lengthSize), NaluLengthSize(record)) = unit
=============================================================================
