-------------------------------- MODULE Base64 --------------------------------
(***************************************************************************)
(* decodeBase64() and encodeBase64().  A character of the alphabet is its  *)
(* value 0..63, '=' is Pad, any other character is Other.                  *)
(***************************************************************************)
EXTENDS Naturals, Sequences, FiniteSets, SequencesExt

Pad == 64
Other == 65

\* The 24 bits of a group, as the number of its three bytes or four characters.
BytesOf(accum) == <<accum \div 2 ^ 16, (accum \div 2 ^ 8) % 2 ^ 8, accum % 2 ^ 8>>
CharsOf(accum) == [k \in 1 .. 4 |-> (accum \div 64 ^ (4 - k)) % 64]

\* encodeBase64(): one or two bytes that are left make a group with '=' at its end.
EncodeBase64(data) ==
    LET group(i) == [k \in 1 .. 3 |-> IF i + k <= Len(data) THEN data[i + k] ELSE 0]
        chars(i) == LET g == group(i) IN CharsOf(g[1] * 2 ^ 16 + g[2] * 2 ^ 8 + g[3])
        whole == FlattenSeq([n \in 1 .. Len(data) \div 3 |-> chars(3 * (n - 1))])
        rest == Len(data) % 3
    IN IF rest = 0 THEN whole
       ELSE whole \o SubSeq(chars(Len(data) - rest), 1, rest + 1) \o [k \in 1 .. 3 - rest |-> Pad]

\* decodeBase64(): as many '=' as the text ends with, three at most, count as
\* padding; elsewhere they are refused like a character that has no value.
Padding(s) == Cardinality({n \in 1 .. 3 : n <= Len(s)
                                          /\ \A k \in Len(s) - n + 1 .. Len(s) : s[k] = Pad})

Decodes(s, room) ==
    /\ Len(s) % 4 = 0
    /\ 3 * (Len(s) \div 4) - Padding(s) <= room
    /\ \A k \in DOMAIN s : s[k] < Pad \/ (s[k] = Pad /\ k > Len(s) - Padding(s))

DecodeBase64(s) ==
    LET value(k) == IF s[k] = Pad THEN 0 ELSE s[k]
        accum(n) == FoldLeft(LAMBDA a, k : 64 * a + value(4 * n + k), 0, <<1, 2, 3, 4>>)
        bytes == FlattenSeq([n \in 1 .. Len(s) \div 4 |-> BytesOf(accum(n - 1))])
    IN SubSeq(bytes, 1, Len(bytes) - Padding(s))
===============================================================================
