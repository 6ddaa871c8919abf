------------------------------ MODULE BitWriter ------------------------------
(***************************************************************************)
(* BitWriter: puts values of some bits each into a buffer of "room" bytes. *)
(* Bits are sequences of 0 and 1, the most significant first; mReservoir   *)
(* has 32 of them, mNumBitsLeft of which are still to be replaced.         *)
(***************************************************************************)
EXTENDS Naturals, Sequences, SequencesExt

Zeros(n) == [i \in 1 .. n |-> 0]
BitsOf(value, width) == [i \in 1 .. width |-> (value \div 2 ^ (width - i)) % 2]

\* The constructor: the reservoir counts as full, of zeros.
NewWriter(room) == [data |-> <<>>, mSize |-> room, mReservoir |-> Zeros(32), mNumBitsLeft |-> 0]

\* flush(): whole bytes while there is room, then what is left of one.
Flush(w) ==
    LET whole == (32 - w.mNumBitsLeft) \div 8
        bytes == IF whole < w.mSize THEN whole ELSE w.mSize
        left == w.mNumBitsLeft + 8 * bytes
        rest == 32 - left
        partly == left < 32 /\ bytes < w.mSize
    IN [w EXCEPT
          !.data = @ \o SubSeq(w.mReservoir, w.mNumBitsLeft + 1, left)
                     \o IF partly THEN SubSeq(w.mReservoir, 33 - rest, 32) \o Zeros(8 - rest)
                        ELSE <<>>,
          !.mSize = IF partly THEN @ - bytes - 1 ELSE @ - bytes,
          !.mNumBitsLeft = IF partly THEN 32 ELSE left]

\* putBits(), one bit after the other.  A full reservoir that the buffer has no
\* room for makes it go round for ever: nobody puts more bits than there is room.
PutBit(w, bit) ==
    LET ready == IF w.mNumBitsLeft = 0 THEN Flush(w) ELSE w
        placed == [ready EXCEPT !.mReservoir = Append(Tail(@), bit), !.mNumBitsLeft = @ - 1]
    IN IF placed.mNumBitsLeft = 0 THEN Flush(placed) ELSE placed

PutBits(w, field) == FoldLeft(PutBit, w, BitsOf(field[1], field[2]))

\* The bits in the buffer once fields <<value, width>> were put and flushed.
Written(room, fields) == Flush(FoldLeft(PutBits, NewWriter(room), fields)).data

\* What a reader of "width" bits finds behind the first "skip" of them.
ValueOf(bits, skip, width) ==
    FoldLeft(LAMBDA value, bit : 2 * value + bit, 0, SubSeq(bits, skip + 1, skip + width))
=============================================================================
