---------------------------------- MODULE Crc ----------------------------------
(***************************************************************************)
(* Utils/CrcUtils: the sums over bytes that packets are checked by.  A     *)
(* word is the set of the positions of its bits, 0 the lowest, so that     *)
(* exclusive or is the difference of sets; the tables are what dividing a  *)
(* byte by the polynomial leaves.  The receiver sums bytes of which a run  *)
(* of bits was damaged.  A step is a byte taken into both sums.  The last  *)
(* exclusive or of Crc32, the same for both sums, is left out.             *)
(***************************************************************************)
EXTENDS Integers, FiniteSets, SequencesExt

CONSTANT Blocks \* the data sent, by sum: sets of sequences of bytes

VARIABLES
  sum,     \* which one, in DOMAIN Width
  block,   \* the bytes sent
  damage,  \* positions of the bits that changed, in the order of the division
  summed,  \* the bytes taken into the sums
  sentSum,    \* the sum of those sent
  receivedSum \* and of those received

crcVars == <<sum, block, damage, summed, sentSum, receivedSum>>

Xor(a, b) == (a \ b) \cup (b \ a)
ShiftLeft(word, n) == {b + n : b \in word}
ShiftRight(word, n) == {b - n : b \in {b \in word : b >= n}}
Low(word, width) == {b \in word : b < width}
Byte == SUBSET (0 .. 7)

(* Eight steps of the division, from the lowest bit or from the highest.   *)
Divided(start, Step(_)) == FoldLeft(LAMBDA word, i : Step(word), start, [i \in 1 .. 8 |-> i])

LowestFirst(polynomial) ==
  [byte \in Byte |->
     Divided(byte, LAMBDA word : Xor(ShiftRight(word, 1), IF 0 \in word THEN polynomial ELSE {}))]

HighestFirst(polynomial, width) ==
  [byte \in Byte |->
     Divided(ShiftLeft(byte, width - 8),
             LAMBDA word : Xor(Low(ShiftLeft(word, 1), width), IF width - 1 \in word THEN polynomial ELSE {}))]

crc8_table == LowestFirst({2, 3, 7})
crc16_table == HighestFirst({0, 5, 12}, 16)
crc32_table == LowestFirst({5, 8, 9, 15, 19, 20, 21, 23, 24, 26, 27, 29, 30, 31})

Crc8(crc, byte) == crc8_table[Xor(crc, byte)]

(* Mutant of Crc16: the lower byte of the sum is looked up. *)
Crc16Lower(start, byte) == Xor(Low(ShiftLeft(start, 8), 16), crc16_table[Xor(Low(start, 8), byte)])

Crc16(start, byte) == Xor(Low(ShiftLeft(start, 8), 16), crc16_table[Xor(ShiftRight(start, 8), byte)])

(* The sum with a start of its own: shifted as an int and then cut.        *)
Crc16OfLength(crc, byte) == Low(Xor(ShiftLeft(crc, 8), crc16_table[Xor(ShiftRight(crc, 8), byte)]), 16)

Crc32(crc, byte) == Xor(ShiftRight(crc, 8), crc32_table[Low(Xor(crc, byte), 8)])

Width == [Crc8 |-> 8, Crc16 |-> 16, Crc16OfLength |-> 16, Crc32 |-> 32]

Start(kind) == IF kind \in {"Crc8", "Crc16"} THEN {} ELSE 0 .. Width[kind] - 1

Next1(crc, byte) ==
  CASE sum = "Crc8"          -> Crc8(crc, byte)
    [] sum = "Crc16"         -> Crc16(crc, byte)
    [] sum = "Crc16OfLength" -> Crc16OfLength(crc, byte)
    [] sum = "Crc32"         -> Crc32(crc, byte)

(* Bit p of the data, as the division of this sum comes to it.             *)
Damaged(i) ==
  LET Position(b) == 8 * (i - 1) + IF sum \in {"Crc8", "Crc32"} THEN b ELSE 7 - b
  IN Xor(block[i], {b \in 0 .. 7 : Position(b) \in damage})

(* External: from the first to the last damaged bit it is not further than *)
(* the sum is wide; those between are all damaged, or none.                *)
Bursts(bits, width) ==
  UNION {UNION {{{first, last}, first .. last} : last \in {l \in 0 .. bits - 1 : first <= l /\ l < first + width}} :
           first \in 0 .. bits - 1}

Init ==
  /\ sum \in DOMAIN Width
  /\ block \in Blocks[sum]
  /\ damage \in Bursts(8 * Len(block), Width[sum])
  /\ summed = 0 /\ sentSum = Start(sum) /\ receivedSum = Start(sum)

Next ==
  /\ summed < Len(block)
  /\ summed' = summed + 1
  /\ sentSum' = Next1(sentSum, block[summed'])
  /\ receivedSum' = Next1(receivedSum, Damaged(summed'))
  /\ UNCHANGED <<sum, block, damage>>

Spec == Init /\ [][Next]_crcVars

---------------------------------------------------------------------------

(* Data that were damaged in a run of bits no longer than their sum do not *)
(* have the sum that was sent with them, so that they are refused.         *)
Refuses == summed = Len(block) => sentSum # receivedSum
=============================================================================
