-------------------------------- MODULE Md5p --------------------------------
(***************************************************************************)
(* md5p.cpp: how a message is cut into blocks and padded, and the schedule *)
(* of the 64 steps that mix a block.  The mixing itself (32-bit sums and   *)
(* the constants of the steps) is left out: a digest stands for the        *)
(* sequence of blocks that Update was called with.  WordBits is the width  *)
(* of unsigned long, 32 in the code.                                       *)
(***************************************************************************)
EXTENDS Integers, Sequences, SequencesExt

CONSTANT WordBits

ASSUME WordBitsAssumption == WordBits \in 7..32

Word == 2^WordBits

\* The object: the blocks that went into _chain, and _length as its two words.
MD5p == [fed |-> <<>>, length |-> <<0, 0>>]

addLength(l, n) == <<(l[1] + n) % Word, IF Word - 1 - l[1] < n THEN (l[2] + 1) % Word ELSE l[2]>>

Update(md5, block) == [fed |-> Append(md5.fed, block), length |-> addLength(md5.length, 64)]

\* Mutation: the bits that leave the first word of the length are lost.
PaddingOneWord(tail, length) ==
    LET l == length[1] % 64
        n == (IF l >= 56 THEN 120 ELSE 56) - l
    IN  [i \in 1..l |-> tail[i]] \o [i \in 1..n |-> IF i = 1 THEN 128 ELSE 0]
        \o <<(length[1] * 8) % Word, (length[2] * 8) % Word>>

\* The padding buffer: the tail, 80, zeros, and the two words of the length in bits
\* (a word is kept whole, four bytes of the buffer; <<w>> is such a word).
Padding(tail, length) ==
    LET l == length[1] % 64
        n == (IF l >= 56 THEN 120 ELSE 56) - l
    IN  [i \in 1..l |-> tail[i]] \o [i \in 1..n |-> IF i = 1 THEN 128 ELSE 0]
        \o <<(length[1] * 8) % Word, ((length[2] * 8) % Word) + (length[1] \div 2^(WordBits - 3))>>

\* The last block holds 56 bytes and two words.
Final(md5, tail) ==
    LET length == addLength(md5.length, Len(tail))
        padding == Padding(tail, length)
        counted == [md5 EXCEPT !.length = length]
    IN  IF length[1] % 64 >= 56
        THEN Update(Update(counted, SubSeq(padding, 1, 64)), SubSeq(padding, 65, Len(padding)))
        ELSE Update(counted, padding)

\* How often the loop of GetSum turns: p + 64 is a sum of unsigned words.  (It never ends when the
\* message is less than 64 bytes shorter than all that a word can count.)
Turns(length) == CHOOSE k \in 0..length : /\ (64 * k + 64) % Word > length
                                          /\ \A j \in 0..(k - 1) : (64 * j + 64) % Word <= length

BlockAt(message, i) == SubSeq(message, 64 * i - 63, 64 * i)

GetSum(message) ==
    LET k == Turns(Len(message))
        md5 == FoldLeft(Update, MD5p, [i \in 1..k |-> BlockAt(message, i)])
    IN  Final(md5, SubSeq(message, 64 * k + 1, Len(message)))

---------------------------------------------------------------------------
(* The steps of Update *)

\* The word of the block each step adds, round by round.
StepWord == <<0, 1, 2, 3, 4, 5, 6, 7, 8, 9, 10, 11, 12, 13, 14, 15,
              1, 6, 11, 0, 5, 10, 15, 4, 9, 14, 3, 8, 13, 2, 7, 12,
              5, 8, 11, 14, 1, 4, 7, 10, 13, 0, 3, 6, 9, 12, 15, 2,
              0, 7, 14, 5, 12, 3, 10, 1, 8, 15, 6, 13, 4, 11, 2, 9>>

\* How far a step rotates: four numbers per round, over and over.
StepShift(i) == LET rounds == <<<<7, 12, 17, 22>>, <<5, 9, 14, 20>>, <<4, 11, 16, 23>>, <<6, 10, 15, 21>>>>
                IN  rounds[1 + ((i - 1) \div 16)][1 + ((i - 1) % 4)]

\* The functions of the rounds, on one bit of each operand.
And(x, y) == x * y
Not(x) == 1 - x
Or(x, y) == x + y - x * y
Xor(x, y) == (x + y) % 2

md5_f(x, y, z) == Or(And(x, y), And(Not(x), z))
md5_g(x, y, z) == Or(And(x, z), And(y, Not(z)))
md5_h(x, y, z) == Xor(Xor(x, y), z)
md5_i(x, y, z) == Xor(y, Or(x, Not(z)))

md5_rol(n, c) == ((n * 2^c) % Word) + (n \div 2^(WordBits - c))
=============================================================================
