--------------------------------- MODULE Des ---------------------------------
(***************************************************************************)
(* DES and triple DES (des.cpp): the key schedules and the block function.  *)
(* A word is the set of its bits that are 1, bit 0 the lowest.              *)
(***************************************************************************)
EXTENDS Integers, Sequences, SequencesExt

Bits == 0 .. 31
Xor(X, Y) == (X \ Y) \cup (Y \ X)
ShiftL(X, n) == {b + n : b \in X} \cap Bits
ShiftR(X, n) == {b - n : b \in X} \cap Bits
RotateL(X, n) == {(b + n) % 32 : b \in X}
UpTo(n) == << >> \o [i \in 1 .. n |-> i]

GetBE(input, i) == {b \in Bits : (input[i + 4 - (b \div 8)] \div 2 ^ (b % 8)) % 2 = 1}
ByteOf(X, k) == FoldLeft(LAMBDA v, b : 2 * v + (IF 8 * k + 8 - b \in X THEN 1 ELSE 0), 0, UpTo(8))
PutBE(X) == << >> \o [k \in 1 .. 4 |-> ByteOf(X, 4 - k)]

\* SB1 to SB8: the four bits of a word an S-box sets, and for each of its 64 inputs which of
\* them it does.
SBits ==
  << <<24, 16, 10, 2>>, <<31, 20, 15, 5>>, <<27, 17, 9, 3>>, <<23, 13, 7, 0>>,
     <<30, 25, 19, 8>>, <<29, 22, 14, 4>>, <<26, 21, 11, 1>>, <<28, 18, 12, 6>> >>
SValues == <<
   <<14, 0, 4, 15, 13, 7, 1, 4, 2, 14, 15, 2, 11, 13, 8, 1, 3, 10, 10, 6, 6, 12, 12, 11,
     5, 9, 9, 5, 0, 3, 7, 8, 4, 15, 1, 12, 14, 8, 8, 2, 13, 4, 6, 9, 2, 1, 11, 7, 15, 5,
     12, 11, 9, 3, 7, 14, 3, 10, 10, 0, 5, 6, 0, 13>>,
   <<15, 10, 2, 7, 4, 1, 13, 11, 9, 15, 14, 8, 10, 4, 1, 13, 6, 5, 11, 0, 8, 2, 7, 12, 5,
     9, 0, 6, 3, 14, 12, 3, 0, 7, 13, 4, 11, 12, 14, 2, 12, 10, 1, 15, 7, 1, 2, 8, 3, 14,
     4, 9, 5, 11, 9, 5, 6, 0, 10, 3, 8, 13, 15, 6>>,
   <<3, 14, 0, 13, 10, 0, 7, 10, 5, 9, 9, 4, 15, 5, 12, 3, 8, 1, 14, 2, 6, 12, 13, 7, 11,
     6, 4, 11, 1, 15, 2, 8, 14, 8, 5, 3, 4, 14, 10, 0, 2, 5, 15, 10, 9, 2, 0, 13, 11, 4,
     8, 15, 1, 7, 6, 9, 12, 11, 3, 12, 7, 1, 13, 6>>,
   <<13, 7, 7, 2, 14, 11, 9, 5, 0, 12, 12, 15, 3, 0, 10, 9, 1, 4, 8, 13, 2, 8, 5, 6, 11,
     1, 6, 10, 4, 14, 15, 3, 10, 9, 12, 15, 3, 0, 0, 12, 6, 10, 11, 1, 13, 7, 7, 2, 15,
     3, 1, 4, 9, 5, 14, 11, 5, 6, 8, 13, 2, 8, 4, 14>>,
   <<1, 7, 6, 13, 2, 1, 8, 6, 11, 2, 5, 11, 13, 14, 3, 8, 4, 10, 10, 0, 9, 15, 15, 5, 14,
     9, 0, 12, 7, 4, 12, 3, 2, 13, 1, 4, 8, 6, 13, 11, 5, 8, 14, 7, 11, 1, 4, 14, 15, 3,
     12, 15, 6, 0, 10, 12, 3, 5, 9, 2, 0, 10, 7, 9>>,
   <<9, 12, 2, 15, 12, 1, 15, 4, 10, 7, 4, 9, 5, 10, 8, 3, 0, 5, 11, 2, 6, 11, 1, 13, 13,
     0, 7, 14, 3, 6, 14, 8, 10, 1, 13, 6, 15, 4, 3, 9, 4, 10, 8, 3, 9, 15, 6, 12, 7, 14,
     0, 13, 1, 2, 12, 7, 2, 5, 11, 0, 14, 8, 5, 11>>,
   <<4, 13, 11, 0, 2, 11, 7, 14, 15, 4, 0, 9, 1, 8, 13, 3, 10, 7, 5, 10, 9, 12, 14, 5,
     12, 2, 3, 15, 6, 1, 8, 6, 8, 6, 4, 11, 11, 13, 13, 1, 5, 8, 10, 4, 14, 3, 7, 14, 3,
     9, 15, 12, 6, 0, 1, 15, 0, 7, 12, 2, 9, 10, 2, 5>>,
   <<11, 2, 4, 15, 8, 11, 1, 8, 5, 12, 15, 6, 14, 7, 2, 1, 12, 9, 10, 3, 6, 5, 13, 14, 3,
     0, 0, 13, 9, 10, 7, 4, 7, 4, 14, 2, 1, 13, 2, 7, 10, 1, 9, 12, 13, 8, 4, 11, 0, 15,
     5, 9, 12, 10, 11, 0, 15, 6, 6, 3, 3, 5, 8, 14>> >>
SB == << >> \o [k \in 1 .. 8 |-> << >> \o [v \in 1 .. 64 |->
        {SBits[k][j] : j \in {i \in 1 .. 4 : (SValues[k][v] \div 2 ^ (4 - i)) % 2 = 1}}]]

\* A step of the permutations: bits of X and Y change places.
Exchange(X, Y, n, mask) == Xor(ShiftR(X, n), Y) \cap mask
Swap(p) == <<p[2], p[1]>>
Step(p, n, mask) ==
  <<Xor(p[1], ShiftL(Exchange(p[1], p[2], n, mask), n)),
    Xor(p[2], Exchange(p[1], p[2], n, mask))>>
Nibbles == {b \in Bits : b % 8 < 4}
Halves == {b \in Bits : b < 16}
Pairs == {b \in Bits : b % 4 < 2}
Bytes == {b \in Bits : b % 16 < 8}
Odd == {b \in Bits : b % 2 = 1}
Rotate(p, i, n) == [p EXCEPT ![i] = RotateL(@, n)]

DES_IP(p) ==
  Rotate(Step(Rotate(Swap(Step(Step(Swap(Step(Step(p, 4, Nibbles), 16, Halves)),
                                    2, Pairs), 8, Bytes)), 2, 1), 0, Odd), 1, 1)
DES_FP(p) ==
  Step(Step(Swap(Step(Step(Swap(Rotate(Step(Rotate(p, 1, 31), 0, Odd), 2, 31)),
                           8, Bytes), 2, Pairs)), 16, Halves), 4, Nibbles)

\* What DES_ROUND adds to the other half.
Six(T, at) == FoldLeft(LAMBDA v, j : 2 * v + (IF at + 6 - j \in T THEN 1 ELSE 0), 0, UpTo(6))
Boxes(T, k) ==
  Xor(Xor(SB[k][Six(T, 0) + 1], SB[k - 2][Six(T, 8) + 1]),
      Xor(SB[k - 4][Six(T, 16) + 1], SB[k - 6][Six(T, 24) + 1]))
RoundSum(X, k1, k2) == Xor(Boxes(Xor(k1, X), 8), Boxes(Xor(k2, RotateL(X, 28)), 7))
\* Half p[1] is changed, and is the other one of the next round.
DES_ROUND(p, SK, r) == <<p[2], Xor(p[1], RoundSum(p[2], SK[2 * r - 1], SK[2 * r]))>>

-----------------------------------------------------------------------------
\* The 28 bits of the halves of a key, and the bits of them a subkey has, for the two words
\* of a subkey, highest first.
LHs(X, at) == {8 * j : j \in {i \in 0 .. 3 : at + i \in X}}
RHs(Y, at) == {24 - 8 * j : j \in {i \in 0 .. 3 : at + i \in Y}}
Left(X) ==
  UNION {ShiftL(LHs(X, 8 * (3 - n)), n) : n \in 0 .. 3}
    \cup UNION {ShiftL(LHs(X, 5 + 8 * (7 - n)), n) : n \in 4 .. 7}
Right(Y) ==
  UNION {ShiftL(RHs(Y, 1 + 8 * (3 - n)), n) : n \in 0 .. 3}
    \cup UNION {ShiftL(RHs(Y, 4 + 8 * (7 - n)), n) : n \in 4 .. 7}
Turn(X, n) == {(b + n) % 28 : b \in X}

To == <<29, 28, 27, 26, 25, 24, 21, 20, 19, 18, 17, 16>>
ToLow == <<13, 12, 11, 10, 9, 8, 5, 4, 3, 2, 1, 0>>
FirstX == <<25, 0, 13, 22, 7, 18, 12, 21, 1, 8, 15, 26>>
FirstY == <<26, 16, 5, 11, 23, 8, 10, 14, 6, 20, 27, 24>>
SecondX == <<14, 11, 17, 4, 27, 23, 5, 9, 16, 24, 2, 20>>
SecondY == <<15, 4, 25, 19, 9, 1, 12, 7, 17, 0, 22, 3>>
Subkey(X, Y, ofX, ofY) ==
  {To[i] : i \in {k \in 1 .. 12 : ofX[k] \in X}}
    \cup {ToLow[i] : i \in {k \in 1 .. 12 : ofY[k] \in Y}}
SubkeysOf(X, Y) == <<Subkey(X, Y, FirstX, FirstY), Subkey(X, Y, SecondX, SecondY)>>

Turns(i) == IF i < 2 \/ i = 8 \/ i = 15 THEN 1 ELSE 2
Schedule(X, Y) ==
  FoldLeft(LAMBDA s, i : [x |-> Turn(s.x, Turns(i - 1)), y |-> Turn(s.y, Turns(i - 1)),
                          sk |-> s.sk \o SubkeysOf(Turn(s.x, Turns(i - 1)),
                                                   Turn(s.y, Turns(i - 1)))],
           [x |-> X, y |-> Y, sk |-> << >>], UpTo(16)).sk
AfterPC1(p) == Schedule(Left(p[2]) \cap 0 .. 27, Right(p[1]) \cap 0 .. 27)
des_setkey(key) ==
  AfterPC1(Step(Step(<<GetBE(key, 4), GetBE(key, 0)>>, 4, Nibbles), 0, {4, 12, 20, 28}))

\* The pairs of subkeys in the opposite order.
Opposite(sk) ==
  << >> \o [i \in DOMAIN sk |-> sk[Len(sk) - i + (IF i % 2 = 1 THEN 0 ELSE 2)]]
des_setkey_enc(key) == des_setkey(key)
des_setkey_dec(key) == Opposite(des_setkey(key))

\* Encrypt, decrypt, encrypt: the schedule and the one backwards.
EDE(k1, k2, k3) ==
  [esk |-> k1 \o Opposite(k2) \o k3, dsk |-> Opposite(k3) \o k2 \o Opposite(k1)]
des3_set2key(key) ==
  EDE(des_setkey(SubSeq(key, 1, 8)), des_setkey(SubSeq(key, 9, 16)),
      des_setkey(SubSeq(key, 1, 8)))
\* Mutant of des3_set3key: the keys are put into the backward schedule in their order.
des3_set3keyInOrder(key) ==
  EDE(des_setkey(SubSeq(key, 17, 24)), des_setkey(SubSeq(key, 9, 16)),
      des_setkey(SubSeq(key, 1, 8)))
des3_set3key(key) ==
  EDE(des_setkey(SubSeq(key, 1, 8)), des_setkey(SubSeq(key, 9, 16)),
      des_setkey(SubSeq(key, 17, 24)))
des3_set2key_enc(key) == des3_set2key(key).esk
des3_set2key_dec(key) == des3_set2key(key).dsk
des3_set3key_enc(key) == des3_set3key(key).esk
des3_set3key_dec(key) == des3_set3key(key).dsk

-----------------------------------------------------------------------------
\* The block functions: rounds first + 1 to first + 16 and back to X and Y.
Loaded(input) == DES_IP(<<GetBE(input, 0), GetBE(input, 4)>>)
Stored(p) == PutBE(p[1]) \o PutBE(p[2])
Sixteen(p, SK, first) ==
  FoldLeft(LAMBDA q, r : DES_ROUND(q, SK, first + r), p, UpTo(16))
des_crypt_ecb(sk, input) == Stored(DES_FP(Swap(Sixteen(Loaded(input), sk, 0))))
des3_crypt_ecb(sk, input) ==
  Stored(DES_FP(Swap(Sixteen(Swap(Sixteen(Swap(Sixteen(Loaded(input), sk, 0)), sk, 16)),
                             sk, 32))))
==============================================================================
