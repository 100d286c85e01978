--------------------------- MODULE CipherStandards ---------------------------
(***************************************************************************)
(* AES as FIPS 197 writes it, DES as FIPS 46-3 does and Camellia as RFC     *)
(* 3713 does, to compare the code with.                                     *)
(***************************************************************************)
EXTENDS Words

UpTo(n) == << >> \o [i \in 1 .. n |-> i]

-----------------------------------------------------------------------------
\* AES, on bytes; bytes are counted from 0.

Double(a) == IF a >= 128 THEN XorByte(2 * (a - 128), 27) ELSE 2 * a
Times[a \in 0 .. 255, b \in 0 .. 255] ==
  IF b = 0 THEN 0 ELSE XorByte(IF b % 2 = 1 THEN a ELSE 0, Times[Double(a), b \div 2])
Square(a) == Times[a, a]
\* a to the power of 254.
Inverse254(a) ==
  FoldLeft(LAMBDA s, i : [sq |-> Times[s.sq, s.sq], all |-> Times[s.all, Times[s.sq, s.sq]]],
           [sq |-> a, all |-> 1], UpTo(7)).all
BitOf(a, i) == (a \div 2 ^ (i % 8)) % 2
Affine(a) ==
  FoldLeft(LAMBDA v, i : 2 * v + ((BitOf(a, 8 - i) + BitOf(a, 12 - i) + BitOf(a, 13 - i)
                                     + BitOf(a, 14 - i) + BitOf(a, 15 - i) + BitOf(99, 8 - i)) % 2),
           0, UpTo(8))
SBox == << >> \o [a \in 1 .. 256 |-> Affine(Inverse254(a - 1))]
Rcon == <<1, 2, 4, 8, 16, 32, 64, 128, 27, 54>>

\* w is the expanded key, byte by byte, of a key of nk words.
Temp(w, i, j, nk) ==
  IF i % nk = 0
  THEN XorByte(SBox[w[4 * i - 3 + ((j + 1) % 4)] + 1], IF j = 0 THEN Rcon[i \div nk] ELSE 0)
  ELSE IF nk = 8 /\ i % 8 = 4 THEN SBox[w[4 * i - 3 + j] + 1] ELSE w[4 * i - 3 + j]
AesExpanded(w, key, nk) ==
  /\ SubSeq(w, 1, 4 * nk) = key
  /\ Len(w) >= 4 * 4 * (nk + 7)
  /\ \A i \in nk .. 4 * (nk + 7) - 1, j \in 0 .. 3 :
       w[4 * i + j + 1] = XorByte(w[4 * (i - nk) + j + 1], Temp(w, i, j, nk))

Shifted(s) == << >> \o [i \in 1 .. 16 |-> SBox[s[((5 * (i - 1)) % 16) + 1] + 1]]
Cell(s, c, r) == s[4 * c + (r % 4) + 1]
Mix(s, c, r) ==
  XorByte(XorByte(Double(Cell(s, c, r)), XorByte(Double(Cell(s, c, r + 1)), Cell(s, c, r + 1))),
          XorByte(Cell(s, c, r + 2), Cell(s, c, r + 3)))
MixColumns(s) == << >> \o [i \in 1 .. 16 |-> Mix(s, (i - 1) \div 4, (i - 1) % 4)]
AddRoundKey(s, w, r) == XorBytes(s, SubSeq(w, 16 * r + 1, 16 * r + 16))
Aes(w, text, nr) ==
  AddRoundKey(Shifted(FoldLeft(LAMBDA s, r : AddRoundKey(MixColumns(Shifted(s)), w, r),
                               AddRoundKey(text, w, 0), UpTo(nr - 1))), w, nr)

-----------------------------------------------------------------------------
\* DES: a string of bits is the set of the places, from 1, of those that are 1.

BitsOf(bytes) ==
  {p \in 1 .. 8 * Len(bytes) :
     (bytes[(p - 1) \div 8 + 1] \div 2 ^ ((8 - (p % 8)) % 8)) % 2 = 1}
Permuted(S, table) == {i \in DOMAIN table : table[i] \in S}
Differ(A, B) == (A \ B) \cup (B \ A)

IP == << >> \o [i \in 1 .. 64 |->
        (IF (i - 1) \div 8 < 4 THEN 58 + 2 * ((i - 1) \div 8) ELSE 49 + 2 * ((i - 1) \div 8))
          - 8 * ((i - 1) % 8)]
PC1 == <<57, 49, 41, 33, 25, 17, 9, 1, 58, 50, 42, 34, 26, 18,
         10, 2, 59, 51, 43, 35, 27, 19, 11, 3, 60, 52, 44, 36,
         63, 55, 47, 39, 31, 23, 15, 7, 62, 54, 46, 38, 30, 22,
         14, 6, 61, 53, 45, 37, 29, 21, 13, 5, 28, 20, 12, 4>>
PC2 == <<14, 17, 11, 24, 1, 5, 3, 28, 15, 6, 21, 10, 23, 19, 12, 4, 26, 8,
         16, 7, 27, 20, 13, 2, 41, 52, 31, 37, 47, 55, 30, 40, 51, 45, 33, 48,
         44, 49, 39, 56, 34, 53, 46, 42, 50, 36, 29, 32>>
P == <<16, 7, 20, 21, 29, 12, 28, 17, 1, 15, 23, 26, 5, 18, 31, 10,
       2, 8, 24, 14, 32, 27, 3, 9, 19, 13, 30, 6, 22, 11, 4, 25>>
S == <<
   <<14, 4, 13, 1, 2, 15, 11, 8, 3, 10, 6, 12, 5, 9, 0, 7, 0, 15, 7, 4, 14, 2, 13, 1, 10,
     6, 12, 11, 9, 5, 3, 8, 4, 1, 14, 8, 13, 6, 2, 11, 15, 12, 9, 7, 3, 10, 5, 0, 15, 12,
     8, 2, 4, 9, 1, 7, 5, 11, 3, 14, 10, 0, 6, 13>>,
   <<15, 1, 8, 14, 6, 11, 3, 4, 9, 7, 2, 13, 12, 0, 5, 10, 3, 13, 4, 7, 15, 2, 8, 14, 12,
     0, 1, 10, 6, 9, 11, 5, 0, 14, 7, 11, 10, 4, 13, 1, 5, 8, 12, 6, 9, 3, 2, 15, 13, 8,
     10, 1, 3, 15, 4, 2, 11, 6, 7, 12, 0, 5, 14, 9>>,
   <<10, 0, 9, 14, 6, 3, 15, 5, 1, 13, 12, 7, 11, 4, 2, 8, 13, 7, 0, 9, 3, 4, 6, 10, 2,
     8, 5, 14, 12, 11, 15, 1, 13, 6, 4, 9, 8, 15, 3, 0, 11, 1, 2, 12, 5, 10, 14, 7, 1,
     10, 13, 0, 6, 9, 8, 7, 4, 15, 14, 3, 11, 5, 2, 12>>,
   <<7, 13, 14, 3, 0, 6, 9, 10, 1, 2, 8, 5, 11, 12, 4, 15, 13, 8, 11, 5, 6, 15, 0, 3, 4,
     7, 2, 12, 1, 10, 14, 9, 10, 6, 9, 0, 12, 11, 7, 13, 15, 1, 3, 14, 5, 2, 8, 4, 3, 15,
     0, 6, 10, 1, 13, 8, 9, 4, 5, 11, 12, 7, 2, 14>>,
   <<2, 12, 4, 1, 7, 10, 11, 6, 8, 5, 3, 15, 13, 0, 14, 9, 14, 11, 2, 12, 4, 7, 13, 1, 5,
     0, 15, 10, 3, 9, 8, 6, 4, 2, 1, 11, 10, 13, 7, 8, 15, 9, 12, 5, 6, 3, 0, 14, 11, 8,
     12, 7, 1, 14, 2, 13, 6, 15, 0, 9, 10, 4, 5, 3>>,
   <<12, 1, 10, 15, 9, 2, 6, 8, 0, 13, 3, 4, 14, 7, 5, 11, 10, 15, 4, 2, 7, 12, 9, 5, 6,
     1, 13, 14, 0, 11, 3, 8, 9, 14, 15, 5, 2, 8, 12, 3, 7, 0, 4, 10, 1, 13, 11, 6, 4, 3,
     2, 12, 9, 5, 15, 10, 11, 14, 1, 7, 6, 0, 8, 13>>,
   <<4, 11, 2, 14, 15, 0, 8, 13, 3, 12, 9, 7, 5, 10, 6, 1, 13, 0, 11, 7, 4, 9, 1, 10, 14,
     3, 5, 12, 2, 15, 8, 6, 1, 4, 11, 13, 12, 3, 7, 14, 10, 15, 6, 8, 0, 5, 9, 2, 6, 11,
     13, 8, 1, 4, 10, 7, 9, 5, 0, 15, 14, 2, 3, 12>>,
   <<13, 2, 8, 4, 6, 15, 11, 1, 10, 9, 3, 14, 5, 0, 12, 7, 1, 15, 13, 8, 10, 3, 7, 4, 12,
     5, 6, 11, 0, 14, 9, 2, 7, 11, 4, 1, 9, 12, 14, 2, 0, 6, 10, 13, 15, 3, 5, 8, 2, 1,
     14, 7, 4, 10, 8, 13, 15, 12, 9, 0, 3, 5, 6, 11>> >>
LeftShifts == <<1, 2, 4, 6, 8, 10, 12, 14, 15, 17, 19, 21, 23, 25, 27, 28>>

Turned28(H, n) == {((p - 1 - n) % 28) + 1 : p \in H}
SubkeyOf(C, D, r) ==
  Permuted(Turned28(C, LeftShifts[r]) \cup {28 + p : p \in Turned28(D, LeftShifts[r])}, PC2)
DesSubkey(key, r) ==
  SubkeyOf(Permuted(BitsOf(key), PC1) \cap 1 .. 28,
           {p - 28 : p \in Permuted(BitsOf(key), PC1) \ 1 .. 28}, r)

Expansion(i) == ((4 * ((i - 1) \div 6) + ((i - 1) % 6) + 31) % 32) + 1
Expanded(R) == {i \in 1 .. 48 : Expansion(i) \in R}
One(B, i) == IF i \in B THEN 1 ELSE 0
Column(B, k) == 8 * One(B, k + 2) + 4 * One(B, k + 3) + 2 * One(B, k + 4) + One(B, k + 5)
Box(B, j) == S[j][16 * (2 * One(B, 6 * j - 5) + One(B, 6 * j)) + Column(B, 6 * j - 6) + 1]
Boxed(B) == {i \in 1 .. 32 : (Box(B, (i - 1) \div 4 + 1) \div 2 ^ ((4 - (i % 4)) % 4)) % 2 = 1}
F(R, K) == Permuted(Boxed(Differ(Expanded(R), K)), P)
Halved(B) == [l |-> B \cap 1 .. 32, r |-> {p - 32 : p \in B \ 1 .. 32}]
Unpermuted(B) == {IP[i] : i \in B}
DesRounds(h, key, decrypt) ==
  FoldLeft(LAMBDA s, r : [l |-> s.r,
                          r |-> Differ(s.l, F(s.r, DesSubkey(key, IF decrypt THEN 17 - r ELSE r)))],
           h, UpTo(16))
Joined(h) == h.r \cup {32 + p : p \in h.l}
DesBits(B, key, decrypt) ==
  Unpermuted(Joined(DesRounds(Halved(Permuted(B, IP)), key, decrypt)))
Key3(key, i) == SubSeq(key, 8 * i - 7, 8 * i)
Des3Bits(B, key) ==
  DesBits(DesBits(DesBits(B, Key3(key, 1), FALSE), Key3(key, 2), TRUE),
          IF Len(key) = 24 THEN Key3(key, 3) ELSE Key3(key, 1), FALSE)

-----------------------------------------------------------------------------
\* Camellia: 64 bits are 8 bytes, 128 are 16; SB is the table of the first S-box.

Turn8(b, n) == ((2 ^ n * b) % 256) + (b \div 2 ^ (8 - n))
Turned128(K, n) ==
  << >> \o [i \in 1 .. 16 |->
     ((2 ^ (n % 8) * K[((i - 1 + n \div 8) % 16) + 1]) % 256)
       + K[((i + n \div 8) % 16) + 1] \div 2 ^ (8 - (n % 8))]
\* The bytes of 1 .. 8 through the S-boxes, and which of them make each byte of the result;
\* number 9 is 0.
Boxes == <<1, 2, 3, 4, 2, 3, 4, 1>>
Substituted(b, k, SB) ==
  CASE k = 1 -> SB[b + 1]
    [] k = 2 -> Turn8(SB[b + 1], 1)
    [] k = 3 -> Turn8(SB[b + 1], 7)
    [] k = 4 -> SB[Turn8(b, 1) + 1]
Terms ==
  <<<<1, 3, 4, 6, 7, 8>>, <<1, 2, 4, 5, 7, 8>>, <<1, 2, 3, 5, 6, 8>>, <<2, 3, 4, 5, 6, 7>>,
    <<1, 2, 6, 7, 8, 9>>, <<2, 3, 5, 7, 8, 9>>, <<3, 4, 5, 6, 8, 9>>, <<1, 4, 5, 6, 7, 9>>>>
SumOf(t, k) ==
  XorByte(XorByte(XorByte(t[k[1]], t[k[2]]), XorByte(t[k[3]], t[k[4]])),
          XorByte(t[k[5]], t[k[6]]))
Spread(t) == << >> \o [i \in 1 .. 8 |-> SumOf(t, Terms[i])]
FRound(x, k, SB) ==
  Spread([i \in 1 .. 8 |-> Substituted(XorByte(x[i], k[i]), Boxes[i], SB)] \o <<0>>)
First(K) == SubSeq(K, 1, 8)
Second(K) == SubSeq(K, 9, 16)

Sigma ==
  <<<<160, 158, 102, 127, 59, 204, 144, 139>>, <<182, 122, 232, 88, 76, 170, 115, 178>>,
    <<198, 239, 55, 47, 233, 79, 130, 190>>, <<84, 255, 83, 165, 241, 211, 111, 28>>,
    <<16, 229, 39, 250, 222, 104, 45, 29>>, <<176, 86, 136, 194, 179, 230, 193, 253>>>>
SecondRound(K, k, SB) == First(K) \o XorBytes(Second(K), FRound(First(K), k, SB))
FirstRound(K, k, SB) == XorBytes(First(K), FRound(Second(K), k, SB)) \o Second(K)
Stirred(K, i, SB) == FirstRound(SecondRound(K, Sigma[i], SB), Sigma[i + 1], SB)
KA(KL, KR, SB) == Stirred(XorBytes(Stirred(XorBytes(KL, KR), 1, SB), KL), 3, SB)
KB(ka, KR, SB) == Stirred(XorBytes(ka, KR), 5, SB)

\* Which of KL, KR, KA and KB turned by how much are the keys, two by two in the order of their
\* use; of a short key the ninth and the tenth are of two of them.
Uses128 ==
  <<<<1, 0>>, <<3, 0>>, <<1, 15>>, <<3, 15>>, <<3, 30>>, <<1, 45>>, <<3, 45>>, <<3, 60>>,
    <<1, 77>>, <<1, 94>>, <<3, 94>>, <<1, 111>>, <<3, 111>>>>
Uses256 ==
  <<<<1, 0>>, <<4, 0>>, <<2, 15>>, <<3, 15>>, <<2, 30>>, <<4, 30>>, <<1, 45>>, <<3, 45>>,
    <<1, 60>>, <<2, 60>>, <<4, 60>>, <<1, 77>>, <<3, 77>>, <<2, 94>>, <<3, 94>>, <<1, 111>>,
    <<4, 111>>>>
Four(KL, KR, ka, SB) == <<KL, KR, ka, KB(ka, KR, SB)>>
CamelliaScheduleOf(K, uses) ==
  FlattenSeq([u \in DOMAIN uses |->
    IF Len(uses) = 13 /\ u = 7 THEN First(Turned128(K[3], 45)) \o Second(Turned128(K[1], 60))
    ELSE Turned128(K[uses[u][1]], uses[u][2])])
LongKey(key) ==
  CASE Len(key) = 16 -> key \o [i \in 1 .. 16 |-> 0]
    [] Len(key) = 24 -> key \o [i \in 1 .. 8 |-> 255 - key[16 + i]]
    [] Len(key) = 32 -> key
CamelliaSchedule(key, SB) ==
  LET KL == SubSeq(LongKey(key), 1, 16)
      KR == SubSeq(LongKey(key), 17, 32)
  IN  CamelliaScheduleOf(Four(KL, KR, KA(KL, KR, SB), SB),
                         IF Len(key) = 16 THEN Uses128 ELSE Uses256)

\* Of words of 32 bits.
FLOf(x1, x2, k) == <<Xor(x1, Or(x2, k[2])), x2>>
FLBack(x1, x2, k) == <<x1, Xor(x2, RotateL(And(x1, k[1]), 1))>>
Pair(B) == <<GetBE(B, 0), GetBE(B, 4)>>
FLBytes(B, k) ==
  LET y == FLBack(Pair(B)[1], Pair(B)[2], Pair(k)) IN PutBE(FLOf(y[1], y[2], Pair(k)))
FLInvBytes(B, k) ==
  LET y == FLOf(Pair(B)[1], Pair(B)[2], Pair(k)) IN PutBE(FLBack(y[1], y[2], Pair(k)))
\* Key n of the schedule w, from 1.
KeyAt(w, n) == SubSeq(w, 8 * n - 7, 8 * n)
\* Of every eight keys after the first two, six are for rounds and two for the layer after.
StepOf(K, w, n, SB) ==
  CASE n % 8 = 1 -> FLBytes(First(K), KeyAt(w, n)) \o Second(K)
    [] n % 8 = 2 -> First(K) \o FLInvBytes(Second(K), KeyAt(w, n))
    [] n % 8 \in {3, 5, 7} -> SecondRound(K, KeyAt(w, n), SB)
    [] n % 8 \in {0, 4, 6} -> FirstRound(K, KeyAt(w, n), SB)
Camellia(w, text, SB) ==
  LET keys == Len(w) \div 8
      end == FoldLeft(LAMBDA K, i : StepOf(K, w, i + 2, SB), XorBytes(text, SubSeq(w, 1, 16)),
                      UpTo(keys - 4))
  IN  XorBytes(Second(end) \o First(end), KeyAt(w, keys - 1) \o KeyAt(w, keys))
==============================================================================
