---------------------------- MODULE OtherCiphers ----------------------------
(***************************************************************************)
(* The ciphers beside AES and DES.  Camellia (camellia.cpp): the key        *)
(* schedules, which put rotations of the key at the places of tables, and   *)
(* the block function.  XTEA (xtea.cpp), whose key schedule is the key.     *)
(* ARC4 (arc4.cpp), whose context is a permutation and two places in it.    *)
(***************************************************************************)
EXTENDS Words

UpTo(n) == << >> \o [i \in 1 .. n |-> i]

FSb ==
 <<112, 130, 44, 236, 179, 39, 192, 229, 228, 133, 87, 53, 234, 12, 174, 65, 35, 239, 107,
   147, 69, 25, 165, 33, 237, 14, 79, 78, 29, 101, 146, 189, 134, 184, 175, 143, 124, 235,
   31, 206, 62, 48, 220, 95, 94, 197, 11, 26, 166, 225, 57, 202, 213, 71, 93, 61, 217, 1,
   90, 214, 81, 86, 108, 77, 139, 13, 154, 102, 251, 204, 176, 45, 116, 18, 43, 32, 240,
   177, 132, 153, 223, 76, 203, 194, 52, 126, 118, 5, 109, 183, 169, 49, 209, 23, 4, 215,
   20, 88, 58, 97, 222, 27, 17, 28, 50, 15, 156, 22, 83, 24, 242, 34, 254, 68, 207, 178,
   195, 181, 122, 145, 36, 8, 232, 168, 96, 252, 105, 80, 170, 208, 160, 125, 161, 137, 98,
   151, 84, 91, 30, 149, 224, 255, 100, 210, 16, 196, 0, 72, 163, 247, 117, 219, 138, 3,
   230, 218, 9, 63, 221, 148, 135, 92, 131, 2, 205, 74, 144, 51, 115, 103, 246, 243, 157,
   127, 191, 226, 82, 155, 216, 38, 200, 55, 198, 59, 129, 150, 111, 75, 19, 190, 99, 46,
   233, 121, 167, 140, 159, 110, 188, 142, 41, 245, 249, 182, 47, 253, 180, 89, 120, 152,
   6, 106, 231, 70, 113, 186, 212, 37, 171, 66, 136, 162, 141, 250, 114, 7, 185, 85, 248,
   238, 172, 10, 54, 73, 42, 104, 60, 56, 241, 164, 64, 40, 211, 123, 187, 201, 67, 193,
   21, 227, 173, 244, 119, 199, 128, 158>>
RotByte(y, n) == ((2 ^ n * y) % 256) + (y \div 2 ^ (8 - n))
SBOX1(n) == FSb[n + 1]
SBOX2(n) == RotByte(FSb[n + 1], 1)
SBOX3(n) == RotByte(FSb[n + 1], 7)
SBOX4(n) == FSb[RotByte(n, 1) + 1]

SIGMA ==
  << <<<<41118, 26239>>, <<15308, 37003>>>>,
     <<<<46714, 59480>>, <<19626, 29618>>>>,
     <<<<50927, 14127>>, <<59727, 33470>>>>,
     <<<<21759, 21413>>, <<61907, 28444>>>>,
     <<<<4325, 10234>>, <<56936, 11549>>>>,
     <<<<45142, 35010>>, <<46054, 49661>>>> >>

\* For a key of 128 bits and for a longer one: which rotations of KL, KR, KA and KB are made,
\* and where the words of each go, -1 for nowhere.
shifts ==
  << << <<1, 1, 1, 1>>, <<0, 0, 0, 0>>, <<1, 1, 1, 1>>, <<0, 0, 0, 0>> >>,
     << <<1, 0, 1, 1>>, <<1, 1, 0, 1>>, <<1, 1, 1, 0>>, <<1, 1, 0, 1>> >> >>
Nowhere == << >> \o [i \in 1 .. 20 |-> -1]
indexes ==
  << <<<<0, 1, 2, 3, 8, 9, 10, 11, 38, 39, 36, 37, 23, 20, 21, 22, 27, -1, -1, 26>>,
       Nowhere,
       <<4, 5, 6, 7, 12, 13, 14, 15, 16, 17, 18, 19, -1, 24, 25, -1, 31, 28, 29, 30>>,
       Nowhere>>,
     <<<<0, 1, 2, 3, 61, 62, 63, 60, -1, -1, -1, -1, 27, 24, 25, 26, 35, 32, 33, 34>>,
       <<-1, -1, -1, -1, 8, 9, 10, 11, 16, 17, 18, 19, -1, -1, -1, -1, 39, 36, 37, 38>>,
       <<-1, -1, -1, -1, 12, 13, 14, 15, 58, 59, 56, 57, 31, 28, 29, 30, -1, -1, -1, -1>>,
       <<4, 5, 6, 7, 65, 66, 67, 64, 20, 21, 22, 23, -1, -1, -1, -1, 43, 40, 41, 42>>>> >>
transposes ==
  << <<21, 22, 23, 20, -1, -1, -1, -1, 18, 19, 16, 17, 11, 8, 9, 10, 15, 12, 13, 14>>,
     <<25, 26, 27, 24, 29, 30, 31, 28, 18, 19, 16, 17, -1, -1, -1, -1, -1, -1, -1, -1>> >>

\* camellia_feistel: what it adds to z.
SubHigh(x) ==
  Word(SBOX1(ByteAt(x, 3)), SBOX2(ByteAt(x, 2)), SBOX3(ByteAt(x, 1)), SBOX4(ByteAt(x, 0)))
SubLow(x) ==
  Word(SBOX2(ByteAt(x, 3)), SBOX3(ByteAt(x, 2)), SBOX4(ByteAt(x, 1)), SBOX1(ByteAt(x, 0)))
Mixed(i0, i1) ==
  LET a1 == Xor(i1, RotateL(Xor(i0, RotateL(i1, 8)), 16))
      a0 == Xor(Xor(i0, RotateL(i1, 8)), RotateL(a1, 24))
  IN  <<Xor(a1, RotateL(a0, 24)), a0>>
Feistel(x, k) == Mixed(SubHigh(Xor(x[1], k[1])), SubLow(Xor(x[2], k[2])))

\* Words a and a + 1 of X through k into the words b and b + 1.
Into(X, b, z) == [X EXCEPT ![b] = Xor(@, z[1]), ![b + 1] = Xor(@, z[2])]
camellia_feistel(X, a, k, b) == Into(X, b, Feistel(<<X[a], X[a + 1]>>, k))

-----------------------------------------------------------------------------
\* KL, KR, KA and KB of a key, 16 words; of a key of 192 bits the rest is its complement.
Filled(key, keysize) ==
  << >> \o [i \in 1 .. 32 |->
     IF i <= keysize \div 8 THEN key[i]
     ELSE IF keysize = 192 THEN 255 - key[i - 8] ELSE 0]
\* To the four words at a, the four at b.
Plus(KC, a, b) ==
  << >> \o [i \in 1 .. 16 |->
              IF i \in a .. a + 3 THEN Xor(KC[i], KC[b + i - a]) ELSE KC[i]]
Two(KC, a, first) ==
  camellia_feistel(camellia_feistel(KC, a, SIGMA[first], a + 2), a + 2, SIGMA[first + 1], a)
WithKA(KC) == Two(Plus(Two(Plus(Plus(KC, 9, 1), 9, 5), 9, 1), 9, 1), 9, 3)
WithKB(KC) == Two(Plus(Plus(KC, 13, 5), 13, 9), 13, 5)
KeyWords(key, keysize) ==
  << >> \o [i \in 1 .. 16 |->
              IF i <= 8 THEN GetBE(Filled(key, keysize), 4 * (i - 1)) ELSE <<0, 0>>]

\* The four words from offset on rotated by n < 32 bits.
ROTL(K, n) ==
  << >> \o [i \in 1 .. 4 |-> Xor(ShiftL(K[i], n), ShiftR(K[(i % 4) + 1], 32 - n))]
\* Mutant of Turned: a rotation by 60 bits is one by 60 - 32 - 1.
TurnedShort(K, i) == IF i = 0 THEN K ELSE ROTL(K, IF i = 4 THEN 27 ELSE (15 * i) % 32)
Turned(K, i) == IF i = 0 THEN K ELSE ROTL(K, (15 * i) % 32)
\* SHIFT_AND_PLACE: word j of K rotated i times is placed where a table says; then some words
\* of the first 32 are placed again after them.
Placings(idx, n) ==
  {p \in (IF idx = 1 THEN {1, 3} ELSE 1 .. 4) \X (0 .. 4) \X (1 .. 4) :
     /\ p[2] = 0 \/ shifts[idx][p[1]][p[2]] = 1
     /\ indexes[idx][p[1]][4 * p[2] + p[3]] = n}
Transposed(idx, n) ==
  {transposes[idx][i] : i \in {i \in 1 .. 20 : 31 + 12 * (idx - 1) + i = n}} \ {-1}
PlacedAt ==
  << >> \o [idx \in {1, 2} |-> << >> \o [n \in 1 .. 68 |->
    UNION {Placings(idx, t) : t \in IF Transposed(idx, n - 1) = {} THEN {n - 1}
                                    ELSE Transposed(idx, n - 1)}]]
SHIFT_AND_PLACE(KC, p) == Turned(SubSeq(KC, 4 * p[1] - 3, 4 * p[1]), p[2])[p[3]]
Placed(KC, idx) ==
  << >> \o [n \in 1 .. 68 |->
              IF PlacedAt[idx][n] = {} THEN <<0, 0>>
              ELSE SHIFT_AND_PLACE(KC, CHOOSE p \in PlacedAt[idx][n] : TRUE)]
Kept(key, keysize) ==
  IF keysize = 128 THEN WithKA(KeyWords(key, keysize))
  ELSE WithKB(WithKA(KeyWords(key, keysize)))
Idx(keysize) == IF keysize = 128 THEN 1 ELSE 2
Nr(keysize) == IF keysize = 128 THEN 3 ELSE 4
camellia_setkey_enc(key, keysize) == Placed(Kept(key, keysize), Idx(keysize))

\* The schedule backwards: four words, the middle by twos, four words.
Backwards(SK, last) ==
  SubSeq(SK, last + 1, last + 4)
    \o FlattenSeq([i \in 1 .. (last - 4) \div 2 |->
                     SubSeq(SK, last + 1 - 2 * i, last + 2 - 2 * i)])
    \o SubSeq(SK, 1, 4)
camellia_setkey_dec(key, keysize) ==
  Backwards(camellia_setkey_enc(key, keysize), 48 + 16 * (Idx(keysize) - 1))

-----------------------------------------------------------------------------
\* The block function; RK is used from word n on.
Keys(RK, n) == <<RK[n], RK[n + 1]>>
AddKeys(X, RK, n, order) ==
  << >> \o [i \in 1 .. 4 |-> Xor(X[i], RK[n + order[i]])]
SixRounds(X, RK, n) ==
  FoldLeft(LAMBDA Y, r : camellia_feistel(Y, IF r % 2 = 1 THEN 1 ELSE 3,
                                          Keys(RK, n + 2 * (r - 1)),
                                          IF r % 2 = 1 THEN 3 ELSE 1),
           X, UpTo(6))
FLRight(XL, XR, k) == Xor(RotateL(And(XL, k[1]), 1), XR)
FL(XL, XR, k) == <<Xor(Or(FLRight(XL, XR, k), k[2]), XL), FLRight(XL, XR, k)>>
FLInvLeft(YL, YR, k) == Xor(Or(YR, k[2]), YL)
FLInv(YL, YR, k) ==
  <<FLInvLeft(YL, YR, k), Xor(RotateL(And(FLInvLeft(YL, YR, k), k[1]), 1), YR)>>
Layer(X, RK, n) == FL(X[1], X[2], Keys(RK, n)) \o FLInv(X[3], X[4], Keys(RK, n + 2))
Pass(X, RK, p, nr) ==
  IF p < nr THEN Layer(SixRounds(X, RK, 16 * p - 11), RK, 16 * p + 1)
  ELSE SixRounds(X, RK, 16 * p - 11)
Unloaded(X) == PutBE(<<X[3], X[4], X[1], X[2]>>)
Loaded(input) == << >> \o [i \in 1 .. 4 |-> GetBE(input, 4 * (i - 1))]
camellia_crypt_ecb(RK, nr, input) ==
  Unloaded(AddKeys(FoldLeft(LAMBDA X, p : Pass(X, RK, p, nr),
                            AddKeys(Loaded(input), RK, 1, <<0, 1, 2, 3>>),
                            UpTo(nr)),
                   RK, 16 * nr + 1, <<2, 3, 0, 1>>))

-----------------------------------------------------------------------------
\* XTEA.

xtea_setup(key) == <<GetBE(key, 0), GetBE(key, 4), GetBE(key, 8), GetBE(key, 12)>>

delta == <<40503, 31161>>
Spread(v) == Add(Xor(ShiftL(v, 4), ShiftR(v, 5)), v)
ByLow(k, sum) == Add(sum, k[(sum[2] % 4) + 1])
ByHigh(k, sum) == Add(sum, k[((sum[2] \div 2 ^ 11) % 4) + 1])

Encipher0(k, s) == [s EXCEPT !.v0 = Add(@, Xor(Spread(s.v1), ByLow(k, s.sum)))]
Encipher1(k, s) == [s EXCEPT !.v1 = Add(@, Xor(Spread(s.v0), ByHigh(k, s.sum)))]
Decipher0(k, s) == [s EXCEPT !.v0 = Sub(@, Xor(Spread(s.v1), ByLow(k, s.sum)))]
Decipher1(k, s) == [s EXCEPT !.v1 = Sub(@, Xor(Spread(s.v0), ByHigh(k, s.sum)))]
More(s) == [s EXCEPT !.sum = Add(@, delta)]
Less(s) == [s EXCEPT !.sum = Sub(@, delta)]

xtea_crypt_ecb(k, encrypt, input) ==
  LET done == FoldLeft(LAMBDA s, i :
                         IF encrypt THEN Encipher1(k, More(Encipher0(k, s)))
                         ELSE Decipher0(k, Less(Decipher1(k, s))),
                       [v0 |-> GetBE(input, 0), v1 |-> GetBE(input, 4),
                        sum |-> IF encrypt THEN <<0, 0>> ELSE ShiftL(delta, 5)],
                       UpTo(32))
  IN  PutBE(<<done.v0, done.v1>>)

-----------------------------------------------------------------------------
\* ARC4.

At(m, i) == m[i + 1]
Swapped(m, i, j) == [m EXCEPT ![i + 1] = m[j + 1], ![j + 1] = m[i + 1]]

\* Element i changes places with one the key chooses; row by row of 16.
SetupStep(s, i, key) ==
  LET j == (s.j + At(s.m, i) + key[(i % Len(key)) + 1]) % 256
  IN  [j |-> j, m |-> Swapped(s.m, i, j)]
SetupRow(s, row, key) ==
  FoldLeft(LAMBDA t, c : SetupStep(t, 16 * (row - 1) + c - 1, key), s, UpTo(16))
arc4_setup(key) ==
  [x |-> 0, y |-> 0,
   m |-> FoldLeft(LAMBDA s, row : IF s.j >= 0 THEN SetupRow(s, row, key) ELSE s,
                  [j |-> 0, m |-> << >> \o [i \in 1 .. 256 |-> i - 1]], UpTo(16)).m]

NextByte(s, c) ==
  LET x == (s.ctx.x + 1) % 256
      y == (s.ctx.y + At(s.ctx.m, x)) % 256
      a == At(s.ctx.m, x)
      b == At(s.ctx.m, y)
      m == Swapped(s.ctx.m, x, y)
  IN  [ctx |-> [x |-> x, y |-> y, m |-> m],
       out |-> Append(s.out, XorByte(c, At(m, (a + b) % 256)))]
\* Mutant of arc4_crypt: the second place is not kept for the next call.
arc4_cryptForgetful(ctx, input) ==
  FoldLeft(NextByte, [ctx |-> [ctx EXCEPT !.y = 0], out |-> << >>], input)
arc4_crypt(ctx, input) == FoldLeft(NextByte, [ctx |-> ctx, out |-> << >>], input)
==============================================================================
