--------------------------------- MODULE Aes ---------------------------------
(***************************************************************************)
(* AES (aes.cpp): the tables it makes, the two key schedules and the block  *)
(* function, on 32-bit words whose lowest byte comes first.                 *)
(***************************************************************************)
EXTENDS Words

UpTo(n) == << >> \o [i \in 1 .. n |-> i]

\* aes_gen_tables.
Xtime(x) == IF x >= 128 THEN XorByte(2 * (x - 128), 27) ELSE 2 * x
NextPow == [x \in 0 .. 255 |-> XorByte(x, Xtime(x))]
Times3[x \in 0 .. 255, n \in 0 .. 16] == IF n = 0 THEN x ELSE NextPow[Times3[x, n - 1]]
Pow16[k \in 0 .. 15] == IF k = 0 THEN 1 ELSE Times3[Pow16[k - 1], 16]
pow == << >> \o [i \in 1 .. 256 |-> Times3[Pow16[(i - 1) \div 16], (i - 1) % 16]]
LogOf(p) == [x \in 1 .. 255 |-> CHOOSE i \in 1 .. 255 : p[i + 1] = x]
RCON[i \in 1 .. 10] == IF i = 1 THEN 1 ELSE Xtime(RCON[i - 1])
RotByte(y, n) == ((2 ^ n * y) % 256) + (y \div 2 ^ (8 - n))
SboxOf(x) ==
  XorByte(XorByte(x, XorByte(RotByte(x, 1), RotByte(x, 2))),
          XorByte(RotByte(x, 3), RotByte(x, 4)))
FSbOf(p, log) == << >> \o [k \in 1 .. 256 |->
                   IF k = 1 THEN 99 ELSE XorByte(SboxOf(p[256 - log[k - 1]]), 99)]
FSb == FSbOf(pow, LogOf(pow))
RSbOf(S) == << >> \o [x \in 1 .. 256 |-> (CHOOSE i \in 1 .. 256 : S[i] = x - 1) - 1]
RSb == RSbOf(FSb)
Mul(x, y, p, log) == IF x = 0 \/ y = 0 THEN 0 ELSE p[((log[x] + log[y]) % 255) + 1]
RotateTable(T, n) == << >> \o [i \in DOMAIN T |-> RotateL(T[i], n)]
FTOf(S) ==
  << >> \o [i \in 1 .. 256 |-> Word(XorByte(Xtime(S[i]), S[i]), S[i], S[i], Xtime(S[i]))]
RTOf(S, p, log) ==
  << >> \o [i \in 1 .. 256 |-> Word(Mul(11, S[i], p, log), Mul(13, S[i], p, log),
                                    Mul(9, S[i], p, log), Mul(14, S[i], p, log))]
FT0 == FTOf(FSb)
FT1 == RotateTable(FT0, 8)
FT2 == RotateTable(FT0, 16)
FT3 == RotateTable(FT0, 24)
RT0 == RTOf(RSb, pow, LogOf(pow))
RT1 == RotateTable(RT0, 8)
RT2 == RotateTable(RT0, 16)
RT3 == RotateTable(RT0, 24)

\* Byte k of a word through a table.
Fb(x, k) == FSb[ByteAt(x, k) + 1]
Rb(x, k) == RSb[ByteAt(x, k) + 1]
Ft(y0, y1, y2, y3) ==
  Xor(Xor(FT0[ByteAt(y0, 0) + 1], FT1[ByteAt(y1, 1) + 1]),
      Xor(FT2[ByteAt(y2, 2) + 1], FT3[ByteAt(y3, 3) + 1]))
Rt(y0, y1, y2, y3) ==
  Xor(Xor(RT0[ByteAt(y0, 0) + 1], RT1[ByteAt(y1, 1) + 1]),
      Xor(RT2[ByteAt(y2, 2) + 1], RT3[ByteAt(y3, 3) + 1]))

Rounds(keysize) == CASE keysize = 128 -> 10 [] keysize = 192 -> 12 [] keysize = 256 -> 14

\* One pass of the loop of aes_setkey_enc: n more words from the last n, the first through
\* the S-box and with a round constant; a key of 8 words puts the fifth through it as well.
RotSub(x) == Word(Fb(x, 0), Fb(x, 3), Fb(x, 2), Fb(x, 1))
SubWord(x) == Word(Fb(x, 3), Fb(x, 2), Fb(x, 1), Fb(x, 0))
\* Mutant of KeyWord: the middle of a long key is not put through the S-box.
KeyWordPlain(RK, i, n, rcon) ==
  Xor(RK[Len(RK) - n + 1],
      IF i = 1 THEN Xor(Word(0, 0, 0, rcon), RotSub(Last(RK))) ELSE Last(RK))
KeyWord(RK, i, n, rcon) ==
  Xor(RK[Len(RK) - n + 1],
      CASE i = 1 -> Xor(Word(0, 0, 0, rcon), RotSub(Last(RK)))
        [] i = 5 /\ n = 8 -> SubWord(Last(RK))
        [] OTHER -> Last(RK))
KeyPass(RK, n, rcon) == FoldLeft(LAMBDA K, i : Append(K, KeyWord(K, i, n, rcon)), RK, UpTo(n))
aes_setkey_enc(key, keysize) ==
  FoldLeft(LAMBDA K, i : KeyPass(K, keysize \div 32, RCON[i]),
           << >> \o [i \in 1 .. keysize \div 32 |-> GetLE(key, 4 * (i - 1))],
           UpTo(CASE keysize = 128 -> 10 [] keysize = 192 -> 8 [] keysize = 256 -> 7))

\* The round keys backwards, all but the first and the last through the inverse of MixColumns.
Unmixed(x) ==
  Xor(Xor(RT0[Fb(x, 0) + 1], RT1[Fb(x, 1) + 1]), Xor(RT2[Fb(x, 2) + 1], RT3[Fb(x, 3) + 1]))
RoundKey(RK, r) == SubSeq(RK, 4 * r + 1, 4 * r + 4)
Backwards(SK, nr) ==
  RoundKey(SK, nr)
    \o FlattenSeq([r \in 1 .. nr - 1 |->
                     << >> \o [j \in 1 .. 4 |-> Unmixed(RoundKey(SK, nr - r)[j])]])
    \o RoundKey(SK, 0)
aes_setkey_dec(key, keysize) == Backwards(aes_setkey_enc(key, keysize), Rounds(keysize))

XorWords(a, b) == << >> \o [i \in DOMAIN a |-> Xor(a[i], b[i])]
At(y, j) == y[(j % 4) + 1]
AES_FROUND(RK, r, y) ==
  XorWords(RoundKey(RK, r),
           << >> \o [j \in 1 .. 4 |-> Ft(At(y, j - 1), At(y, j), At(y, j + 1), At(y, j + 2))])
AES_RROUND(RK, r, y) ==
  XorWords(RoundKey(RK, r),
           << >> \o [j \in 1 .. 4 |-> Rt(At(y, j - 1), At(y, j + 2), At(y, j + 1), At(y, j))])
LastForward(y, j) ==
  Word(Fb(At(y, j + 2), 3), Fb(At(y, j + 1), 2), Fb(At(y, j), 1), Fb(At(y, j - 1), 0))
LastBackward(y, j) ==
  Word(Rb(At(y, j), 3), Rb(At(y, j + 1), 2), Rb(At(y, j + 2), 1), Rb(At(y, j - 1), 0))

\* aes_crypt_ecb; a pass of its loop is two rounds.
FromBlock(RK, input) ==
  XorWords(RoundKey(RK, 0), << >> \o [i \in 1 .. 4 |-> GetLE(input, 4 * (i - 1))])
LastRound(RK, nr, y, encrypt) ==
  PutLE(XorWords(RoundKey(RK, nr),
                 << >> \o [j \in 1 .. 4 |->
                            IF encrypt THEN LastForward(y, j) ELSE LastBackward(y, j)]))
aes_crypt_ecb(RK, nr, encrypt, input) ==
  LastRound(RK, nr,
            FoldLeft(LAMBDA y, r : IF encrypt THEN AES_FROUND(RK, r, y) ELSE AES_RROUND(RK, r, y),
                     FromBlock(RK, input), UpTo(nr - 1)),
            encrypt)
==============================================================================
