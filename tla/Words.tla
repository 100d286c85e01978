-------------------------------- MODULE Words --------------------------------
(***************************************************************************)
(* Words of 32 bits, as the ciphers use them: pairs <<high, low>> of 16     *)
(* bits, because TLC's integers have a sign.                                *)
(***************************************************************************)
EXTENDS Integers, Sequences, SequencesExt

\* Exclusive or of two halves of a byte, in a table.
Xor4 ==
  << >> \o [k \in 1 .. 256 |->
              LET a == (k - 1) \div 16
                  b == (k - 1) % 16
                  bit(i) == IF (a \div 2 ^ i) % 2 = (b \div 2 ^ i) % 2 THEN 0 ELSE 2 ^ i
              IN  bit(0) + bit(1) + bit(2) + bit(3)]
XorByte(a, b) ==
  16 * Xor4[16 * (a \div 16) + (b \div 16) + 1] + Xor4[16 * (a % 16) + (b % 16) + 1]
Xor16(a, b) == 256 * XorByte(a \div 256, b \div 256) + XorByte(a % 256, b % 256)
Xor(x, y) == <<Xor16(x[1], y[1]), Xor16(x[2], y[2])>>
XorAll(first, words) == FoldLeft(Xor, first, words)
And(x, y) == [h \in {1, 2} |-> (x[h] + y[h] - Xor16(x[h], y[h])) \div 2]
Or(x, y) == [h \in {1, 2} |-> (x[h] + y[h] + Xor16(x[h], y[h])) \div 2]

Half == 65536
Carried(high, low) == <<(high + low \div Half) % Half, low % Half>>
Add(x, y) == Carried(x[1] + y[1], x[2] + y[2])
Sub(x, y) == Carried(x[1] - y[1], x[2] - y[2])
ShiftL(x, n) ==
  IF n < 16 THEN <<(x[1] * 2 ^ n + x[2] \div 2 ^ (16 - n)) % Half, (x[2] * 2 ^ n) % Half>>
  ELSE <<(x[2] * 2 ^ (n - 16)) % Half, 0>>
ShiftR(x, n) ==
  IF n < 16 THEN <<x[1] \div 2 ^ n, (x[2] \div 2 ^ n + x[1] * 2 ^ (16 - n)) % Half>>
  ELSE <<0, x[1] \div 2 ^ (n - 16)>>
RotateL(x, n) == Or(ShiftL(x, n), ShiftR(x, 32 - n))

\* Byte k of a word, 0 the lowest; words from bytes and back.
ByteAt(x, k) == (x[2 - k \div 2] \div 256 ^ (k % 2)) % 256
Word(b3, b2, b1, b0) == <<256 * b3 + b2, 256 * b1 + b0>>
GetLE(b, i) == Word(b[i + 4], b[i + 3], b[i + 2], b[i + 1])
GetBE(b, i) == Word(b[i + 1], b[i + 2], b[i + 3], b[i + 4])
PutLE(words) ==
  FlattenSeq([w \in DOMAIN words |-> << >> \o [k \in 1 .. 4 |-> ByteAt(words[w], k - 1)]])
PutBE(words) ==
  FlattenSeq([w \in DOMAIN words |-> << >> \o [k \in 1 .. 4 |-> ByteAt(words[w], 4 - k)]])
XorBytes(a, b) == << >> \o [i \in DOMAIN a |-> XorByte(a[i], b[i])]
==============================================================================
