--------------------------- MODULE DataProperties ---------------------------
(***************************************************************************)
(* What the modules that only compute promise: the hashes the digests       *)
(* their standards define, the numbers the results of the integers, the     *)
(* ciphers what their standards make of a block and of a text, and the keys *)
(* that one half undoes the other.                                          *)
(***************************************************************************)
EXTENDS Hashes, Numbers, Ciphers, PublicKeys
Blk == IF hash.alg = "MD2" THEN 16 ELSE IF hash.alg = "SHA4" THEN 128 ELSE 64
Fld == Blk \div 8
PadBytes == IF hash.alg = "SHA4" THEN 128 ELSE 64
DigestBytes(v) ==
  CASE hash.alg = "SHA1" -> 20
    [] hash.alg = "SHA2" -> IF v = "short" THEN 28 ELSE 32
    [] hash.alg = "SHA4" -> IF v = "short" THEN 48 ELSE 64
    [] OTHER -> 16
Words == 4 * Blk

\* The bits of a message as a number of two words, in the order of the algorithm.
Bits(n) ==
  LET word(w) == [i \in 1 .. Fld \div 2 |->
        <<"length", <<w, IF hash.alg \in {"MD4", "MD5"} THEN i ELSE Fld \div 2 + 1 - i>> >>]
      low == word((8 * n) % Words)
      high == word((8 * n) \div Words)
  IN  IF hash.alg \in {"MD4", "MD5"} THEN low \o high ELSE high \o low

\* The whole blocks a message is padded to.
Padded(m) ==
  IF hash.alg = "MD2"
  THEN LET n == 16 - (Len(m) % 16) IN m \o [i \in 1 .. n |-> <<"pad", n>>]
  ELSE LET zeros == CHOOSE z \in 0 .. Blk - 1 : (Len(m) + 1 + z + Fld) % Blk = 0
       IN  m \o [i \in 1 .. zeros + 1 |-> <<"pad", IF i = 1 THEN 128 ELSE 0>>] \o Bits(Len(m))
Blocks(m) == [k \in 1 .. Len(m) \div Blk |-> SubSeq(m, (k - 1) * Blk + 1, k * Blk)]

Reference(m, v) ==
  LET blocks == Blocks(Padded(m))
      start == IF hash.alg \in {"SHA2", "SHA4"}
               THEN << <<v, IF hash.alg = "SHA2" THEN "of SHA-2" ELSE "of SHA-4">> >> ELSE << >>
      state == start \o blocks \o
               (IF hash.alg = "MD2"
                THEN << [i \in 1 .. 16 |-> <<"checksum", IF i = 1 THEN blocks ELSE << >> >>] >>
                ELSE << >>)
  IN  [i \in 1 .. DigestBytes(v) |-> <<"digest", IF i = 1 THEN state ELSE << >> >>]

OfData(n) == [i \in 1 .. n |-> <<"data", i>>]
OfKey(n) == [i \in 1 .. n |-> <<"key", i>>]
HmacReference(k, m, v) ==
  LET key == IF k > PadBytes THEN Reference(OfKey(k), v) ELSE OfKey(k)
      over(pad) == [i \in 1 .. PadBytes |->
                      <<pad, IF i <= Len(key) THEN key[i] ELSE <<"none", 0>> >>]
  IN  Reference(over("opad") \o Reference(over("ipad") \o m, v), v)

HashTypeOK ==
  /\ hash.mode \in {"new", "hash", "hmac", "hashed", "hmaced", "filed"}
  /\ hash.ret \in 0 .. 2 /\ hash.pieces \in 0 .. MaxPieces
  /\ Len(hash.ctx.buffer) = Blk /\ hash.ctx.total[1] \in 0 .. Words - 1
  /\ hash.mode = "hmac" => Len(hash.ctx.ipad) = PadBytes /\ Len(hash.ctx.opad) = PadBytes

\* The digest is the one the standard defines for all the bytes fed since the start,
\* whatever the pieces they came in, whatever the context did before, and for a file
\* whatever the reads.
DigestIsStandard ==
  hash.mode = "hashed" \/ (hash.mode = "filed" /\ hash.ret # 1) =>
    hash.out = Reference(OfData(hash.fed), hash.ctx.variant)

\* The HMAC is the one of RFC 2104, also of an HMAC begun again by a reset.
HmacIsStandard ==
  hash.mode = "hmaced" =>
    hash.out = HmacReference(hash.key, OfData(hash.fed), hash.ctx.variant)

-----------------------------------------------------------------------------
Val(x) == x.s * FoldLeft(LAMBDA v, limb : v * Base + limb, 0, Reverse(x.p))
Was(r) == Val(num.was[r])
Is(r) == Val(num.reg[r])
Call == num.call

\* Signs and limbs have their ranges.
NumTypeOK ==
  /\ num.left \in 0 .. MaxCalls
  /\ \A r \in Regs : num.reg[r].s \in {1, -1} /\ \A i \in DOMAIN num.reg[r].p :
                       num.reg[r].p[i] \in 0 .. Base - 1

PowMod[a \in Nat, e \in Nat, n \in Nat] ==
  IF e = 0 THEN 1 % n
  ELSE LET h == PowMod[a, e \div 2, n]
       IN  IF e % 2 = 0 THEN (h * h) % n ELSE (((h * h) % n) * a) % n
Quo(a, b) == Sign(a) * Sign(b) * (Abs(a) \div Abs(b))
Divides(d, n) == n % d = 0
IsGcd(g, a, b) ==
  /\ Divides(g, a) /\ Divides(g, b)
  /\ \A d \in g + 1 .. Abs(a) : ~(Divides(d, Abs(a)) /\ Divides(d, Abs(b)))
Prime(n) == n > 1 /\ \A d \in 2 .. n - 1 : d * d > n \/ ~Divides(d, n)

\* All three numbers of a sum are one; the signs are read before a result is put over them;
\* the dividend is cleared before it is copied to the rest.
TwinSum == Call.d = Call.s /\ Call.d = Call.t
DividendCleared == Call.q = "A" /\ Abs(Was("A")) < Abs(Was("B"))
SignsLast ==
  /\ ~DividendCleared
  /\ Call.q = "A" => Was("A") >= 0 /\ Was("B") >= 0
  /\ Call.q = "B" => Was("B") >= 0
  /\ Call.r = "A" => Was("A") >= 0

\* The highest biL - 1 bits of the divisor, and whether the products of its low half with
\* half a limb of the estimate (bignum.cpp:1086) stay in a limb.
Leading(b) == (Abs(Val(b)) * 2 ^ (biL - 1)) \div 2 ^ mpi_msb(b)
HalvesFit(d) == HaveLongLong \/ ((d - 1) \div High(d)) * Low(d) < Base

\* The sums, products and shifts are those of the integers, wherever the result is put, but
\* for the calls README names.  Quotient times divisor plus rest is the dividend whatever the
\* estimates of the digits were; quotient and rest are those of the integers when no estimate
\* can come out too low, and the rest of mpi_mod_mpi always is.
ArithmeticExact ==
  /\ Call.name = "add" /\ ~TwinSum => Is(Call.d) = Was(Call.s) + Was(Call.t)
  /\ Call.name = "sub" => Is(Call.d) = Was(Call.s) - Was(Call.t)
  /\ Call.name = "mul" => Is(Call.d) = Was(Call.s) * Was(Call.t)
  /\ Call.name = "div" =>
       LET quo == Quo(Was("A"), Was("B"))
           rest == Was("A") - quo * Was("B")
       IN  /\ SignsLast => Was("A") = Is(Call.q) * Was("B") + Is(Call.r)
           /\ ~DividendCleared =>
                Abs(Was("A")) = Abs(Is(Call.q)) * Abs(Was("B")) + Abs(Is(Call.r))
           /\ HalvesFit(Leading(num.was["B"])) =>
                /\ SignsLast => Is(Call.q) = quo /\ Is(Call.r) = rest
                /\ ~DividendCleared => Abs(Is(Call.q)) = Abs(quo) /\ Abs(Is(Call.r)) = Abs(rest)
  /\ Call.name = "mod" /\ ~(Call.d = "A" /\ Was("A") < 0) => Is(Call.d) = Was("A") % Was("B")
  /\ Call.name = "mod_int" => Call.ret = Was("A") % Call.z
  /\ Call.name = "shift_l" => Is(Call.d) = Was(Call.d) * 2 ^ Call.count
  /\ Call.name = "shift_r" => Abs(Is(Call.d)) = Abs(Was(Call.d)) \div 2 ^ Call.count
  /\ Call.name = "cmp" =>
       /\ Call.abs = (IF Abs(Was("A")) = Abs(Was("B")) THEN 0
                      ELSE Sign(Abs(Was("A")) - Abs(Was("B"))))
       /\ Sign(Was("A")) = Sign(Was("B")) =>
            Call.ret = (IF Was("A") = Was("B") THEN 0 ELSE Sign(Was("A") - Was("B")))

\* Powers, inverses and common divisors are those of the integers, and what is taken for a
\* prime by trial division is one; a prime is never refused.
ModularExact ==
  /\ Call.name = "exp" /\ Was("A") >= 0 =>
       Is(Call.d) = PowMod[Was("A") % Was("B"), Val(Call.e), Was("B")]
  /\ Call.name = "inv" =>
       /\ Call.ret => /\ Is(Call.d) \in 0 .. Was("B") - 1
                      /\ (Is(Call.d) * (Was("A") % Was("B"))) % Was("B") = 1
       /\ ~Call.ret => \E d \in 2 .. Was("B") : Divides(d, Was("A")) /\ Divides(d, Was("B"))
  /\ Call.name = "gcd" /\ Was("A") # 0 /\ Was("B") # 0 => IsGcd(Is(Call.d), Was("A"), Was("B"))
  /\ Call.name = "prime" /\ Was("A") # -2 => (Prime(Abs(Was("A"))) => Call.ret)
  /\ Call.name = "gen" =>
       /\ Prime(Is("X"))
       /\ Val(Call.start) # 0 => Is("X") >= 2 ^ (Call.nbits - 1)
       /\ Call.dh => Prime(Is("X") \div 2)

\* What is written as text, as a line or as bytes is read back, a number without sign from a
\* line; the room asked for is enough, but for a negative number in radix 16.
TextExact ==
  /\ Call.name = "text" =>
       /\ Is("X") = Was("A")
       /\ Was("A") >= 0 \/ Call.radix # 16 => Len(Call.text) + 1 <= Call.room
  /\ Call.name \in {"file", "binary"} => Is("X") = Abs(Was("A"))

\* No call changes a number it does not give a result.
OthersKept ==
  \A r \in Regs :
    LET results == {Call[f] : f \in {"d", "q", "r"} \cap DOMAIN Call}
                     \cup (IF Call.name = "gen" THEN {"X"} ELSE {})
    IN  r \in results \/ num.reg[r] = num.was[r]

-----------------------------------------------------------------------------
ST == INSTANCE CipherStandards

\* The blocks their authors published for XTEA, ARC4 and Camellia.
Counting(n) == << >> \o [i \in 1 .. n |-> i - 1]
Nibbles == <<1, 35, 69, 103, 137, 171, 205, 239, 254, 220, 186, 152, 118, 84, 50, 16,
             0, 17, 34, 51, 68, 85, 102, 119, 136, 153, 170, 187, 204, 221, 238, 255>>
First16 == SubSeq(Nibbles, 1, 16)
First8 == SubSeq(Nibbles, 1, 8)
Vector(alg, size, key, text, out) ==
  [alg |-> alg, size |-> size, key |-> key, text |-> text, out |-> out]
\* Each self-test, of the cipher or the hash of its name: some of its vectors.
XteaTest ==
  {Vector("XTEA", 128, Counting(16), <<65, 66, 67, 68, 69, 70, 71, 72>>,
          <<73, 125, 243, 208, 114, 97, 44, 181>>)}
Arc4Test == {Vector("ARC4", 64, First8, First8, <<117, 183, 135, 128, 153, 224, 197, 150>>)}
CamelliaTest ==
  {Vector("CAMELLIA", 128, First16, First16,
          <<103, 103, 49, 56, 84, 150, 105, 115, 8, 87, 6, 86, 72, 234, 190, 67>>),
   Vector("CAMELLIA", 192, SubSeq(Nibbles, 1, 24), First16,
          <<180, 153, 52, 1, 179, 233, 150, 248, 78, 229, 206, 231, 215, 155, 9, 185>>),
   Vector("CAMELLIA", 256, Nibbles, First16,
          <<154, 204, 35, 125, 255, 22, 215, 108, 32, 239, 124, 145, 158, 58, 117, 9>>)}
Published == XteaTest \cup Arc4Test \cup CamelliaTest

\* A message with its padding and its length in bits, of less than 256 bytes.
Length(n, bytes, little) ==
  << >> \o [i \in 1 .. bytes |-> IF i = (IF little THEN 1 ELSE bytes) THEN (8 * n) % 256
                               ELSE IF i = (IF little THEN 2 ELSE bytes - 1) THEN n \div 32 ELSE 0]
PaddedBytes(alg, m) ==
  LET size == HR!BlockSize(alg)
      bytes == size \div 8
      end == CHOOSE z \in 1 .. size : (Len(m) + z + bytes) % size = 0
      left == 16 - (Len(m) % 16)
  IN  IF alg = "MD2" THEN m \o [i \in 1 .. left |-> left]
      ELSE m \o [i \in 1 .. end |-> IF i = 1 THEN 128 ELSE 0]
             \o Length(Len(m), bytes, alg \in {"MD4", "MD5"})
\* The messages of the self-tests of the hashes and what they make of them.
Abc == <<97, 98, 99>>
Digits == << >> \o [i \in 1 .. 80 |-> 48 + (i % 10)]
Climb(n) == << >> \o [i \in 1 .. 14 * n |-> 97 + (i - 1) \div n + ((i - 1) % n)]
Hashed(alg, size, message, out) == Vector(alg, size, << >>, PaddedBytes(alg, message), out)
Md2Test ==
  {Hashed("MD2", 128, Abc,
          <<218, 133, 59, 13, 63, 136, 217, 155, 48, 40, 58, 105, 230, 222, 214, 187>>),
   Hashed("MD2", 128, Digits,
          <<213, 151, 111, 121, 216, 61, 58, 13, 201, 128, 108, 60, 102, 243, 239, 216>>)}
Md4Test ==
  {Hashed("MD4", 128, Abc,
          <<164, 72, 1, 122, 175, 33, 216, 82, 95, 193, 10, 232, 122, 166, 114, 157>>),
   Hashed("MD4", 128, Digits,
          <<227, 59, 77, 220, 156, 56, 242, 25, 156, 62, 123, 22, 79, 204, 5, 54>>)}
Md5Test ==
  {Hashed("MD5", 128, Abc,
          <<144, 1, 80, 152, 60, 210, 79, 176, 214, 150, 63, 125, 40, 225, 127, 114>>),
   Hashed("MD5", 128, Digits,
          <<87, 237, 244, 162, 43, 227, 201, 85, 172, 73, 218, 46, 33, 7, 182, 122>>)}
Sha1Test ==
  {Hashed("SHA1", 160, Abc,
          <<169, 153, 62, 54, 71, 6, 129, 106, 186, 62, 37, 113, 120, 80, 194, 108, 156, 208,
            216, 157>>),
   Hashed("SHA1", 160, Climb(4),
          <<132, 152, 62, 68, 28, 59, 210, 110, 186, 174, 74, 161, 249, 81, 41, 229, 229, 70,
            112, 241>>)}
Sha2Test ==
  {Hashed("SHA2", 224, Abc,
          <<35, 9, 125, 34, 52, 5, 216, 34, 134, 66, 164, 119, 189, 162, 85, 179, 42, 173,
            188, 228, 189, 160, 179, 247, 227, 108, 157, 167>>),
   Hashed("SHA2", 256, Climb(4),
          <<36, 141, 106, 97, 210, 6, 56, 184, 229, 192, 38, 147, 12, 62, 96, 57, 163, 60,
            228, 89, 100, 255, 33, 103, 246, 236, 237, 212, 25, 219, 6, 193>>)}
Sha4Test ==
  {Hashed("SHA4", 384, Abc,
          <<203, 0, 117, 63, 69, 163, 94, 139, 181, 160, 61, 105, 154, 198, 80, 7, 39, 44,
            50, 171, 14, 222, 209, 99, 26, 139, 96, 90, 67, 255, 91, 237, 128, 134, 7, 43,
            161, 231, 204, 35, 88, 186, 236, 161, 52, 200, 37, 167>>),
   Hashed("SHA4", 512, Climb(8),
          <<142, 149, 155, 117, 218, 227, 19, 218, 140, 244, 247, 40, 20, 252, 20, 63, 143,
            119, 121, 198, 235, 159, 127, 161, 114, 153, 174, 173, 182, 136, 144, 24, 80, 29,
            40, 158, 73, 0, 247, 228, 51, 27, 153, 222, 196, 181, 67, 58, 199, 211, 41, 238,
            182, 221, 38, 84, 94, 150, 229, 91, 135, 75, 233, 9>>)}
TestVectors == Md2Test \cup Md4Test \cup Md5Test \cup Sha1Test \cup Sha2Test \cup Sha4Test

AesStandard(w) ==
  /\ ST!AesExpanded(w, block.key, block.size \div 32)
  /\ block.out = ST!Aes(w, block.text, block.size \div 32 + 6)
CamelliaStandard(w) ==
  /\ SubSeq(OC!PutBE(block.ek), 1, Len(w)) = w
  /\ block.out = ST!Camellia(w, block.text, OC!FSb)

\* AES, Camellia and DES make of a block what their standards say, and the others what was
\* published; decrypted, it is the text again.  The hashes make what their self-tests say.
BlockStandard ==
  /\ block.at = "encrypted" =>
       /\ block.alg = "AES" => AesStandard(AE!PutLE(block.ek))
       /\ block.alg = "CAMELLIA" => CamelliaStandard(ST!CamelliaSchedule(block.key, OC!FSb))
       /\ block.alg = "DES" =>
            ST!BitsOf(block.out) = ST!DesBits(ST!BitsOf(block.text), block.key, FALSE)
       /\ block.alg = "DES3" =>
            ST!BitsOf(block.out) = ST!Des3Bits(ST!BitsOf(block.text), block.key)
       /\ \A v \in Published :
            (\A f \in {"alg", "size", "key", "text"} : v[f] = block[f]) => block.out = v.out
  /\ block.at = "digested" =>
       \E v \in TestVectors : v.alg = block.alg /\ v.text = block.text /\ block.out = v.out
  /\ block.at = "done" => block.back = block.text

\* CBC and CFB as SP 800-38A defines them, block by block.
Piece(s, k, b) == SubSeq(s, (k - 1) * b + 1, k * b)
CbcBlock[k \in 0 .. ChainBlocks, b \in {NarrowBlock, WideBlock}] ==
  IF k = 0 THEN IV(b) ELSE E(Sum(Piece(Text(b), k, b), CbcBlock[k - 1, b]))
CfbBlock[k \in 0 .. ChainBlocks, b \in {NarrowBlock, WideBlock}] ==
  IF k = 0 THEN IV(b) ELSE Sum(Piece(Text(b), k, b), E(CfbBlock[k - 1, b]))
Chained(cfb, b) ==
  FlattenSeq([k \in 1 .. ChainBlocks |-> IF cfb THEN CfbBlock[k, b] ELSE CbcBlock[k, b]])

UpToPlace(s, n) == SubSeq(s, 1, n)
\* A text in pieces of any length, CFB's of single bytes as well, and over itself or not, is
\* encrypted as if it came at once, and decrypted it is the text again.
ChainStandard ==
  LET b == SizeOf(chain)
      made == Chained(chain.cfb, b)
  IN  /\ chain.encrypt => UpToPlace(chain.output, chain.done) = UpToPlace(made, chain.done)
      /\ ~chain.encrypt => /\ chain.cipher = made
                           /\ UpToPlace(chain.output, chain.done) = UpToPlace(Text(b), chain.done)

\* What is asked for has its size.
BlockTypeOK ==
  /\ block.at \in {"new", "refused", "set", "encrypted", "done", "digested"}
  /\ block.alg \notin Digests => Len(block.out) \in 0 .. Len(block.text)
  /\ \A i \in DOMAIN block.out : block.out[i] \in 0 .. 255
ChainTypeOK ==
  /\ Len(chain.output) = Len(chain.input) /\ chain.done \in 0 .. Len(chain.input)
  /\ Len(chain.iv) = SizeOf(chain) /\ chain.off \in 0 .. SizeOf(chain) - 1
-----------------------------------------------------------------------------
BytesVal(s) == FoldLeft(LAMBDA v, byte : v * 256 + byte, 0, s)

\* A new key has the bits asked for and passes the check, which sees every part that was read
\* wrong; the public half makes the power E modulo N; and what went through one half and then
\* through the other, in either order, is the text again, also under a second key.
RsaExact ==
  /\ rsaKey.at \in {"made", "checked"} => mpi_msb(rsaKey.ctx.N) = rsaKey.nbits
  /\ rsaKey.at = "checked" => (rsaKey.ret = "ok" <=> rsaKey.text = <<"none">>)
  /\ rsaKey.at = "made" /\ Len(rsaKey.way) = 2 => rsaKey.out = rsaKey.text
  /\ rsaKey.at = "made" /\ rsaKey.way = <<"public">> /\ rsaKey.nbits = 15 =>
       BytesVal(rsaKey.out) =
         PowMod[BytesVal(rsaKey.text), Val(rsaKey.ctx.E), Val(rsaKey.ctx.N)]

\* Parameters are accepted only when all of them came, and both sides of an exchange have the
\* secret G ^ (X * Y), whatever the exchange before it left in their contexts.
SecretsAgree ==
  /\ exchange.at \in {"read", "public", "got", "done"} => ~exchange.cut
  /\ exchange.at = "done" =>
       LET n == Val(exchange.server.P)
           GX == PowMod[Val(exchange.server.G), Val(exchange.server.X), n]
       IN  /\ exchange.serverKey = exchange.clientKey
           /\ BytesVal(exchange.clientKey) = PowMod[GX, Val(exchange.client.X), n]

\* The DigestInfo of RFC 8017, before the digest.
DigestInfo ==
  [RAW |-> << >>,
   MD2 |-> <<48, 32, 48, 12, 6, 8, 42, 134, 72, 134, 247, 13, 2, 2, 5, 0, 4, 16>>,
   MD4 |-> <<48, 32, 48, 12, 6, 8, 42, 134, 72, 134, 247, 13, 2, 4, 5, 0, 4, 16>>,
   MD5 |-> <<48, 32, 48, 12, 6, 8, 42, 134, 72, 134, 247, 13, 2, 5, 5, 0, 4, 16>>,
   SHA1 |-> <<48, 33, 48, 9, 6, 5, 43, 14, 3, 2, 26, 5, 0, 4, 20>>,
   SHA224 |-> <<48, 45, 48, 13, 6, 9, 96, 134, 72, 1, 101, 3, 4, 2, 4, 5, 0, 4, 28>>,
   SHA256 |-> <<48, 49, 48, 13, 6, 9, 96, 134, 72, 1, 101, 3, 4, 2, 1, 5, 0, 4, 32>>,
   SHA384 |-> <<48, 65, 48, 13, 6, 9, 96, 134, 72, 1, 101, 3, 4, 2, 2, 5, 0, 4, 48>>,
   SHA512 |-> <<48, 81, 48, 13, 6, 9, 96, 134, 72, 1, 101, 3, 4, 2, 3, 5, 0, 4, 64>>]
\* A block of PKCS #1: its kind, at least eight bytes of padding, a zero, and the data.
IsBlock(bytes, kind, data) ==
  LET pad == Len(bytes) - 3 - Len(data)
  IN  /\ Len(bytes) = seal.len /\ pad >= 8
      /\ SubSeq(bytes, 1, 2) = <<0, kind>> /\ bytes[pad + 3] = 0
      /\ \A i \in 3 .. pad + 2 : IF kind = 1 THEN bytes[i] = 255 ELSE bytes[i] # 0
      /\ SubSeq(bytes, pad + 4, Len(bytes)) = data

\* A text or a hash is refused only when there is no room for it in a block of PKCS #1.  What
\* was encrypted is the text again; a signature is of its own hash and of no other, and only a
\* raw hash of 34 bytes is not found in its signature; all but for keys below 16 bytes, which
\* encrypt and do not decrypt.
SealsOpen ==
  /\ seal.at \in {"encrypted", "decrypted"} => IsBlock(seal.block, 2, seal.data)
  /\ seal.at \in {"signed", "verified"} =>
       IsBlock(seal.block, 1, DigestInfo[seal.id] \o seal.data)
  /\ seal.at = "refused" /\ seal.v15 =>
       seal.len < 11 + Len(seal.data) + (IF seal.id = "text" THEN 0 ELSE Len(DigestInfo[seal.id]))
  /\ seal.at = "decrypted" /\ ~seal.same /\ seal.len >= 16 =>
       IF Len(seal.data) > seal.max THEN seal.ret # "ok"
       ELSE seal.ret = "ok" /\ seal.got = seal.data
  /\ seal.at = "verified" =>
       (seal.ret = "ok" <=> /\ ~seal.same /\ seal.len >= 16 /\ seal.claim = <<seal.id, seal.data>>
                            /\ ~(seal.id = RAW /\ Len(seal.data) = 34))

RsaTypeOK ==
  /\ rsaKey.at \in {"free", "drawing", "made", "checked", "refused"}
  /\ rsaKey.keys \in 0 .. MaxKeys
  /\ \A f \in DOMAIN FreeKey \ {"len"} : \A i \in DOMAIN rsaKey.ctx[f].p :
       rsaKey.ctx[f].p[i] \in 0 .. Base - 1
DhTypeOK ==
  /\ exchange.at \in {"idle", "params", "read", "public", "got", "done", "failed"}
  /\ exchange.left \in 0 .. MaxExchanges
  /\ \A i \in DOMAIN exchange.wire : exchange.wire[i] \in 0 .. 255
SealTypeOK ==
  /\ seal.at \in {"new", "refused", "encrypted", "signed", "decrypted", "verified"}
  /\ seal.len \in KeyLengths /\ Len(seal.block) \in {0, seal.len}
=============================================================================
