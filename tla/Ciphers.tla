------------------------------- MODULE Ciphers -------------------------------
(***************************************************************************)
(* A program that encrypts, decrypts and digests.  block is a cipher of     *)
(* CRYPT/CIPHER with a key and a block of bytes, or a hash of CRYPT/HASH    *)
(* with the whole blocks of a padded message.  chain is a text that is fed  *)
(* to a mode of operation in pieces: there a byte is the set of what it is  *)
(* the exclusive or of, and what a block cipher makes of a block is as it   *)
(* is given, so what holds of it holds of every key and text.               *)
(***************************************************************************)
EXTENDS Integers, Sequences, SequencesExt

CONSTANTS
  CipherSamples, \* the ciphers asked for: alg, size in bits, key and a block of text
  WideBlock,     \* the bytes of a block of AES and Camellia, which have 16
  NarrowBlock,   \* and of DES, which have 8
  ChainBlocks    \* bound on the blocks of a text

VARIABLES block, chain
blockVars == <<block>>
chainVars == <<chain>>

AE == INSTANCE Aes
DE == INSTANCE Des
OC == INSTANCE OtherCiphers
HR == INSTANCE HashRounds

BlockInit ==
  \E a \in CipherSamples :
    block = [alg |-> a.alg, size |-> a.size, key |-> a.key, text |-> a.text,
             ek |-> << >>, dk |-> << >>, out |-> << >>, back |-> << >>, fed |-> 0, at |-> "new"]

SetKeyEnc(alg, key, size) ==
  CASE alg = "AES" -> AE!aes_setkey_enc(key, size)
    [] alg = "CAMELLIA" -> OC!camellia_setkey_enc(key, size)
    [] alg = "DES" -> DE!des_setkey_enc(key)
    [] alg = "DES3" -> IF size = 128 THEN DE!des3_set2key_enc(key) ELSE DE!des3_set3key_enc(key)
    [] alg = "XTEA" -> OC!xtea_setup(key)
    [] alg = "ARC4" -> OC!arc4_setup(key)
SetKeyDec(alg, key, size) ==
  CASE alg = "AES" -> AE!aes_setkey_dec(key, size)
    [] alg = "CAMELLIA" -> OC!camellia_setkey_dec(key, size)
    [] alg = "DES" -> DE!des_setkey_dec(key)
    [] alg = "DES3" -> IF size = 128 THEN DE!des3_set2key_dec(key) ELSE DE!des3_set3key_dec(key)
    [] alg = "XTEA" -> OC!xtea_setup(key)
    [] alg = "ARC4" -> OC!arc4_setup(key)
Crypt(alg, size, ctx, encrypt, input) ==
  CASE alg = "AES" -> AE!aes_crypt_ecb(ctx, AE!Rounds(size), encrypt, input)
    [] alg = "CAMELLIA" -> OC!camellia_crypt_ecb(ctx, OC!Nr(size), input)
    [] alg = "DES" -> DE!des_crypt_ecb(ctx, input)
    [] alg = "DES3" -> DE!des3_crypt_ecb(ctx, input)
    [] alg = "XTEA" -> OC!xtea_crypt_ecb(ctx, encrypt, input)

\* A key of a size AES and Camellia do not have is refused.
Refused == block.alg \in {"AES", "CAMELLIA"} /\ block.size \notin {128, 192, 256}
RefuseKey ==
  /\ block.at = "new" /\ Refused
  /\ block' = [block EXCEPT !.at = "refused"]
Digests == {"MD2", "MD4", "MD5", "SHA1", "SHA2", "SHA4"}
SetKeys ==
  /\ block.at = "new" /\ ~Refused /\ block.alg \notin Digests
  /\ block' = [block EXCEPT !.ek = SetKeyEnc(block.alg, block.key, block.size),
                            !.dk = SetKeyDec(block.alg, block.key, block.size), !.at = "set"]
EncryptBlock ==
  /\ block.at = "set" /\ block.alg \notin Digests \cup {"ARC4"}
  /\ block' = [block EXCEPT !.out = Crypt(block.alg, block.size, block.ek, TRUE, block.text),
                            !.at = "encrypted"]
DecryptBlock ==
  /\ block.at = "encrypted" /\ block.alg # "ARC4"
  /\ block' = [block EXCEPT !.back = Crypt(block.alg, block.size, block.dk, FALSE, block.out),
                            !.at = "done"]

\* The next bytes of the text, and of what was made of it, n at a time.
CryptArc4 == \E n \in {1, 3, 8} :
  /\ block.alg = "ARC4" /\ block.at = "set" /\ Len(block.out) + n <= 8
  /\ \E r \in {OC!arc4_crypt(block.ek,
                            SubSeq(block.text, Len(block.out) + 1, Len(block.out) + n))} :
       block' = [block EXCEPT !.ek = r.ctx, !.out = @ \o r.out,
                              !.at = IF Len(block.out) + n = 8 THEN "encrypted" ELSE @]
DecryptArc4 ==
  /\ block.alg = "ARC4" /\ block.at = "encrypted"
  /\ block' = [block EXCEPT !.back = OC!arc4_crypt(block.dk, block.out).out, !.at = "done"]

\* A hash starts and processes block after block.
StartDigest ==
  /\ block.at = "new" /\ block.alg \in Digests
  /\ block' = [block EXCEPT !.ek = HR!Start(block.alg, block.size), !.at = "set"]
DigestBlock ==
  /\ block.at = "set" /\ block.alg \in Digests /\ block.fed < Len(block.text)
  /\ block' = [block EXCEPT !.fed = @ + HR!BlockSize(block.alg),
                  !.ek = HR!Process(block.alg, @, SubSeq(block.text, block.fed + 1,
                                                         block.fed + HR!BlockSize(block.alg)))]
GiveDigest ==
  /\ block.at = "set" /\ block.alg \in Digests /\ block.fed = Len(block.text)
  /\ block' = [block EXCEPT !.out = HR!Digest(block.alg, block.ek, block.size),
                            !.at = "digested"]

BlockNext ==
  \/ RefuseKey \/ SetKeys \/ EncryptBlock \/ DecryptBlock \/ CryptArc4 \/ DecryptArc4
  \/ StartDigest \/ DigestBlock \/ GiveDigest

-----------------------------------------------------------------------------
\* The modes of operation.

Sum(a, b) == << >> \o [i \in DOMAIN a |-> (a[i] \ b[i]) \cup (b[i] \ a[i])]
E(b) == << >> \o [j \in DOMAIN b |-> {<<"E", j, b>>}]
\* The block b is made of, when it is made of one.
D(b) ==
  IF \E a \in b[1] : a[1] = "E" /\ b = E(a[3])
  THEN (CHOOSE a \in b[1] : a[1] = "E" /\ b = E(a[3]))[3]
  ELSE << >> \o [j \in DOMAIN b |-> {<<"D", j, b>>}]

In(c, at, n) == SubSeq(c.input, at + 1, at + n)
Out(c, at, n) == SubSeq(c.output, at + 1, at + n)
Put(s, at, piece) == SubSeq(s, 1, at) \o piece \o SubSeq(s, at + Len(piece) + 1, Len(s))
\* The output may be where the input is.
Write(c, at, piece) ==
  [c EXCEPT !.output = Put(@, at, piece), !.input = IF c.same THEN Put(@, at, piece) ELSE @]

CbcEncrypt(c, at, b) ==
  LET d == Write(c, at, Sum(In(c, at, b), c.iv))
      e == Write(d, at, E(Out(d, at, b)))
  IN  [e EXCEPT !.iv = Out(e, at, b)]
\* Mutant of CbcDecrypt: the block is kept where it was, not in temp.
CbcDecryptLate(c, at, b) ==
  LET d == Write(c, at, D(In(c, at, b)))
      e == Write(d, at, Sum(Out(d, at, b), c.iv))
  IN  [e EXCEPT !.iv = In(e, at, b)]
CbcDecrypt(c, at, b) ==
  LET temp == In(c, at, b)
      d == Write(c, at, D(temp))
      e == Write(d, at, Sum(Out(d, at, b), c.iv))
  IN  [e EXCEPT !.iv = temp]
Cbc(c, n, b) ==
  IF n % b # 0 THEN c
  ELSE [FoldLeft(LAMBDA d, k : IF c.encrypt THEN CbcEncrypt(d, c.done + (k - 1) * b, b)
                               ELSE CbcDecrypt(d, c.done + (k - 1) * b, b),
                 c, [k \in 1 .. n \div b |-> k])
        EXCEPT !.done = @ + n]

\* One byte; the block cipher only encrypts.
Fresh(c) == IF c.off = 0 THEN [c EXCEPT !.iv = E(@)] ELSE c
\* Mutant of CfbByte: what comes out of a decryption is fed back.
CfbByteOut(c, at, b) ==
  LET d == Fresh(c)
      x == Sum(<<d.iv[d.off + 1]>>, In(d, at, 1))
  IN  [Write(d, at, x) EXCEPT !.iv[d.off + 1] = x[1], !.off = (@ + 1) % b]
CfbByte(c, at, b) ==
  LET d == Fresh(c)
      in == In(d, at, 1)
      x == Sum(<<d.iv[d.off + 1]>>, in)
  IN  [Write(d, at, x) EXCEPT !.iv[d.off + 1] = IF c.encrypt THEN x[1] ELSE in[1],
                              !.off = (@ + 1) % b]
Cfb(c, n, b) ==
  [FoldLeft(LAMBDA d, k : CfbByte(d, c.done + k - 1, b), c, [k \in 1 .. n |-> k])
   EXCEPT !.done = @ + n]

aes_crypt_cbc(c, n) == Cbc(c, n, WideBlock)
camellia_crypt_cbc(c, n) == Cbc(c, n, WideBlock)
des_crypt_cbc(c, n) == Cbc(c, n, NarrowBlock)
des3_crypt_cbc(c, n) == Cbc(c, n, NarrowBlock)
aes_crypt_cfb128(c, n) == Cfb(c, n, WideBlock)
camellia_crypt_cfb128(c, n) == Cfb(c, n, WideBlock)

Wide(c) == c.alg \in {"AES", "CAMELLIA"}
SizeOf(c) == IF Wide(c) THEN WideBlock ELSE NarrowBlock
Text(b) == << >> \o [i \in 1 .. ChainBlocks * b |-> {<<"text", i>>}]
IV(b) == << >> \o [j \in 1 .. b |-> {<<"iv", j>>}]

ChainInit ==
  \E alg \in {"AES", "CAMELLIA", "DES", "DES3"}, cfb, same \in BOOLEAN :
    \E b \in {IF alg \in {"AES", "CAMELLIA"} THEN WideBlock ELSE NarrowBlock} :
      /\ cfb => alg \in {"AES", "CAMELLIA"}
      /\ chain = [alg |-> alg, cfb |-> cfb, same |-> same, encrypt |-> TRUE, iv |-> IV(b),
                  off |-> 0, done |-> 0, input |-> Text(b), output |-> Text(b), cipher |-> << >>]

Mode(c, n) ==
  CASE c.cfb /\ c.alg = "AES" -> aes_crypt_cfb128(c, n)
    [] c.cfb /\ c.alg = "CAMELLIA" -> camellia_crypt_cfb128(c, n)
    [] ~c.cfb /\ c.alg = "AES" -> aes_crypt_cbc(c, n)
    [] ~c.cfb /\ c.alg = "CAMELLIA" -> camellia_crypt_cbc(c, n)
    [] c.alg = "DES" -> des_crypt_cbc(c, n)
    [] c.alg = "DES3" -> des3_crypt_cbc(c, n)

\* The next n bytes.
CryptPiece == \E n \in 1 .. Len(chain.input) :
  /\ chain.done + n <= Len(chain.input)
  /\ chain' = Mode(chain, n)
\* What was made of the text is decrypted, with the IV of the beginning.
TurnRound ==
  /\ chain.encrypt /\ chain.done = Len(chain.input)
  /\ chain' = [chain EXCEPT !.encrypt = FALSE, !.done = 0, !.off = 0, !.iv = IV(SizeOf(chain)),
                            !.input = chain.output, !.cipher = chain.output]
ChainNext == CryptPiece \/ TurnRound
==============================================================================
