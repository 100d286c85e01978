----------------------------- MODULE PublicKeys -----------------------------
(***************************************************************************)
(* rsa.cpp and dhm.cpp: keys of a few bits over the numbers of mpi, and,    *)
(* beside them, the padding of rsa_pkcs1_* over blocks of full length, for  *)
(* which the key is taken for a permutation that only the other half undoes.*)
(* A failure to allocate is left out.                                       *)
(***************************************************************************)
EXTENDS BignumMod

CONSTANTS
  MinBits,      \* the shortest N that is made: 128 in the code
  KeyBits, KeyExponents,
  PrimeDraws,   \* what f_rng may deliver for a prime
  MaxKeys,      \* bound on the keys a context is given
  DhGroups,     \* P and G
  Secrets,      \* what f_rng may deliver for X, x_size limbs less one
  MaxExchanges, \* bound on the exchanges of two contexts
  KeyLengths,   \* sizes of N in bytes
  DataLengths   \* sizes of a text, or of a hash that is signed raw

VARIABLES
  rsaKey,    \* an rsa_context and what its caller does with it
  exchange,  \* two dhm_contexts and what is sent
  seal       \* a block with its padding
keyVars == <<rsaKey>>
exchangeVars == <<exchange>>
sealVars == <<seal>>

\* What mpi_exp_mod keeps for the next call with the same modulus, and takes from the last.
Cached(RR, N) == IF RR.p = << >> THEN RSquared(N) ELSE RR

-----------------------------------------------------------------------------
\* RSA.  A context after rsa_init.
FreeKey ==
  [N |-> mpi_init, E |-> mpi_init, D |-> mpi_init, P |-> mpi_init, Q |-> mpi_init,
   DP |-> mpi_init, DQ |-> mpi_init, QP |-> mpi_init,
   RN |-> mpi_init, RP |-> mpi_init, RQ |-> mpi_init, len |-> 0]
rsa_init(rng) ==
  [ctx |-> FreeKey, rng |-> rng, at |-> "free", nbits |-> 0, ret |-> "ok", keys |-> MaxKeys,
   text |-> << >>, out |-> << >>, way |-> << >>]
RsaInit == \E rng \in BOOLEAN : rsaKey = rsa_init(rng)

\* Refused, or the loop for the primes is entered.
rsa_gen_key == \E nbits \in KeyBits, e \in KeyExponents :
  /\ rsaKey.at = "free" /\ rsaKey.keys > 0
  /\ rsaKey' =
       IF ~rsaKey.rng \/ nbits < MinBits \/ e < 3 THEN [rsaKey EXCEPT !.ret = "bad input"]
       ELSE [rsaKey EXCEPT !.at = "drawing", !.nbits = nbits, !.keys = @ - 1, !.ret = "ok",
                           !.ctx.E = mpi_lset(@, e)]

\* P1 and Q1 are P - 1 and Q - 1, H is their product.
Order(P1, Q1) == mpi_mul_mpi(mpi_init, P1, Q1)
Finished(c, P1, Q1, D) ==
  [c EXCEPT !.D = D, !.DP = mpi_mod_mpi(@, D, P1), !.DQ = mpi_mod_mpi(@, D, Q1),
            !.QP = mpi_inv_mod(@, c.Q, c.P), !.len = (mpi_msb(c.N) + 7) \div 8]
\* The larger prime is P.
Paired(c, p, q) ==
  LET above == mpi_cmp_mpi(p, q) >= 0
  IN  [c EXCEPT !.P = IF above THEN p ELSE q, !.Q = IF above THEN q ELSE p]
WithProduct(c) ==
  IF mpi_cmp_mpi(c.P, c.Q) = 0 THEN c ELSE [c EXCEPT !.N = mpi_mul_mpi(@, c.P, c.Q)]
\* Mutant of Suits: the product may be one bit short.
SuitsShort(c, nbits, H) ==
  mpi_cmp_mpi(c.P, c.Q) # 0 /\ mpi_cmp_int(mpi_gcd(mpi_init, c.E, H), 1) = 0
\* Two different primes whose product has the bits asked for, and E has an inverse.
Suits(c, nbits, H) ==
  /\ mpi_cmp_mpi(c.P, c.Q) # 0
  /\ mpi_msb(c.N) = nbits
  /\ mpi_cmp_int(mpi_gcd(mpi_init, c.E, H), 1) = 0
LessOne(x) == mpi_sub_int(mpi_init, x, 1)

\* One turn of the loop, which can end: with an even exponent, not given here, it never does.
DrawPrimes == \E starts \in PrimeDraws \X PrimeDraws :
  /\ rsaKey.at = "drawing"
  /\ \E primes \in {<< >> \o [i \in 1 .. 2 |->
                       mpi_gen_prime(<<rsaKey.ctx.P, rsaKey.ctx.Q>>[i], (rsaKey.nbits + 1) \div 2,
                                     FALSE, starts[i], starts[i])]} :
     \E c \in {WithProduct(Paired(rsaKey.ctx, primes[1], primes[2]))} :
     \E H \in {Order(LessOne(c.P), LessOne(c.Q))} :
       IF ~Suits(c, rsaKey.nbits, H) THEN rsaKey' = [rsaKey EXCEPT !.ctx = c]
       ELSE \E D \in {mpi_inv_mod(c.D, c.E, H)} :
              rsaKey' = [rsaKey EXCEPT !.at = "made",
                                       !.ctx = Finished(c, LessOne(c.P), LessOne(c.Q), D)]

CheckFailed(b) == IF b THEN "ok" ELSE "check failed"
rsa_check_pubkey(c) ==
  /\ c.N.p # << >> /\ c.E.p # << >> /\ Odd(c.N) /\ Odd(c.E)
  /\ mpi_msb(c.N) \in MinBits .. 4096 /\ mpi_msb(c.E) \in 2 .. 64
AsProducts(c, H) ==
  /\ mpi_cmp_mpi(mpi_mul_mpi(mpi_init, c.P, c.Q), c.N) = 0
  /\ mpi_cmp_int(mpi_mod_mpi(mpi_init, mpi_mul_mpi(mpi_init, c.D, c.E), H), 1) = 0
  /\ mpi_cmp_int(mpi_gcd(mpi_init, c.E, H), 1) = 0
rsa_check_privkey(c) ==
  /\ rsa_check_pubkey(c)
  /\ c.P.p # << >> /\ c.Q.p # << >> /\ c.D.p # << >>
  /\ AsProducts(c, Order(mpi_sub_int(mpi_init, c.P, 1), mpi_sub_int(mpi_init, c.Q, 1)))

\* A key is checked as it is, or with a part that was read wrong.
Damaged(part) ==
  IF part = "none" THEN rsaKey.ctx
  ELSE [rsaKey.ctx EXCEPT ![part] = mpi_add_int(mpi_init, @, 2)]
CheckKey == \E part \in {"none", "N", "E", "D", "P", "Q"} :
  /\ rsaKey.at = "made" /\ rsaKey.way = << >>
  /\ rsaKey' = [rsaKey EXCEPT !.at = "checked", !.text = <<part>>,
                              !.ret = CheckFailed(rsa_check_privkey(Damaged(part)))]

\* The powers an operation takes: E modulo N, or DP modulo P and DQ modulo Q.
Moduli(c, way) ==
  IF way = "public" THEN <<[e |-> c.E, N |-> c.N, RR |-> c.RN]>>
  ELSE <<[e |-> c.DP, N |-> c.P, RR |-> c.RP], [e |-> c.DQ, N |-> c.Q, RR |-> c.RQ]>>
Powers(c, way) ==
  LET moduli == Moduli(c, way)
  IN  << >> \o [i \in DOMAIN moduli |-> [moduli[i] EXCEPT !.RR = Cached(@, moduli[i].N)]]
Taken(powers, T) ==
  << >> \o [i \in DOMAIN powers |->
              ExpModWith(mpi_init, T, powers[i].e, powers[i].N, powers[i].RR)]
\* Mutant of Joined: the difference is taken without its sign.
JoinedUnsigned(c, T1, T2) ==
  LET T == mpi_mod_mpi(mpi_init, mpi_mul_mpi(mpi_init,
             [mpi_sub_mpi(mpi_init, T1, T2) EXCEPT !.s = 1], c.QP), c.P)
  IN  mpi_add_mpi(mpi_init, T2, mpi_mul_mpi(mpi_init, T, c.Q))
\* T2 + ((T1 - T2) * QP mod P) * Q.
Joined(c, T1, T2) ==
  LET T == mpi_mod_mpi(mpi_init, mpi_mul_mpi(mpi_init, mpi_sub_mpi(mpi_init, T1, T2), c.QP), c.P)
  IN  mpi_add_mpi(mpi_init, T2, mpi_mul_mpi(mpi_init, T, c.Q))
\* A context after its operation, and the bytes of the result.
rsa_public(c, powers, took) ==
  [ctx |-> [c EXCEPT !.RN = powers[1].RR], out |-> mpi_write_binary(took[1], c.len)]
rsa_private(c, powers, took) ==
  [ctx |-> [c EXCEPT !.RP = powers[1].RR, !.RQ = powers[2].RR],
   out |-> mpi_write_binary(Joined(c, took[1], took[2]), c.len)]

\* The texts a caller may begin with: some numbers below N, multiples of the primes, and N.
BytesOf(x) == mpi_write_binary(x, rsaKey.ctx.len)
Texts ==
  LET c == rsaKey.ctx
  IN  {BytesOf(x) : x \in {mpi_int(0), mpi_int(1), mpi_int(2), mpi_int(200), c.P, c.Q,
                           mpi_mul_int(mpi_init, c.Q, 2), mpi_sub_int(mpi_init, c.N, 1), c.N}}

TurnedAway(input) ==
  rsaKey' = [rsaKey EXCEPT !.ret = "bad input", !.text = input, !.at = "refused"]
Applied(way, input, done) ==
  rsaKey' = [rsaKey EXCEPT !.ctx = done.ctx, !.out = done.out, !.ret = "ok", !.way = Append(@, way),
                           !.text = IF rsaKey.way = << >> THEN input ELSE @]
Operate(way, input, T, powers) ==
  \E took \in {Taken(powers, T)} :
    \E done \in {IF way = "public" THEN rsa_public(rsaKey.ctx, powers, took)
                 ELSE rsa_private(rsaKey.ctx, powers, took)} : Applied(way, input, done)
\* A text goes through one half of the key and then through the other.
Apply == \E way \in {"public", "private"} :
  /\ rsaKey.at = "made" /\ Len(rsaKey.way) < 2
  /\ \A i \in DOMAIN rsaKey.way : rsaKey.way[i] # way
  /\ \E input \in IF rsaKey.way = << >> THEN Texts ELSE {rsaKey.out} :
     \E T \in {mpi_read_binary(mpi_init, input)} :
       IF mpi_cmp_mpi(T, rsaKey.ctx.N) >= 0 THEN TurnedAway(input)
       ELSE \E powers \in {Powers(rsaKey.ctx, way)} : Operate(way, input, T, powers)

\* Mutant of rsa_free: what was kept of the moduli stays.
rsa_freeKeeping(c) == [FreeKey EXCEPT !.RN = c.RN, !.RP = c.RP, !.RQ = c.RQ]
rsa_free(c) == FreeKey
FreeIt ==
  /\ rsaKey.at \in {"made", "checked", "refused"}
  /\ rsaKey' = [rsaKey EXCEPT !.ctx = rsa_free(@), !.at = "free", !.way = << >>, !.text = << >>,
                              !.out = << >>, !.ret = "ok"]
RsaNext == rsa_gen_key \/ DrawPrimes \/ CheckKey \/ Apply \/ FreeIt

-----------------------------------------------------------------------------
\* Diffie and Hellman.  x_size is a multiple of the limb, a byte here.
NoDh == [P |-> mpi_init, G |-> mpi_init, X |-> mpi_init, GX |-> mpi_init, GY |-> mpi_init,
         K |-> mpi_init, RP |-> mpi_init, len |-> 0]
Failed(x) == [x EXCEPT !.at = "failed"]

Short(n) == <<n \div 256, n % 256>>
Exported(x) == Short(mpi_size(x)) \o mpi_write_binary(x, mpi_size(x))
\* A new X of x_size - 1 random bytes, halved until it is below P, and G ^ X.
BelowP(X, P) ==
  mpi_shift_r(X, Min({k \in 0 .. biL * Len(X.p) : mpi_cmp_mpi(mpi_shift_r(X, k), P) < 0}))
RandomX(X, bytes) == [mpi_lset(mpi_grow(X, Len(bytes) + 1), 0) EXCEPT !.p = InRoom(bytes, @)]
PowerWith(c, field, base, RR) ==
  [c EXCEPT ![field] = ExpModWith(@, base, c.X, c.P, RR), !.RP = RR]
PowerInto(c, field, base) == PowerWith(c, field, base, Cached(c.RP, c.P))
WithX(c, bytes) == [c EXCEPT !.X = BelowP(RandomX(@, bytes), c.P)]
MadePublic(c, bytes) == PowerInto(WithX(c, bytes), "GX", c.G)

dhm_make_params(c, bytes) == [MadePublic(c, bytes) EXCEPT !.len = mpi_size(c.P)]
ParamsOf(c) == Exported(c.P) \o Exported(c.G) \o Exported(c.GX)

\* A number from the front of what is received: << >>, or the number and what is left.
dhm_read_bignum(s) ==
  IF Len(s) < 2 \/ Len(s) - 2 < s[1] * 256 + s[2] THEN << >>
  ELSE LET n == s[1] * 256 + s[2]
       IN  <<mpi_read_binary(mpi_init, SubSeq(s, 3, n + 2)), SubSeq(s, n + 3, Len(s))>>

\* Mutant of EmptyContext: what was kept of the last P stays.
EmptyContextKeeping(c) == [NoDh EXCEPT !.RP = c.RP]
EmptyContext(c) == NoDh
\* The rest is a signature with its length.
SignatureEnds(s) == Len(s) >= 2 /\ Len(s) - 2 = s[1] * 256 + s[2]
\* The context and whether all of the parameters were there.
dhm_read_params(c, s) ==
  LET p == dhm_read_bignum(s)
      g == IF p = << >> THEN p ELSE dhm_read_bignum(p[2])
      gy == IF g = << >> THEN g ELSE dhm_read_bignum(g[2])
  IN  IF gy = << >> THEN <<EmptyContext(c), FALSE>>
      ELSE <<[EmptyContext(c) EXCEPT !.P = p[1], !.G = g[1], !.GY = gy[1],
                                     !.len = mpi_size(p[1])], SignatureEnds(gy[2])>>

DhInit ==
  exchange = [at |-> "idle", server |-> NoDh, client |-> NoDh, wire |-> << >>, cut |-> FALSE,
              serverKey |-> << >>, clientKey |-> << >>, left |-> MaxExchanges]

dhm_free(c) == NoDh
\* The server has P and G set, or goes on with those of the last exchange.
MakeParams == \E g \in DhGroups, bytes \in Secrets, again \in BOOLEAN :
  /\ exchange.at \in {"idle", "done", "failed"} /\ exchange.left > 0
  /\ again => exchange.server.P = g.P
  /\ \E c \in {dhm_make_params(IF again THEN exchange.server
                               ELSE [dhm_free(exchange.server) EXCEPT !.P = g.P, !.G = g.G], bytes)} :
       exchange' = [exchange EXCEPT !.at = "params", !.server = c, !.left = @ - 1,
                                    !.wire = ParamsOf(c) \o <<0, 1, 77>>]
\* Of what was sent some may be missing, or be too much.
ReadParams ==
  /\ exchange.at = "params"
  /\ \E s \in {SubSeq(exchange.wire, 1, n) : n \in 0 .. Len(exchange.wire)}
                \cup {Append(exchange.wire, 0)} :
       \E r \in {dhm_read_params(exchange.client, s)} :
         exchange' = [exchange EXCEPT !.client = r[1], !.cut = s # exchange.wire,
                                      !.at = IF r[2] THEN "read" ELSE "failed"]
dhm_make_public == \E bytes \in Secrets, spare \in -1 .. 1 :
  /\ exchange.at = "read"
  /\ \E olen \in {exchange.client.len + spare} :
       IF olen < 1 \/ olen > exchange.client.len THEN exchange' = Failed(exchange)
       ELSE \E c \in {MadePublic(exchange.client, bytes)} :
              exchange' = IF olen < mpi_size(c.GX) THEN [Failed(exchange) EXCEPT !.client = c]
                          ELSE [exchange EXCEPT !.at = "public", !.client = c,
                                                !.wire = mpi_write_binary(c.GX, olen)]
dhm_read_public == \E spare \in 0 .. 1 :
  /\ exchange.at = "public"
  /\ \E s \in {Zeros(spare) \o exchange.wire} :
       exchange' = IF s = << >> \/ Len(s) > exchange.server.len THEN Failed(exchange)
                   ELSE [exchange EXCEPT !.at = "got", !.server.GY = mpi_read_binary(@, s)]

\* Both sides, with room for olen bytes, take K, of which the key has no more than it needs.
Sides == <<exchange.server, exchange.client>>
KeyOf(c) == mpi_write_binary(c.K, mpi_size(c.K))
dhm_calc_secret == \E spare \in -1 .. 0 :
  /\ exchange.at = "got"
  /\ IF \E i \in 1 .. 2 : exchange.client.len + spare < Sides[i].len
     THEN exchange' = Failed(exchange)
     ELSE \E c \in {<< >> \o [i \in 1 .. 2 |-> PowerInto(Sides[i], "K", Sides[i].GY)]} :
            exchange' = [exchange EXCEPT !.at = "done", !.server = c[1], !.client = c[2],
                                         !.serverKey = KeyOf(c[1]), !.clientKey = KeyOf(c[2])]
DhNext == MakeParams \/ ReadParams \/ dhm_make_public \/ dhm_read_public \/ dhm_calc_secret

-----------------------------------------------------------------------------
\* The padding.  Bytes of a text or a hash are numbers from 256 on, each unlike any other.
RAW == "RAW"
DigestLength ==
  [MD2 |-> 16, MD4 |-> 16, MD5 |-> 16, SHA1 |-> 20, SHA224 |-> 28, SHA256 |-> 32,
   SHA384 |-> 48, SHA512 |-> 64]
Ids == {RAW} \cup DOMAIN DigestLength
DataBytes(n, from) == << >> \o [i \in 1 .. n |-> 255 + from + i]
Repeated(b, n) == << >> \o [i \in 1 .. n |-> b]

ASN1_HASH_MDX == <<48, 32, 48, 12, 6, 8, 42, 134, 72, 134, 247, 13, 2, 0, 5, 0, 4, 16>>
ASN1_HASH_SHA1 == <<48, 33, 48, 9, 6, 5, 43, 14, 3, 2, 26, 5, 0, 4, 20>>
ASN1_HASH_SHA2X == <<48, 17, 48, 13, 6, 9, 96, 134, 72, 1, 101, 3, 4, 2, 0, 5, 0, 4, 0>>
MdNumber == [MD2 |-> 2, MD4 |-> 4, MD5 |-> 5]
ShaNumber == [SHA224 |-> 4, SHA256 |-> 1, SHA384 |-> 2, SHA512 |-> 3]
Prefix(id) ==
  CASE id = RAW -> << >>
    [] id \in DOMAIN MdNumber -> [ASN1_HASH_MDX EXCEPT ![14] = MdNumber[id]]
    [] id = "SHA1" -> ASN1_HASH_SHA1
    [] id \in DOMAIN ShaNumber ->
         [ASN1_HASH_SHA2X EXCEPT ![2] = @ + DigestLength[id], ![15] = ShaNumber[id],
                                 ![19] = @ + DigestLength[id]]

\* What the padding before it leaves for the data; the random bytes are not zero.
NoBlock == << >>
rsa_pkcs1_encrypt(len, text) ==
  IF len < Len(text) + 11 THEN NoBlock
  ELSE <<0, 2>> \o Repeated(7, len - 3 - Len(text)) \o <<0>> \o text
rsa_pkcs1_sign(len, id, hash) ==
  LET nb_pad == len - 3 - Len(Prefix(id)) - Len(hash)
  IN  IF nb_pad < 8 THEN NoBlock
      ELSE <<0, 1>> \o Repeated(255, nb_pad) \o <<0>> \o Prefix(id) \o hash

\* What follows the first zero after the head, if there is one.
ZeroAt(buf) == Min({Len(buf) + 1} \cup {i \in 3 .. Len(buf) : buf[i] = 0})
After(buf) == SubSeq(buf, ZeroAt(buf) + 1, Len(buf))
\* What is opened is as long as the key, and must fit a buffer.
Fits(buf) == Len(buf) \in 16 .. 1024
rsa_pkcs1_decrypt(buf, output_max_len) ==
  IF ~Fits(buf) THEN <<"bad input", << >> >>
  ELSE IF buf[1] # 0 \/ buf[2] # 2 \/ ZeroAt(buf) > Len(buf) THEN <<"invalid padding", << >> >>
  ELSE IF Len(After(buf)) > output_max_len THEN <<"output too large", << >> >>
  ELSE <<"ok", After(buf)>>

Verdict(b) == IF b THEN "ok" ELSE "verify failed"
\* Mutant of VerifySha2: the number of the hash stays in p.
VerifySha2Marked(p, hash) ==
  LET c == (p[2] - 17) % 256
  IN  Verdict(/\ p[19] = c /\ [SubSeq(p, 1, 18) EXCEPT ![2] = 17] = SubSeq(ASN1_HASH_SHA2X, 1, 18)
              /\ SubSeq(p, 20, 19 + c) = SubSeq(hash, 1, c))
VerifySha2(p, hash) ==
  LET c == (p[2] - 17) % 256
      plain == [SubSeq(p, 1, 18) EXCEPT ![2] = 17, ![15] = 0]
  IN  Verdict(/\ p[19] = c /\ plain = SubSeq(ASN1_HASH_SHA2X, 1, 18)
              /\ SubSeq(p, 20, 19 + c) = SubSeq(hash, 1, c))
VerifyRaw(p, id, hash) ==
  IF Len(p) = Len(hash) /\ id = RAW THEN Verdict(p = hash) ELSE "invalid padding"
VerifyMd(p, id, hash) ==
  IF [SubSeq(p, 1, 18) EXCEPT ![14] = 0] # ASN1_HASH_MDX THEN "verify failed"
  ELSE IF id \in DOMAIN MdNumber /\ p[14] = MdNumber[id] THEN Verdict(SubSeq(p, 19, 34) = hash)
  ELSE VerifyRaw([p EXCEPT ![14] = 0], id, hash)
\* 34 bytes are looked at as an MD's, whatever the hash; a raw hash of 34 bytes fails there.
VerifyData(p, id, hash) ==
  IF Len(p) = 34 THEN VerifyMd(p, id, hash)
  ELSE IF Len(p) = 35 /\ id = "SHA1" THEN
    Verdict(SubSeq(p, 1, 15) = ASN1_HASH_SHA1 /\ SubSeq(p, 16, 35) = hash)
  ELSE IF id \in DOMAIN ShaNumber /\ Len(p) = 19 + DigestLength[id] /\ p[15] = ShaNumber[id]
  THEN VerifySha2(p, hash)
  ELSE VerifyRaw(p, id, hash)
rsa_pkcs1_verify(buf, id, hash) ==
  IF ~Fits(buf) THEN "bad input"
  ELSE IF \/ buf[1] # 0 \/ buf[2] # 1 \/ ZeroAt(buf) > Len(buf)
          \/ \E i \in 3 .. ZeroAt(buf) - 1 : buf[i] # 255
  THEN "invalid padding" ELSE VerifyData(After(buf), id, hash)

SealInit ==
  \E len \in KeyLengths, v15 \in BOOLEAN :
    seal = [len |-> len, v15 |-> v15, at |-> "new", id |-> "none", data |-> << >>,
            block |-> NoBlock, by |-> "none", max |-> 0, got |-> << >>, ret |-> "ok", same |-> TRUE,
            claim |-> <<"none", << >> >>]
Sealed(at, id, data, by, block) ==
  [seal EXCEPT !.at = IF seal.v15 /\ block # NoBlock THEN at ELSE "refused", !.id = id,
               !.data = data, !.by = by, !.block = block,
               !.ret = IF ~seal.v15 THEN "invalid padding"
                       ELSE IF block = NoBlock THEN "bad input" ELSE "ok"]
Halfs == {"public", "private"}
EncryptText == \E n \in DataLengths, by \in Halfs :
  /\ seal.at = "new"
  /\ seal' = Sealed("encrypted", "text", DataBytes(n, 0), by,
                    rsa_pkcs1_encrypt(seal.len, DataBytes(n, 0)))
HashesOf(id, from) ==
  {DataBytes(n, from) : n \in IF id = RAW THEN DataLengths ELSE {DigestLength[id]}}
SignHash == \E id \in Ids, by \in Halfs :
  /\ seal.at = "new"
  /\ \E h \in HashesOf(id, 0) :
       seal' = Sealed("signed", id, h, by, rsa_pkcs1_sign(seal.len, id, h))

\* The other half gives the block again, the same half some other.
Foreign(len) ==
  {Repeated(9, len), <<0, 2>> \o Repeated(9, len - 2), <<0, 2>> \o Repeated(9, len - 3) \o <<0>>,
   <<0, 1>> \o Repeated(255, len - 4) \o <<9, 0>>}
Opened(with) == IF with # seal.by THEN {seal.block} ELSE Foreign(seal.len)
DecryptText == \E with \in Halfs, max \in DataLengths :
  /\ seal.at = "encrypted"
  /\ \E buf \in Opened(with) :
       \E r \in {rsa_pkcs1_decrypt(buf, max)} :
         seal' = [seal EXCEPT !.at = "decrypted", !.max = max, !.same = (with = seal.by),
                              !.ret = r[1], !.got = r[2]]
VerifyHash == \E with \in Halfs, id \in Ids, from \in {0, 100} :
  /\ seal.at = "signed"
  /\ \E buf \in Opened(with), h \in HashesOf(id, from) :
       seal' = [seal EXCEPT !.at = "verified", !.ret = rsa_pkcs1_verify(buf, id, h),
                            !.same = (with = seal.by), !.claim = <<id, h>>]
SealNext == EncryptText \/ SignHash \/ DecryptText \/ VerifyHash
=============================================================================
