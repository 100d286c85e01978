----------------------------- MODULE BignumMod -----------------------------
(***************************************************************************)
(* The modular arithmetic, the primes and the conversions of mpi.           *)
(***************************************************************************)
EXTENDS Bignum

\* -1 / m0 modulo Base, for odd m0.
mpi_montg_init(n) ==
  LET m0 == n.p[1]
      x0 == m0 + 2 * (((m0 + 2) \div 4) % 2) * 4
  IN  (Base - ((x0 * (2 - m0 * x0)) % Base)) % Base

\* Limb i of a times b, and as much of N that limb i of T becomes 0.
MontStep(T, i, u0, b, m, N, mm) ==
  [mpi_mul_hlp(Len(N.p), N.p, mpi_mul_hlp(m, b.p, T, i - 1, u0), i - 1,
               ((T[i] + u0 * b.p[1]) * mm) % Base) EXCEPT ![i] = u0, ![i + Len(N.p) + 2] = 0]
LessOnce(x, N) ==
  IF mpi_cmp_abs(x, N) >= 0 THEN [x EXCEPT !.p = mpi_sub_hlp(@, N.p, Len(N.p))] ELSE x
\* a * b / Base ^ n modulo N; twice as many limbs as N has take the products.
MontMul(a, b, N, mm, n) ==
  LessOnce([a EXCEPT !.p =
              SubSeq(FoldLeft(LAMBDA T, i : MontStep(T, i, a.p[i], b, Min({Len(b.p), n}), N, mm),
                              Zeros(2 * (n + 1)), UpTo(n)), n + 1, 2 * n + 1)
                \o SubSeq(@, n + 2, Len(@))], N)
mpi_montmul(a, b, N, mm) == MontMul(a, b, N, mm, Len(N.p))
mpi_montred(a, N, mm) == mpi_montmul(a, Positive(<<1>>), N, mm)

WindowSize(i) ==
  IF i > 671 THEN 6 ELSE IF i > 239 THEN 5 ELSE IF i > 79 THEN 4 ELSE IF i > 23 THEN 3 ELSE 1

\* M: the modulus with its mm.
Times(x, y, M) == mpi_montmul(x, y, M.N, M.mm)
Squares(x, M, k) == FoldLeft(LAMBDA z, i : mpi_montmul(z, z, M.N, M.mm), x, UpTo(k))

\* Mutant of ExpBit: a zero never opens or fills a window.
ExpBitSkipping(acc, ei, W, M, wsize) ==
  LET nbits == acc.nbits + 1
      wbits == acc.wbits + ei * 2 ^ (wsize - nbits)
  IN  IF ei = 0 THEN (IF acc.state = 1 THEN [acc EXCEPT !.x = Squares(@, M, 1)] ELSE acc)
      ELSE IF nbits < wsize THEN [acc EXCEPT !.state = 2, !.nbits = nbits, !.wbits = wbits]
      ELSE [state |-> 1, nbits |-> 0, wbits |-> 0,
            x |-> Times(Squares(acc.x, M, wsize), W[wbits], M)]

\* One bit of the exponent: squared alone while no window is open, else put into it, and a
\* full window is multiplied in.
ExpBit(acc, ei, W, M, wsize) ==
  LET nbits == acc.nbits + 1
      wbits == acc.wbits + ei * 2 ^ (wsize - nbits)
  IN  IF ei = 0 /\ acc.state = 0 THEN acc
      ELSE IF ei = 0 /\ acc.state = 1 THEN [acc EXCEPT !.x = Squares(@, M, 1)]
      ELSE IF nbits < wsize THEN [acc EXCEPT !.state = 2, !.nbits = nbits, !.wbits = wbits]
      ELSE [state |-> 1, nbits |-> 0, wbits |-> 0,
            x |-> Times(Squares(acc.x, M, wsize), W[wbits], M)]

\* The bits of a window that was not filled, highest first.
LastBits(acc, W, M, wsize) ==
  FoldLeft(LAMBDA x, i :
             IF BitOf(acc.wbits, wsize - i) = 1 THEN Times(Squares(x, M, 1), W[1], M)
             ELSE Squares(x, M, 1),
           acc.x, UpTo(acc.nbits))

\* The powers of W1 a window may need: the first, and from W1 ^ half on.
Windows(W1, Wj, M, wsize, half) ==
  [i \in {1} \cup half .. 2 ^ wsize - 1 |->
     IF i = 1 THEN W1 ELSE FoldLeft(LAMBDA z, k : Times(z, W1, M), Wj, UpTo(i - half))]
BitsOf(e) ==
  [k \in 1 .. biL * Len(e.p) |->
     BitOf(e.p[Len(e.p) - ((k - 1) \div biL)], biL - 1 - ((k - 1) % biL))]
Power(one, W, e, M, wsize) ==
  LastBits(FoldLeft(LAMBDA acc, ei : ExpBit(acc, ei, W, M, wsize),
                    [x |-> one, state |-> 0, nbits |-> 0, wbits |-> 0], BitsOf(e)), W, M, wsize)
WithWindows(one, W1, e, M, wsize) ==
  mpi_montred(Power(one, Windows(W1, Squares(W1, M, wsize - 1), M, wsize, 2 ^ (wsize - 1)),
                    e, M, wsize), M.N, M.mm)
InResidues(x, a, e, M, RR) ==
  WithWindows(mpi_montred(mpi_copy(mpi_grow(x, Len(M.N.p) + 1), RR), M.N, M.mm),
              Times(mpi_copy(mpi_grow(mpi_init, Len(M.N.p) + 1), a), RR, M), e, M,
              WindowSize(mpi_msb(e)))
\* What mpi_exp_mod needs of the modulus, and may keep for the next call.
RSquared(N) == mpi_mod_mpi(mpi_init, mpi_shift_l(Positive(<<1>>), 2 * Len(N.p) * biL), N)
\* A ^ E mod N for odd N, with what was kept of it.
ExpModWith(x, a, e, N, RR) ==
  InResidues(x, IF mpi_cmp_mpi(a, N) >= 0 THEN mpi_mod_mpi(mpi_init, a, N) ELSE a, e,
             [N |-> N, mm |-> mpi_montg_init(N)], RR)
mpi_exp_mod(x, a, e, N) == ExpModWith(x, a, e, N, RSquared(N))

-----------------------------------------------------------------------------
\* Greatest common divisor and inverse.

RECURSIVE GcdLoop(_, _)
GcdLoop(TA, TB) ==
  IF mpi_cmp_int(TA, 0) = 0 THEN TB
  ELSE LET step(A, B) == IF mpi_cmp_mpi(A, B) >= 0
                         THEN GcdLoop(mpi_shift_r(mpi_sub_abs(A, A, B), 1), B)
                         ELSE GcdLoop(A, mpi_shift_r(mpi_sub_abs(B, B, A), 1))
       IN  step(mpi_shift_r(TA, mpi_lsb(TA)), mpi_shift_r(TB, mpi_lsb(TB)))
Down(x, lz) == Positive(mpi_shift_r(mpi_copy(mpi_init, x), lz).p)
GcdOf(g, a, b, lz) == mpi_copy(g, mpi_shift_l(GcdLoop(Down(a, lz), Down(b, lz)), lz))
mpi_gcd(g, a, b) == GcdOf(g, a, b, Min({mpi_lsb(a), mpi_lsb(b)}))

Odd(x) == x.p[1] % 2 = 1

EvenStep(u, u1, u2) ==
  [u |-> mpi_shift_r(u, 1), u1 |-> mpi_shift_r(u1, 1), u2 |-> mpi_shift_r(u2, 1)]
\* u is halved while it is even, and u1 and u2 with it, made even before.
RECURSIVE Halved(_, _, _)
Halved(U, TA, TB) ==
  IF Odd(U.u) THEN U
  ELSE Halved(IF Odd(U.u1) \/ Odd(U.u2)
              THEN EvenStep(U.u, mpi_add_mpi(U.u1, U.u1, TB), mpi_sub_mpi(U.u2, U.u2, TA))
              ELSE EvenStep(U.u, U.u1, U.u2), TA, TB)
Less(U, V) == [u |-> mpi_sub_mpi(U.u, U.u, V.u), u1 |-> mpi_sub_mpi(U.u1, U.u1, V.u1),
               u2 |-> mpi_sub_mpi(U.u2, U.u2, V.u2)]

\* The smaller of both is taken from the other, until nothing of u is left.
RECURSIVE InvLoop(_, _, _, _)
InvLoop(U, V, TA, TB) ==
  LET more(U2, V2) == IF mpi_cmp_int(U2.u, 0) = 0 THEN V2.u1 ELSE InvLoop(U2, V2, TA, TB)
      step(U1, V1) == IF mpi_cmp_mpi(U1.u, V1.u) >= 0 THEN more(Less(U1, V1), V1)
                      ELSE more(U1, Less(V1, U1))
  IN  step(Halved(U, TA, TB), Halved(V, TA, TB))

InverseOf(TA, TB) ==
  InvLoop([u |-> TA, u1 |-> mpi_int(1), u2 |-> mpi_int(0)],
          [u |-> TB, u1 |-> mpi_int(0), u2 |-> mpi_int(1)], TA, TB)
NoInverse == [s |-> 0, p |-> << >>]

\* The inverse of a modulo N > 1, unless they have a common divisor.
mpi_inv_mod(x, a, N) ==
  IF mpi_cmp_int(mpi_gcd(mpi_init, a, N), 1) # 0 THEN NoInverse
  ELSE mpi_copy(x, DownBelow(UpToZero(InverseOf(mpi_mod_mpi(mpi_init, a, N),
                                                mpi_copy(mpi_init, N)), N), N))
-----------------------------------------------------------------------------
\* Primes.  What f_rng delivers for the witness is the limbs of rnd, in every round.

\* A random A, 1 < A < |X| - 1.
WitnessOf(A, W) ==
  [mpi_shift_r(A, mpi_msb(A) - mpi_msb(W) + 1) EXCEPT !.p[1] = @ + (3 - (@ % 4))]
Witness(rnd, X, W) == WitnessOf(Positive(SubSeq(rnd, 1, Len(X.p))), W)

\* Mutant of Squared: one square too few.
RECURSIVE SquaredShort(_, _, _, _, _)
SquaredShort(A, j, s, W, X) ==
  IF j + 1 >= s \/ mpi_cmp_mpi(A, W) = 0 THEN A
  ELSE SquaredShort(mpi_mod_mpi(mpi_init, mpi_mul_mpi(mpi_init, A, A), X), j + 1, s, W, X)

\* A is squared until it is 1 or |X| - 1, at most s - 1 times.
RECURSIVE Squared(_, _, _, _, _)
Squared(A, j, s, W, X) ==
  IF j >= s \/ mpi_cmp_mpi(A, W) = 0 \/ (j > 1 /\ mpi_cmp_int(A, 1) = 0) THEN A
  ELSE Squared(mpi_mod_mpi(mpi_init, mpi_mul_mpi(mpi_init, A, A), X), j + 1, s, W, X)

Passes(A, s, W, X) ==
  \/ mpi_cmp_int(A, 1) = 0
  \/ mpi_cmp_mpi(Squared(A, 1, s, W, X), W) = 0
MillerRabinOf(X, W, s, rnd) ==
  Passes(mpi_exp_mod(mpi_init, Witness(rnd, X, W), mpi_shift_r(W, s), X), s, W, X)
MillerRabinWith(X, W, rnd) == MillerRabinOf(X, W, mpi_lsb(W), rnd)
MillerRabin(X, rnd) == MillerRabinWith(X, mpi_sub_int(mpi_init, X, 1), rnd)

PassesTests(X, rnd) ==
  LET atMost == {f \in SmallPrimes : mpi_cmp_int(X, f) <= 0}
  IN  /\ \A f \in SmallPrimes : (\A g \in atMost : f < g) => mpi_mod_int(X, f) # 0
      /\ atMost # {} \/ MillerRabin(X, rnd)
\* The number is taken without its sign, but for the first three tests.
mpi_is_prime(x, rnd) ==
  IF mpi_cmp_int(x, 0) = 0 \/ mpi_cmp_int(x, 1) = 0 THEN FALSE
  ELSE \/ mpi_cmp_int(x, 2) = 0
       \/ Odd(x) /\ PassesTests(Positive(x.p), rnd)

RECURSIVE NextPrime(_, _, _)
NextPrime(X, dh, rnd) ==
  IF \A Y \in {X} \cup (IF dh THEN {mpi_shift_r(mpi_sub_int(mpi_init, X, 1), 1)} ELSE {}) :
       mpi_is_prime(Y, rnd)
  THEN X ELSE NextPrime(mpi_add_int(X, X, 2), dh, rnd)

\* Shifted to nbits bits.
Sized(X, k, nbits) == IF k < nbits THEN mpi_shift_l(X, nbits - k) ELSE mpi_shift_r(X, k - nbits)
RandomIn(room, start, nbits) ==
  LET X == [room EXCEPT !.p = SubSeq(start, 1, Len(@))] IN Sized(X, mpi_msb(X), nbits)
\* A prime of nbits bits from the random limbs start; dh: with (X - 1) / 2 prime too.
mpi_gen_prime(x, nbits, dh, start, rnd) ==
  NextPrime([RandomIn(mpi_lset(mpi_grow(x, (nbits + biL - 1) \div biL), 0), start, nbits)
             EXCEPT !.p = <<Head(@) + (3 - (Head(@) % 4))>> \o Tail(@)], dh, rnd)

------------------------------------------------------------------------------
\* mpi to and from text and bytes.  A character is the value of the digit it stands for,
\* Minus, or Other; a byte is a limb.
Minus == 45
Other == 255

\* The value of a character in radix, if it is a digit of it.
mpi_get_digit(radix, c) == IF c # Minus /\ c < radix THEN c ELSE Other
Negative(s) == s # << >> /\ Head(s) = Minus
Unsigned(s) == IF Negative(s) THEN Tail(s) ELSE s

\* Limbs from hexadecimal digits, two to a limb, the last digit lowest.
FromHex(s) ==
  LET rev == Reverse(s)
      at(i) == IF i <= Len(rev) THEN rev[i] ELSE 0
  IN  << >> \o [i \in 1 .. (Len(s) + 1) \div 2 |-> at(2 * i - 1) + 16 * at(2 * i)]
AddDigit(acc, T, d) == IF acc.s = 1 THEN mpi_add_int(acc, T, d) ELSE mpi_sub_int(acc, T, d)
ByDigits(x, radix, s, sign) ==
  FoldLeft(LAMBDA acc, d : AddDigit(acc, mpi_mul_int(mpi_init, acc, radix), d),
           [mpi_lset(x, 0) EXCEPT !.s = sign], s)

InRoom(p, room) == p \o SubSeq(room, Len(p) + 1, Len(room))
\* The number a string writes, when it is one.
mpi_read_string(x, radix, s) ==
  LET sign == IF Negative(s) THEN -1 ELSE 1
  IN  IF radix = 16
      THEN [s |-> sign, p |-> InRoom(FromHex(Unsigned(s)),
                                     mpi_lset(mpi_grow(x, (Len(s) + 1) \div 2), 0).p)]
      ELSE ByDigits(x, radix, Unsigned(s), sign)

\* The digits of a number, the highest first.
RECURSIVE mpi_write_hlp(_, _)
mpi_write_hlp(x, radix) ==
  LET higher(rest) == IF mpi_cmp_int(rest, 0) # 0 THEN mpi_write_hlp(rest, radix) ELSE << >>
  IN  higher(mpi_div_int(x, radix)) \o <<mpi_mod_int(x, radix)>>

\* Two digits for every byte from the highest that is not zero on, at least one byte.
ToHex(x) ==
  FoldLeft(LAMBDA s, c : s \o <<c \div 16, c % 16>>, << >>,
           Reverse(SubSeq(x.p, 1, Max({1, Used(x)}))))

\* Mutant of StringRoom: radix 10 is taken for 16.
StringRoomShort(x, radix) == 3 + mpi_msb(x) \div (IF radix >= 4 THEN 4 ELSE 1)

\* The room a string needs by the estimate that is made, with its end.
StringRoom(x, radix) ==
  LET n == mpi_msb(x)
      m == IF radix >= 4 THEN n \div 2 ELSE n
  IN  3 + (IF radix >= 16 THEN m \div 2 ELSE m)

mpi_write_string(x, radix) ==
  (IF x.s = -1 THEN <<Minus>> ELSE << >>)
    \o (IF radix = 16 THEN ToHex(x) ELSE mpi_write_hlp(Positive(mpi_copy(mpi_init, x).p), radix))

\* A line of a file: what stands before it, and the number.
mpi_write_file(prefix, x, radix) == prefix \o mpi_write_string(x, radix)

\* The number at the end of the line, of the digits that stand there: a sign is not one.
mpi_read_file(x, radix, line) ==
  LET last == Max({0} \cup {i \in 1 .. Len(line) : mpi_get_digit(radix, line[i]) = Other})
  IN  mpi_read_string(x, radix, SubSeq(line, last + 1, Len(line)))

\* Bytes, the highest first, of which those that are zero at the front need no room.
mpi_read_binary(x, buf) ==
  LET n == Len(buf) + 1 - Min({Len(buf) + 1} \cup {i \in 1 .. Len(buf) : buf[i] # 0})
  IN  Positive(InRoom(Reverse(SubSeq(buf, Len(buf) + 1 - n, Len(buf))),
                      mpi_lset(mpi_grow(x, n), 0).p))

mpi_size(x) == (mpi_msb(x) + 7) \div 8

\* The bytes for a buffer of buflen, which is not less than the size.
mpi_write_binary(x, buflen) ==
  Zeros(buflen - mpi_size(x)) \o Reverse(SubSeq(x.p, 1, mpi_size(x)))
=============================================================================
