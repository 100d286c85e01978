------------------------------- MODULE Bignum -------------------------------
(***************************************************************************)
(* mpi: a sign s and the limbs p, lowest first, of which the highest may be *)
(* zero.  The result of an operation keeps the limbs it has; allocation     *)
(* does not fail.  A limb has 8 bits here and 32 or 64 in the builds.       *)
(***************************************************************************)
EXTENDS Integers, Sequences, SequencesExt

CONSTANTS
  HaveLongLong,  \* TRUE: a build that multiplies with numbers of twice the width
  WideShift,     \* what it takes for a limb shifted by its own width: "zero" or "same"
  SmallPrimes    \* the trivial factors; the code's list goes on to 997

biL == 8
biH == biL \div 2
Base == 2 ^ biL
Bit(b) == IF b THEN 1 ELSE 0
Zeros(n) == << >> \o [i \in 1 .. n |-> 0]
UpTo(n) == [i \in 1 .. n |-> i]

mpi_init == [s |-> 1, p |-> << >>]

\* The index of the highest limb that is not zero, 0 when there is none.
Used(x) == Max({0} \cup {i \in 1 .. Len(x.p) : x.p[i] # 0})
mpi_grow(x, n) == IF Len(x.p) < n THEN [x EXCEPT !.p = @ \o Zeros(n - Len(@))] ELSE x

\* The limbs of y in the room x has.
CopyLimbs(x, y, n) ==
  [s |-> y.s, p |-> SubSeq(y.p, 1, n) \o Zeros(Max({0, Len(x.p) - n}))]
mpi_copy(x, y) == CopyLimbs(x, y, IF y.p = << >> THEN 0 ELSE Max({1, Used(y)}))

Abs(z) == IF z < 0 THEN -z ELSE z
Sign(z) == IF z < 0 THEN -1 ELSE 1
mpi_lset(x, z) ==
  [s |-> Sign(z), p |-> <<Abs(z) % Base>> \o Zeros(Len(mpi_grow(x, 1).p) - 1)]
mpi_int(z) == [s |-> Sign(z), p |-> <<Abs(z) % Base>>]

BitOf(limb, j) == (limb \div 2 ^ j) % 2
mpi_lsb(x) ==
  IF Used(x) = 0 THEN 0
  ELSE Min({k \in 0 .. biL * Len(x.p) - 1 : BitOf(x.p[k \div biL + 1], k % biL) = 1})
MsbAt(x, top) ==
  (top - 1) * biL + Max({0} \cup {j \in 1 .. biL : BitOf(x.p[top], j - 1) = 1})
mpi_msb(x) == MsbAt(x, Max({1, Used(x)}))

-----------------------------------------------------------------------------
\* Shifts.

ByLimbsL(p, v0) == Zeros(Min({v0, Len(p)})) \o SubSeq(p, 1, Len(p) - v0)
ByBitsL(p, t1) ==
  << >> \o [i \in 1 .. Len(p) |->
     ((p[i] * 2 ^ t1) % Base) + (IF i = 1 THEN 0 ELSE p[i - 1] \div 2 ^ (biL - t1))]
\* Mutant of mpi_shift_l: the room is asked for the shift alone.
mpi_shift_lTight(x, count) ==
  [x EXCEPT !.p = ByBitsL(ByLimbsL(mpi_grow(x, (count + biL - 1) \div biL).p, count \div biL),
                          count % biL)]

\* In the room the result needs.
mpi_shift_l(x, count) ==
  [x EXCEPT !.p = ByBitsL(ByLimbsL(mpi_grow(x, (mpi_msb(x) + count + biL - 1) \div biL).p,
                                   count \div biL), count % biL)]

ByLimbsR(p, v0) == SubSeq(p, v0 + 1, Len(p)) \o Zeros(Min({v0, Len(p)}))
ByBitsR(p, v1) ==
  << >> \o [i \in 1 .. Len(p) |->
     p[i] \div 2 ^ v1 + (IF i = Len(p) THEN 0 ELSE (p[i + 1] * 2 ^ (biL - v1)) % Base)]
\* A negative count moves no limbs; the bits it moves are those of its low bits.
mpi_shift_r(x, count) ==
  [x EXCEPT !.p = ByBitsR(ByLimbsR(@, Max({0, count}) \div biL), count % biL)]

-----------------------------------------------------------------------------
\* Comparisons.

CmpAt(x, y, top) == IF top = 0 THEN 0 ELSE Sign(x.p[top] - y.p[top])
CmpLimbs(x, y, n) == CmpAt(x, y, Max({0} \cup {i \in 1 .. n : x.p[i] # y.p[i]}))
mpi_cmp_abs(x, y) ==
  IF Used(x) = Used(y) THEN CmpLimbs(x, y, Used(x)) ELSE Sign(Used(x) - Used(y))
mpi_cmp_mpi(x, y) ==
  IF Used(x) = 0 /\ Used(y) = 0 THEN 0
  ELSE IF Used(x) = Used(y) /\ x.s # y.s THEN x.s
  ELSE x.s * mpi_cmp_abs(x, y)
mpi_cmp_int(x, z) == mpi_cmp_mpi(x, mpi_int(z))

-----------------------------------------------------------------------------
\* Sums.  twin: all three of X, A and B are one mpi.

\* The lower limbs of o are added to p, limb by limb with the carry.
AddLimbs(p, o, n, twin) ==
  FoldLeft(LAMBDA a, i :
             LET u == (p[i] + a.c) % Base
                 addend == IF twin THEN u ELSE o[i]
                 v == (u + addend) % Base
             IN  [c |-> Bit(u < a.c) + Bit(~twin /\ v < addend), p |-> Append(a.p, v)],
           [c |-> 0, p |-> << >>], UpTo(n))

\* Mutant of Carry: it stops at the highest limb.
CarryWithin(p, c) ==
  IF c = 0 \/ p = << >> THEN p
  ELSE <<(Head(p) + c) % Base>> \o
       (IF Head(p) + c < Base \/ Len(p) = 1 THEN Tail(p)
        ELSE <<(p[2] + 1) % Base>> \o SubSeq(p, 3, Len(p)))

\* The carry runs on into the rest, which may have to grow.
RECURSIVE Carry(_, _)
Carry(p, c) ==
  IF c = 0 THEN p
  ELSE IF p = << >> THEN <<c>>
  ELSE <<(Head(p) + c) % Base>> \o Carry(Tail(p), Bit((Head(p) + c) % Base < c))

CarryOn(low, high) == [s |-> 1, p |-> low.p \o Carry(high, low.c)]
AddTo(p, b, n, twin) == CarryOn(AddLimbs(p, b.p, n, twin), SubSeq(p, n + 1, Len(p)))
mpi_add_abs(x, a, b, twin) ==
  AddTo(mpi_grow(IF twin THEN x ELSE mpi_copy(x, a), Used(b)).p, b, Used(b), twin)

\* p less the lower limbs of o; the borrow runs on.
mpi_sub_hlp(p, o, n) ==
  FoldLeft(LAMBDA a, i :
             LET z == Bit(a.p[i] < a.c)
                 d == (a.p[i] - a.c) % Base
                 sub == IF i <= n THEN o[i] ELSE 0
             IN  [c |-> Bit(d < sub) + z, p |-> [a.p EXCEPT ![i] = (d - sub) % Base]],
           [c |-> 0, p |-> p], UpTo(Len(p))).p

\* |a| - |b|, for |a| not less than |b|.
mpi_sub_abs(x, a, b) == [s |-> 1, p |-> mpi_sub_hlp(mpi_copy(x, a).p, b.p, Used(b))]

\* Difference of the absolute values with the sign that results for s.
SubSigned(x, a, b, s) ==
  IF mpi_cmp_abs(a, b) >= 0 THEN [mpi_sub_abs(x, a, b) EXCEPT !.s = s]
  ELSE [mpi_sub_abs(x, b, a) EXCEPT !.s = -s]
AddSigned(x, a, b, s, twin) == [mpi_add_abs(x, a, b, twin) EXCEPT !.s = s]

AddMpi(x, a, b, twin) ==
  IF a.s * b.s < 0 THEN SubSigned(x, a, b, a.s) ELSE AddSigned(x, a, b, a.s, twin)
SubMpi(x, a, b) ==
  IF a.s * b.s > 0 THEN SubSigned(x, a, b, a.s) ELSE AddSigned(x, a, b, a.s, FALSE)
mpi_add_mpi(x, a, b) == AddMpi(x, a, b, FALSE)
mpi_sub_mpi(x, a, b) == SubMpi(x, a, b)
mpi_add_int(x, a, z) == mpi_add_mpi(x, a, mpi_int(z))
mpi_sub_int(x, a, z) == mpi_sub_mpi(x, a, mpi_int(z))

-----------------------------------------------------------------------------
\* Products.

Low(x) == x % 2 ^ biH
High(x) == x \div 2 ^ biH

\* r plus c and d: the low limb, and the high limb r1 with the carries of both.
AddBoth(r, r1, c, d) ==
  LET rc == (r + c) % Base
      rd == (rc + d) % Base
  IN  <<rd, (r1 + Bit(rc < c) + Bit(rd < d)) % Base>>

\* The low limb r0 of a product and the high one, of its halves' products, of which two
\* stand for the middle.
Middle(r0, r1, rx, ry) ==
  LET ra == (r0 + rx) % Base
      rb == (ra + ry) % Base
  IN  <<rb, r1 + Bit(ra < rx) + Bit(rb < ry)>>
Halves(s, b, rx, ry) ==
  Middle(Low(s) * Low(b), High(s) * High(b) + High(rx) + High(ry),
         (rx * 2 ^ biH) % Base, (ry * 2 ^ biH) % Base)

\* c and *d plus the product of two limbs, from halves of limbs: the low and the high limb.
MulAddHalves(r, d, c) == AddBoth(r[1], r[2], c, d)

\* The same with numbers of twice the width: the cast comes before the shift.
MulAddDouble(r0, d, c) == AddBoth(r0, IF WideShift = "zero" THEN 0 ELSE r0, c, d)

MULADDC_CORE(s, b, d, c) ==
  IF HaveLongLong THEN MulAddDouble((s * b) % Base, d, c)
  ELSE MulAddHalves(Halves(s, b, Low(s) * High(b), High(s) * Low(b)), d, c)

\* d, from limb j on, plus the lower i limbs of s times b; the carry runs on.
mpi_mul_hlp(i, s, d, j, b) ==
  FoldLeft(LAMBDA a, k :
             LET v == (a.p[j + k] + a.c) % Base
                 r == IF k <= i THEN MULADDC_CORE(s[k], b, a.p[j + k], a.c)
                      ELSE <<v, Bit(v < a.c)>>
             IN  [c |-> r[2], p |-> [a.p EXCEPT ![j + k] = r[1]]],
           [c |-> 0, p |-> d], UpTo(Len(d) - j)).p

mpi_mul_mpi(x, a, b) ==
  [s |-> a.s * b.s,
   p |-> FoldLeft(LAMBDA d, j : mpi_mul_hlp(Used(a), a.p, d, j - 1, b.p[j]),
                  mpi_lset(mpi_grow(x, Used(a) + Used(b)), 0).p, Reverse(UpTo(Used(b))))]
mpi_mul_int(x, a, limb) == mpi_mul_mpi(x, a, [s |-> 1, p |-> <<limb>>])

-----------------------------------------------------------------------------
\* Quotients.

\* One digit of half a limb of the estimate: q is lowered until r reaches m.
RECURSIVE Lower(_, _, _, _)
Lower(q, r, m, d) == IF r >= d /\ r < m THEN Lower(q - 1, (r + d) % Base, m, d) ELSE <<q, r>>
LowerTo(q, r, m, d) == IF r < m THEN Lower(q - 1, (r + d) % Base, m, d) ELSE <<q, r>>
Left(l, m) == <<l[1], (l[2] - m) % Base>>
HalfQuotient(q, r1, m, d) == Left(LowerTo(q, r1, m, d), m)
HalfDigit(r, next, d) ==
  HalfQuotient(r \div High(d), (((r % High(d)) * 2 ^ biH) % Base) + next,
               ((r \div High(d)) * Low(d)) % Base, d)
BothHalves(h1, x0, d) == (h1[1] * 2 ^ biH + HalfDigit(h1[2], Low(x0), d)[1]) % Base

\* The estimate of x1 x0 / d.
Estimate(x1, x0, d) ==
  IF x1 >= d THEN Base - 1
  ELSE IF HaveLongLong THEN Min({(x1 * Base + x0) \div d, Base - 1})
  ELSE BothHalves(HalfDigit(x1, High(x0), d), x0, d)

\* It is lowered until its product with two limbs of Y is not more than three of X.
RECURSIVE Corrected(_, _, _)
Corrected(q, y, x) ==
  IF mpi_cmp_mpi(mpi_mul_int(mpi_init, y, q), x) > 0 THEN Corrected(q - 1, y, x) ELSE q

AtLimb(x, i) == IF i < 1 THEN 0 ELSE x.p[i]
Positive(p) == [s |-> 1, p |-> p]

\* left is X less q times Y; when that is negative q was one too large.
NotNegative(left, q, y) ==
  IF mpi_cmp_int(left, 0) < 0 THEN <<q - 1, mpi_add_mpi(left, left, y)>> ELSE <<q, left>>
TakeDigit(x, y, shift, q) ==
  NotNegative(mpi_sub_mpi(x, x, mpi_shift_l(mpi_mul_int(mpi_init, y, q), shift)), q,
              mpi_shift_l(y, shift))
\* Limb i of the quotient of what is left of X by Y, and what is left then.
Digit(x, y, i) ==
  TakeDigit(x, y, biL * (i - Len(y.p) - 1),
            Corrected(Estimate(x.p[i], AtLimb(x, i - 1), y.p[Len(y.p)]),
                      Positive(<<AtLimb(y, Len(y.p) - 1), y.p[Len(y.p)]>>),
                      Positive(<<AtLimb(x, i - 2), AtLimb(x, i - 1), x.p[i]>>)))

\* While X is not less than Y: subtract and count.
RECURSIVE Subtracted(_, _, _)
Subtracted(x, y, z) ==
  IF mpi_cmp_mpi(x, y) >= 0 THEN Subtracted(mpi_sub_mpi(x, x, y), y, z + 1) ELSE <<z, x>>

WithDigit(z, d) == [x |-> d[2], z |-> <<d[1]>> \o z]
Rest(acc, k) == [q |-> Positive(acc.z), r |-> mpi_shift_r(acc.x, k)]
DivideShifted(x, y, k) ==
  Rest(FoldLeft(LAMBDA acc, i : WithDigit(acc.z, Digit(acc.x, y, i)),
                WithDigit(<< >>, Subtracted(x, mpi_shift_l(y, biL * (Len(x.p) - Len(y.p))), 0)),
                [i \in 1 .. Len(x.p) - Len(y.p) |-> Len(x.p) + 1 - i]), k)
\* Quotient and rest of the absolute values, of which the first is not less: both are shifted
\* until Y has one bit less than whole limbs.
DivideBy(a, b, k) ==
  DivideShifted(mpi_shift_l(Positive(mpi_copy(mpi_init, a).p), k),
                mpi_shift_l(Positive(mpi_copy(mpi_init, b).p), k), k)
Divide(a, b) == DivideBy(a, b, biL - 1 - (mpi_msb(b) % biL))

SignedRest(rest, s) == [rest EXCEPT !.s = IF mpi_cmp_int(rest, 0) = 0 THEN 1 ELSE s]
Signed(q, r, d, sq, sr) ==
  [q |-> [mpi_copy(q, d.q) EXCEPT !.s = sq], r |-> SignedRest(mpi_copy(r, d.r), sr)]
\* The quotient goes to q, the rest to r, with the sign a has by then; aq, ar and bq tell that
\* a is q or r, and that b is q, whose sign is lost with them.
mpi_div_mpi(q, r, a, b, aq, ar, bq) ==
  IF mpi_cmp_abs(a, b) < 0
  THEN [q |-> mpi_lset(q, 0), r |-> mpi_copy(r, IF aq THEN mpi_lset(q, 0) ELSE a)]
  ELSE LET sign == (IF aq THEN 1 ELSE a.s) * (IF bq THEN 1 ELSE b.s)
       IN  Signed(q, r, Divide(a, b), sign, IF ar THEN 1 ELSE IF aq THEN sign ELSE a.s)

RECURSIVE UpToZero(_, _), DownBelow(_, _)
UpToZero(r, b) == IF mpi_cmp_int(r, 0) < 0 THEN UpToZero(mpi_add_mpi(r, r, b), b) ELSE r
DownBelow(r, b) == IF mpi_cmp_mpi(r, b) >= 0 THEN DownBelow(mpi_sub_mpi(r, r, b), b) ELSE r

\* The rest of a divided by b > 0, brought into 0 .. b - 1.
ModMpi(r, a, b, ar) == DownBelow(UpToZero(mpi_div_mpi(mpi_init, r, a, b, FALSE, ar, FALSE).r, b), b)
mpi_mod_mpi(r, a, b) == ModMpi(r, a, b, FALSE)

\* The rest of a divided by the number z of less than half a limb.
mpi_mod_int(a, z) ==
  LET y == FoldLeft(LAMBDA y, limb : (((y * 2 ^ biH + High(limb)) % z) * 2 ^ biH + Low(limb)) % z,
                    0, Reverse(a.p))
  IN  IF a.s < 0 /\ y # 0 THEN z - y ELSE y
mpi_div_int(a, z) == mpi_div_mpi(mpi_init, mpi_init, a, mpi_int(z), FALSE, FALSE, FALSE).q
=============================================================================
