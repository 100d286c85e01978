------------------------------ MODULE Numbers ------------------------------
(***************************************************************************)
(* A program that calls the operations of mpi on three numbers, A, B and X. *)
(* The result may be put over a number it is made of.                       *)
(***************************************************************************)
EXTENDS BignumMod

CONSTANTS
  Loads,      \* what A and B hold at first
  Exponents,
  Randoms,    \* what f_rng may deliver, limb by limb
  MaxCalls,   \* bound on the calls
  ProductBits \* bound on the length of a product

VARIABLE num  \* the numbers, their number of calls left, and the last call
numVars == <<num>>

Regs == {"A", "B", "X"}
Sources == {"A", "B"}
NoCall == [name |-> "none"]

NumInit ==
  \E a, b \in Loads :
    LET reg == [A |-> a, B |-> b, X |-> mpi_copy(mpi_init, b)]
    IN  num = [reg |-> reg, was |-> reg, call |-> NoCall, left |-> MaxCalls]

Before(s) == num.reg[s]
\* call is made, and leaves the numbers of to where to has them.
Do(call, to) ==
  num' = [reg |-> [r \in Regs |-> IF r \in DOMAIN to THEN to[r] ELSE num.reg[r]],
          was |-> num.reg, call |-> call, left |-> num.left - 1]
To(d, x) == [r \in {d} |-> x]

CallAdd == \E d \in Regs, s, t \in Sources :
  Do([name |-> "add", d |-> d, s |-> s, t |-> t],
     To(d, AddMpi(Before(d), Before(s), Before(t), d = s /\ d = t)))
CallSub == \E d \in Regs, s, t \in Sources :
  Do([name |-> "sub", d |-> d, s |-> s, t |-> t],
     To(d, SubMpi(Before(d), Before(s), Before(t))))
CallMul == \E d \in Regs, s, t \in Sources :
  /\ mpi_msb(Before(s)) + mpi_msb(Before(t)) <= ProductBits
  /\ Do([name |-> "mul", d |-> d, s |-> s, t |-> t],
        To(d, mpi_mul_mpi(Before(d), Before(s), Before(t))))

\* The quotient into q and the rest into r.
CallDiv == \E q, r \in Regs :
  /\ q # r
  /\ mpi_cmp_int(Before("B"), 0) # 0
  /\ \E d \in {mpi_div_mpi(Before(q), Before(r), Before("A"), Before("B"), q = "A",
                            r = "A", q = "B")} :
       Do([name |-> "div", q |-> q, r |-> r], [x \in {q, r} |-> IF x = q THEN d.q ELSE d.r])
\* Not with the rest over the divisor, which the comparison at the end reads.
CallMod == \E r \in {"A", "X"} :
  /\ mpi_cmp_int(Before("B"), 0) > 0
  /\ Do([name |-> "mod", d |-> r], To(r, ModMpi(Before(r), Before("A"), Before("B"), r = "A")))
CallModInt == \E z \in 1 .. 15 :
  Do([name |-> "mod_int", z |-> z, ret |-> mpi_mod_int(Before("A"), z)], << >>)

CallShift == \E s \in Sources, count \in {0, 1, 7, 8, 9, 13}, left \in BOOLEAN :
  Do([name |-> IF left THEN "shift_l" ELSE "shift_r", d |-> s, count |-> count],
     To(s, IF left THEN mpi_shift_l(Before(s), count) ELSE mpi_shift_r(Before(s), count)))
CallCmp ==
  Do([name |-> "cmp", ret |-> mpi_cmp_mpi(Before("A"), Before("B")),
      abs |-> mpi_cmp_abs(Before("A"), Before("B"))], << >>)

CallGcd == \E d \in Regs :
  Do([name |-> "gcd", d |-> d], To(d, mpi_gcd(Before(d), Before("A"), Before("B"))))
CallInvMod == \E d \in Regs :
  /\ mpi_cmp_int(Before("B"), 1) > 0
  /\ \E x \in {mpi_inv_mod(Before(d), Before("A"), Before("B"))} :
         Do([name |-> "inv", d |-> d, ret |-> x # NoInverse],
            IF x = NoInverse THEN << >> ELSE To(d, x))
CallExpMod == \E d \in {"A", "X"}, e \in Exponents :
  /\ mpi_cmp_int(Before("B"), 0) > 0 /\ Odd(Before("B"))
  /\ Do([name |-> "exp", d |-> d, e |-> e],
        To(d, mpi_exp_mod(Before(d), Before("A"), e, Before("B"))))

CallPrime == \E rnd \in Randoms :
  Do([name |-> "prime", ret |-> mpi_is_prime(Before("A"), rnd)], << >>)
\* A and B have no part in it: it is called where A is 0.
CallGenPrime == \E nbits \in {3, 8, 9}, dh \in BOOLEAN, start, rnd \in Randoms :
  Used(Before("A")) = 0 /\
  Do([name |-> "gen", nbits |-> nbits, dh |-> dh, start |-> Positive(start)],
     To("X", mpi_gen_prime(Before("X"), nbits, dh, start, rnd)))

\* Written and read back.
CallText == \E radix \in {2, 10, 16} :
  \E text \in {mpi_write_string(Before("A"), radix)} :
      Do([name |-> "text", d |-> "X", radix |-> radix, room |-> StringRoom(Before("A"), radix),
          text |-> text], To("X", mpi_read_string(Before("X"), radix, text)))
CallFile == \E radix \in {10, 16} :
  Do([name |-> "file", d |-> "X"],
     To("X", mpi_read_file(Before("X"), radix,
                           mpi_write_file(<<Other>>, Before("A"), radix))))
\* Mutant of CallBinary: what is written is not read.
CallBinaryUnread ==
  Do([name |-> "binary", d |-> "X"], To("X", Positive(<<Base>>)))

CallBinary == \E spare \in 0 .. 1 :
  Do([name |-> "binary", d |-> "X"],
     To("X", mpi_read_binary(Before("X"),
                             mpi_write_binary(Before("A"), mpi_size(Before("A")) + spare))))

NumNext ==
  /\ num.left > 0
  /\ \/ CallAdd \/ CallSub \/ CallMul \/ CallDiv \/ CallMod \/ CallModInt \/ CallShift \/ CallCmp
     \/ CallGcd \/ CallInvMod \/ CallExpMod \/ CallPrime \/ CallGenPrime
     \/ CallText \/ CallFile \/ CallBinary
=============================================================================
