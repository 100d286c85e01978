------------------------------- MODULE MCData -------------------------------
(***************************************************************************)
(* The classes and functions that only compute share nothing, so one run    *)
(* checks them side by side: subject chooses the one that is used, and the  *)
(* others stay as they are.                                                 *)
(***************************************************************************)
EXTENDS DataProperties

VARIABLE subject
vars == <<subject, hashVars, numVars, blockVars, chainVars, keyVars, exchangeVars, sealVars>>

Number(z, limbs) ==
  [s |-> Sign(z),
   p |-> << >> \o [i \in 1 .. limbs |-> (Abs(z) \div Base ^ (i - 1)) % Base]]
LoadsDef ==
  {Number(z, 1) : z \in {0, 1, -2, 49, 127, 128, 255, -255}}
    \cup {Number(z, 2) : z \in {256, 257, 511, 32767, -32640, 3, -61, 18432}}
    \cup {Number(79, 1), Number(45056, 3)}
ExponentsDef ==
  {Number(e, 1) : e \in {1, 2}} \cup {Number(7, 2), [s |-> 1, p |-> <<11, 0, 0, 3>>]}
RandomsDef == {<<0, 0, 0>>, <<77, 201, 9>>}

Sample(alg, size, key, text) == [alg |-> alg, size |-> size, key |-> key, text |-> text]
Made(n, factor) == << >> \o [i \in 1 .. n |-> (factor * i * i + 7 * i + 131) % 256]
CipherSamplesDef ==
  {Sample(v.alg, v.size, v.key, v.text) : v \in Published \cup TestVectors}
    \cup {Sample(alg, size, Made(size \div 8, 37), Made(16, 11)) :
            alg \in {"AES", "CAMELLIA"}, size \in {128, 160, 192, 256}}
    \cup {Sample("DES", 64, Made(8, f), Made(8, 29)) : f \in {3, 101}}
    \cup {Sample("DES3", size, Made(size \div 8, 59), Made(8, 83)) : size \in {128, 192}}
    \cup {Sample("ARC4", 40, Made(5, 5), Made(8, 13)),
          Sample("XTEA", 128, Made(16, 17), Made(8, 19))}

PrimeDrawsDef == {<<190, 10>>, <<131, 8>>, <<193, 9>>}
Group(p, g) == [P |-> Positive(p), G |-> Positive(g)]
DhGroupsDef == {Group(<<251>>, <<6>>), Group(<<19, 3>>, <<11>>)}
SecretsDef == {<<0>>, <<201>>, <<77, 3>>}

Init ==
  /\ subject \in {"hash", "number", "block", "chain", "key", "exchange", "seal"}
  /\ IF subject = "hash" THEN HashInit ELSE hash = "unused"
  /\ IF subject = "number" THEN NumInit ELSE num = "unused"
  /\ IF subject = "block" THEN BlockInit ELSE block = "unused"
  /\ IF subject = "chain" THEN ChainInit ELSE chain = "unused"
  /\ IF subject = "key" THEN RsaInit ELSE rsaKey = "unused"
  /\ IF subject = "exchange" THEN DhInit ELSE exchange = "unused"
  /\ IF subject = "seal" THEN SealInit ELSE seal = "unused"
CipherVars == <<blockVars, chainVars>>
PairVars == <<keyVars, exchangeVars, sealVars>>
Next ==
  /\ UNCHANGED subject
  /\ \/ subject = "hash" /\ HashNext /\ UNCHANGED <<numVars, CipherVars, PairVars>>
     \/ subject = "number" /\ NumNext /\ UNCHANGED <<hashVars, CipherVars, PairVars>>
     \/ subject = "block" /\ BlockNext /\ UNCHANGED <<hashVars, numVars, chainVars, PairVars>>
     \/ subject = "chain" /\ ChainNext /\ UNCHANGED <<hashVars, numVars, blockVars, PairVars>>
     \/ /\ subject = "key" /\ RsaNext
        /\ UNCHANGED <<hashVars, numVars, CipherVars, exchangeVars, sealVars>>
     \/ /\ subject = "exchange" /\ DhNext
        /\ UNCHANGED <<hashVars, numVars, CipherVars, keyVars, sealVars>>
     \/ /\ subject = "seal" /\ SealNext
        /\ UNCHANGED <<hashVars, numVars, CipherVars, keyVars, exchangeVars>>
Spec == Init /\ [][Next]_vars

\* The type invariants of the modules.
TypeOK ==
  /\ subject = "hash" => HashTypeOK
  /\ subject = "number" => NumTypeOK
  /\ subject = "block" => BlockTypeOK
  /\ subject = "chain" => ChainTypeOK
  /\ subject = "key" => RsaTypeOK
  /\ subject = "exchange" => DhTypeOK
  /\ subject = "seal" => SealTypeOK

\* The digests and the HMACs are those the standards define.
HashesStandard == subject = "hash" => DigestIsStandard /\ HmacIsStandard

\* The operations on large numbers are those of the integers, a quotient with the rest it
\* leaves too where an estimate of a digit is too low (see DataProperties).
NumbersExact ==
  subject = "number" => ArithmeticExact /\ ModularExact /\ TextExact /\ OthersKept

\* The ciphers and their modes make what their standards say, and undo it; the halves of a
\* key undo each other, two sides agree on a secret, and a padding gives its data back.
CiphersStandard ==
  /\ subject = "block" => BlockStandard
  /\ subject = "chain" => ChainStandard
  /\ subject = "key" => RsaExact
  /\ subject = "exchange" => SecretsAgree
  /\ subject = "seal" => SealsOpen

\* What bignum.h says of a product: X = A * B.
ProductExact ==
  subject = "number" /\ Call.name = "mul" => Is(Call.d) = Was(Call.s) * Was(Call.t)
=============================================================================
