-------------------------------- MODULE Hmac --------------------------------
(***************************************************************************)
(* The digest of a buffer and of a file, and the HMAC, over any of the      *)
(* hashes; every one of their files spells these functions out again.       *)
(***************************************************************************)
EXTENDS Naturals, Sequences, SequencesExt

CONSTANTS
  Name, Variants,    \* of the hash
  Pad,               \* the bytes of a pad
  FileBuffer,        \* the bytes a file is read by
  Size(_),           \* the bytes of the digest of a variant
  Fresh,             \* a context on the stack
  Starts(_, _), Update(_, _), Finish(_), Digest(_),
  Pieces,            \* the lengths of the pieces and the files a user has
  Keys,              \* the lengths of keys
  MaxPieces          \* bound: the pieces fed to one context

VARIABLE hash        \* a context, what was fed to it, and what the last call gave

\* The first Size bytes of a digest; the first of them stands for what is digested.
Output(ctx) ==
  [i \in 1 .. Size(ctx.variant) |-> <<"digest", IF i = 1 THEN Digest(ctx) ELSE << >> >>]

\* The digest of a buffer.
Hash(input, variant) == Output(Finish(Update(Starts(Fresh, variant), input)))

\* The digest of a file, read piece by piece; what was read before an error counts.
HashFile(file, variant) ==
  LET piece(k) == SubSeq(file, k * FileBuffer + 1,
                         IF (k + 1) * FileBuffer < Len(file) THEN (k + 1) * FileBuffer
                         ELSE Len(file))
      reads == [i \in 1 .. (Len(file) + FileBuffer - 1) \div FileBuffer |-> i - 1]
  IN  Output(Finish(FoldLeft(LAMBDA c, k : Update(c, piece(k)),
                             Starts(Fresh, variant), reads)))

\* A key is put over one of the two pads; a key longer than a pad is hashed first.
OverPad(pad, key) == [i \in 1 .. Pad |-> <<pad, IF i <= Len(key) THEN key[i] ELSE <<"none", 0>> >>]

\* Mutant of ShortKey: a key as long as a pad is hashed as well.
ShortKeyTooSoon(key, variant) == IF Len(key) >= Pad THEN Hash(key, variant) ELSE key

\* A key longer than a pad is replaced by its digest.
ShortKey(key, variant) == IF Len(key) > Pad THEN Hash(key, variant) ELSE key

HmacStarts(ctx, key, variant) ==
  LET short == ShortKey(key, variant)
      padded == [ctx EXCEPT !.ipad = OverPad("ipad", short), !.opad = OverPad("opad", short)]
  IN  Update(Starts(padded, variant), padded.ipad)

HmacUpdate(ctx, input) == Update(ctx, input)

\* The inner digest is hashed behind the outer pad, in the same context.
HmacFinish(ctx) ==
  LET inner == Finish(ctx)
  IN  Finish(Update(Update(Starts(inner, ctx.variant), ctx.opad), Output(inner)))

\* Mutant of HmacReset: the inner pad is forgotten.
HmacResetBare(ctx) == Starts(ctx, ctx.variant)

HmacReset(ctx) == Update(Starts(ctx, ctx.variant), ctx.ipad)

-----------------------------------------------------------------------------
\* The user of one context: fed counts the bytes since the start, pieces all updates.

Data(from, n) == [i \in 1 .. n |-> <<"data", from + i>>]
Key(n) == [i \in 1 .. n |-> <<"key", i>>]
Began(mode, key, ctx) ==
  hash' = [hash EXCEPT !.mode = mode, !.key = key, !.fed = 0, !.ctx = ctx, !.out = << >>]

CallStarts(v) == hash.mode = "new" /\ Began("hash", 0, Starts(hash.ctx, v))
CallHmacStarts(n, v) ==
  hash.mode \in {"new", "hashed"} /\ Began("hmac", n, HmacStarts(hash.ctx, Key(n), v))
CallHmacReset ==
  /\ hash.mode \in {"hmac", "hmaced"} /\ hash.pieces > 0
  /\ Began("hmac", hash.key, HmacReset(hash.ctx))

CallUpdate(n) ==
  /\ hash.mode \in {"hash", "hmac"} /\ hash.pieces < MaxPieces
  /\ hash' = [hash EXCEPT !.fed = @ + n, !.pieces = @ + 1,
               !.ctx = IF hash.mode = "hash" THEN Update(@, Data(hash.fed, n))
                       ELSE HmacUpdate(@, Data(hash.fed, n))]

Finished(mode, ctx) == hash' = [hash EXCEPT !.mode = mode, !.ctx = ctx, !.out = Output(ctx)]
CallFinish == hash.mode = "hash" /\ Finished("hashed", Finish(hash.ctx))
CallHmacFinish == hash.mode = "hmac" /\ Finished("hmaced", HmacFinish(hash.ctx))

\* A file that ends or cannot be read on after n bytes, or cannot be opened.
CallFile(n, v) ==
  /\ hash.mode = "new"
  /\ \/ hash' = [hash EXCEPT !.mode = "filed", !.ret = 1]
     \/ \E r \in {0, 2} :
          hash' = [hash EXCEPT !.mode = "filed", !.ret = r, !.fed = n, !.ctx.variant = v,
                               !.out = HashFile(Data(0, n), v)]

HashStep ==
  /\ hash.alg = Name
  /\ \/ \E v \in Variants :
          CallStarts(v) \/ (\E n \in Keys : CallHmacStarts(n, v))
                       \/ (\E n \in Pieces : CallFile(n, v))
     \/ CallHmacReset \/ CallFinish \/ CallHmacFinish
     \/ \E n \in Pieces : CallUpdate(n)
=============================================================================
