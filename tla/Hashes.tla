------------------------------- MODULE Hashes -------------------------------
(***************************************************************************)
(* The six hashes, each a BlockHash and an Hmac with its own sizes, and MD2 *)
(* which fills its buffer and pads in its own way; one user feeds one       *)
(* context in pieces.  What a block does to the state is not looked into:   *)
(* the state is the sequence of the blocks it has processed.                *)
(***************************************************************************)
EXTENDS Naturals, Sequences, SequencesExt

CONSTANT MaxPieces   \* bound: the pieces fed to one context

VARIABLE hash
hashVars == <<hash>>

Byte(kind, from, n) == [i \in 1 .. n |-> <<kind, from + i>>]
NewContext(n) == [total |-> <<0, 0>>, variant |-> "plain", state |-> << >>,
             buffer |-> Byte("garbage", 0, n), ipad |-> << >>, opad |-> << >>]

\* The rounds of the hashes.
Md4Process(state, data) == Append(state, data)
Md5Process(state, data) == Append(state, data)
Sha1Process(state, data) == Append(state, data)
Sha2Process(state, data) == Append(state, data)
Sha4Process(state, data) == Append(state, data)

Start(variant) == << >>
Sha2Start(variant) == << <<variant, "of SHA-2">> >>
Sha4Start(variant) == << <<variant, "of SHA-4">> >>

\* Four blocks bring a word round to 0 here, where the code needs half a gigabyte.
MD4 == INSTANCE BlockHash WITH Block <- 64, Field <- 8, Little <- TRUE, Word <- 256,
                               Initial <- Start, Process <- Md4Process
MD5 == INSTANCE BlockHash WITH Block <- 64, Field <- 8, Little <- TRUE, Word <- 256,
                               Initial <- Start, Process <- Md5Process
SHA1 == INSTANCE BlockHash WITH Block <- 64, Field <- 8, Little <- FALSE, Word <- 256,
                                Initial <- Start, Process <- Sha1Process
SHA2 == INSTANCE BlockHash WITH Block <- 64, Field <- 8, Little <- FALSE, Word <- 256,
                                Initial <- Sha2Start, Process <- Sha2Process
SHA4 == INSTANCE BlockHash WITH Block <- 128, Field <- 16, Little <- FALSE, Word <- 512,
                                Initial <- Sha4Start, Process <- Sha4Process

-----------------------------------------------------------------------------
\* MD2: total[1] is ctx->left.

Md2Starts(ctx, variant) ==
  [ctx EXCEPT !.total = <<0, 0>>, !.state = << >>, !.buffer = Byte("zero", 0, 16)]
Md2Process(ctx) == [ctx EXCEPT !.total = <<0, 0>>, !.state = Append(@, ctx.buffer)]

\* How much of n bytes goes into the buffer.
Md2Room(left, n) == IF left + n > 16 THEN 16 - left ELSE n

\* The buffer is filled, and processed whenever it is full.
RECURSIVE Md2Update(_, _)
Md2Update(ctx, input) ==
  LET left == ctx.total[1]
      fill == Md2Room(left, Len(input))
      filled == [ctx EXCEPT !.total = <<left + fill, 0>>,
                            !.buffer = MD5!Overwrite(@, left, SubSeq(input, 1, fill))]
  IN  IF input = << >> THEN ctx
      ELSE Md2Update(IF left + fill = 16 THEN Md2Process(filled) ELSE filled,
                     SubSeq(input, fill + 1, Len(input)))

\* The padding says how long it is, and the checksum of all blocks is the last block.
Md2Finish(ctx) ==
  LET left == ctx.total[1]
      padded == Md2Process([ctx EXCEPT !.buffer =
                  [i \in 1 .. 16 |-> IF i <= left THEN @[i] ELSE <<"pad", 16 - left>>]])
  IN  Md2Process([padded EXCEPT !.buffer =
                  [i \in 1 .. 16 |-> <<"checksum", IF i = 1 THEN padded.state ELSE << >> >>]])

-----------------------------------------------------------------------------
Digest(ctx) == ctx.state
Size16(variant) == 16
Size20(variant) == 20
Sha2Size(variant) == IF variant = "short" THEN 28 ELSE 32
Sha4Size(variant) == IF variant = "short" THEN 48 ELSE 64

\* Pieces and keys about the sizes where something happens.
PiecesOf(size) == {0, 1, (7 * size) \div 8 - 1, size, 2 * size + 3}
KeysOf(pad) == {3, pad, pad + 1}
HMAC_MD2 == INSTANCE Hmac WITH
  Name <- "MD2", Variants <- {"plain"}, Pad <- 64, FileBuffer <- 100,
  Size <- Size16, Fresh <- NewContext(16),
  Starts <- Md2Starts, Update <- Md2Update, Finish <- Md2Finish,
  Pieces <- PiecesOf(16), Keys <- KeysOf(64)
HMAC_MD4 == INSTANCE Hmac WITH
  Name <- "MD4", Variants <- {"plain"}, Pad <- 64, FileBuffer <- 100,
  Size <- Size16, Fresh <- NewContext(64),
  Starts <- MD4!Starts, Update <- MD4!Update, Finish <- MD4!Finish,
  Pieces <- PiecesOf(64), Keys <- KeysOf(64)
HMAC_MD5 == INSTANCE Hmac WITH
  Name <- "MD5", Variants <- {"plain"}, Pad <- 64, FileBuffer <- 100,
  Size <- Size16, Fresh <- NewContext(64),
  Starts <- MD5!Starts, Update <- MD5!Update, Finish <- MD5!Finish,
  Pieces <- PiecesOf(64), Keys <- KeysOf(64)
HMAC_SHA1 == INSTANCE Hmac WITH
  Name <- "SHA1", Variants <- {"plain"}, Pad <- 64, FileBuffer <- 100,
  Size <- Size20, Fresh <- NewContext(64),
  Starts <- SHA1!Starts, Update <- SHA1!Update, Finish <- SHA1!Finish,
  Pieces <- PiecesOf(64), Keys <- KeysOf(64)
HMAC_SHA2 == INSTANCE Hmac WITH
  Name <- "SHA2", Variants <- {"plain", "short"}, Pad <- 64, FileBuffer <- 100,
  Size <- Sha2Size, Fresh <- NewContext(64),
  Starts <- SHA2!Starts, Update <- SHA2!Update, Finish <- SHA2!Finish,
  Pieces <- PiecesOf(64), Keys <- KeysOf(64)
HMAC_SHA4 == INSTANCE Hmac WITH
  Name <- "SHA4", Variants <- {"plain", "short"}, Pad <- 128, FileBuffer <- 100,
  Size <- Sha4Size, Fresh <- NewContext(128),
  Starts <- SHA4!Starts, Update <- SHA4!Update, Finish <- SHA4!Finish,
  Pieces <- PiecesOf(128), Keys <- KeysOf(128)

HashInit ==
  \E a \in {"MD2", "MD4", "MD5", "SHA1", "SHA2", "SHA4"} :
    hash = [alg |-> a, mode |-> "new", key |-> 0, fed |-> 0, pieces |-> 0, ret |-> 0, out |-> << >>,
            ctx |-> NewContext(IF a = "MD2" THEN 16 ELSE IF a = "SHA4" THEN 128 ELSE 64)]
HashNext ==
  \/ HMAC_MD2!HashStep \/ HMAC_MD4!HashStep \/ HMAC_MD5!HashStep
  \/ HMAC_SHA1!HashStep \/ HMAC_SHA2!HashStep \/ HMAC_SHA4!HashStep
=============================================================================
