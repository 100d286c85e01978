----------------------------- MODULE BlockHash -----------------------------
(***************************************************************************)
(* MD4, MD5, SHA-1, SHA-2 and SHA-4 take a message in pieces of any length: *)
(* whole blocks are processed, what is left waits in a buffer, and the      *)
(* length is counted in two words.  They differ in the size of the block    *)
(* and of the length, in the order of its bytes and in Process, which is    *)
(* taken as it is given: a byte is a pair of what it is and which one.      *)
(***************************************************************************)
EXTENDS Naturals, Sequences, SequencesExt

CONSTANTS
  Block,          \* the bytes of a block
  Field,          \* the bytes of the length that ends the last block
  Little,         \* TRUE: bytes of a word are written lowest first
  Word,           \* the values of a word; the code's words have 32 bits, SHA-4's 64
  Initial(_),     \* the initial state of a variant
  Process(_, _)   \* what a block makes of a state

Overwrite(buffer, at, piece) ==
  SubSeq(buffer, 1, at) \o piece \o SubSeq(buffer, at + Len(piece) + 1, Len(buffer))

\* Setup of a context; the buffer and the pads of an HMAC stay.
Starts(ctx, variant) ==
  [ctx EXCEPT !.total = <<0, 0>>, !.variant = variant, !.state = Initial(variant)]

ProcessAll(state, blocks) ==
  FoldLeft(LAMBDA s, k : Process(s, SubSeq(blocks, k * Block + 1, (k + 1) * Block)),
           state, [i \in 1 .. Len(blocks) \div Block |-> i - 1])

\* Mutant of Count: the carry is lost when the word comes round to 0.
CountCarriesLate(total, n) ==
  LET low == (total[1] + n) % Word
  IN  <<low, IF 0 < low /\ low < n THEN total[2] + 1 ELSE total[2]>>

Count(total, n) ==
  LET low == (total[1] + n) % Word
  IN  <<low, IF low < n THEN total[2] + 1 ELSE total[2]>>

\* Fill the buffer and process it, process whole blocks of the input, keep the rest.
Update(ctx, input) ==
  LET left == ctx.total[1] % Block
      fill == Block - left
      full == left # 0 /\ Len(input) >= fill
      filled == IF full THEN Overwrite(ctx.buffer, left, SubSeq(input, 1, fill))
                ELSE ctx.buffer
      rest == IF full THEN SubSeq(input, fill + 1, Len(input)) ELSE input
      whole == Len(rest) - (Len(rest) % Block)
  IN  IF input = << >> THEN ctx
      ELSE [ctx EXCEPT
              !.total = Count(@, Len(input)),
              !.state = ProcessAll(IF full THEN Process(@, filled) ELSE @,
                                   SubSeq(rest, 1, whole)),
              !.buffer = Overwrite(filled, IF full THEN 0 ELSE left,
                                   SubSeq(rest, whole + 1, Len(rest)))]

Padding(n) == [i \in 1 .. n |-> <<"pad", IF i = 1 THEN 128 ELSE 0>>]

PutWord(w) ==
  [i \in 1 .. Field \div 2 |->
     <<"length", <<w, IF Little THEN i ELSE Field \div 2 + 1 - i>> >>]

\* The length in bits, as it is written.
MsgLen(total) ==
  LET high == (total[1] \div (Word \div 8) + 8 * total[2]) % Word
      low == (8 * total[1]) % Word
  IN  IF Little THEN PutWord(low) \o PutWord(high) ELSE PutWord(high) \o PutWord(low)

\* Mutant of PadN: no padding when the rest of the block is just the length.
PadNNone(last) ==
  IF last <= Block - Field THEN Block - Field - last ELSE 2 * Block - Field - last

\* How many bytes of padding leave room for the length.
PadN(last) == IF last < Block - Field THEN Block - Field - last ELSE 2 * Block - Field - last

\* Pad, append the length, and the state is the digest.
Finish(ctx) ==
  Update(Update(ctx, Padding(PadN(ctx.total[1] % Block))), MsgLen(ctx.total))
=============================================================================
