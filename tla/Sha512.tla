------------------------------- MODULE Sha512 -------------------------------
(***************************************************************************)
(* The streaming side of sha512.c: data arrives in pieces, a block buffer  *)
(* is filled and compressed, the end is padded and the length appended.    *)
(* Data is counted in units instead of bytes; the compression of a block   *)
(* into the state is a parameter.                                          *)
(***************************************************************************)
EXTENDS Integers, Sequences, SequencesExt

CONSTANTS SHA512_BLOCK_SIZE,     \* units in a block
          LengthSize,            \* units of the length at the end of the last block
          InitialState,          \* the state sha512_init sets
          compress(_, _)         \* the state after a block

ASSUME Sha512Assumption ==
    /\ SHA512_BLOCK_SIZE \in Nat /\ LengthSize \in Nat \ {0}
    /\ LengthSize < SHA512_BLOCK_SIZE

\* The unit that marks the end of the data (the byte 0x80).
EndMark == -1

Zeros(n) == [i \in 1 .. n |-> 0]

\* The state after the first n blocks of data.
Compressed(state, data, n) ==
    FoldLeft(LAMBDA s, i : compress(s, SubSeq(data, (i - 1) * SHA512_BLOCK_SIZE + 1, i * SHA512_BLOCK_SIZE)),
             state, [i \in 1 .. n |-> i])

\* buffer holds the ctx->fill units not compressed yet, count the blocks that are.
sha512_init == [state |-> InitialState, buffer |-> << >>, count |-> 0]

sha512_add(ctx, data) ==
    LET room   == IF ctx.buffer = << >> THEN 0 ELSE SHA512_BLOCK_SIZE - Len(ctx.buffer)
        filled == ctx.buffer \o SubSeq(data, 1, IF room < Len(data) THEN room ELSE Len(data))
        rest   == SubSeq(data, room + 1, Len(data))
        blocks == Len(rest) \div SHA512_BLOCK_SIZE
        state  == IF ctx.buffer = << >> THEN ctx.state ELSE compress(ctx.state, filled)
    IN  IF ctx.buffer # << >> /\ Len(filled) < SHA512_BLOCK_SIZE
        THEN [ctx EXCEPT !.buffer = filled]
        ELSE [state  |-> Compressed(state, rest, blocks),
              buffer |-> SubSeq(rest, blocks * SHA512_BLOCK_SIZE + 1, Len(rest)),
              count  |-> ctx.count + blocks + (IF ctx.buffer = << >> THEN 0 ELSE 1)]

\* A mutant: a block that is just full counts as too small.
PaddingFits_Less(n) == n < SHA512_BLOCK_SIZE - LengthSize

\* The end mark and the length fit into the block that holds n units.
PaddingFits(n) == n <= SHA512_BLOCK_SIZE - LengthSize

sha512_final(ctx) ==
    LET marked == Append(ctx.buffer, EndMark)
        full   == ~PaddingFits(Len(marked))
        padded == marked \o Zeros(SHA512_BLOCK_SIZE - Len(marked))
        state  == IF full THEN compress(ctx.state, padded) ELSE ctx.state
        tail   == IF full THEN << >> ELSE marked
        length == ctx.count * SHA512_BLOCK_SIZE + Len(ctx.buffer)
    IN  compress(state, tail \o Zeros(SHA512_BLOCK_SIZE - 1 - Len(tail)) \o <<length>>)

\* The usual sequence of calls over the pieces of a message.
sha512(pieces) ==
    sha512_final(FoldLeft(LAMBDA ctx, data : sha512_add(ctx, data), sha512_init, pieces))

(***************************************************************************)
(* The reference: the padded message as a whole, block after block.        *)
(***************************************************************************)
HashOf(message) ==
    LET short  == Len(message) + 1 + LengthSize
        zeros  == (SHA512_BLOCK_SIZE - (short % SHA512_BLOCK_SIZE)) % SHA512_BLOCK_SIZE
        padded == Append(message, EndMark) \o Zeros(zeros + LengthSize - 1) \o <<Len(message)>>
    IN  Compressed(InitialState, padded, Len(padded) \div SHA512_BLOCK_SIZE)
=============================================================================
