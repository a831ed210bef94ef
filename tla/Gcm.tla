--------------------------------- MODULE Gcm ---------------------------------
(***************************************************************************)
(* AES-GCM as crypto/gcm.c implements it.  A block is the number its bytes *)
(* stand for, most significant byte first; its size, the size of a byte,   *)
(* the digits of the multiplication table and the field polynomial are     *)
(* parameters (16 bytes of 8 bits, 4-bit digits and 0xe1 << 120 in the     *)
(* code).  The block cipher (crypto/aes.c) is a parameter too.             *)
(***************************************************************************)
EXTENDS Integers, Sequences, SequencesExt, Bitwise

CONSTANTS BLOCK,                   \* bytes in a block
          IV_LEN,                  \* bytes of an initialization vector that is not hashed
          BYTE_BITS, DIGIT_BITS,
          POLY,                    \* what replaces a bit shifted out of a block
          SC_API_aes_cipher(_, _)  \* a block encrypted under a key

ASSUME GcmAssumption ==
    /\ 0 < IV_LEN /\ IV_LEN < BLOCK
    /\ BYTE_BITS % DIGIT_BITS = 0
    /\ POLY < 2^(BLOCK * BYTE_BITS) /\ POLY % 2^(DIGIT_BITS - 1) = 0

BLOCK_BITS == BLOCK * BYTE_BITS

\* Bytes at the top of a block, zeros below.
Block(bytes) ==
    FoldLeft(LAMBDA n, i : n + bytes[i] * 2^(BYTE_BITS * (BLOCK - i)), 0, [i \in DOMAIN bytes |-> i])

Bytes(block, n) == SubSeq([i \in 1 .. n |-> (block \div 2^(BYTE_BITS * (BLOCK - i))) % 2^BYTE_BITS], 1, n)

\* The data in blocks, the last one possibly short.
Chunks(data) ==
    [i \in 1 .. (Len(data) + BLOCK - 1) \div BLOCK |->
        SubSeq(data, (i - 1) * BLOCK + 1, IF i * BLOCK < Len(data) THEN i * BLOCK ELSE Len(data))]

\* Multiplication by x: bit 0 of the polynomial is the highest bit of the block.
Halved(v) == IF v % 2 = 1 THEN (v \div 2) ^^ POLY ELSE v \div 2

(***************************************************************************)
(* What shifting out a digit leaves: the polynomial once for every bit of  *)
(* it.  last4 is the code's table of the upper 16 bits, which are all.     *)
(***************************************************************************)
Remainder(rem, bits, poly) ==
    FoldLeft(LAMBDA v, j : IF (rem \div 2^j) % 2 = 1 THEN v ^^ (poly \div 2^(bits - 1 - j)) ELSE v,
             0, [j \in 1 .. bits |-> j - 1])

last4 == <<\h0000, \h1c20, \h3840, \h2460, \h7080, \h6ca0, \h48c0, \h54e0,
           \he100, \hfd20, \hd940, \hc560, \h9180, \h8da0, \ha9c0, \hb5e0>>

ASSUME Last4Table == \A rem \in 0 .. 15 : last4[rem + 1] = Remainder(rem, 4, \he100)

(***************************************************************************)
(* The table of the multiples of H by one digit (HL and HH, setkey), and   *)
(* the multiplication that goes through the digits of x with it.           *)
(***************************************************************************)
SC_API_gcm_setkey(key) ==
    LET H == SC_API_aes_cipher(key, 0)
        PowersOfTwo == {2^j : j \in 0 .. DIGIT_BITS - 1}
        table[d \in 0 .. 2^DIGIT_BITS - 1] ==
            CASE d = 0                    -> 0
              [] d = 2^(DIGIT_BITS - 1)   -> H
              [] d \in PowersOfTwo \ {2^(DIGIT_BITS - 1)} -> Halved(table[2 * d])
              [] OTHER -> LET i == CHOOSE p \in PowersOfTwo : p < d /\ d < 2 * p
                          IN  table[i] ^^ table[d - i]
    IN  [key |-> key, table |-> SubSeq([d \in 1 .. 2^DIGIT_BITS |-> table[d - 1]], 1, 2^DIGIT_BITS)]

SC_API_gcm_mult(ctx, x) ==
    LET digit(i) == (x \div 2^(DIGIT_BITS * i)) % 2^DIGIT_BITS
        Step(z, i) == ((z \div 2^DIGIT_BITS) ^^ Remainder(z % 2^DIGIT_BITS, DIGIT_BITS, POLY))
                        ^^ ctx.table[digit(i) + 1]
    IN  FoldLeft(Step, ctx.table[digit(0) + 1], [i \in 1 .. (BLOCK_BITS \div DIGIT_BITS) - 1 |-> i])

\* Mixing data into an authentication hash, a block at a time.
Mixed(ctx, start, data) ==
    FoldLeft(LAMBDA buf, chunk : SC_API_gcm_mult(ctx, buf ^^ Block(chunk)), start, Chunks(data))

SC_API_gcm_start(ctx, iv, add) ==
    LET y == IF Len(iv) = IV_LEN THEN Block(iv) + 1
             ELSE SC_API_gcm_mult(ctx, Mixed(ctx, 0, iv) ^^ (Len(iv) * BYTE_BITS))
    IN  [key |-> ctx.key, table |-> ctx.table, y |-> y,
         base_ectr |-> SC_API_aes_cipher(ctx.key, y),
         buf |-> Mixed(ctx, 0, add), len |-> 0, add_len |-> Len(add)]

\* The counter is the block's bytes after the vector; it wraps within them.
Counter == 2^(BYTE_BITS * (BLOCK - IV_LEN))

NextCounter(y) == y - (y % Counter) + ((y + 1) % Counter)

\* A mutant: the hash always takes what was given.
Hashed_In(encrypt, in, out) == in

\* The hash takes the ciphertext, whichever side it is on.
Hashed(encrypt, in, out) == IF encrypt THEN out ELSE in

\* One update over the data.
SC_API_gcm_update(ctx, encrypt, data) ==
    LET Step(st, chunk) ==
            LET y   == NextCounter(st.y)
                out == Bytes(SC_API_aes_cipher(ctx.key, y) ^^ Block(chunk), Len(chunk))
            IN  [st EXCEPT !.y = y, !.out = @ \o out,
                           !.buf = SC_API_gcm_mult(ctx, @ ^^ Block(Hashed(encrypt, chunk, out)))]
        end == FoldLeft(Step, [y |-> ctx.y, buf |-> ctx.buf, out |-> << >>], Chunks(data))
    IN  [ctx |-> [ctx EXCEPT !.y = end.y, !.buf = end.buf, !.len = @ + Len(data)], out |-> end.out]

\* The lengths fill the two halves of the last block that is hashed.
LengthBlock(add_len, len) == (add_len * BYTE_BITS) * 2^(BLOCK_BITS \div 2) + len * BYTE_BITS

SC_API_gcm_finish(ctx, tag_len) ==
    LET hash == IF ctx.len = 0 /\ ctx.add_len = 0 THEN 0
                ELSE SC_API_gcm_mult(ctx, ctx.buf ^^ LengthBlock(ctx.add_len, ctx.len))
    IN  Bytes(ctx.base_ectr ^^ hash, tag_len)

SC_API_gcm_crypt_and_tag(ctx, encrypt, iv, add, data, tag_len) ==
    LET upd == SC_API_gcm_update(SC_API_gcm_start(ctx, iv, add), encrypt, data)
    IN  [out |-> upd.out, tag |-> SC_API_gcm_finish(upd.ctx, tag_len)]

SC_API_gcm_auth_decrypt(ctx, iv, add, data, tag) ==
    LET made == SC_API_gcm_crypt_and_tag(ctx, FALSE, iv, add, data, Len(tag))
    IN  IF made.tag = tag THEN [ok |-> TRUE, out |-> made.out]
        ELSE [ok |-> FALSE, out |-> [i \in DOMAIN data |-> 0]]

(***************************************************************************)
(* The reference: GCM by its definition.  A product is computed bit by     *)
(* bit, the hash over all blocks of data, ciphertext and lengths at once.  *)
(***************************************************************************)
Product(x, y) ==
    FoldLeft(LAMBDA st, i : [z |-> IF (x \div 2^(BLOCK_BITS - i)) % 2 = 1 THEN st.z ^^ st.v ELSE st.z,
                             v |-> Halved(st.v)],
             [z |-> 0, v |-> y], [i \in 1 .. BLOCK_BITS |-> i]).z

GHash(H, blocks) == FoldLeft(LAMBDA s, b : Product(s ^^ b, H), 0, blocks)

BlocksOf(data) == [i \in DOMAIN Chunks(data) |-> Block(Chunks(data)[i])]

GcmOf(key, iv, add, data) ==
    LET H  == SC_API_aes_cipher(key, 0)
        J0 == IF Len(iv) = IV_LEN THEN Block(iv) + 1
              ELSE GHash(H, BlocksOf(iv) \o <<Len(iv) * BYTE_BITS>>)
        pad(i) == SC_API_aes_cipher(key, J0 - (J0 % Counter) + ((J0 + i) % Counter))
        out == [n \in DOMAIN data |->
                   data[n] ^^ Bytes(pad(((n - 1) \div BLOCK) + 1), BLOCK)[((n - 1) % BLOCK) + 1]]
        hash == GHash(H, BlocksOf(add) \o BlocksOf(SubSeq(out, 1, Len(data)))
                           \o <<LengthBlock(Len(add), Len(data))>>)
    IN  [out |-> SubSeq(out, 1, Len(data)), tag |-> SC_API_aes_cipher(key, J0) ^^ hash]
=============================================================================
