-------------------------------- MODULE Fld --------------------------------
(***************************************************************************)
(* The field Z/qZ of libeddsa (fld.c, fld.h), q = 2^b - C.  The code has   *)
(* q = 2^255 - 19 in five 51-bit limbs (64-bit builds) or in ten limbs     *)
(* that alternate between 26 and 25 bits (32-bit builds and every Windows  *)
(* build, where __LP64__ is not defined); here the limb widths and C are   *)
(* parameters, so that both layouts are checked on fields small enough to  *)
(* enumerate.                                                              *)
(*                                                                         *)
(* An element is the sequence of its limbs.  Limbs are signed: fld_add and *)
(* fld_sub leave them uncarried, the next product carries them.  The       *)
(* arithmetic shift of a limb is \div, its mask is %: both round down.     *)
(***************************************************************************)
EXTENDS Integers, Sequences, SequencesExt, FiniteSetsExt

CONSTANTS Bits,      \* the limb widths, FLD_LIMB_BITS
          C          \* the fold constant, 19 in the code

FLD_LIMB_NUM == Len(Bits)

Limb == 1 .. FLD_LIMB_NUM

\* The sequence of limbs F(1), F(2), ...
Vector(F(_)) == SubSeq([i \in Limb |-> F(i)], 1, FLD_LIMB_NUM)

\* The weight of a limb is 2 to the widths below it.
Shift[i \in 1 .. FLD_LIMB_NUM + 1] == IF i = 1 THEN 0 ELSE Shift[i - 1] + Bits[i - 1]

TotalBits == Shift[FLD_LIMB_NUM + 1]

Prime == 2^TotalBits - C

\* USE_64BIT: all limbs have one width.
USE_64BIT == \A i \in Limb : Bits[i] = Bits[1]

\* The number a limb vector stands for (before reduction modulo q).
Value(x) == FoldLeft(LAMBDA s, i : s + x[i] * 2^Shift[i], 0, [i \in Limb |-> i])

\* The limbs of a number below 2^TotalBits.
Limbs(n) == Vector(LAMBDA i : (n \div 2^Shift[i]) % 2^Bits[i])

(***************************************************************************)
(* One carry round: off is added to the lowest limb, every limb passes     *)
(* what exceeds its width to the next, and what leaves the top comes back  *)
(* to the lowest limb times C.                                             *)
(***************************************************************************)
CARRY(x, off) ==
    LET carry[i \in 0 .. FLD_LIMB_NUM] ==
            IF i = 0 THEN off ELSE (carry[i - 1] + x[i]) \div 2^Bits[i]
        kept(i) == (carry[i - 1] + x[i]) % 2^Bits[i]
    IN  Vector(LAMBDA i : IF i = 1 THEN kept(1) + C * carry[FLD_LIMB_NUM] ELSE kept(i))

fld_reduce_32(x) == CARRY(CARRY(CARRY(x, C), 0), -C)

\* The 64-bit code spells its three rounds out; the offset leaves before the third.
fld_reduce_64(x) ==
    LET first  == CARRY([x EXCEPT ![1] = @ + C], 0)
        second == CARRY(first, 0)
    IN  CARRY([second EXCEPT ![1] = @ - C], 0)

\* A mutant: one carry round fewer.
fld_reduce_Twice(x) == CARRY(CARRY(x, C), -C)

\* The smallest non-negative representative of x, every limb within its width.
fld_reduce(x) == IF USE_64BIT THEN fld_reduce_64(x) ELSE fld_reduce_32(x)

\* A packed number of TotalBits + 1 bits: the bit above the limbs is folded in.
fld_import(n) == [Limbs(n) EXCEPT ![1] = @ + C * (n \div 2^TotalBits)]

fld_export(x) == Value(fld_reduce(x))

\* The products of limbs that meet at limb j, those past the top folded by C.
\* Where two narrow limbs meet, their weights add up to one bit more.
ProductAt(j, a, b) ==
    FoldLeft(LAMBDA s, i :
                 LET p    == IF i <= j THEN j + 1 - i ELSE j + 1 - i + FLD_LIMB_NUM
                     over == IF i <= j THEN 0 ELSE TotalBits
                 IN  s + a[i] * b[p] * 2^(Shift[i] + Shift[p] - Shift[j] - over)
                         * (IF i <= j THEN 1 ELSE C),
             0, [i \in Limb |-> i])

Products(a, b) == Vector(LAMBDA j : ProductAt(j, a, b))

\* 64-bit: one carry round, then the lowest limb alone is carried into the next.
fld_mul_64(a, b) ==
    LET c == CARRY(Products(a, b), 0)
    IN  [c EXCEPT ![1] = @ % 2^Bits[1], ![2] = @ + c[1] \div 2^Bits[1]]

\* 32-bit: two carry rounds.
fld_mul_32(a, b) == CARRY(CARRY(Products(a, b), 0), 0)

fld_mul(a, b) == IF USE_64BIT THEN fld_mul_64(a, b) ELSE fld_mul_32(a, b)

\* The squares take each mixed product once and double it.
SquareAt(j, a) ==
    LET Pair == {p \in Limb \X Limb : p[1] <= p[2] /\ (p[1] + p[2] - 1 - j) % FLD_LIMB_NUM = 0}
        Term(p) == LET over == IF p[1] + p[2] - 1 = j THEN 0 ELSE TotalBits
                   IN  a[p[1]] * a[p[2]] * 2^(Shift[p[1]] + Shift[p[2]] - Shift[j] - over)
                         * (IF p[1] = p[2] THEN 1 ELSE 2) * (IF over = 0 THEN 1 ELSE C)
    IN  FoldSet(LAMBDA p, s : s + Term(p), 0, Pair)

Squares(a) == Vector(LAMBDA j : SquareAt(j, a))

fld_sq_64(a) ==
    LET c == CARRY(Squares(a), 0)
    IN  [c EXCEPT ![1] = @ % 2^Bits[1], ![2] = @ + c[1] \div 2^Bits[1]]

fld_sq_32(a) == CARRY(CARRY(Squares(a), 0), 0)

fld_sq(a) == IF USE_64BIT THEN fld_sq_64(a) ELSE fld_sq_32(a)

(***************************************************************************)
(* The operations without a carry.                                         *)
(***************************************************************************)
fld_set0(x0) == Vector(LAMBDA i : IF i = 1 THEN x0 ELSE 0)

fld_add(a, b) == Vector(LAMBDA i : a[i] + b[i])

fld_sub(a, b) == Vector(LAMBDA i : a[i] - b[i])

fld_tinyscale(a, s) == Vector(LAMBDA i : s * a[i])

fld_scale2(a) == Vector(LAMBDA i : a[i] * 2)

fld_neg(a) == Vector(LAMBDA i : -a[i])

fld_scale(x, s) == CARRY(fld_tinyscale(x, s), 0)

\* Comparing reduces the difference and looks for a limb that is not zero.
fld_eq(a, b) == \A i \in Limb : fld_reduce(fld_sub(a, b))[i] = 0

(***************************************************************************)
(* The powers.  fld_inv and fld_pow2523 are two ends of one chain of       *)
(* squarings and products, written here over any product Mul and any Sq,   *)
(* where Sq(n, z) squares z n times: LimbArithmetic runs it on exponents   *)
(* to check where it arrives.                                              *)
(***************************************************************************)
\* z^(2^250 - 1), and z^11 on the way to it.
LongPower(z, Sq(_, _), Mul(_, _)) ==
    LET z9   == Mul(Sq(3, z), z)
        z11  == Mul(z9, Sq(1, z))
        z5   == Mul(Sq(1, z11), z9)
        z10  == Mul(Sq(5, z5), z5)
        z20  == Mul(Sq(10, z10), z10)
        z40  == Mul(Sq(20, z20), z20)
        z50  == Mul(Sq(10, z40), z10)
        z100 == Mul(Sq(50, z50), z50)
        z200 == Mul(Sq(100, z100), z100)
    IN  [z11 |-> z11, z250 |-> Mul(Sq(50, z200), z50)]

InvChain(z, Sq(_, _), Mul(_, _)) ==
    LET p == LongPower(z, Sq, Mul) IN Mul(Sq(5, p.z250), p.z11)

Pow2523Chain(z, Sq(_, _), Mul(_, _)) ==
    Mul(Sq(2, LongPower(z, Sq, Mul).z250), z)

\* The chain's exponents belong to 2^255 - 19.  In a smaller field the same
\* power is taken by squaring and multiplying along the exponent's digits.
Power(z, e) ==
    LET digits == [i \in 1 .. TotalBits |-> (e \div 2^(TotalBits - i)) % 2]
    IN  FoldLeft(LAMBDA t, bit : IF bit = 1 THEN fld_mul(fld_sq(t), z) ELSE fld_sq(t),
             fld_set0(1), digits)

fld_inv(z) == Power(z, Prime - 2)

fld_pow2523(z) == Power(z, (Prime - 5) \div 8)
=============================================================================
