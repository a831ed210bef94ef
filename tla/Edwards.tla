------------------------------ MODULE Edwards ------------------------------
(***************************************************************************)
(* The twisted Edwards curve -x^2 + y^2 = 1 + d x^2 y^2 of libeddsa (ed.c) *)
(* with the scalars of Scalars.  The curve is a parameter: a small curve   *)
(* of the same family, with cofactor 8 and a subgroup of prime order       *)
(* con_m, stands for edwards25519.                                         *)
(*                                                                         *)
(* Field elements are numbers modulo q here: that the limb operations of   *)
(* Fld compute these numbers is what LimbArithmetic checks.  A point is    *)
(* the record of its projective coordinates x, y, t, z; a pre-computed     *)
(* point holds y - x, y + x and 2 d t.                                     *)
(***************************************************************************)
EXTENDS Scalars

CONSTANTS FLD_BITS,         \* bits of a field element, 255 in the code
          q,                \* the prime, 2^255 - 19 in the code
          con_d,            \* the curve's d
          con_j,            \* a square root of -1
          BaseX, BaseY      \* the base point

a ++ b == (a + b) % q
a -- b == (a - b) % q
a ** b == (a * b) % q

ASSUME EdwardsAssumption ==
    /\ 2^(FLD_BITS - 1) < q /\ q < 2^FLD_BITS /\ q % 8 = 5
    /\ con_j ** con_j = q - 1
    /\ (BaseY ** BaseY) -- (BaseX ** BaseX)
         = 1 ++ (con_d ** ((BaseX ** BaseX) ** (BaseY ** BaseY)))

con_2d == 2 ** con_d

con_m2d == 0 -- con_2d

\* fld_inv and fld_pow2523 raise to the powers q - 2 and (q - 5) / 8.
Power(n, e) ==
    FoldLeft(LAMBDA r, i : IF (e \div 2^(FLD_BITS - i)) % 2 = 1 THEN (r ** r) ** n ELSE r ** r,
             1, [i \in 1 .. FLD_BITS |-> i])

Inverted(n) == Power(n, q - 2)

(***************************************************************************)
(* A left fold that binds every intermediate result to a value before the  *)
(* next step: the loops of the code, whose steps use theirs many times.    *)
(***************************************************************************)
Loop(F(_, _), start, s) ==
    LET r[i \in 0 .. Len(s)] ==
            IF i = 0 THEN start
            ELSE CHOOSE v \in {F(p, s[i]) : p \in {r[i - 1]}} : TRUE
    IN  r[Len(s)]

(***************************************************************************)
(* The reference: the same group in affine coordinates, and the multiples  *)
(* of the base point in it.                                                *)
(***************************************************************************)
GroupAdd(P, Q) ==
    LET Sum(cross) == <<((P[1] ** Q[2]) ++ (Q[1] ** P[2])) ** Inverted(1 ++ cross),
                        ((P[2] ** Q[2]) ++ (P[1] ** Q[1])) ** Inverted(1 -- cross)>>
    IN  Sum(con_d ** ((P[1] ** Q[1]) ** (P[2] ** Q[2])))

\* n times the base point: a doubling and, for a set bit, an addition.
Multiple(n) ==
    LET bits == FlattenSeq([i \in 1 .. FLD_BITS |->
                   IF ((n % con_m) \div 2^(FLD_BITS - i)) % 2 = 1 THEN <<0, 1>> ELSE <<0>>])
    IN  Loop(LAMBDA P, b : GroupAdd(P, IF b = 0 THEN P ELSE <<BaseX, BaseY>>), <<0, 1>>, bits)

\* A point as 256 bits: y, and above it the lowest bit of x.
Encode(P) == P[2] + 2^FLD_BITS * (P[1] % 2)

(***************************************************************************)
(* The tables and constants in pre-computed form.                          *)
(***************************************************************************)
Precomputed(P) == [diff |-> P[2] -- P[1], sum |-> P[2] ++ P[1], prod |-> con_2d ** (P[1] ** P[2])]

\* ed_lookup[pow][i - 1]: i times 16^(2 pow) times the base point, i from 1 to 8.
ed_lookup(pow, i) == Precomputed(Multiple(i * 2^(2 * DigitBits * pow)))

pced_B == Precomputed(<<BaseX, BaseY>>)

ed_zero == [x |-> 0, y |-> 1, t |-> 0, z |-> 1]

pced_zero == [diff |-> 1, sum |-> 1, prod |-> 0]

(***************************************************************************)
(* Import and export.                                                      *)
(***************************************************************************)
memselect(a, b, flag) == IF flag THEN a ELSE b

\* A square root of U / V, or j times it: whichever squares to it.
RootOf(U, V) ==
    LET uv3(V2)      == (V2 ** U) ** V
        Candidate(p) == Power((V ** V) ** ((V ** V) ** p), (q - 5) \div 8) ** p
        Chosen(root) == memselect(root, con_j ** root, (root ** root) ** V = U)
    IN  Chosen(Candidate(uv3(V ** V)))

\* The sign above y chooses between x and -x.
ed_import(in) ==
    LET Point(x, y)     == [x |-> x, y |-> y, t |-> x ** y, z |-> 1]
        Signed(absx)    == IF (in \div 2^FLD_BITS + absx) % 2 = 1 THEN 0 -- absx ELSE absx
        AbsX(yy)        == RootOf(yy -- 1, (con_d ** yy) ++ 1)
        y               == (in % 2^FLD_BITS) % q
    IN  Point(Signed(AbsX(y ** y)), y)

ed_export(P) ==
    LET zinv == Inverted(P.z)
    IN  (P.y ** zinv) + 2^FLD_BITS * ((P.x ** zinv) % 2)

(***************************************************************************)
(* The group law.                                                          *)
(***************************************************************************)
Combine(a, b, c, d) ==
    LET e == b -- a
        f == d -- c
        g == d ++ c
        h == b ++ a
    IN  [x |-> e ** f, y |-> g ** h, t |-> e ** h, z |-> f ** g]

ed_add(P, Q) ==
    Combine((P.y -- P.x) ** (Q.y -- Q.x), (P.y ++ P.x) ** (Q.y ++ Q.x),
            (P.t ** Q.t) ** con_2d, 2 ** (P.z ** Q.z))

ed_double(P) ==
    Combine((P.y -- P.x) ** (P.y -- P.x), (P.y ++ P.x) ** (P.y ++ P.x),
            (P.t ** P.t) ** con_2d, 2 ** (P.z ** P.z))

ed_sub(P, Q) ==
    Combine((P.y -- P.x) ** (Q.y ++ Q.x), (P.y ++ P.x) ** (Q.y -- Q.x),
            (P.t ** Q.t) ** con_m2d, 2 ** (P.z ** Q.z))

ed_add_pc(P, Q) ==
    Combine((P.y -- P.x) ** Q.diff, (P.y ++ P.x) ** Q.sum, P.t ** Q.prod, 2 ** P.z)

ed_sub_pc(P, Q) ==
    Combine((P.y -- P.x) ** Q.sum, (P.y ++ P.x) ** Q.diff, 0 -- (P.t ** Q.prod), 2 ** P.z)

ed_precompute(P) == [diff |-> P.y -- P.x, sum |-> P.y ++ P.x, prod |-> P.t ** con_2d]

(***************************************************************************)
(* Multiples of the base point by the table, one digit of the scalar at a  *)
(* time, the even digits in R0 and the odd ones in R1.                     *)
(***************************************************************************)
scale16(pow, x) ==
    LET absx      == IF x < 0 THEN -x ELSE x
        Signed(R) == IF x < 0 THEN [diff |-> R.sum, sum |-> R.diff, prod |-> 0 -- R.prod] ELSE R
    IN  Signed(IF absx = 0 THEN pced_zero ELSE ed_lookup(pow \div 2, absx))

ed_scale_base(x) ==
    LET digit(pack, i)  == ((pack \div 2^(DigitBits * i)) % 2^DigitBits) - 2^(DigitBits - 1)
        Half(pack, odd) == Loop(LAMBDA R, i : ed_add_pc(R, scale16(2 * i, digit(pack, 2 * i + odd))),
                                ed_zero, [i \in 1 .. PackLen |-> i - 1])
        Scaled(R1)      == Loop(LAMBDA R, i : ed_add(R, R), R1, [i \in 1 .. DigitBits |-> i])
        Sum(pack)       == ed_add(Half(pack, 0), Scaled(Half(pack, 1)))
    IN  Sum(sc_export(sc_add(x, con_off)))

(***************************************************************************)
(* x times the base point plus y times Q, by the joint sparse form of the  *)
(* two scalars from its highest digit pair that is not zero.               *)
(***************************************************************************)
ed_dual_scale(x, y, Q) ==
    LET QpB == ed_add_pc(Q, pced_B)
        QmB == ed_sub_pc(Q, pced_B)
        pcQ == ed_precompute(Q)
        Digit(R, ud) ==
            CASE ud = <<1, 1>>   -> ed_add(R, QpB)
              [] ud = <<1, -1>>  -> ed_sub(R, QmB)
              [] ud = <<1, 0>>   -> ed_add_pc(R, pced_B)
              [] ud = <<-1, 1>>  -> ed_add(R, QmB)
              [] ud = <<-1, -1>> -> ed_sub(R, QpB)
              [] ud = <<-1, 0>>  -> ed_sub_pc(R, pced_B)
              [] ud = <<0, 1>>   -> ed_add_pc(R, pcQ)
              [] ud = <<0, -1>>  -> ed_sub_pc(R, pcQ)
              [] OTHER           -> R
        Sum(u, n) == Loop(LAMBDA R, i : Digit(IF i = n THEN R ELSE ed_double(R), u[i]),
                          ed_zero, Reverse([i \in 1 .. n |-> i]))
        Used(u)   == {0} \cup {i \in DOMAIN u : u[i] # <<0, 0>>}
        From(u)   == Sum(u, Max(Used(u)))
    IN  From(sc_jsf(x, y))
=============================================================================
