------------------------------ MODULE Scalars ------------------------------
(***************************************************************************)
(* The ring Z/mZ of libeddsa (sc.c), m the order of the base point.  The   *)
(* code has m = 2^252 + 27742... in five 52-bit or ten 26-bit limbs; the   *)
(* limb width, their number and m are parameters here.  A scalar is the    *)
(* number its limbs stand for; limbs appear where the code's result        *)
(* depends on them: in the truncated product of the Barrett reduction and  *)
(* in the joint sparse form, which sees one limb at a time.                *)
(***************************************************************************)
EXTENDS Integers, Sequences, SequencesExt, FiniteSetsExt

CONSTANTS SC_LIMB_BITS,
          SC_LIMB_NUM,
          con_m,         \* the order of the base point
          DigitBits,     \* bits of a digit of ed_scale_base, 4 in the code
          PackLen        \* bytes of an exported scalar; a byte is two digits

\* m has more than all limbs but one, and no more than all of them: then its
\* Barrett constant has one limb more.
ASSUME ScalarsAssumption ==
    /\ SC_LIMB_BITS \in Nat \ {0} /\ SC_LIMB_NUM \in Nat \ {0, 1}
    /\ 2^(SC_LIMB_BITS * (SC_LIMB_NUM - 1)) < con_m
    /\ con_m < 2^(SC_LIMB_BITS * SC_LIMB_NUM)
    /\ con_m < 2^(2 * DigitBits * PackLen)

LOCAL LB == SC_LIMB_BITS
LOCAL K == SC_LIMB_NUM
LOCAL Base == 2^LB

SC_BITS == K * LB

LimbOf(n, i) == (n \div Base^i) % Base

con_mu == Base^(2 * K) \div con_m

\* 8 * (16^64 - 1) / 15 mod m: subtracting half a digit from every digit.
con_off ==
    (2^(DigitBits - 1) * ((2^(2 * DigitBits * PackLen) - 1) \div (2^DigitBits - 1))) % con_m

(***************************************************************************)
(* sc_barrett (HAC 14.42).  Step 1 estimates the quotient from the upper   *)
(* limbs of x; of the product with mu the positions below K - 1 are never  *)
(* computed, so the estimate can be lower than HAC's.  Steps 2 and 3 are   *)
(* the remainder modulo b^(K+1); step 4 subtracts m at most once.          *)
(***************************************************************************)
QuotientEstimate(x) ==
    LET Column(j) == FoldSet(LAMBDA i, s : s + LimbOf(x, K - 1 + i) * LimbOf(con_mu, j - i),
                             0, {i \in 0 .. K : j - i \in 0 .. K})
        carry[j \in K - 1 .. 2 * K] ==
            IF j = K - 1 THEN Column(j) ELSE carry[j - 1] \div Base + Column(j)
    IN  FoldSet(LAMBDA j, s : s + (carry[j] % Base) * Base^(j - K - 1),
                (carry[2 * K] \div Base) * Base^K, K + 1 .. 2 * K)

sc_barrett(x) ==
    LET r == (x - QuotientEstimate(x) * con_m) % Base^(K + 1)
    IN  (IF r >= con_m THEN r - con_m ELSE r) % Base^K

sc_reduce(e) == sc_barrett(e)

sc_import(n) == sc_barrett(n)

sc_export(x) == sc_reduce(x)

sc_mul(a, b) == sc_barrett(a * b)

\* The limbs are added without a carry: sc_export and sc_reduce carry.
sc_add(a, b) == a + b

(***************************************************************************)
(* sc_jsf: signed digits of a and b, computed side by side so that many    *)
(* pairs are zero.  The limbs are taken one after the other: near the top  *)
(* of a limb jsfdigit does not see the bits of the next one.               *)
(***************************************************************************)
jsfdigit(a, b) ==
    LET u == 2 - (a % 4)
    IN  IF u \in {0, 2} THEN 0
        ELSE IF a % 8 \in {3, 5} /\ b % 4 = 2 THEN -u ELSE u

sc_jsf(a, b) ==
    LET Digit(n0, n1, u) ==
            [n0 |-> (n0 - jsfdigit(n0, n1)) \div 2, n1 |-> (n1 - jsfdigit(n1, n0)) \div 2,
             u  |-> Append(u, <<jsfdigit(n0, n1), jsfdigit(n1, n0)>>)]
        Step(st, pos) ==
            IF pos % LB = 0
            THEN Digit(st.n0 + LimbOf(a, pos \div LB), st.n1 + LimbOf(b, pos \div LB), st.u)
            ELSE Digit(st.n0, st.n1, st.u)
        all  == FoldLeft(Step, [n0 |-> 0, n1 |-> 0, u |-> << >>],
                         [i \in 1 .. SC_BITS |-> i - 1])
    IN  Digit(all.n0, all.n1, all.u).u

(***************************************************************************)
(* What the scalar operations promise.                                     *)
(***************************************************************************)
JsfValue(u, side) == FoldLeft(LAMBDA s, i : s + u[i][side] * 2^(i - 1), 0, [i \in DOMAIN u |-> i])
=============================================================================
