--------------------------- MODULE LimbArithmetic ---------------------------
(***************************************************************************)
(* The arithmetic of libeddsa as the curve code uses it: a long sequence   *)
(* of calls on one element.  Sums and differences of field elements stay   *)
(* uncarried until the next product (fld.h), and so do sums of scalars     *)
(* until the next reduction (sc.h).  The sequence runs on one of the two   *)
(* limb layouts of the field, or on scalars, next to the number modulo q   *)
(* or m that it should compute.                                            *)
(***************************************************************************)
EXTENDS Scalars

CONSTANTS Widths64, Widths32,       \* limb widths of the two layouts
          FoldC,                    \* the fold constant, 19 in the code
          Factor,                   \* factors given to fld_scale, 121665 in the code
          MaxCalls                  \* bound: calls in a sequence

Layouts == [field64 |-> Widths64, field32 |-> Widths32]

F(b) == INSTANCE Fld WITH Bits <- b, C <- FoldC

\* The lowest limb takes what a carry round folds; even limbs of the 32-bit
\* layout are one bit wider than odd ones.
ASSUME LayoutAssumption ==
    /\ FoldC \in Nat \ {0}
    /\ \A l \in DOMAIN Layouts : 2^Layouts[l][1] >= 3 * FoldC
    /\ \A i \in DOMAIN Widths64 : Widths64[i] = Widths64[1]
    /\ \A i \in DOMAIN Widths32 : Widths32[i] = Widths32[1] - ((i + 1) % 2)

(***************************************************************************)
(* Exponents as sets of binary digits: squaring n times shifts them by n,  *)
(* a product of powers with no digit in common joins them.                 *)
(***************************************************************************)
SqDigits(n, e) == {i + n : i \in e}

MulDigits(e, f) == IF e \cap f = {} THEN e \cup f ELSE {-1}

\* The chains arrive at q - 2 = 2^255 - 21 and (q - 5) / 8 = 2^252 - 3.
ASSUME ChainExponents ==
    /\ F(Widths64)!InvChain({0}, SqDigits, MulDigits) = (0 .. 254) \ {2, 4}
    /\ F(Widths64)!Pow2523Chain({0}, SqDigits, MulDigits) = (0 .. 251) \ {1}

VARIABLES layout,    \* "field64", "field32" or "scalar"
          acc,       \* the limbs of the element, or the value of the scalar
          val,       \* the number modulo q or m it should stand for
          lazy,      \* uncarried sums in acc
          calls      \* calls so far

limbVars == <<layout, acc, val, lazy, calls>>

Modulus(l) == F(Layouts[l])!Prime

\* Packed numbers at the edges: zero, one, around q, all bits, the top bit alone.
Packed(l) ==
    LET top == 2^F(Layouts[l])!TotalBits
    IN  {0, 1, Modulus(l) - 1, Modulus(l), top - 1, top, 2 * top - 1, top \div 3}

\* Scalars are reduced; what sc_import is given has up to twice the bits.
Reduced == {0, 1, con_m - 1, con_m \div 2, con_m \div 3}

ImportBound == 2^(SC_LIMB_BITS * (SC_LIMB_NUM - 1)) * (2^(SC_LIMB_BITS * (SC_LIMB_NUM + 1)) - con_mu)

Wide == Reduced \cup {con_m, 2 * con_m - 1, con_m * con_m, ImportBound, ImportBound - con_m + 1}

LimbInit ==
    /\ layout \in {"field64", "field32", "scalar"}
    /\ acc = IF layout = "scalar" THEN 0 ELSE F(Layouts[layout])!fld_set0(0)
    /\ val = 0 /\ lazy = 0 /\ calls = 0

\* A call that leaves result, where want is the number it stands for.
Call(result, want, sums) ==
    /\ calls < MaxCalls
    /\ acc' = result /\ val' = want % (IF layout = "scalar" THEN con_m ELSE Modulus(layout))
    /\ lazy' = sums /\ calls' = calls + 1
    /\ UNCHANGED layout

\* The curve code adds at most twice before it multiplies (f and g in ed_add).
MaxLazy == 2

Import(n) == Call(F(Layouts[layout])!fld_import(n), n, 0)

Add(n) ==
    /\ lazy < MaxLazy
    /\ Call(F(Layouts[layout])!fld_add(acc, F(Layouts[layout])!fld_import(n)), val + n, lazy + 1)

Sub(n) ==
    /\ lazy < MaxLazy
    /\ Call(F(Layouts[layout])!fld_sub(acc, F(Layouts[layout])!fld_import(n)), val - n, lazy + 1)

Scale2 == lazy < MaxLazy /\ Call(F(Layouts[layout])!fld_scale2(acc), 2 * val, lazy + 1)

Neg == Call(F(Layouts[layout])!fld_neg(acc), -val, lazy)

Scale(s) == Call(F(Layouts[layout])!fld_scale(acc, s), s * val, 0)

Mul(n) == Call(F(Layouts[layout])!fld_mul(acc, F(Layouts[layout])!fld_import(n)), val * (n % Modulus(layout)), 0)

Sq == Call(F(Layouts[layout])!fld_sq(acc), val * val, 0)

Reduce == Call(F(Layouts[layout])!fld_reduce(acc), val, 0)

ScImport(n) == Call(sc_import(n), n, 0)

ScAdd(n) == lazy = 0 /\ Call(sc_add(acc, n), val + n, 1)

ScMul(n) == lazy = 0 /\ Call(sc_mul(acc, n), val * n, 0)

ScReduce == Call(sc_reduce(acc), val, 0)

FieldNext ==
    /\ layout # "scalar"
    /\ \/ \E n \in Packed(layout) : Import(n) \/ Add(n) \/ Sub(n) \/ Mul(n)
       \/ \E s \in Factor : Scale(s)
       \/ Scale2 \/ Neg \/ Sq \/ Reduce

ScalarNext ==
    /\ layout = "scalar"
    /\ \/ \E n \in Wide : ScImport(n)
       \/ \E n \in Reduced : ScAdd(n) \/ ScMul(n)
       \/ ScReduce

LimbNext == FieldNext \/ ScalarNext

(***************************************************************************)
(* Whatever was called before, the element stands for the number it        *)
(* should: fld_reduce turns it into the limbs of that number, fld_export   *)
(* packs it, and fld_eq recognises it among others.                        *)
(***************************************************************************)
FieldExact ==
    layout # "scalar" =>
        /\ F(Layouts[layout])!fld_reduce(acc) = F(Layouts[layout])!Limbs(val)
        /\ F(Layouts[layout])!fld_export(acc) = val
        /\ \A n \in Packed(layout) :
               F(Layouts[layout])!fld_eq(acc, F(Layouts[layout])!fld_import(n)) <=> n % Modulus(layout) = val

\* The exported scalar is reduced, and the joint sparse form of it and any
\* other scalar has signed digits that add up to both.
ScalarExact ==
    layout = "scalar" =>
        /\ sc_export(acc) = val
        /\ \A n \in Reduced :
               LET u == sc_jsf(val, n)
               IN  /\ \A i \in DOMAIN u : u[i] \in (-1 .. 1) \X (-1 .. 1)
                   /\ JsfValue(u, 1) = val /\ JsfValue(u, 2) = n

\* The limb arithmetic of fld.c and the Barrett reduction and joint sparse form
\* of sc.c compute what they claim after any sequence of calls: no carry is lost
\* in an uncarried or negative limb, one conditional subtraction is enough.
ArithmeticExact == FieldExact /\ ScalarExact
=============================================================================
