------------------------------- MODULE X25519 -------------------------------
(***************************************************************************)
(* The key exchange of libeddsa (x25519.c): multiples of a point given by  *)
(* its Montgomery coordinate u, and public values from the base point of   *)
(* the Edwards curve.  Keys and public values are the numbers their 256    *)
(* bits stand for, one bit more than a field element has.                  *)
(***************************************************************************)
EXTENDS Edwards

CONSTANT A24      \* (A - 2) / 4 of the Montgomery curve, 121665 in the code

\* Both curves are one curve: d = -A24 / (A24 + 1).
ASSUME MontgomeryAssumption == con_d ** (A24 + 1) = 0 -- A24

KEY_BITS == FLD_BITS + 1

\* Delete the 3 lowest bits and the highest, set the second highest.
Clamped(s) ==
    LET low == s % 2^(FLD_BITS - 1)
    IN  2^(FLD_BITS - 1) + low - (low % 8)

ctmemswap(a, b, bit) == IF bit = 1 THEN <<b, a>> ELSE <<a, b>>

\* 2 A and A + B, where D = A - B has z = 1.
montgomery(A, B, D) ==
    LET sumA   == A.x ++ A.z
        subA   == A.x -- A.z
        sqsumA == sumA ** sumA
        sqsubA == subA ** subA
        T1     == sqsumA -- sqsubA
        U1     == subA ** (B.x ++ B.z)
        U2     == sumA ** (B.x -- B.z)
    IN  <<[x |-> sqsubA ** sqsumA, z |-> T1 ** ((A24 ** T1) ++ sqsumA)],
          [x |-> (U1 ++ U2) ** (U1 ++ U2), z |-> ((U1 -- U2) ** (U1 -- U2)) ** D.x]>>

\* The ladder, from the highest bit of s.  A set bit swaps the pair around the step.
mg_scale(P, s) ==
    LET Rung(pair, i) ==
            LET bit     == (s \div 2^(KEY_BITS - i)) % 2
                Step(p) == montgomery(p[1], p[2], P)
                Swap(p) == ctmemswap(p[1], p[2], bit)
            IN  Swap(Step(Swap(pair)))
    IN  Loop(Rung, <<[x |-> 1, z |-> 0], P>>, [i \in 1 .. KEY_BITS |-> i])[1]

x25519(scalar, point) ==
    LET Affine(res) == res.x ** Inverted(res.z)
    IN  Affine(mg_scale([x |-> point % q, z |-> 1], Clamped(scalar)))

\* The Montgomery coordinate (z + y) / (z - y) of a point.
ToMontgomery(P) == (P.z ++ P.y) ** Inverted(P.z -- P.y)

x25519_base(scalar) == ToMontgomery(ed_scale_base(sc_import(Clamped(scalar))))

\* The reference: u = (1 + y) / (1 - y) of a multiple of the base point.
MontgomeryU(P) == (1 ++ P[2]) ** Inverted(1 -- P[2])
=============================================================================
