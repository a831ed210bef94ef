------------------------------ MODULE Ed25519 ------------------------------
(***************************************************************************)
(* Signatures (ed25519-sha512.c).  Messages, keys and the two halves of a  *)
(* hash are words: numbers of KEY_BITS bits, 32 bytes in the code.         *)
(***************************************************************************)
EXTENDS X25519, Sha512

\* The hash of a secret key: the secret scalar, and the word that seeds r.
ed25519_key_setup(sk) ==
    LET h == sha512(<< <<sk>> >>) IN <<Clamped(h[1]), h[2]>>

\* A hash as one number of twice the bits of a word.
Joined(h) == h[1] + 2^KEY_BITS * h[2]

genpub(sec) == ed_export(ed_scale_base(sc_import(ed25519_key_setup(sec)[1])))

\* A signature is <<R, S>>.
sign(sec, pub, data) ==
    LET t(R)          == sc_import(Joined(sha512(<< <<R>>, <<pub>>, data>>)))
        Signed(a, r, R) == <<R, sc_export(sc_add(r, sc_mul(t(R), a)))>>
        With(a, r)      == Signed(a, r, ed_export(ed_scale_base(r)))
        From(h)         == With(sc_import(h[1]), sc_import(Joined(sha512(<< <<h[2]>>, data>>))))
    IN  From(ed25519_key_setup(sec))

\* A mutant: x is negated, the product t = x y is not.
Negated_X(P) == [P EXCEPT !.x = 0 -- @]

Negated(P) == [P EXCEPT !.x = 0 -- @, !.t = 0 -- @]

ed25519_verify(sig, pub, data) ==
    LET mA == Negated(ed_import(pub))
        S  == sc_import(sig[2])
        t  == sc_import(Joined(sha512(<< <<sig[1]>>, <<pub>>, data>>)))
    IN  ed_export(ed_dual_scale(S, t, mA)) = sig[1]

\* Ed25519 keys as X25519 keys.
pk_ed25519_to_x25519(pub) == ToMontgomery(ed_import(pub))

sk_ed25519_to_x25519(sec) == ed25519_key_setup(sec)[1]
=============================================================================
