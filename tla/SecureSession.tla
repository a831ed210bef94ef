--------------------------- MODULE SecureSession ---------------------------
(***************************************************************************)
(* A secure session from the published method to the encrypted datagram    *)
(* (security_impl.cpp), on the keys, signatures, hashes and blocks of      *)
(* Ed25519, X25519, Sha512 and Gcm.                                        *)
(*                                                                         *)
(* The backend is external: it publishes an exchange key signed with its   *)
(* signature key, derives the same encryption key from the user's public   *)
(* key and opens the datagrams.  What it publishes may be unusable: an     *)
(* unknown method, a key or signature of the wrong size, a signature of    *)
(* something else.                                                         *)
(***************************************************************************)
EXTENDS Ed25519, Gcm, FiniteSets

CONSTANTS BackendSecret,        \* secrets of the backend's exchange key
          SignSecret,           \* the secret of its signature key
          UserSecret,           \* private keys of the user
          SessionId,
          Name,                 \* controller id names: sequences of units
          Data,                 \* payloads: sequences of bytes
          FirstIv,              \* vectors the random device may give
          MaxSent               \* bound: datagrams

K_TAG_LEN == IV_LEN             \* both have 12 bytes

VARIABLES secret,      \* [exchange, user]: the secrets of both sides
          unsized,     \* which of the user's keys was given with another size
          method,      \* what the backend published for the session
          result,      \* what tryKeyExchange returned, "none" before
          params,      \* SecureSessionParameters, << >> before
          name,        \* the controller's id name
          gcm_ctx,     \* the cipher context of the derived key, << >> before
          iv_,         \* the last vector, << >> before the first datagram
          sent         \* the datagrams: [iv, aad, data, tag, plain]

vars == <<secret, unsized, method, result, params, name, gcm_ctx, iv_, sent>>

SignPublic == genpub(SignSecret)

\* The publication of key, with one of the ways it can be unusable.
Published(key, how) ==
    LET Signature(sig) == CASE how = "short" -> <<sig[1]>>
                            [] how = "R"     -> <<(sig[1] + 1) % 2^KEY_BITS, sig[2]>>
                            [] how = "S"     -> <<sig[1], (sig[2] + 1) % con_m>>
                            [] OTHER         -> sig
        signed == IF how = "data" THEN key + 1 ELSE key
    IN  [method     |-> IF how = "method" THEN "other" ELSE "X25519_AES128_GCM",
         public_key |-> IF how = "key" THEN << >> ELSE <<key>>,
         signature  |-> Signature(sign(SignSecret, SignPublic, <<signed>>))]

\* An exchange key is an X25519 key, or an Ed25519 key converted to one.
ExchangeKey == [secret : BackendSecret, converted : BOOLEAN]

ExchangeSecret(k) == IF k.converted THEN sk_ed25519_to_x25519(k.secret) ELSE k.secret

ExchangePublic(k) ==
    IF k.converted THEN pk_ed25519_to_x25519(genpub(k.secret)) ELSE x25519_base(k.secret)

Init ==
    /\ secret \in [exchange : ExchangeKey, user : UserSecret]
    /\ method \in {Published(ExchangePublic(secret.exchange), how) :
                      how \in {"good", "method", "key", "short", "R", "S", "data"}}
    /\ unsized \in {"none", "private", "public"}
    /\ result = "none" /\ params = << >> /\ name = << >>
    /\ gcm_ctx = << >> /\ iv_ = << >> /\ sent = << >>

(***************************************************************************)
(* tryKeyExchange: the sizes, then the signature, then the shared secret.  *)
(***************************************************************************)
ExchangeResult(m) ==
    LET supported == m.method = "X25519_AES128_GCM" /\ Len(m.public_key) = 1
    IN  CASE ~supported -> "error_not_supported"
          [] supported /\ unsized = "private" -> "error_invalid_private_key"
          [] supported /\ unsized = "public"  -> "error_invalid_public_key"
          [] OTHER -> IF /\ Len(m.signature) = 2
                         /\ ed25519_verify(m.signature, SignPublic, m.public_key)
                      THEN "ok" ELSE "error_signature_verification_failed"

tryKeyExchange ==
    /\ result = "none"
    /\ result' = ExchangeResult(method)
    /\ params' = IF result' = "ok"
                 THEN [shared_secret         |-> x25519(secret.user, method.public_key[1]),
                       controller_public_key |-> x25519_base(secret.user),
                       session_id            |-> SessionId]
                 ELSE << >>
    /\ UNCHANGED <<secret, unsized, method, name, gcm_ctx, iv_, sent>>

\* The first quarter of the hash is the encryption key.
KeyFrom(h) == h[1] % 2^(KEY_BITS \div 2)

\* The salt: the session id, and a unit for the constant bytes.
Salt(id) == <<id, 84>>

\* Once the control name is known the key is derived and the cipher set up.
generateSymmetricEncryptionKey ==
    /\ result = "ok" /\ gcm_ctx = << >>
    /\ \E n \in Name :
           /\ name' = n
           /\ gcm_ctx' = SC_API_gcm_setkey(
                  KeyFrom(sha512(<<Salt(params.session_id), n, <<params.shared_secret>> >>)))
    /\ UNCHANGED <<secret, unsized, method, result, params, iv_, sent>>

\* The bytes of the vector count up from the first; a wrap carries to the next.
handleIV ==
    IF iv_ = << >> THEN FirstIv
    ELSE LET wraps(i) == \A j \in 1 .. i - 1 : iv_[j] = 2^BYTE_BITS - 1
         IN  {[i \in DOMAIN iv_ |-> IF wraps(i) THEN (iv_[i] + 1) % 2^BYTE_BITS ELSE iv_[i]]}

encrypt(aad, data) ==
    /\ gcm_ctx # << >> /\ Len(sent) < MaxSent
    /\ iv_' \in handleIV
    /\ LET made == SC_API_gcm_crypt_and_tag(gcm_ctx, TRUE, iv_', aad, data, K_TAG_LEN)
       IN  sent' = Append(sent, [iv |-> iv_', aad |-> aad, data |-> made.out, tag |-> made.tag,
                                 plain |-> data])
    /\ UNCHANGED <<secret, unsized, method, result, params, name, gcm_ctx>>

Next ==
    \/ tryKeyExchange
    \/ generateSymmetricEncryptionKey
    \/ \E aad \in {<< >>, <<5>>}, data \in Data : encrypt(aad, data)

Spec == Init /\ [][Next]_vars

(***************************************************************************)
(* Properties.                                                             *)
(***************************************************************************)

\* The scalars behind the keys, as the reference group sees them.
SignScalar == Clamped(HashOf(<<SignSecret>>)[1]) % con_m

ExchangeScalar(k) == Clamped(IF k.converted THEN HashOf(<<k.secret>>)[1] ELSE k.secret) % con_m

\* tryKeyExchange accepts a publication exactly when the signature's R is S times
\* the base point minus t times the public key, computed in affine coordinates from
\* the scalars: no digit of the joint sparse form, table entry or carry is lost.
VerdictIsGroupEquation ==
    result # "none" =>
        LET usable == /\ method.method = "X25519_AES128_GCM" /\ unsized = "none"
                      /\ Len(method.public_key) = 1 /\ Len(method.signature) = 2
            t == Joined(HashOf(<<method.signature[1], SignPublic>> \o method.public_key)) % con_m
        IN  result = "ok" <=>
                /\ usable
                /\ Encode(Multiple(method.signature[2] + (con_m - t) * SignScalar)) = method.signature[1]

\* Once the user has an encryption key, the backend, which multiplies the user's
\* public key by its own secret and hashes the salted secret in one piece, has the
\* same key: whichever side multiplies with the ladder or with the table of the
\* base point, however the hash was fed.
KeysAgree ==
    gcm_ctx # << >> =>
        LET both    == ExchangeScalar(secret.exchange) * (Clamped(secret.user) % con_m)
            shared  == MontgomeryU(Multiple(both))
            backend == x25519(ExchangeSecret(secret.exchange), params.controller_public_key)
        IN  /\ params.shared_secret = shared /\ backend = shared
            /\ gcm_ctx.key = KeyFrom(HashOf(Salt(SessionId) \o name \o <<backend>>))

\* Every datagram is GCM by its definition under a vector that was not used before,
\* and the backend opens it to the payload; with another tag it does not.
DatagramsOpen ==
    \A i \in DOMAIN sent :
        LET d      == sent[i]
            gcm    == GcmOf(gcm_ctx.key, d.iv, d.aad, d.plain)
            opened == SC_API_gcm_auth_decrypt(gcm_ctx, d.iv, d.aad, d.data, d.tag)
            wrong  == [d.tag EXCEPT ![1] = (@ + 1) % 2^BYTE_BITS]
        IN  /\ d.data = gcm.out /\ d.tag = Bytes(gcm.tag, K_TAG_LEN)
            /\ opened = [ok |-> TRUE, out |-> d.plain]
            /\ ~SC_API_gcm_auth_decrypt(gcm_ctx, d.iv, d.aad, d.data, wrong).ok
            /\ \A j \in 1 .. i - 1 : sent[j].iv # d.iv
=============================================================================
