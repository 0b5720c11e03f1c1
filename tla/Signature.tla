----------------------------- MODULE Signature -----------------------------
(***************************************************************************)
(* The ed25519 signatures with BLAKE2b of internal/nano (sign.go and the   *)
(* key expansion of keys.go), over a small group of the same shape: the    *)
(* points are the integers modulo Cofactor * L, the base point generates   *)
(* the subgroup of order L, a scalar is encoded by a number that may       *)
(* exceed L, and hashes (golang.org/x/crypto) are arbitrary functions of   *)
(* byte strings, which are sequences of numbers here.                      *)
(* The strength of curve and hash is not modelled; what the equations and  *)
(* the checks of the code do is.  Module Enroll puts them to use.          *)
(***************************************************************************)
EXTENDS Integers, Sequences

CONSTANTS
    L, Cofactor,   \* the order of the base point; 8
    PrivateKey,
    TopBit,        \* the bit that clamping sets; 2^254
    KeyHash(_),    \* blake2b512 of a private key: its two halves
    Hash(_)        \* blake2b512 of its parts, reduced modulo L

ASSUME SignatureAssumption ==
    /\ L \in Nat \ {0, 1} /\ Cofactor \in Nat \ {0}
    /\ TopBit \in Nat \ {0} /\ TopBit % Cofactor = 0
    /\ \A pk \in PrivateKey : KeyHash(pk) \in Nat \X Nat

\* edwards25519: multiples of a point, and of the base point.
ScalarMult(s, P) == (s * P) % (Cofactor * L)
ScalarBaseMult(s) == ScalarMult(s, Cofactor)
Add(P, Q) == (P + Q) % (Cofactor * L)

\* SetBytesWithClamping: a multiple of the cofactor with the top bit set.
Clamp(n) == TopBit + (n % TopBit) - (n % Cofactor)

expandedScalar(pk) == [a |-> Clamp(KeyHash(pk)[1]) % L, prefix |-> KeyHash(pk)[2]]

Public(pk) == ScalarBaseMult(expandedScalar(pk).a)

\* The secret nonce r of a signature, and the challenge k that binds it to the
\* signer and the message.
NonceOf(pk, msg) == Hash(<<expandedScalar(pk).prefix>> \o msg)
ChallengeOf(R, pub, msg) == Hash(<<R, pub>> \o msg)

\* Mutant of Sign: k leaves out the public key, which Verify puts in.
SignWithoutPublic(pk, msg) ==
    LET a == expandedScalar(pk).a
        r == NonceOf(pk, msg)
        R == ScalarBaseMult(r)
        k == Hash(<<R>> \o msg)
    IN  [R |-> R, S |-> (k * a + r) % L]

Sign(pk, msg) ==
    LET a == expandedScalar(pk).a
        r == NonceOf(pk, msg)
        R == ScalarBaseMult(r)
        k == ChallengeOf(R, Public(pk), msg)
    IN  [R |-> R, S |-> (k * a + r) % L]

\* Mutant of Verify: S is reduced where it should be refused.
VerifyReduces(pub, msg, sig) ==
    LET k == ChallengeOf(sig.R, pub, msg)
    IN  ScalarBaseMult(sig.S % L) = Add(sig.R, ScalarMult(k, pub))

\* SetCanonicalBytes refuses an S that is not reduced.
Verify(pub, msg, sig) ==
    LET k == ChallengeOf(sig.R, pub, msg)
    IN  /\ sig.S < L
        /\ ScalarBaseMult(sig.S) = Add(sig.R, ScalarMult(k, pub))
=============================================================================
