------------------------------- MODULE Enroll -------------------------------
(***************************************************************************)
(* Enrollment of an agent connection (enroll and verifyAccountSig of       *)
(* cmd/relay/http.go, with internal/nano/auth.go): Hello, Challenge, Auth, *)
(* then one signature check per announced address.  The connections that   *)
(* pass are the ones module Hub binds, with the list found here.           *)
(*                                                                         *)
(* Signatures are those of module Signature.  What is signed is public: an *)
(* agent may present any signature that was ever made, under any address.  *)
(* It can make new ones only with the keys it holds, over the challenge of *)
(* its own connection or, when it signs transactions, over a block hash,   *)
(* which may be any string of bytes, a nonce included.                     *)
(***************************************************************************)
EXTENDS Signature, SequencesExt, ForLoop

CONSTANTS
    Account,      \* the addresses, spellings of accounts, that a Hello may announce
    KeyOf,        \* ParseAddress: the key of each address, None if it has none
    Agent, Holds, \* the agents and the private keys each of them holds
    Conn, AgentOf,\* accepted WebSockets, and who dialled them
    Hellos,       \* the account lists that agents announce
    Nonce,        \* what randomBytes(32) returns, in all its calls
    authDomain,   \* "nora-auth-v1"
    ScalarBytes,  \* the numbers that the 32 bytes of S can hold
    None

PublicKey == {Public(pk) : pk \in PrivateKey}

ASSUME EnrollAssumption ==
    /\ Holds \in [Agent -> SUBSET PrivateKey]
    /\ AgentOf \in [Conn -> Agent]
    /\ KeyOf \in [Account -> PublicKey \cup {None}]
    /\ Hellos \subseteq Seq(Account)
    /\ None \notin PublicKey \cup Nonce
    /\ ScalarBytes \subseteq Nat

VARIABLES
    st,      \* where the enrollment of each connection is
    hello,   \* the accounts it announced
    nonce,   \* the challenge sent to it
    spent,   \* nonces drawn so far
    made,    \* signatures made so far: [pk, msg, sig]
    proven   \* the accounts enroll returns

vars == <<st, hello, nonce, spent, made, proven>>

-----------------------------------------------------------------------------
(* internal/nano/auth.go.                                                  *)

\* blake2b256 has no collisions, so its argument stands for it: the domain, the
\* nonce and the account.
AuthChallengeDigest(n, k) == <<authDomain, n, k>>

\* A block hash, at worst the same bytes as a nonce.
BlockDigest(n) == <<n>>

Digest == {AuthChallengeDigest(n, k) : n \in Nonce, k \in PublicKey}
            \cup {BlockDigest(n) : n \in Nonce}

\* SetUniformBytes reduces what BLAKE2b gives modulo L.
ASSUME HashAssumption ==
    \A msg \in Digest :
        /\ \A pk \in PrivateKey : NonceOf(pk, msg) \in 0 .. L - 1
        /\ \A R \in 0 .. Cofactor * L - 1, pub \in PublicKey :
             ChallengeOf(R, pub, msg) \in 0 .. L - 1

VerifyChallenge(k, n, sig) == Verify(k, AuthChallengeDigest(n, k), sig)

\* What BLAKE2b and ed25519 are relied on for: no signature answers a challenge
\* it was not made over.  It is about the keys and challenges that occur, which
\* are few among 2^256.
ASSUME Unforgeable ==
    \A pk \in PrivateKey, msg \in Digest, n \in Nonce, k \in PublicKey :
        VerifyChallenge(k, n, Sign(pk, msg)) => msg = AuthChallengeDigest(n, k)

\* A text that is no 64-byte hexadecimal string verifies for nobody.
verifyAccountSig(a, n, sig) == KeyOf[a] # None /\ VerifyChallenge(KeyOf[a], n, sig)

-----------------------------------------------------------------------------
(* enroll, one goroutine per connection.                                   *)

\* Upgrade, SetReadDeadline(15 s), and on to the first ReadJSON.
Accept(c) ==
    /\ st[c] = "new"
    /\ st' = [st EXCEPT ![c] = "hello"]
    /\ UNCHANGED <<hello, nonce, spent, made, proven>>

\* randomBytes(32): never the same twice.
randomBytes == Nonce \ spent

\* Mutant of SendChallenge: the nonce is drawn once and serves every connection.
SendChallengeFixed(c, list) ==
    /\ st[c] = "hello" /\ list # <<>>
    /\ \E n \in Nonce :
         /\ spent \subseteq {n}
         /\ nonce' = [nonce EXCEPT ![c] = n]
         /\ spent' = {n}
    /\ hello' = [hello EXCEPT ![c] = list]
    /\ st' = [st EXCEPT ![c] = "challenged"]
    /\ UNCHANGED <<made, proven>>

\* A Hello that announces accounts is answered with a fresh nonce.
SendChallenge(c, list) ==
    /\ st[c] = "hello" /\ list # <<>>
    /\ \E n \in randomBytes :
         /\ nonce' = [nonce EXCEPT ![c] = n]
         /\ spent' = spent \cup {n}
    /\ hello' = [hello EXCEPT ![c] = list]
    /\ st' = [st EXCEPT ![c] = "challenged"]
    /\ UNCHANGED <<made, proven>>

\* The loop over the Hello's accounts: it appends the ones whose signature
\* verifies.  Signatures is a map, so an account announced twice is proved twice.
ProvenBy(c, sigs) ==
    LET list == hello[c]
        verified == {a \in Range(list) : /\ sigs[a] # None
                                         /\ verifyAccountSig(a, nonce[c], sigs[a])}
        proved == [n \in 1..Len(list) |-> [done \in Seq(Account) |->
                     IF list[n] \in verified THEN Append(done, list[n]) ELSE done]]
    IN  Loop(<<>>, proved, Len(list))

\* An Auth message arrives: enroll returns the proven accounts, or fails when
\* there is none.
ReadAuth(c, sigs) ==
    /\ st[c] = "challenged"
    /\ proven' = [proven EXCEPT ![c] = ProvenBy(c, sigs)]
    /\ st' = [st EXCEPT ![c] = IF ProvenBy(c, sigs) = <<>> THEN "failed" ELSE "proven"]
    /\ UNCHANGED <<hello, nonce, spent, made>>

\* A message of another type, an empty Hello, a failed write, a lost
\* connection, or the deadline, which ends every wait.
Fail(c) ==
    /\ st[c] \in {"hello", "challenged"}
    /\ st' = [st EXCEPT ![c] = "failed"]
    /\ UNCHANGED <<hello, nonce, spent, made, proven>>

-----------------------------------------------------------------------------
(* The agents (external).                                                  *)

Make(pk, msg) ==
    /\ made' = made \cup {[pk |-> pk, msg |-> msg, sig |-> Sign(pk, msg)]}
    /\ UNCHANGED <<st, hello, nonce, spent, proven>>

\* SignChallenge over the challenge of the agent's own connection.
SignChallenge(c, pk) ==
    /\ nonce[c] # None
    /\ Make(pk, AuthChallengeDigest(nonce[c], Public(pk)))

\* Sign over a block hash, made public with the block.
SignBlock(pk, n) == Make(pk, BlockDigest(n))

EnrollInit ==
    /\ st = [c \in Conn |-> "new"]
    /\ hello = [c \in Conn |-> <<>>]
    /\ nonce = [c \in Conn |-> None]
    /\ spent = {}
    /\ made = {}
    /\ proven = [c \in Conn |-> <<>>]

EnrollNext ==
    \/ \E c \in Conn :
         \/ Accept(c) \/ Fail(c)
         \/ \E list \in Hellos : SendChallenge(c, list)
         \/ \E sigs \in [Range(hello[c]) -> {s.sig : s \in made} \cup {None}] : ReadAuth(c, sigs)
         \/ \E pk \in Holds[AgentOf[c]] : SignChallenge(c, pk)
    \/ \E pk \in PrivateKey, n \in Nonce : SignBlock(pk, n)

EnrollSpec == EnrollInit /\ [][EnrollNext]_vars

-----------------------------------------------------------------------------
(* Properties.                                                             *)

\* The variables have their types.
EnrollTypeOK ==
    /\ st \in [Conn -> {"new", "hello", "challenged", "proven", "failed"}]
    /\ hello \in [Conn -> Seq(Account)]
    /\ nonce \in [Conn -> Nonce \cup {None}]
    /\ spent \subseteq Nonce
    /\ made \subseteq [pk : PrivateKey, msg : Digest, sig : [R : Nat, S : 0 .. L - 1]]
    /\ proven \in [Conn -> Seq(Account)]

\* An agent is enrolled exactly when it has proved at least one account, as Hub
\* takes for granted, and only for accounts that its connection announced and
\* whose keys it holds itself: neither a signature seen on another connection,
\* nor one made for another account, nor the signature of a block proves
\* control (enroll, verifyAccountSig).
ProvenIsHeld ==
    \A c \in Conn :
        /\ st[c] = "proven" <=> proven[c] # <<>>
        /\ \A a \in Range(proven[c]) :
             /\ a \in Range(hello[c])
             /\ KeyOf[a] \in {Public(pk) : pk \in Holds[AgentOf[c]]}

\* Verify accepts what Sign makes: both compute k from the same parts, and S
\* solves the equation that Verify checks.
SignedVerifies == \A s \in made : Verify(Public(s.pk), s.msg, s.sig)

\* "It rejects non-canonical encodings": nobody can turn a signature into a
\* second one by writing another number, or the same scalar differently.
OneEncoding ==
    \A s \in made, n \in ScalarBytes :
        Verify(Public(s.pk), s.msg, [s.sig EXCEPT !.S = n]) => n = s.sig.S
=============================================================================
