------------------------------ MODULE MemStore ------------------------------
(***************************************************************************)
(* The in-memory Store (cmd/relay/store.go, memStore): the default store   *)
(* of the relay and the one its tests use.  Every method is one critical   *)
(* section of s.mu.  The conventions are those of SqliteStore, which this  *)
(* module is shown to implement when secrets are not shared between keys.  *)
(***************************************************************************)
EXTENDS Integers

CONSTANTS
    Key, Account, Hash, Origin, Version, Blob, None,
    SharedSecrets  \* may a device register the secret of another key?

KeyRecord == [owner : Account, origins : SUBSET Origin]
Policy == [version : Version, blob : Blob]
APIKey == [id : Key, owner : Account, origins : SUBSET Origin]

ASSUME MemAssumption ==
    /\ Version \subseteq Int
    /\ None \notin Key \cup Hash \cup KeyRecord \cup Policy
    /\ None \notin [owner : Account, hash : Hash, origins : SUBSET Origin]
    /\ SharedSecrets \in BOOLEAN

VARIABLES
    keys,    \* id -> key
    byHash,  \* key hash -> id
    policy,  \* account -> encrypted policy
    reply    \* what the last method returned

vars == <<keys, byHash, policy, reply>>

Reply(err, val) == [err |-> err, val |-> val]

\* The zero value of APIKey, which a map lookup returns for a missing id.
ZeroKey == [id |-> None, owner |-> None, origins |-> {}]

Owned(id, owner) == keys[id] # None /\ keys[id].owner = owner

\* Drop every hash that points at the key.
Forget(id) == [h \in Hash |-> IF byHash[h] = id THEN None ELSE byHash[h]]

\* Mutant of RegisterAPIKey: the key's previous secret goes on resolving.
RegisterWithoutRotation(id, owner, h) ==
    /\ keys' = [keys EXCEPT ![id] =
                  [owner |-> owner, origins |-> IF @ = None THEN {} ELSE @.origins]]
    /\ byHash' = [byHash EXCEPT ![h] = id]
    /\ reply' = Reply("ok", None)
    /\ UNCHANGED policy

\* Registering a known id rotates its secret and keeps its origins.
RegisterAPIKey(id, owner, h) ==
    /\ keys' = [keys EXCEPT ![id] =
                  [owner |-> owner, origins |-> IF @ = None THEN {} ELSE @.origins]]
    /\ byHash' = [Forget(id) EXCEPT ![h] = id]
    /\ reply' = Reply("ok", None)
    /\ UNCHANGED policy

RebindAPIKey(id, old, new) ==
    /\ IF Owned(id, old)
         THEN /\ keys' = [keys EXCEPT ![id].owner = new]
              /\ reply' = Reply("ok", None)
         ELSE /\ UNCHANGED keys
              /\ reply' = Reply("not found", None)
    /\ UNCHANGED <<byHash, policy>>

UpdateKeyOrigins(id, owner, origins) ==
    /\ IF Owned(id, owner)
         THEN /\ keys' = [keys EXCEPT ![id].origins = origins]
              /\ reply' = Reply("ok", None)
         ELSE /\ UNCHANGED keys
              /\ reply' = Reply("not found", None)
    /\ UNCHANGED <<byHash, policy>>

\* Mutant of RevokeAPIKey: the secret is left behind.
RevokeLeavesHash(owner, id) ==
    /\ IF Owned(id, owner)
         THEN /\ keys' = [keys EXCEPT ![id] = None]
              /\ reply' = Reply("ok", None)
         ELSE /\ UNCHANGED keys
              /\ reply' = Reply("not found", None)
    /\ UNCHANGED <<byHash, policy>>

RevokeAPIKey(owner, id) ==
    /\ IF Owned(id, owner)
         THEN /\ keys' = [keys EXCEPT ![id] = None]
              /\ byHash' = Forget(id)
              /\ reply' = Reply("ok", None)
         ELSE /\ UNCHANGED <<keys, byHash>>
              /\ reply' = Reply("not found", None)
    /\ UNCHANGED policy

\* s.keys[id] is not checked: an id without a key would resolve to the zero key.
ResolveAPIKey(h) ==
    /\ reply' = IF byHash[h] = None THEN Reply("not found", None)
                ELSE IF keys[byHash[h]] = None THEN Reply("ok", ZeroKey)
                ELSE Reply("ok", [id |-> byHash[h], owner |-> keys[byHash[h]].owner,
                                  origins |-> keys[byHash[h]].origins])
    /\ UNCHANGED <<keys, byHash, policy>>

OriginAllowed(o) ==
    /\ reply' = Reply(IF \E k \in Key : keys[k] # None /\ o \in keys[k].origins
                        THEN "allowed" ELSE "denied", None)
    /\ UNCHANGED <<keys, byHash, policy>>

\* Mutant of PutPolicy: a duplicate version overwrites.
PutPolicyNotStrict(a, v, b) ==
    /\ policy' = IF policy[a] # None /\ v < policy[a].version
                   THEN policy
                   ELSE [policy EXCEPT ![a] = [version |-> v, blob |-> b]]
    /\ reply' = Reply("ok", None)
    /\ UNCHANGED <<keys, byHash>>

\* A stale or duplicate version is ignored, without an error.
PutPolicy(a, v, b) ==
    /\ policy' = IF policy[a] # None /\ v <= policy[a].version
                   THEN policy
                   ELSE [policy EXCEPT ![a] = [version |-> v, blob |-> b]]
    /\ reply' = Reply("ok", None)
    /\ UNCHANGED <<keys, byHash>>

GetPolicy(a) ==
    /\ reply' = Reply("ok", policy[a])
    /\ UNCHANGED <<keys, byHash, policy>>

Init ==
    /\ keys = [k \in Key |-> None]
    /\ byHash = [h \in Hash |-> None]
    /\ policy = [a \in Account |-> None]
    /\ reply = Reply("ok", None)

\* A device mints a fresh secret for each key, unless secrets are shared.
MayRegister(id, h) == SharedSecrets \/ byHash[h] \in {None, id}

Next ==
    \/ \E k \in Key, a \in Account, h \in Hash :
         MayRegister(k, h) /\ RegisterAPIKey(k, a, h)
    \/ \E k \in Key, a, b \in Account : RebindAPIKey(k, a, b)
    \/ \E k \in Key, a \in Account : RevokeAPIKey(a, k)
    \/ \E k \in Key, a \in Account, os \in SUBSET Origin : UpdateKeyOrigins(k, a, os)
    \/ \E h \in Hash : ResolveAPIKey(h)
    \/ \E o \in Origin : OriginAllowed(o)
    \/ \E a \in Account, v \in Version, b \in Blob : PutPolicy(a, v, b)
    \/ \E a \in Account : GetPolicy(a)

Spec == Init /\ [][Next]_vars

-----------------------------------------------------------------------------
(* Properties.                                                             *)

\* The maps and the last reply have the types of the Go values.
TypeOK ==
    /\ keys \in [Key -> KeyRecord \cup {None}]
    /\ byHash \in [Hash -> Key \cup {None}]
    /\ policy \in [Account -> Policy \cup {None}]
    /\ reply.err \in {"ok", "not found", "allowed", "denied"}
    /\ reply.val \in APIKey \cup Policy \cup {None}

\* Whatever keys are registered, rotated, moved and revoked in between, a
\* secret in the index leads to a registered key: ResolveAPIKey never
\* authenticates a caller as the zero key.
NoDanglingSecret ==
    \A h \in Hash : byHash[h] # None => keys[byHash[h]] # None

\* Rotation leaves no old secret behind: a key answers to at most one secret.
OneSecretPerKey ==
    \A g, h \in Hash : byHash[g] # None /\ byHash[g] = byHash[h] => g = h

\* Every registered key can be used: some secret leads to it.
EveryKeyHasSecret ==
    \A k \in Key : keys[k] # None => \E h \in Hash : byHash[h] = k

\* The table that the SQLite store would have.
SecretOf(k) == IF \E h \in Hash : byHash[h] = k
                 THEN CHOOSE h \in Hash : byHash[h] = k
                 ELSE None

Table == [k \in Key |->
            IF keys[k] = None THEN None
            ELSE [owner |-> keys[k].owner, hash |-> SecretOf(k),
                  origins |-> keys[k].origins]]

Sqlite == INSTANCE SqliteStore WITH rows <- Table, blobs <- policy

\* The in-memory store behaves as the SQLite store, reply by reply ("the
\* in-memory and SQLite implementations are interchangeable").
ImplementsSqlite == Sqlite!Spec
=============================================================================
