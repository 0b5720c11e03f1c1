--------------------------- MODULE MemStoreProofs ---------------------------
(***************************************************************************)
(* Proofs about MemStore, for every set of keys, accounts, secrets,        *)
(* origins, versions and blobs: its index of secrets is sound, and when    *)
(* secrets are not shared it implements SqliteStore.                       *)
(***************************************************************************)
EXTENDS MemStore, TLAPS

\* The types of the maps; the last reply plays no part in what follows.
Maps ==
    /\ keys \in [Key -> KeyRecord \cup {None}]
    /\ byHash \in [Hash -> Key \cup {None}]
    /\ policy \in [Account -> Policy \cup {None}]

\* What the methods keep, whether or not secrets are shared.
Index == Maps /\ NoDanglingSecret /\ OneSecretPerKey

\* Both maps are empty initially.
LEMMA InitIndex == Init => Index
BY DEF Init, Index, Maps, NoDanglingSecret, OneSecretPerKey

\* Each method keeps the index of secrets sound.
LEMMA NextIndex == Index /\ [Next]_vars => Index'
<1> SUFFICES ASSUME Index, [Next]_vars PROVE Index'
  OBVIOUS
<1> USE MemAssumption DEF Index, Maps, NoDanglingSecret, OneSecretPerKey
<1>1. ASSUME NEW k \in Key, NEW a \in Account, NEW h \in Hash, RegisterAPIKey(k, a, h)
      PROVE  Index'
  <2>1. ASSUME NEW r, r = [owner |-> a, origins |-> IF keys[k] = None THEN {}
                                                    ELSE keys[k].origins]
        PROVE  r \in KeyRecord
    BY <2>1 DEF KeyRecord
  <2>2. keys' \in [Key -> KeyRecord \cup {None}] /\ keys'[k] # None
    BY <1>1, <2>1 DEF RegisterAPIKey
  <2>3. \A j \in Key : j # k => keys'[j] = keys[j]
    BY <1>1 DEF RegisterAPIKey
  <2>4. \A g \in Hash : byHash'[g] = IF g = h THEN k
                                     ELSE IF byHash[g] = k THEN None ELSE byHash[g]
    BY <1>1 DEF RegisterAPIKey, Forget
  <2>5. byHash' \in [Hash -> Key \cup {None}] /\ policy' = policy
    BY <1>1 DEF RegisterAPIKey, Forget
  <2> QED BY <2>2, <2>3, <2>4, <2>5
<1>2. ASSUME NEW k \in Key, NEW a \in Account, NEW b \in Account, RebindAPIKey(k, a, b)
      PROVE  Index'
  <2>1. CASE Owned(k, a)
    <3>1. [keys[k] EXCEPT !.owner = b] \in KeyRecord
      BY <2>1 DEF Owned, KeyRecord
    <3>2. keys' = [keys EXCEPT ![k] = [keys[k] EXCEPT !.owner = b]]
      BY <1>2, <2>1 DEF RebindAPIKey
    <3> QED BY <1>2, <3>1, <3>2 DEF RebindAPIKey
  <2>2. CASE ~Owned(k, a)
    BY <1>2, <2>2 DEF RebindAPIKey
  <2> QED BY <2>1, <2>2
<1>3. ASSUME NEW k \in Key, NEW a \in Account, RevokeAPIKey(a, k) PROVE Index'
  <2>1. CASE Owned(k, a)
    BY <1>3, <2>1 DEF RevokeAPIKey, Forget
  <2>2. CASE ~Owned(k, a)
    BY <1>3, <2>2 DEF RevokeAPIKey
  <2> QED BY <2>1, <2>2
<1>4. ASSUME NEW k \in Key, NEW a \in Account, NEW os \in SUBSET Origin,
             UpdateKeyOrigins(k, a, os)
      PROVE  Index'
  <2>1. CASE Owned(k, a)
    <3>1. [keys[k] EXCEPT !.origins = os] \in KeyRecord
      BY <2>1 DEF Owned, KeyRecord
    <3>2. keys' = [keys EXCEPT ![k] = [keys[k] EXCEPT !.origins = os]]
      BY <1>4, <2>1 DEF UpdateKeyOrigins
    <3> QED BY <1>4, <3>1, <3>2 DEF UpdateKeyOrigins
  <2>2. CASE ~Owned(k, a)
    BY <1>4, <2>2 DEF UpdateKeyOrigins
  <2> QED BY <2>1, <2>2
<1>5. ASSUME NEW a \in Account, NEW v \in Version, NEW b \in Blob, PutPolicy(a, v, b)
      PROVE  Index'
  <2>1. [version |-> v, blob |-> b] \in Policy
    BY DEF Policy
  <2>2. policy' \in [Account -> Policy \cup {None}]
    BY <1>5, <2>1 DEF PutPolicy
  <2> QED BY <1>5, <2>2 DEF PutPolicy
<1>6. CASE UNCHANGED <<keys, byHash, policy>>
  BY <1>6
<1> HIDE DEF Index, Maps, NoDanglingSecret, OneSecretPerKey
<1> QED
  BY <1>1, <1>2, <1>3, <1>4, <1>5, <1>6
  DEF Next, vars, ResolveAPIKey, OriginAllowed, GetPolicy

\* A secret in the index always leads to a registered key.
THEOREM SecretsLeadToKeys == Spec => []NoDanglingSecret
<1>1. Index => NoDanglingSecret
  BY DEF Index
<1> QED BY <1>1, InitIndex, NextIndex, PTL DEF Spec

\* A key answers to at most one secret, so a rotated secret is dead.
THEOREM RotationIsComplete == Spec => []OneSecretPerKey
<1>1. Index => OneSecretPerKey
  BY DEF Index
<1> QED BY <1>1, InitIndex, NextIndex, PTL DEF Spec

-----------------------------------------------------------------------------
(* MemStore implements SqliteStore when secrets are not shared.  The       *)
(* mapping gives a key the secret that leads to it, so the invariant needed *)
(* is that there is exactly one.                                           *)

Linked == Index /\ EveryKeyHasSecret

\* The secret of a registered key is the one that leads to it.
LEMMA SecretOfKey ==
    Linked => \A k \in Key, h \in Hash :
                 keys[k] # None => /\ SecretOf(k) \in Hash
                                   /\ (SecretOf(k) = h <=> byHash[h] = k)
<1> SUFFICES ASSUME Linked, NEW k \in Key, NEW h \in Hash, keys[k] # None
             PROVE  SecretOf(k) \in Hash /\ (SecretOf(k) = h <=> byHash[h] = k)
  OBVIOUS
<1>1. \E g \in Hash : byHash[g] = k
  BY DEF Linked, EveryKeyHasSecret
<1>2. SecretOf(k) \in Hash /\ byHash[SecretOf(k)] = k
  BY <1>1 DEF SecretOf
<1>3. k # None
  BY MemAssumption
<1> QED BY <1>2, <1>3 DEF Linked, Index, OneSecretPerKey

\* Every step of a store with unshared secrets keeps each key reachable.
LEMMA NextLinked ==
    ASSUME SharedSecrets = FALSE
    PROVE  Linked /\ [Next]_vars => Linked'
<1> SUFFICES ASSUME Linked, [Next]_vars PROVE EveryKeyHasSecret'
  BY NextIndex DEF Linked
<1> USE MemAssumption DEF Linked, Index, Maps
<1>1. ASSUME NEW k \in Key, NEW a \in Account, NEW h \in Hash,
             MayRegister(k, h), RegisterAPIKey(k, a, h)
      PROVE  EveryKeyHasSecret'
  <2>1. byHash[h] \in {None, k}
    BY <1>1 DEF MayRegister
  <2>2. \A j \in Key : j # k => keys'[j] = keys[j]
    BY <1>1 DEF RegisterAPIKey
  <2>3. \A g \in Hash : byHash'[g] = IF g = h THEN k
                                     ELSE IF byHash[g] = k THEN None ELSE byHash[g]
    BY <1>1 DEF RegisterAPIKey, Forget
  <2>4. ASSUME NEW j \in Key, keys'[j] # None PROVE \E g \in Hash : byHash'[g] = j
    <3>1. CASE j = k
      BY <2>3, <3>1
    <3>2. CASE j # k
      <4>1. PICK g \in Hash : byHash[g] = j
        BY <2>2, <2>4, <3>2 DEF EveryKeyHasSecret
      <4> QED BY <2>1, <2>3, <3>2, <4>1
    <3> QED BY <3>1, <3>2
  <2> QED BY <2>4 DEF EveryKeyHasSecret
<1>2. ASSUME NEW k \in Key, NEW a \in Account, NEW b \in Account, RebindAPIKey(k, a, b)
      PROVE  EveryKeyHasSecret'
  BY <1>2 DEF RebindAPIKey, Owned, EveryKeyHasSecret
<1>3. ASSUME NEW k \in Key, NEW a \in Account, RevokeAPIKey(a, k)
      PROVE  EveryKeyHasSecret'
  <2>1. CASE Owned(k, a)
    <3>1. ASSUME NEW j \in Key, keys'[j] # None PROVE \E g \in Hash : byHash'[g] = j
      <4>1. j # k /\ keys'[j] = keys[j]
        BY <1>3, <2>1, <3>1 DEF RevokeAPIKey
      <4>2. PICK g \in Hash : byHash[g] = j
        BY <3>1, <4>1 DEF EveryKeyHasSecret
      <4>3. byHash'[g] = j
        BY <1>3, <2>1, <4>1, <4>2 DEF RevokeAPIKey, Forget
      <4> QED BY <4>3
    <3> QED BY <3>1 DEF EveryKeyHasSecret
  <2>2. CASE ~Owned(k, a)
    BY <1>3, <2>2 DEF RevokeAPIKey, EveryKeyHasSecret
  <2> QED BY <2>1, <2>2
<1>4. ASSUME NEW k \in Key, NEW a \in Account, NEW os \in SUBSET Origin,
             UpdateKeyOrigins(k, a, os)
      PROVE  EveryKeyHasSecret'
  BY <1>4 DEF UpdateKeyOrigins, Owned, EveryKeyHasSecret
<1>5. CASE UNCHANGED <<keys, byHash>>
  BY <1>5 DEF EveryKeyHasSecret
<1> HIDE DEF Linked, Index, Maps
<1> QED
  BY <1>1, <1>2, <1>3, <1>4, <1>5
  DEF Next, vars, ResolveAPIKey, OriginAllowed, GetPolicy, PutPolicy

\* A method that leaves the index and the set of keys alone leaves every
\* secret where it was.
LEMMA SecretUnchanged ==
    ASSUME byHash' = byHash, NEW k \in Key
    PROVE  SecretOf(k)' = SecretOf(k)
BY DEF SecretOf

\* The row that stands for a key.
LEMMA TableRow ==
    ASSUME NEW k \in Key
    PROVE  Table[k] = IF keys[k] = None THEN None
                      ELSE [owner |-> keys[k].owner, hash |-> SecretOf(k),
                            origins |-> keys[k].origins]
BY DEF Table
\* A step of the in-memory store is a step of the SQLite store, with the
\* same reply, under the mapping.
LEMMA NextSqlite ==
    ASSUME SharedSecrets = FALSE
    PROVE  Linked /\ [Next]_vars => [Sqlite!Next]_(Sqlite!storeVars)
<1> SUFFICES ASSUME Linked, [Next]_vars PROVE [Sqlite!Next]_(Sqlite!storeVars)
  OBVIOUS
<1>0. Linked'
  BY NextLinked
<1>S. \A k \in Key, h \in Hash :
         keys[k] # None => /\ SecretOf(k) \in Hash
                           /\ (SecretOf(k) = h <=> byHash[h] = k)
  BY SecretOfKey
<1>T. \A k \in Key, h \in Hash :
         keys'[k] # None => /\ SecretOf(k)' \in Hash
                            /\ (SecretOf(k)' = h <=> byHash'[h] = k)
  <2> SUFFICES ASSUME NEW k \in Key, NEW h \in Hash, keys'[k] # None
               PROVE  SecretOf(k)' \in Hash /\ (SecretOf(k)' = h <=> byHash'[h] = k)
    OBVIOUS
  <2>1. \E g \in Hash : byHash'[g] = k
    BY <1>0 DEF Linked, EveryKeyHasSecret
  <2>2. SecretOf(k)' \in Hash /\ byHash'[SecretOf(k)'] = k
    BY <2>1 DEF SecretOf
  <2>3. k # None
    BY MemAssumption
  <2> QED BY <1>0, <2>2, <2>3 DEF Linked, Index, OneSecretPerKey
<1>M. Maps
  BY DEF Linked, Index
<1>R. ASSUME NEW k \in Key
      PROVE  /\ Table[k] = None <=> keys[k] = None
             /\ keys[k] # None => /\ Table[k] = [owner |-> keys[k].owner,
                                                  hash |-> SecretOf(k),
                                                  origins |-> keys[k].origins]
                                  /\ Table[k].owner = keys[k].owner
                                  /\ Table[k].hash = SecretOf(k)
                                  /\ Table[k].origins = keys[k].origins
  <2>1. CASE keys[k] = None
    BY <2>1, TableRow
  <2>2. CASE keys[k] # None
    <3>1. keys[k] \in KeyRecord /\ SecretOf(k) \in Hash
      BY <1>S, <1>M, <2>2 DEF Maps, Linked, EveryKeyHasSecret
    <3>2. [owner |-> keys[k].owner, hash |-> SecretOf(k), origins |-> keys[k].origins]
            \in [owner : Account, hash : Hash, origins : SUBSET Origin]
      BY <3>1 DEF KeyRecord
    <3>3. Table[k] = [owner |-> keys[k].owner, hash |-> SecretOf(k),
                      origins |-> keys[k].origins]
      BY <2>2, TableRow
    <3> QED BY <2>2, <3>2, <3>3, MemAssumption
  <2> QED BY <2>1, <2>2
<1>U. /\ Table = [j \in Key |-> Table[j]]
      /\ Table' = [j \in Key |-> Table'[j]]
      /\ \A j \in Key : Table'[j] = IF keys'[j] = None THEN None
                       ELSE [owner |-> keys'[j].owner, hash |-> SecretOf(j)',
                             origins |-> keys'[j].origins]
  BY DEF Table
<1> HIDE DEF Table
<1>V. ASSUME UNCHANGED <<keys, byHash>> PROVE Table' = Table
  BY <1>V, <1>R, <1>U, SecretUnchanged
<1>1. ASSUME NEW k \in Key, NEW a \in Account, NEW h \in Hash,
             MayRegister(k, h), RegisterAPIKey(k, a, h)
      PROVE  Sqlite!RegisterAPIKey(k, a, h)
  <2>1. byHash[h] \in {None, k}
    BY <1>1 DEF MayRegister
  <2>2. ~ \E j \in Key \ {k} : Table[j] # None /\ Table[j].hash = h
    <3> SUFFICES ASSUME NEW j \in Key, j # k, Table[j] # None, Table[j].hash = h
                 PROVE  FALSE
      OBVIOUS
    <3>1. SecretOf(j) = h /\ keys[j] # None
      BY <1>R
    <3>2. byHash[h] = j
      BY <1>S, <3>1
    <3> QED BY <2>1, <3>2, MemAssumption
  <2>3. \A g \in Hash : byHash'[g] = IF g = h THEN k
                                     ELSE IF byHash[g] = k THEN None ELSE byHash[g]
    BY <1>1 DEF RegisterAPIKey, Forget
  <2>4. ASSUME NEW j \in Key, j # k PROVE Table'[j] = Table[j]
    <3>1. keys'[j] = keys[j]
      BY <1>1, <1>M, <2>4 DEF RegisterAPIKey, Maps
    <3>2. keys[j] # None => SecretOf(j)' = SecretOf(j)
      BY <1>S, <1>T, <2>1, <2>3, <2>4, <3>1, MemAssumption
    <3> QED BY <1>R, <1>U, <3>1, <3>2
  <2>5. Table'[k] = [owner |-> a, hash |-> h,
                     origins |-> IF Table[k] = None THEN {} ELSE Table[k].origins]
    <3>1. keys'[k] = [owner |-> a, origins |-> IF keys[k] = None THEN {}
                                               ELSE keys[k].origins]
      BY <1>1, <1>M DEF RegisterAPIKey, Maps
    <3>2. keys'[k] # None
      <4>1. [owner |-> a, origins |-> IF keys[k] = None THEN {} ELSE keys[k].origins]
              \in KeyRecord
        BY <1>M DEF Maps, KeyRecord
      <4> QED BY <3>1, <4>1, MemAssumption
    <3>3. SecretOf(k)' = h
      BY <1>T, <2>3, <3>2
    <3>4. keys[k] # None => Table[k].origins = keys[k].origins
      BY <1>R
    <3> QED BY <1>R, <1>U, <3>1, <3>2, <3>3, <3>4
  <2>6. Table' = [Table EXCEPT ![k] = [owner |-> a, hash |-> h,
                     origins |-> IF Table[k] = None THEN {} ELSE Table[k].origins]]
    BY <1>U, <2>4, <2>5
  <2>7. reply' = Sqlite!Reply("ok", None) /\ policy' = policy
    BY <1>1 DEF RegisterAPIKey, Reply, Sqlite!Reply
  <2> QED BY <2>2, <2>6, <2>7 DEF Sqlite!RegisterAPIKey
<1>2. ASSUME NEW k \in Key, NEW a \in Account, NEW b \in Account, RebindAPIKey(k, a, b)
      PROVE  Sqlite!RebindAPIKey(k, a, b)
  <2>1. byHash' = byHash /\ policy' = policy /\ \A j \in Key : SecretOf(j)' = SecretOf(j)
    BY <1>2, SecretUnchanged DEF RebindAPIKey
  <2>2. Owned(k, a) <=> Table[k] # None /\ Table[k].owner = a
    BY <1>R DEF Owned
  <2>3. CASE Owned(k, a)
    <3>1. keys' = [keys EXCEPT ![k] = [keys[k] EXCEPT !.owner = b]] /\ keys[k] # None
      BY <1>2, <2>3 DEF RebindAPIKey, Owned
    <3>2. keys[k] \in KeyRecord /\ [keys[k] EXCEPT !.owner = b] \in KeyRecord
      BY <1>M, <3>1 DEF Maps, KeyRecord
    <3>3. Table'[k] = [Table[k] EXCEPT !.owner = b]
      BY <1>M, <1>R, <1>U, <2>1, <3>1, <3>2, MemAssumption DEF Maps, KeyRecord
    <3>4. \A j \in Key : j # k => Table'[j] = Table[j]
      BY <1>M, <1>R, <1>U, <2>1, <3>1 DEF Maps
    <3>5. Table' = [Table EXCEPT ![k] = [Table[k] EXCEPT !.owner = b]]
      BY <1>U, <3>3, <3>4
    <3>6. reply' = Sqlite!Reply("ok", None)
      BY <1>2, <2>3 DEF RebindAPIKey, Reply, Sqlite!Reply
    <3> QED BY <2>1, <2>2, <2>3, <3>5, <3>6 DEF Sqlite!RebindAPIKey, Sqlite!IfOwned
  <2>4. CASE ~Owned(k, a)
    <3>1. Table' = Table
      BY <1>2, <1>V, <2>1, <2>4 DEF RebindAPIKey
    <3>2. reply' = Sqlite!Reply("not found", None)
      BY <1>2, <2>4 DEF RebindAPIKey, Reply, Sqlite!Reply
    <3> QED BY <2>1, <2>2, <2>4, <3>1, <3>2 DEF Sqlite!RebindAPIKey, Sqlite!IfOwned
  <2> QED BY <2>3, <2>4
<1>3. ASSUME NEW k \in Key, NEW a \in Account, RevokeAPIKey(a, k)
      PROVE  Sqlite!RevokeAPIKey(a, k)
  <2>2. Owned(k, a) <=> Table[k] # None /\ Table[k].owner = a
    BY <1>R DEF Owned
  <2>3. CASE Owned(k, a)
    <3>1. keys' = [keys EXCEPT ![k] = None]
      BY <1>3, <2>3 DEF RevokeAPIKey
    <3>2. \A g \in Hash : byHash'[g] = IF byHash[g] = k THEN None ELSE byHash[g]
      BY <1>3, <2>3 DEF RevokeAPIKey, Forget
    <3>3. Table'[k] = None
      BY <1>M, <1>U, <3>1 DEF Maps
    <3>4. ASSUME NEW j \in Key, j # k PROVE Table'[j] = Table[j]
      <4>1. keys'[j] = keys[j]
        BY <1>M, <3>1, <3>4 DEF Maps
      <4>2. ASSUME keys[j] # None PROVE SecretOf(j)' = SecretOf(j)
        <5>1. PICK g \in Hash : SecretOf(j) = g
          BY <1>S, <4>2 DEF Linked, EveryKeyHasSecret
        <5>2. byHash[g] = j
          BY <1>S, <4>2, <5>1
        <5>3. byHash'[g] = j
          BY <3>2, <3>4, <5>2
        <5> QED BY <1>T, <4>1, <4>2, <5>1, <5>3
      <4> QED BY <1>R, <1>U, <4>1, <4>2
    <3>5. Table' = [Table EXCEPT ![k] = None]
      BY <1>U, <3>3, <3>4
    <3>6. reply' = Sqlite!Reply("ok", None) /\ policy' = policy
      BY <1>3, <2>3 DEF RevokeAPIKey, Reply, Sqlite!Reply
    <3> QED BY <2>2, <2>3, <3>5, <3>6 DEF Sqlite!RevokeAPIKey, Sqlite!IfOwned
  <2>4. CASE ~Owned(k, a)
    <3>1. keys' = keys /\ byHash' = byHash
      BY <1>3, <2>4 DEF RevokeAPIKey
    <3>2. Table' = Table
      BY <1>R, <1>U, <3>1, SecretUnchanged
    <3>3. reply' = Sqlite!Reply("not found", None) /\ policy' = policy
      BY <1>3, <2>4 DEF RevokeAPIKey, Reply, Sqlite!Reply
    <3> QED BY <2>2, <2>4, <3>2, <3>3 DEF Sqlite!RevokeAPIKey, Sqlite!IfOwned
  <2> QED BY <2>3, <2>4
<1>4. ASSUME NEW k \in Key, NEW a \in Account, NEW os \in SUBSET Origin,
             UpdateKeyOrigins(k, a, os)
      PROVE  Sqlite!UpdateKeyOrigins(k, a, os)
  <2>1. byHash' = byHash /\ policy' = policy /\ \A j \in Key : SecretOf(j)' = SecretOf(j)
    BY <1>4, SecretUnchanged DEF UpdateKeyOrigins
  <2>2. Owned(k, a) <=> Table[k] # None /\ Table[k].owner = a
    BY <1>R DEF Owned
  <2>3. CASE Owned(k, a)
    <3>1. keys' = [keys EXCEPT ![k] = [keys[k] EXCEPT !.origins = os]] /\ keys[k] # None
      BY <1>4, <2>3 DEF UpdateKeyOrigins, Owned
    <3>2. keys[k] \in KeyRecord /\ [keys[k] EXCEPT !.origins = os] \in KeyRecord
      BY <1>M, <3>1 DEF Maps, KeyRecord
    <3>3. Table'[k] = [Table[k] EXCEPT !.origins = os]
      BY <1>M, <1>R, <1>U, <2>1, <3>1, <3>2, MemAssumption DEF Maps, KeyRecord
    <3>4. \A j \in Key : j # k => Table'[j] = Table[j]
      BY <1>M, <1>R, <1>U, <2>1, <3>1 DEF Maps
    <3>5. Table' = [Table EXCEPT ![k] = [Table[k] EXCEPT !.origins = os]]
      BY <1>U, <3>3, <3>4
    <3>6. reply' = Sqlite!Reply("ok", None)
      BY <1>4, <2>3 DEF UpdateKeyOrigins, Reply, Sqlite!Reply
    <3> QED BY <2>1, <2>2, <2>3, <3>5, <3>6 DEF Sqlite!UpdateKeyOrigins, Sqlite!IfOwned
  <2>4. CASE ~Owned(k, a)
    <3>1. Table' = Table
      BY <1>4, <1>V, <2>1, <2>4 DEF UpdateKeyOrigins
    <3>2. reply' = Sqlite!Reply("not found", None)
      BY <1>4, <2>4 DEF UpdateKeyOrigins, Reply, Sqlite!Reply
    <3> QED BY <2>1, <2>2, <2>4, <3>1, <3>2 DEF Sqlite!UpdateKeyOrigins, Sqlite!IfOwned
  <2> QED BY <2>3, <2>4
<1>6. ASSUME NEW h \in Hash, ResolveAPIKey(h) PROVE Sqlite!ResolveAPIKey(h)
  <2> DEFINE found == {k \in Key : Table[k] # None /\ Table[k].hash = h}
  <2>1. UNCHANGED <<Table, policy>>
    BY <1>V, <1>6 DEF ResolveAPIKey
  <2>2. \A k \in Key : k \in found <=> keys[k] # None /\ byHash[h] = k
    BY <1>R, <1>S
  <2>3. CASE byHash[h] = None
    <3>1. found = {} /\ reply' = Sqlite!Reply("not found", None)
      BY <1>6, <2>2, <2>3, MemAssumption DEF ResolveAPIKey, Reply, Sqlite!Reply
    <3> QED BY <2>1, <3>1 DEF Sqlite!ResolveAPIKey
  <2>4. CASE byHash[h] # None
    <3>1. byHash[h] \in Key /\ keys[byHash[h]] # None
      BY <1>M, <2>4 DEF Maps, Linked, Index, NoDanglingSecret
    <3>2. byHash[h] \in found
      BY <2>2, <3>1
    <3>3. reply' = Sqlite!Reply("ok", [id |-> byHash[h], owner |-> Table[byHash[h]].owner,
                                       origins |-> Table[byHash[h]].origins])
      BY <1>6, <1>R, <2>4, <3>1 DEF ResolveAPIKey, Reply, Sqlite!Reply
    <3> QED BY <2>1, <3>2, <3>3 DEF Sqlite!ResolveAPIKey
  <2> QED BY <2>3, <2>4
<1>7. ASSUME NEW o \in Origin, OriginAllowed(o) PROVE Sqlite!OriginAllowed(o)
  <2>1. UNCHANGED <<Table, policy>>
    BY <1>V, <1>7 DEF OriginAllowed
  <2>2. (\E k \in Key : keys[k] # None /\ o \in keys[k].origins)
           <=> (\E k \in Key : Table[k] # None /\ o \in Table[k].origins)
    BY <1>R
  <2> QED BY <1>7, <2>1, <2>2 DEF OriginAllowed, Sqlite!OriginAllowed, Reply, Sqlite!Reply
<1>8. ASSUME NEW a \in Account, NEW v \in Version, NEW b \in Blob, PutPolicy(a, v, b)
      PROVE  Sqlite!PutPolicy(a, v, b)
  <2>1. Table' = Table
    BY <1>V, <1>8 DEF PutPolicy
  <2>2. policy[a] # None => (v <= policy[a].version <=> ~(v > policy[a].version))
    <3>1. policy[a] # None => policy[a].version \in Int
      BY <1>M, MemAssumption DEF Maps, Policy
    <3>2. v \in Int
      BY MemAssumption
    <3> QED BY <3>1, <3>2
  <2> QED BY <1>8, <2>1, <2>2 DEF PutPolicy, Sqlite!PutPolicy, Reply, Sqlite!Reply
<1>9. ASSUME NEW a \in Account, GetPolicy(a) PROVE Sqlite!GetPolicy(a)
  <2>1. Table' = Table
    BY <1>V, <1>9 DEF GetPolicy
  <2> QED BY <1>9, <2>1 DEF GetPolicy, Sqlite!GetPolicy, Reply, Sqlite!Reply
<1>10. CASE UNCHANGED vars
  <2>1. Table' = Table
    BY <1>V, <1>10 DEF vars
  <2> QED BY <1>10, <2>1 DEF vars, Sqlite!storeVars
<1> QED
  BY <1>1, <1>2, <1>3, <1>4, <1>6, <1>7, <1>8, <1>9, <1>10 DEF Next, Sqlite!Next

\* With unshared secrets the in-memory store implements the SQLite store.
THEOREM MemImplementsSqlite ==
    ASSUME SharedSecrets = FALSE
    PROVE  Spec => ImplementsSqlite
<1>1. Init => Linked
  BY InitIndex DEF Linked, Init, EveryKeyHasSecret
<1>2. Init => Sqlite!Init
  BY DEF Init, Sqlite!Init, Table, Reply, Sqlite!Reply
<1>3. Linked /\ [Next]_vars => Linked'
  BY NextLinked
<1>4. Linked /\ [Next]_vars => [Sqlite!Next]_(Sqlite!storeVars)
  BY NextSqlite
<1> QED BY <1>1, <1>2, <1>3, <1>4, PTL DEF Spec, ImplementsSqlite, Sqlite!Spec
=============================================================================
