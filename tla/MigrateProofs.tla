--------------------------- MODULE MigrateProofs ---------------------------
(***************************************************************************)
(* Proofs about Migrate, for every set of keys, accounts and policies,     *)
(* every number of runs, and whatever the two relays do meanwhile.         *)
(***************************************************************************)
EXTENDS Migrate, TLAPS

-----------------------------------------------------------------------------
(* Types.                                                                  *)

KeyTable == [Key -> Row \cup {None}]
PolicyTable == [Account -> Policy \cup {None}]

\* What is left to be copied are rows that the SELECT returned.
Typed ==
    /\ rows \in KeyTable /\ src \in KeyTable /\ keys \in KeyTable
    /\ blobs \in PolicyTable /\ srcBlobs \in PolicyTable /\ policies \in PolicyTable
    /\ phase \in {"stopped", "keys", "policies", "done"}
    /\ phase = "keys" => left \subseteq {k \in Key : keys[k] # None}
    /\ phase = "policies" => left \subseteq {a \in Account : policies[a] # None}
    /\ due \in [Account -> SUBSET Version]

\* The row that is copied is not None, and neither is the policy.
LEMMA NoneIsNoRow == None \notin Row /\ None \notin Policy /\ Version \subseteq Int
BY StoreAssumption

\* A put of the store keeps the types, stores its version or finds a newer one,
\* and takes away nothing that was stored.
LEMMA PutNewer ==
    ASSUME blobs \in PolicyTable, NEW a \in Account, NEW v \in Version, NEW b \in Blob,
           PutPolicy(a, v, b)
    PROVE  /\ blobs' \in PolicyTable
           /\ Stored(a, v)'
           /\ \A x \in Account, w \in Version : Stored(x, w) => Stored(x, w)'
<1> DEFINE p == [version |-> v, blob |-> b]
<1>1. p \in Policy /\ p # None /\ p.version = v /\ v \in Int
  BY NoneIsNoRow DEF Policy
<1>2. \A x \in Account : blobs[x] # None => blobs[x].version \in Int
  BY NoneIsNoRow DEF PolicyTable, Policy
<1>3. CASE /\ blobs' = [blobs EXCEPT ![a] = p]
           /\ blobs[a] = None \/ v > blobs[a].version
  <2> HIDE DEF p
  <2>1. /\ blobs' \in PolicyTable
        /\ blobs'[a] = p /\ \A x \in Account \ {a} : blobs'[x] = blobs[x]
    BY <1>1, <1>3 DEF PolicyTable
  <2>2. Stored(a, v)'
    BY <1>1, <2>1 DEF Stored
  <2>3. ASSUME NEW x \in Account, NEW w \in Version, Stored(x, w) PROVE Stored(x, w)'
    <3>1. w \in Int
      BY NoneIsNoRow
    <3>2. CASE x = a
      BY <1>1, <1>2, <1>3, <2>1, <2>3, <3>1, <3>2 DEF Stored
    <3>3. CASE x # a
      BY <2>1, <2>3, <3>3 DEF Stored
    <3> QED BY <3>2, <3>3
  <2> QED BY <2>1, <2>2, <2>3
<1>4. CASE blobs' = blobs /\ blobs[a] # None /\ ~(v > blobs[a].version)
  BY <1>1, <1>2, <1>4 DEF Stored
<1> QED BY <1>3, <1>4 DEF PutPolicy

\* The statements of the new relay keep the type of the table of keys.
LEMMA NewRelayKeys == ASSUME rows \in KeyTable, NewRelay PROVE rows' \in KeyTable
<1>1. ASSUME NEW k \in Key, NEW a \in Account, NEW h \in Hash, RegisterAPIKey(k, a, h)
      PROVE  rows' \in KeyTable
  <2> DEFINE os == IF rows[k] = None THEN {} ELSE rows[k].origins
             row == [owner |-> a, hash |-> h, origins |-> os]
  <2>1. os \in SUBSET Origin
    BY DEF KeyTable, Row
  <2>2. rows' = rows \/ rows' = [rows EXCEPT ![k] = row]
    BY <1>1 DEF RegisterAPIKey
  <2> HIDE DEF os
  <2>3. row \in Row
    BY <2>1 DEF Row
  <2> HIDE DEF row
  <2> QED BY <2>2, <2>3 DEF KeyTable
<1>2. ASSUME NEW k \in Key, NEW a, NEW row \in Row \cup {None}, IfOwned(k, a, row)
      PROVE  rows' \in KeyTable
  <2>1. rows' = rows \/ rows' = [rows EXCEPT ![k] = row]
    BY <1>2 DEF IfOwned
  <2> QED BY <2>1 DEF KeyTable
<1>3. ASSUME NEW k \in Key, NEW a \in Account, NEW b \in Account, RebindAPIKey(k, a, b)
      PROVE  rows' \in KeyTable
  <2>1. CASE rows[k] = None
    <3>1. rows' = rows
      BY <1>3, <2>1, Zenon DEF RebindAPIKey, IfOwned
    <3> QED BY <3>1
  <2>2. CASE rows[k] \in Row
    <3>1. [rows[k] EXCEPT !.owner = b] \in Row
      BY <2>2 DEF Row
    <3> QED BY <1>2, <1>3, <3>1 DEF RebindAPIKey
  <2> QED BY <2>1, <2>2 DEF KeyTable
<1>4. ASSUME NEW k \in Key, NEW a \in Account, RevokeAPIKey(a, k) PROVE rows' \in KeyTable
  BY <1>2, <1>4 DEF RevokeAPIKey
<1>5. ASSUME NEW k \in Key, NEW a \in Account, NEW os \in SUBSET Origin,
             UpdateKeyOrigins(k, a, os)
      PROVE  rows' \in KeyTable
  <2>1. CASE rows[k] = None
    <3>1. rows' = rows
      BY <1>5, <2>1, Zenon DEF UpdateKeyOrigins, IfOwned
    <3> QED BY <3>1
  <2>2. CASE rows[k] \in Row
    <3>1. [rows[k] EXCEPT !.origins = os] \in Row
      BY <2>2 DEF Row
    <3> QED BY <1>2, <1>5, <3>1 DEF UpdateKeyOrigins
  <2> QED BY <2>1, <2>2 DEF KeyTable
<1>6. ASSUME NEW a \in Account, NEW v \in Version, NEW b \in Blob, PutPolicy(a, v, b)
      PROVE  rows' \in KeyTable
  BY <1>6 DEF PutPolicy
<1> QED BY <1>1, <1>3, <1>4, <1>5, <1>6 DEF NewRelay

\* What the new relay does to the policies.
LEMMA NewRelayPolicies ==
    ASSUME NewRelay
    PROVE  \/ UNCHANGED <<blobs, due>>
           \/ \E a \in Account, v \in Version, b \in Blob :
                PutPolicy(a, v, b) /\ due' = [due EXCEPT ![a] = @ \cup {v}]
BY DEF NewRelay, RegisterAPIKey, RebindAPIKey, RevokeAPIKey, UpdateKeyOrigins

\* What a run copies is a policy.
LEMMA CopiesPolicy ==
    ASSUME Typed, NEW a \in Account, policies[a] # None
    PROVE  policies[a].version \in Version /\ policies[a].blob \in Blob
<1>1. policies[a] \in Policy
  BY DEF Typed, PolicyTable
<1> QED BY <1>1 DEF Policy

\* Each step keeps the types.
LEMMA NextTyped == Typed /\ [MigrateNext]_vars => Typed'
<1> SUFFICES ASSUME Typed, [MigrateNext]_vars PROVE Typed'
  OBVIOUS
<1>1. CASE Start
  <2>1. left' \subseteq {k \in Key : keys'[k] # None}
    BY <1>1 DEF Start, Typed, Present, KeyTable
  <2> QED BY <1>1, <2>1 DEF Start, Typed, storeVars
<1>2. ASSUME NEW k \in Key, CopyKey(k) PROVE Typed'
  <2>1. k \in left /\ keys[k] # None /\ keys[k] \in Row
    BY <1>2 DEF CopyKey, Typed, KeyTable
  <2>2. CASE Stop
    BY <1>2, <2>2 DEF Stop, CopyKey, Typed
  <2>3. CASE /\ rows' = [rows EXCEPT ![k] = keys[k]] /\ left' = left \ {k}
             /\ UNCHANGED <<src, srcBlobs, phase, keys, policies, blobs, due>>
    <3>1. rows' \in KeyTable
      BY <2>1, <2>3 DEF Typed, KeyTable
    <3> QED BY <2>3, <3>1 DEF Typed
  <2> QED BY <1>2, <2>2, <2>3 DEF CopyKey
<1>3. CASE EndKeys
  <2>1. left' \subseteq {a \in Account : policies'[a] # None}
    BY <1>3 DEF EndKeys, Typed, Present, PolicyTable
  <2> QED BY <1>3, <2>1 DEF EndKeys, Typed, storeVars
<1>4. ASSUME NEW a \in Account, CopyPolicy(a) PROVE Typed'
  <2>1. policies[a] # None
    BY <1>4 DEF CopyPolicy, Typed
  <2>2. blobs' \in PolicyTable
    BY <1>4, <2>1, CopiesPolicy, PutNewer DEF CopyPolicy, Typed
  <2> QED BY <1>4, <2>2 DEF CopyPolicy, PutPolicy, Typed
<1>5. CASE End
  <2>1. \A a \in Account : policies[a] # None => policies[a].version \in Version
    BY CopiesPolicy
  <2>2. \A a \in Account :
          due[a] \cup (IF policies[a] = None THEN {} ELSE {policies[a].version}) \in SUBSET Version
    BY <2>1 DEF Typed
  <2>3. due' \in [Account -> SUBSET Version]
    BY <1>5, <2>2 DEF End
  <2> QED BY <1>5, <2>3 DEF End, Typed, storeVars
<1>6. CASE Abort
  BY <1>6 DEF Abort, Stop, Typed
<1>7. CASE OldRelay
  <2>1. src' \in KeyTable /\ srcBlobs' \in PolicyTable
    BY <1>7 DEF OldRelay, Typed, KeyTable, PolicyTable
  <2> QED BY <1>7, <2>1 DEF OldRelay, Typed, storeVars
<1>8. CASE NewRelay
  <2>1. rows' \in KeyTable
    BY <1>8, NewRelayKeys DEF Typed
  <2>2. blobs' \in PolicyTable /\ due' \in [Account -> SUBSET Version]
    BY <1>8, NewRelayPolicies, PutNewer DEF Typed
  <2>3. UNCHANGED <<src, srcBlobs, phase, keys, policies, left>>
    BY <1>8 DEF NewRelay
  <2> QED BY <2>1, <2>2, <2>3 DEF Typed
<1>9. CASE UNCHANGED vars
  BY <1>9 DEF vars, migVars, storeVars, Typed
<1> QED BY <1>1, <1>2, <1>3, <1>4, <1>5, <1>6, <1>7, <1>8, <1>9 DEF MigrateNext

\* Both databases are empty initially.
LEMMA InitTyped == MigrateInit => Typed
BY DEF MigrateInit, Init, Typed, KeyTable, PolicyTable

-----------------------------------------------------------------------------
(* What a run has copied.                                                  *)

\* While the keys are copied, those that are not left are as the SELECT found
\* them, unless the new relay has changed them.
Copying ==
    phase = "keys" =>
        \A k \in Key : keys[k] # None /\ k \notin left /\ k \notin touched => rows[k] = keys[k]

\* Every step keeps what the run has copied: a row leaves the set of those left
\* in the step that writes it.
LEMMA NextCopying ==
    Typed /\ Copying /\ KeysAreCopied /\ [MigrateNext]_vars
        => Copying' /\ KeysAreCopied'
<1> SUFFICES ASSUME Typed, Copying, KeysAreCopied, [MigrateNext]_vars
             PROVE  Copying' /\ KeysAreCopied'
  OBVIOUS
<1>1. CASE Start
  BY <1>1 DEF Start, Typed, Present, KeyTable, Copying, KeysAreCopied
<1>2. ASSUME NEW k \in Key, CopyKey(k) PROVE Copying' /\ KeysAreCopied'
  <2>1. CASE Stop
    BY <1>2, <2>1 DEF Stop, Copying, KeysAreCopied
  <2>2. CASE /\ phase = "keys"
             /\ rows' = [rows EXCEPT ![k] = keys[k]] /\ left' = left \ {k}
             /\ UNCHANGED <<phase, keys, touched>>
    BY <2>2 DEF Typed, KeyTable, Copying, KeysAreCopied
  <2> QED BY <1>2, <2>1, <2>2 DEF CopyKey
<1>3. CASE EndKeys
  BY <1>3 DEF EndKeys, storeVars, Copying, KeysAreCopied
<1>4. ASSUME NEW a \in Account, CopyPolicy(a) PROVE Copying' /\ KeysAreCopied'
  BY <1>4 DEF CopyPolicy, PutPolicy, Copying, KeysAreCopied
<1>5. CASE End
  BY <1>5 DEF End, storeVars, Copying, KeysAreCopied
<1>6. CASE Abort
  BY <1>6 DEF Abort, Stop, Copying, KeysAreCopied
<1>7. CASE OldRelay
  BY <1>7 DEF OldRelay, storeVars, Copying, KeysAreCopied
<1>8. CASE NewRelay
  BY <1>8 DEF NewRelay, Copying, KeysAreCopied
<1>9. CASE UNCHANGED vars
  BY <1>9 DEF vars, migVars, storeVars, Copying, KeysAreCopied
<1> QED BY <1>1, <1>2, <1>3, <1>4, <1>5, <1>6, <1>7, <1>8, <1>9 DEF MigrateNext

\* A run that is past the keys has copied every key of its snapshot, all
\* columns, except where the new relay has changed it since the run began,
\* whatever earlier runs that failed half-way have left behind.
THEOREM KeysCopied == MigrateSpec => []KeysAreCopied
<1>1. MigrateInit => Copying /\ KeysAreCopied
  BY DEF MigrateInit, Copying, KeysAreCopied
<1> QED BY <1>1, InitTyped, NextTyped, NextCopying, PTL DEF MigrateSpec

\* While the policies are copied, those that are not left are stored.
CopyingPolicies ==
    phase = "policies" =>
        \A a \in Account : policies[a] # None /\ a \notin left => Stored(a, policies[a].version)

\* What was stored stays stored: neither a run nor the new relay replaces a
\* policy by an older version.
LEMMA StaysStored ==
    ASSUME Typed, [MigrateNext]_vars, NEW x \in Account, NEW w \in Version, Stored(x, w)
    PROVE  Stored(x, w)'
<1>1. ASSUME NEW a \in Account, CopyPolicy(a) PROVE Stored(x, w)'
  <2>1. policies[a] # None
    BY <1>1 DEF CopyPolicy, Typed
  <2> QED BY <1>1, <2>1, CopiesPolicy, PutNewer DEF CopyPolicy, Typed
<1>2. CASE NewRelay
  <2>1. CASE blobs' = blobs
    BY <2>1 DEF Stored
  <2>2. CASE \E a \in Account, v \in Version, b \in Blob : PutPolicy(a, v, b)
    BY <2>2, PutNewer DEF Typed
  <2> QED BY <1>2, <2>1, <2>2, NewRelayPolicies
<1>3. CASE blobs' = blobs
  BY <1>3 DEF Stored
<1> QED BY <1>1, <1>2, <1>3 DEF MigrateNext, Start, CopyKey, EndKeys, End, Abort, OldRelay,
        storeVars, vars

\* Every step keeps both: an account leaves the set of those left in the step
\* that stores its policy, and a run ends when none is left.
LEMMA NextNewest ==
    Typed /\ CopyingPolicies /\ PoliciesAreNewest /\ [MigrateNext]_vars
        => CopyingPolicies' /\ PoliciesAreNewest'
<1> SUFFICES ASSUME Typed, CopyingPolicies, PoliciesAreNewest, [MigrateNext]_vars
             PROVE  CopyingPolicies' /\ PoliciesAreNewest'
  OBVIOUS
<1>1. \A a \in Account, v \in Version : Stored(a, v) => Stored(a, v)'
  BY StaysStored
<1>2. due \in [Account -> SUBSET Version]
  BY DEF Typed
<1>3. ASSUME due' = due PROVE PoliciesAreNewest'
  BY <1>1, <1>2, <1>3 DEF PoliciesAreNewest
<1>4. ASSUME UNCHANGED <<phase, policies, left>> PROVE CopyingPolicies'
  <2> SUFFICES ASSUME phase = "policies", NEW a \in Account, policies[a] # None, a \notin left
               PROVE  Stored(a, policies[a].version)'
    BY <1>4 DEF CopyingPolicies
  <2>1. policies[a].version \in Version /\ Stored(a, policies[a].version)
    BY CopiesPolicy DEF CopyingPolicies
  <2>2. blobs'[a] # None /\ blobs'[a].version >= policies[a].version
    BY <1>1, <2>1 DEF Stored
  <2> QED BY <1>4, <2>2 DEF Stored
<1>5. ASSUME Start \/ EndKeys \/ Abort \/ (\E k \in Key : CopyKey(k))
      PROVE  CopyingPolicies' /\ PoliciesAreNewest'
  <2>1. due' = due
    BY <1>5 DEF Start, EndKeys, Abort, CopyKey, Stop
  <2>2. CASE EndKeys
    BY <1>3, <2>1, <2>2 DEF EndKeys, CopyingPolicies, Present, Typed, PolicyTable
  <2>3. CASE ~EndKeys
    <3>1. phase' # "policies"
      BY <1>5, <2>3 DEF Start, Abort, CopyKey, Stop
    <3> QED BY <1>3, <2>1, <3>1 DEF CopyingPolicies
  <2> QED BY <2>2, <2>3
<1>6. ASSUME NEW a \in Account, CopyPolicy(a) PROVE CopyingPolicies' /\ PoliciesAreNewest'
  <2>1. /\ phase = "policies" /\ policies[a] # None /\ left' = left \ {a}
        /\ UNCHANGED <<phase, policies, due>>
    BY <1>6 DEF CopyPolicy, Typed
  <2>2. blobs'[a] # None /\ blobs'[a].version >= policies[a].version
    BY <1>6, <2>1, CopiesPolicy, PutNewer DEF CopyPolicy, Typed, Stored
  <2>3. ASSUME NEW x \in Account, policies[x] # None, x \notin left'
        PROVE  blobs'[x] # None /\ blobs'[x].version >= policies[x].version
    <3>1. CASE x = a
      BY <2>2, <3>1
    <3>2. CASE x # a
      <4>1. policies[x].version \in Version /\ Stored(x, policies[x].version)
        BY <2>1, <2>3, <3>2, CopiesPolicy DEF CopyingPolicies
      <4> QED BY <1>1, <4>1 DEF Stored
    <3> QED BY <3>1, <3>2
  <2> QED BY <1>3, <2>1, <2>3 DEF CopyingPolicies, Stored
<1>7. CASE End
  <2>1. phase = "policies" /\ left = {} /\ phase' = "done" /\ blobs' = blobs
    BY <1>7 DEF End, storeVars
  <2>2. ASSUME NEW a \in Account, NEW v \in due'[a] PROVE Stored(a, v)'
    <3>1. CASE v \in due[a]
      BY <1>1, <1>2, <3>1 DEF PoliciesAreNewest
    <3>2. CASE v \notin due[a]
      <4>1. policies[a] # None /\ v = policies[a].version
        BY <1>7, <2>2, <3>2 DEF End
      <4>2. Stored(a, v)
        BY <2>1, <4>1 DEF CopyingPolicies
      <4> QED BY <2>1, <4>2 DEF Stored
    <3> QED BY <3>1, <3>2
  <2> QED BY <2>1, <2>2 DEF CopyingPolicies, PoliciesAreNewest
<1>8. CASE OldRelay
  BY <1>3, <1>4, <1>8 DEF OldRelay
<1>9. CASE NewRelay
  <2>1. CopyingPolicies'
    BY <1>4, <1>9 DEF NewRelay
  <2>2. ASSUME NEW a \in Account, NEW v \in Version, NEW b \in Blob, PutPolicy(a, v, b),
               due' = [due EXCEPT ![a] = @ \cup {v}]
        PROVE  PoliciesAreNewest'
    <3>1. Stored(a, v)'
      BY <2>2, PutNewer DEF Typed
    <3>2. ASSUME NEW x \in Account, NEW w \in due'[x] PROVE Stored(x, w)'
      <4>1. w \in due[x] \/ (x = a /\ w = v)
        BY <1>2, <2>2, <3>2
      <4> QED BY <1>1, <1>2, <3>1, <4>1 DEF PoliciesAreNewest
    <3> QED BY <3>2 DEF PoliciesAreNewest
  <2> QED BY <1>3, <1>9, <2>1, <2>2, NewRelayPolicies
<1>10. CASE UNCHANGED vars
  BY <1>3, <1>4, <1>10 DEF vars, migVars
<1> QED BY <1>5, <1>6, <1>7, <1>8, <1>9, <1>10 DEF MigrateNext

\* Once a run has ended, the SQLite file has every policy that the run read, or
\* a newer one, and keeps it through later runs; what the new relay took is not
\* lost to a copy.
THEOREM PoliciesNewest == MigrateSpec => []PoliciesAreNewest
<1>1. MigrateInit => CopyingPolicies /\ PoliciesAreNewest
  BY DEF MigrateInit, CopyingPolicies, PoliciesAreNewest
<1> QED BY <1>1, InitTyped, NextTyped, NextNewest, PTL DEF MigrateSpec
=============================================================================
