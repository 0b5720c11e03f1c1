--------------------------- MODULE ControlProofs ---------------------------
(***************************************************************************)
(* Proofs about Control, for every number of connections, keys, accounts   *)
(* and messages, with or without failing statements and restarts.          *)
(***************************************************************************)
EXTENDS Control, SequenceTheorems, TLAPS

-----------------------------------------------------------------------------
(* Types, and what the checks at the top of the handlers have left.        *)

Results == Errors \cup {"none", "unknown op", "not controlled", "incomplete",
                        "key not found"}

\* A handler that calls the store has a message that was not refused, and only
\* register_key makes a second call.
Checked ==
    \A c \in Conn :
        /\ at[c] = "idle" <=> msg[c] = None
        /\ at[c] \in {"call", "origins"} => Refusal(c, msg[c]) = "none"
        /\ at[c] = "origins" => msg[c].op = "register_key"

Typed ==
    /\ ControlTypeOK
    /\ idx \in [Conn -> Nat]
    /\ result \in [Conn -> Results]
    /\ Checked

\* None is nothing that the tables hold, and versions can be compared.
LEMMA NoneIsNoValue ==
    /\ None \notin Key /\ None \notin Hash /\ None \notin Row /\ None \notin Policy
    /\ Version \subseteq Int
BY StoreAssumption

\* The accounts of a connection are a non-empty list; the loop starts at 1.
LEMMA AccountList ==
    ASSUME NEW c \in Conn
    PROVE  /\ AccountsOf[c] \in Seq(Account)
           /\ Len(AccountsOf[c]) \in Nat
           /\ DOMAIN AccountsOf[c] = 1..Len(AccountsOf[c])
           /\ 1 \in DOMAIN AccountsOf[c]
           /\ \A i \in DOMAIN AccountsOf[c] :
                AccountsOf[c][i] \in Account /\ Controls(c, AccountsOf[c][i])
<1>1. AccountsOf[c] \in Seq(Account) /\ AccountsOf[c] # <<>>
  BY ControlAssumption
<1>2. /\ Len(AccountsOf[c]) \in Nat
      /\ DOMAIN AccountsOf[c] = 1..Len(AccountsOf[c])
      /\ Len(AccountsOf[c]) # 0
  BY <1>1, LenProperties, EmptySeq
<1>3. \A i \in 1..Len(AccountsOf[c]) : AccountsOf[c][i] \in Account
  BY <1>1, ElementOfSeq
<1> QED BY <1>1, <1>2, <1>3 DEF Controls, Range

\* What the checks of a message that was not refused have established.
LEMMA NotRefused ==
    ASSUME NEW c \in Conn, NEW m \in Message, Refusal(c, m) = "none"
    PROVE  /\ m.account \in Account /\ m.origins \subseteq Origin
           /\ m.version \in Version /\ m.blob \in Blob
           /\ m.op # "revoke_key" => Controls(c, m.account)
           /\ m.op \in {"register_key", "rebind_key", "update_origins", "revoke_key"}
                => m.key \in Key
           /\ m.op = "register_key" => m.hash \in Hash
<1>1. m \in Messages
  BY ControlAssumption
<1> QED BY <1>1, NoneIsNoValue DEF Messages, Refusal, Ops

\* A refusal is no reply of the store.
LEMMA RefusalIsNoReply ==
    ASSUME NEW c, NEW m
    PROVE  Refusal(c, m) \in {"unknown op", "not controlled", "incomplete", "key not found",
                              "none"}
BY DEF Refusal

\* The statements keep the types of the tables.
LEMMA StatementTypes ==
    ASSUME ControlTypeOK, NEW c \in Conn, NEW m \in Message, Refusal(c, m) = "none",
           NEW old \in Account
    PROVE  LET Typed2 == /\ rows' \in [Key -> Row \cup {None}]
                         /\ blobs' \in [Account -> Policy \cup {None}]
                         /\ reply'.err \in Errors
           IN  /\ m.op = "register_key" /\ RegisterAPIKey(m.key, m.account, m.hash) => Typed2
               /\ m.op = "rebind_key" /\ RebindAPIKey(m.key, old, m.account) => Typed2
               /\ m.op = "revoke_key" /\ RevokeAPIKey(old, m.key) => Typed2
               /\ m.op \in {"register_key", "update_origins"}
                    /\ UpdateKeyOrigins(m.key, m.account, m.origins) => Typed2
               /\ m.op = "put_policy" /\ PutPolicy(m.account, m.version, m.blob) => Typed2
               /\ m.op = "get_policy" /\ GetPolicy(m.account) => Typed2
               /\ Fails => Typed2
<1> DEFINE Typed2 == /\ rows' \in [Key -> Row \cup {None}]
                     /\ blobs' \in [Account -> Policy \cup {None}]
                     /\ reply'.err \in Errors
<1>0. /\ m.account \in Account /\ m.origins \in SUBSET Origin
      /\ m.version \in Version /\ m.blob \in Blob
      /\ m.op \in {"register_key", "rebind_key", "update_origins", "revoke_key"}
           => m.key \in Key
      /\ m.op = "register_key" => m.hash \in Hash
  BY NotRefused
<1> USE DEF ControlTypeOK, Reply, Errors
<1>1. ASSUME m.op = "register_key", RegisterAPIKey(m.key, m.account, m.hash) PROVE Typed2
  <2>1. rows[m.key] # None => rows[m.key].origins \in SUBSET Origin
    BY <1>0, <1>1 DEF Row
  <2>2. [owner |-> m.account, hash |-> m.hash,
         origins |-> IF rows[m.key] = None THEN {} ELSE rows[m.key].origins] \in Row
    BY <1>0, <1>1, <2>1 DEF Row
  <2>3. CASE rows' = rows /\ reply' = Reply("constraint", None)
    BY <1>1, <2>3 DEF RegisterAPIKey
  <2>4. CASE /\ reply' = Reply("ok", None)
             /\ \E row \in Row : rows' = [rows EXCEPT ![m.key] = row]
    <3>1. PICK row \in Row : rows' = [rows EXCEPT ![m.key] = row]
      BY <2>4
    <3>2. rows' \in [Key -> Row \cup {None}]
      BY <3>1
    <3>3. blobs' = blobs
      BY <1>1 DEF RegisterAPIKey
    <3>4. reply'.err = "ok"
      BY <2>4
    <3> QED BY <3>2, <3>3, <3>4
  <2> QED BY <1>0, <1>1, <2>2, <2>3, <2>4 DEF RegisterAPIKey
<1>2. ASSUME NEW id \in Key, NEW a \in Account, NEW row \in Row \cup {None},
             IfOwned(id, a, row), UNCHANGED blobs
      PROVE  Typed2
  <2>1. CASE rows' = [rows EXCEPT ![id] = row] /\ reply' = Reply("ok", None)
    BY <1>2, <2>1
  <2>2. CASE rows' = rows /\ reply' = Reply("not found", None)
    BY <1>2, <2>2
  <2> QED BY <1>2, <2>1, <2>2 DEF IfOwned
<1>3. ASSUME m.op = "rebind_key", RebindAPIKey(m.key, old, m.account) PROVE Typed2
  <2>1. CASE rows[m.key] \in Row
    <3>1. [rows[m.key] EXCEPT !.owner = m.account] \in Row
      BY <1>0, <1>3, <2>1 DEF Row
    <3> QED BY <1>0, <1>2, <1>3, <3>1 DEF RebindAPIKey
  <2>2. CASE rows[m.key] = None
    <3>1. rows' = rows /\ reply' = Reply("not found", None) /\ blobs' = blobs
      BY <1>3, <2>2, Zenon DEF RebindAPIKey, IfOwned
    <3> QED BY <3>1
  <2> QED BY <1>0, <1>3, <2>1, <2>2
<1>4. ASSUME m.op = "revoke_key", RevokeAPIKey(old, m.key) PROVE Typed2
  BY <1>0, <1>2, <1>4 DEF RevokeAPIKey
<1>5. ASSUME m.op \in {"register_key", "update_origins"},
             UpdateKeyOrigins(m.key, m.account, m.origins)
      PROVE  Typed2
  <2>1. CASE rows[m.key] \in Row
    <3>1. [rows[m.key] EXCEPT !.origins = m.origins] \in Row
      BY <1>0, <1>5, <2>1 DEF Row
    <3> QED BY <1>0, <1>2, <1>5, <3>1 DEF UpdateKeyOrigins
  <2>2. CASE rows[m.key] = None
    <3>1. rows' = rows /\ reply' = Reply("not found", None) /\ blobs' = blobs
      BY <1>5, <2>2, Zenon DEF UpdateKeyOrigins, IfOwned
    <3> QED BY <3>1
  <2> QED BY <1>0, <1>5, <2>1, <2>2
<1>6. ASSUME m.op = "put_policy", PutPolicy(m.account, m.version, m.blob) PROVE Typed2
  <2>1. [version |-> m.version, blob |-> m.blob] \in Policy
    BY <1>0 DEF Policy
  <2> QED BY <1>0, <1>6, <2>1 DEF PutPolicy
<1>7. ASSUME GetPolicy(m.account) PROVE Typed2
  BY <1>7 DEF GetPolicy
<1>8. ASSUME Fails PROVE Typed2
  BY <1>8 DEF Fails
<1> HIDE DEF Typed2
<1> QED BY <1>1, <1>3, <1>4, <1>5, <1>6, <1>7, <1>8 DEF Typed2

\* The tables are typed after a statement.
TablesTyped ==
    /\ rows \in [Key -> Row \cup {None}]
    /\ blobs \in [Account -> Policy \cup {None}]
    /\ reply.err \in Errors

\* Each call of the store that a handler makes keeps the types of the tables.
LEMMA HandlerTables ==
    ASSUME Typed, NEW c \in Conn, HandlerStep(c)
    PROVE  TablesTyped'
<1> DEFINE m == msg[c]
           old == AccountsOf[c][idx[c]]
<1>1. CASE at[c] = "reply"
  BY <1>1 DEF HandlerStep, RegisterKey, RegisterOrigins, RebindKey, RevokeKey, UpdateOrigins,
     PutPolicyOp, GetPolicyOp, Calling, SendReply, storeVars, TablesTyped, Typed, ControlTypeOK
<1>2. CASE at[c] \in {"call", "origins"}
  <2>1. m \in Message /\ Refusal(c, m) = "none" /\ old \in Account
    BY <1>2, AccountList DEF Typed, ControlTypeOK, Checked
  <2>2. at[c] = "origins" => m.op = "register_key"
    BY <1>2 DEF Typed, Checked
  <2>3. \/ m.op = "register_key" /\ RegisterAPIKey(m.key, m.account, m.hash)
        \/ m.op = "rebind_key" /\ RebindAPIKey(m.key, old, m.account)
        \/ m.op = "revoke_key" /\ RevokeAPIKey(old, m.key)
        \/ m.op \in {"register_key", "update_origins"}
             /\ UpdateKeyOrigins(m.key, m.account, m.origins)
        \/ m.op = "put_policy" /\ PutPolicy(m.account, m.version, m.blob)
        \/ m.op = "get_policy" /\ GetPolicy(m.account)
        \/ Fails
    BY <1>2, <2>2 DEF HandlerStep, RegisterKey, RegisterOrigins, RebindKey, RevokeKey,
       UpdateOrigins, PutPolicyOp, GetPolicyOp, Calling, SendReply
  <2> HIDE DEF m, old
  <2>4. ControlTypeOK
    BY DEF Typed
  <2> QED BY <2>1, <2>3, <2>4, StatementTypes DEF TablesTyped
<1>3. CASE at[c] = "idle"
  BY <1>3 DEF HandlerStep, RegisterKey, RegisterOrigins, RebindKey, RevokeKey, UpdateOrigins,
     PutPolicyOp, GetPolicyOp, Calling, SendReply
<1> QED BY <1>1, <1>2, <1>3 DEF Typed, ControlTypeOK

\* Devices are told of versions.
LEMMA ToldTyped ==
    ASSUME Typed, NEW c, Observe(c)
    PROVE  told' \in [Account -> SUBSET Version]
<1>1. told \in [Account -> SUBSET Version]
  BY DEF Typed, ControlTypeOK
<1>2. CASE c \in Conn /\ at[c] = "reply"
  <2>1. msg[c] \in Message
    BY <1>2 DEF Typed, ControlTypeOK, Checked
  <2>2. msg[c].account \in Account /\ msg[c].version \in Version
    BY <2>1, ControlAssumption DEF Messages
  <2>3. Tells(c) \in SUBSET Version
    BY <1>2, <2>2 DEF Tells, Typed, ControlTypeOK
  <2>4. told' = [told EXCEPT ![msg[c].account] = @ \cup Tells(c)]
    BY <1>2 DEF Observe
  <2>5. told[msg[c].account] \cup Tells(c) \in SUBSET Version
    BY <1>1, <2>2, <2>3
  <2> QED BY <1>1, <2>4, <2>5
<1>3. CASE ~(c \in Conn /\ at[c] = "reply")
  BY <1>1, <1>3 DEF Observe
<1> QED BY <1>2, <1>3

\* What get_policy shows is a version.
LEMMA ShownTyped ==
    ASSUME Typed, NEW c \in Conn, GetPolicyOp(c)
    PROVE  (IF reply'.val = None THEN {} ELSE {reply'.val.version}) \in SUBSET Version
<1>1. msg[c] \in Message
  BY DEF GetPolicyOp, Calling, Typed, ControlTypeOK, Checked
<1>2. blobs[msg[c].account] \in Policy \cup {None}
  BY <1>1, ControlAssumption DEF Messages, Typed, ControlTypeOK
<1>3. reply'.val \in Policy \cup {None}
  BY <1>2 DEF GetPolicyOp, GetPolicy, Fails, Reply
<1> QED BY <1>3 DEF Policy

\* A handler that has its answer is typed.
LEMMA AnswerTyped ==
    ASSUME Typed, TablesTyped', NEW c \in Conn, at[c] # "idle", NEW err \in Results,
           NEW vs \in SUBSET Version, Answer(c, err, vs),
           told' \in [Account -> SUBSET Version]
    PROVE  Typed'
<1>1. ControlTypeOK'
  BY DEF Typed, ControlTypeOK, TablesTyped, Answer
<1>2. idx' \in [Conn -> Nat] /\ result' \in [Conn -> Results]
  BY DEF Typed, Answer
<1>3. Checked'
  BY DEF Typed, ControlTypeOK, Checked, Answer
<1> QED BY <1>1, <1>2, <1>3 DEF Typed

\* Every step keeps the types and what the checks of handleControl ensured.
LEMMA NextTyped == Typed /\ [ControlNext]_vars => Typed'
<1> SUFFICES ASSUME Typed, [ControlNext]_vars PROVE Typed'
  OBVIOUS
<1>1. ASSUME NEW c \in Conn, NEW m \in Message, Receive(c, m) PROVE Typed'
  <2>1. m # None
    BY ControlAssumption
  <2>2. 1 \in DOMAIN AccountsOf[c] /\ Refusal(c, m) \in Results
    BY AccountList, RefusalIsNoReply DEF Results
  <2>3. ControlTypeOK'
    BY <1>1, <2>2, ToldTyped DEF Receive, Typed, ControlTypeOK, storeVars
  <2>4. Checked'
    BY <1>1, <2>1 DEF Receive, Typed, ControlTypeOK, Checked
  <2> QED BY <1>1, <2>2, <2>3, <2>4 DEF Receive, Typed
<1>2. ASSUME NEW c \in Conn, SendReply(c) PROVE Typed'
  <2>1. 1 \in DOMAIN AccountsOf[c] /\ "none" \in Results
    BY AccountList DEF Results
  <2>2. ControlTypeOK'
    BY <1>2, <2>1, ToldTyped DEF SendReply, Typed, ControlTypeOK, storeVars
  <2>3. Checked'
    BY <1>2 DEF SendReply, Typed, ControlTypeOK, Checked
  <2> QED BY <1>2, <2>1, <2>2, <2>3 DEF SendReply, Typed
<1>3. ASSUME Restart PROVE Typed'
  <2>1. \A c \in Conn : 1 \in DOMAIN AccountsOf[c]
    BY AccountList
  <2>2. ControlTypeOK'
    BY <1>3, <2>1, ToldTyped DEF Restart, Typed, ControlTypeOK, storeVars
  <2>3. Checked'
    BY <1>3 DEF Restart, Checked
  <2> QED BY <1>3, <2>2, <2>3 DEF Restart, Typed, Results
<1>4. ASSUME NEW c \in Conn,
             RegisterKey(c) \/ RegisterOrigins(c) \/ RebindKey(c) \/ RevokeKey(c)
               \/ UpdateOrigins(c) \/ PutPolicyOp(c) \/ GetPolicyOp(c)
      PROVE  Typed'
  <2>1. TablesTyped'
    BY <1>4, HandlerTables DEF HandlerStep
  <2>2. /\ at[c] \in {"call", "origins"}
        /\ reply'.err \in Results /\ "ok" \in Results /\ "key not found" \in Results
    BY <1>4, <2>1 DEF RegisterKey, RegisterOrigins, RebindKey, RevokeKey, UpdateOrigins,
       PutPolicyOp, GetPolicyOp, Calling, TablesTyped, Results, Errors
  <2>0. told' \in [Account -> SUBSET Version]
    BY <1>4, ToldTyped DEF RegisterKey, RegisterOrigins, RebindKey, RevokeKey, UpdateOrigins,
       PutPolicyOp, GetPolicyOp
  <2>3. CASE \E err \in Results, vs \in SUBSET Version : Answer(c, err, vs)
    BY <2>0, <2>1, <2>2, <2>3, AnswerTyped
  <2>4. CASE RegisterKey(c) /\ at' = [at EXCEPT ![c] = "origins"]
             /\ UNCHANGED <<msg, idx, result, shown>>
    <3>1. ControlTypeOK'
      BY <2>0, <2>1, <2>4 DEF Typed, ControlTypeOK, TablesTyped
    <3>2. Checked'
      BY <2>4 DEF RegisterKey, Calling, Typed, ControlTypeOK, Checked
    <3> QED BY <2>4, <3>1, <3>2 DEF Typed
  <2>5. CASE /\ idx[c] # Len(AccountsOf[c]) /\ idx' = [idx EXCEPT ![c] = @ + 1]
             /\ UNCHANGED <<at, msg, result, shown>>
    <3>1. /\ idx[c] \in Nat /\ Len(AccountsOf[c]) \in Nat
          /\ DOMAIN AccountsOf[c] = 1..Len(AccountsOf[c]) /\ idx[c] \in DOMAIN AccountsOf[c]
      BY AccountList DEF Typed, ControlTypeOK
    <3>2. idx[c] + 1 \in DOMAIN AccountsOf[c]
      BY <2>5, <3>1
    <3>3. idx' \in [Conn -> Nat] /\ \A d \in Conn : idx'[d] \in DOMAIN AccountsOf[d]
      BY <2>5, <3>1, <3>2 DEF Typed, ControlTypeOK
    <3>4. ControlTypeOK'
      BY <2>0, <2>1, <2>5, <3>3 DEF Typed, ControlTypeOK, TablesTyped
    <3>5. Checked'
      BY <2>5 DEF Typed, Checked
    <3> QED BY <2>5, <3>3, <3>4, <3>5 DEF Typed
  <2>6. CASE GetPolicyOp(c)
    BY <2>2, <2>3, <2>6, ShownTyped DEF GetPolicyOp
  <2> QED BY <1>4, <2>2, <2>3, <2>4, <2>5, <2>6
          DEF RegisterKey, RegisterOrigins, RebindKey, RevokeKey, UpdateOrigins, PutPolicyOp,
              LoopStep, Finish
<1>5. CASE UNCHANGED vars
  BY <1>5 DEF vars, ctlVars, storeVars, Typed, ControlTypeOK, Checked
<1> QED BY <1>1, <1>2, <1>3, <1>4, <1>5 DEF ControlNext, HandlerStep

\* The relay starts with empty tables and idle handlers.
LEMMA InitTyped == ControlInit => Typed
<1>1. \A c \in Conn : 1 \in DOMAIN AccountsOf[c]
  BY AccountList
<1> QED BY <1>1 DEF ControlInit, Init, Reply, Errors, Results, Typed, ControlTypeOK, Checked

\* The tables and the handlers have the types of the SQL and Go values.
THEOREM TypeCorrect == ControlSpec => []ControlTypeOK
<1>1. Typed => ControlTypeOK
  BY DEF Typed
<1> QED BY <1>1, InitTyped, NextTyped, PTL DEF ControlSpec

-----------------------------------------------------------------------------
(* Who may change a key.                                                   *)

\* A statement on the row of id that its owner was looked up for changes that
\* row only, and only if it was the owner's.
LEMMA IfOwnedChanges ==
    ASSUME ControlTypeOK, NEW id \in Key, NEW owner, NEW row, IfOwned(id, owner, row),
           NEW k \in Key, rows'[k] # rows[k]
    PROVE  k = id /\ rows[k] # None /\ rows[k].owner = owner /\ rows'[k] = row
<1>1. rows' = [rows EXCEPT ![id] = row] /\ rows[id] # None /\ rows[id].owner = owner
  BY DEF IfOwned
<1> QED BY <1>1 DEF ControlTypeOK

\* The same for a registration, which changes the row of its key only.
LEMMA RegisterChanges ==
    ASSUME ControlTypeOK, NEW id \in Key, NEW owner \in Account, NEW h \in Hash,
           RegisterAPIKey(id, owner, h), NEW k \in Key, rows'[k] # rows[k]
    PROVE  k = id /\ rows'[k] # None /\ rows'[k].owner = owner /\ rows'[k].hash = h
<1>1. rows' = [rows EXCEPT ![id] =
                 [owner |-> owner, hash |-> h,
                  origins |-> IF rows[id] = None THEN {} ELSE rows[id].origins]]
  BY DEF RegisterAPIKey
<1>2. k = id
  BY <1>1 DEF ControlTypeOK
<1>3. rows'[k] = [owner |-> owner, hash |-> h,
                  origins |-> IF rows[id] = None THEN {} ELSE rows[id].origins]
  BY <1>1, <1>2 DEF ControlTypeOK
<1>4. (IF rows[id] = None THEN {} ELSE rows[id].origins) \in SUBSET Origin
  BY DEF ControlTypeOK, Row
<1>5. rows'[k] \in Row
  BY <1>3, <1>4 DEF Row
<1> QED BY <1>2, <1>3, <1>5, NoneIsNoValue

\* Only the handler of a message for the key changes its row, for an account
\* that its connection proved, and but for a registration the row was one of
\* that connection's.
LEMMA CallAuthorised ==
    ASSUME Typed, NEW c \in Conn, HandlerStep(c), NEW k \in Key, rows'[k] # rows[k]
    PROVE  /\ at[c] \in {"call", "origins"} /\ at'[c] # "idle" /\ msg[c].key = k
           /\ rows'[k] # None => Controls(c, rows'[k].owner)
           /\ rows'[k] = None \/ msg[c].op # "register_key" => OwnedBy(c, k, rows)
<1> DEFINE m == msg[c]
           old == AccountsOf[c][idx[c]]
<1>0. ControlTypeOK /\ None \notin Row
  BY NoneIsNoValue DEF Typed
<1>1. /\ at[c] \in {"call", "origins"}
      /\ RegisterKey(c) \/ RegisterOrigins(c) \/ RebindKey(c) \/ RevokeKey(c) \/ UpdateOrigins(c)
  BY DEF HandlerStep, RegisterKey, RegisterOrigins, RebindKey, RevokeKey, UpdateOrigins,
     PutPolicyOp, PutPolicy, GetPolicyOp, GetPolicy, Fails, SendReply, storeVars, Calling
<1>2. at'[c] # "idle"
  BY <1>1 DEF RegisterKey, RegisterOrigins, RebindKey, RevokeKey, UpdateOrigins,
     Calling, Finish, Answer, LoopStep, Typed, ControlTypeOK
<1>3. m \in Message /\ Refusal(c, m) = "none" /\ Controls(c, old)
  BY <1>1, AccountList DEF Typed, ControlTypeOK, Checked
<1>4. /\ m.op # "revoke_key" => Controls(c, m.account)
      /\ m.op \in {"register_key", "rebind_key", "update_origins", "revoke_key"}
           => m.key \in Key
      /\ m.op = "register_key" => m.hash \in Hash
      /\ m.account \in Account
      /\ at[c] = "origins" => m.op = "register_key"
  BY <1>1, <1>3, NotRefused DEF Typed, Checked
<1>5. \/ m.op = "register_key" /\ RegisterAPIKey(m.key, m.account, m.hash)
      \/ m.op = "rebind_key" /\ IfOwned(m.key, old, [rows[m.key] EXCEPT !.owner = m.account])
      \/ m.op = "revoke_key" /\ IfOwned(m.key, old, None)
      \/ /\ m.op \in {"register_key", "update_origins"}
         /\ IfOwned(m.key, m.account, [rows[m.key] EXCEPT !.origins = m.origins])
  BY <1>1, <1>4, Zenon DEF RegisterKey, RegisterOrigins, RebindKey, RevokeKey, UpdateOrigins, Calling,
     Fails, RebindAPIKey, RevokeAPIKey, UpdateKeyOrigins
<1> HIDE DEF m, old
<1>6. ASSUME m.op = "register_key", RegisterAPIKey(m.key, m.account, m.hash)
      PROVE  m.key = k /\ rows'[k] # None /\ rows'[k].owner = m.account
  BY <1>0, <1>4, <1>6, RegisterChanges
<1>7. ASSUME m.op = "rebind_key", IfOwned(m.key, old, [rows[m.key] EXCEPT !.owner = m.account])
      PROVE  m.key = k /\ OwnedBy(c, k, rows) /\ rows'[k].owner = m.account
  <2>1. /\ m.key = k /\ rows[k] # None /\ rows[k].owner = old
        /\ rows'[k] = [rows[m.key] EXCEPT !.owner = m.account]
    BY <1>0, <1>4, <1>7, IfOwnedChanges
  <2>2. rows[k] \in Row
    BY <1>0, <2>1 DEF ControlTypeOK
  <2> QED BY <1>3, <2>1, <2>2 DEF OwnedBy, Row
<1>8. ASSUME m.op = "revoke_key", IfOwned(m.key, old, None)
      PROVE  m.key = k /\ OwnedBy(c, k, rows) /\ rows'[k] = None
  BY <1>0, <1>3, <1>4, <1>8, IfOwnedChanges DEF OwnedBy
<1>9. ASSUME m.op \in {"register_key", "update_origins"},
             IfOwned(m.key, m.account, [rows[m.key] EXCEPT !.origins = m.origins])
      PROVE  m.key = k /\ OwnedBy(c, k, rows) /\ rows'[k].owner = m.account
  <2>1. /\ m.key = k /\ rows[k] # None /\ rows[k].owner = m.account
        /\ rows'[k] = [rows[m.key] EXCEPT !.origins = m.origins]
    BY <1>0, <1>4, <1>9, IfOwnedChanges
  <2>2. rows[k] \in Row
    BY <1>0, <2>1 DEF ControlTypeOK
  <2> QED BY <1>4, <1>9, <2>1, <2>2 DEF OwnedBy, Row
<1>10. \/ m.op = "register_key" /\ m.key = k /\ rows'[k] # None /\ rows'[k].owner = m.account
       \/ m.op = "rebind_key" /\ m.key = k /\ OwnedBy(c, k, rows) /\ rows'[k].owner = m.account
       \/ m.key = k /\ OwnedBy(c, k, rows) /\ rows'[k] = None
       \/ /\ m.op \in {"register_key", "update_origins"}
          /\ m.key = k /\ OwnedBy(c, k, rows) /\ rows'[k].owner = m.account
  BY <1>5, <1>6, <1>7, <1>8, <1>9
<1> QED BY <1>1, <1>2, <1>4, <1>10 DEF m

\* A row changes only on behalf of a connection that handles a message for that
\* key, that proved the account the key goes to and, unless it registers the
\* key, the account it had: the checks of handleControl are still good when the
\* store is called, whatever the other connections did in between.
THEOREM Authorised == ControlSpec => ChangesAreAuthorised
<1>1. Typed /\ [ControlNext]_vars =>
        [\A k \in Key : rows'[k] # rows[k] =>
           \E c \in Conn :
               /\ at[c] \in {"call", "origins"} /\ at'[c] # "idle" /\ msg[c].key = k
               /\ rows'[k] # None => Controls(c, rows'[k].owner)
               /\ rows'[k] = None \/ msg[c].op # "register_key" => OwnedBy(c, k, rows)
        ]_vars
  <2> SUFFICES ASSUME Typed, ControlNext, NEW k \in Key, rows'[k] # rows[k]
               PROVE  \E c \in Conn :
                        /\ at[c] \in {"call", "origins"} /\ at'[c] # "idle" /\ msg[c].key = k
                        /\ rows'[k] # None => Controls(c, rows'[k].owner)
                        /\ rows'[k] = None \/ msg[c].op # "register_key" => OwnedBy(c, k, rows)
    OBVIOUS
  <2>1. PICK c \in Conn : HandlerStep(c)
    BY DEF ControlNext, Receive, Restart, storeVars
  <2> QED BY <2>1, CallAuthorised
<1> QED BY <1>1, InitTyped, NextTyped, PTL DEF ControlSpec, ChangesAreAuthorised

-----------------------------------------------------------------------------
(* The backup of the policy.                                               *)

\* The only statement that changes the policy of an account is a put of a
\* newer version, or the first one.
LEMMA CallPolicy ==
    ASSUME Typed, NEW c \in Conn, HandlerStep(c)
    PROVE  \/ blobs' = blobs
           \/ LET m == msg[c]
                  p == [version |-> m.version, blob |-> m.blob]
              IN  /\ m.account \in Account /\ p \in Policy
                  /\ blobs' = [blobs EXCEPT ![m.account] = p]
                  /\ blobs[m.account] = None \/ m.version > blobs[m.account].version
<1> DEFINE m == msg[c]
           p == [version |-> m.version, blob |-> m.blob]
<1>1. CASE at[c] = "call" /\ m.op = "put_policy" /\ PutPolicy(m.account, m.version, m.blob)
  <2>1. m \in Message /\ Refusal(c, m) = "none"
    BY <1>1 DEF Typed, ControlTypeOK, Checked
  <2>2. m.account \in Account /\ m.version \in Version /\ m.blob \in Blob
    BY <2>1, NotRefused
  <2>3. p \in Policy
    BY <2>2 DEF Policy
  <2> QED BY <1>1, <2>2, <2>3 DEF PutPolicy
<1>2. CASE blobs' = blobs
  BY <1>2
<1> QED BY <1>1, <1>2 DEF HandlerStep, RegisterKey, RegisterOrigins, RebindKey, RevokeKey,
        UpdateOrigins, PutPolicyOp, GetPolicyOp, SendReply, Calling, Fails, RegisterAPIKey,
        RebindAPIKey, RevokeAPIKey, UpdateKeyOrigins, GetPolicy, storeVars

\* What an account has stored stays or is replaced by a newer version.
LEMMA StepPolicy ==
    ASSUME Typed, [ControlNext]_vars, NEW a \in Account, blobs[a] # None
    PROVE  blobs'[a] = blobs[a] \/ (blobs'[a] # None /\ blobs'[a].version > blobs[a].version)
<1>1. CASE blobs' = blobs
  BY <1>1
<1>2. CASE \E c \in Conn : HandlerStep(c)
  <2>1. PICK c \in Conn : HandlerStep(c)
    BY <1>2
  <2> DEFINE m == msg[c]
             p == [version |-> m.version, blob |-> m.blob]
  <2>2. CASE /\ m.account \in Account /\ p \in Policy
             /\ blobs' = [blobs EXCEPT ![m.account] = p]
             /\ blobs[m.account] = None \/ m.version > blobs[m.account].version
    <3>1. CASE a = m.account
      <4>1. blobs'[a] = p /\ p.version = m.version /\ m.version > blobs[a].version
        BY <2>2, <3>1 DEF Typed, ControlTypeOK
      <4>2. blobs'[a] # None
        BY <2>2, <4>1, NoneIsNoValue
      <4> QED BY <4>1, <4>2
    <3>2. CASE a # m.account
      BY <2>2, <3>2 DEF Typed, ControlTypeOK
    <3> QED BY <3>1, <3>2
  <2> QED BY <1>1, <2>1, <2>2, CallPolicy
<1> QED BY <1>1, <1>2 DEF ControlNext, Receive, Restart, storeVars, vars

-----------------------------------------------------------------------------
(* What a step means to the handlers of the other connections.             *)

\* The read loop of c takes a step.
StepOf(c) == (\E m \in Message : Receive(c, m)) \/ HandlerStep(c)

\* A step of one connection leaves the handlers of the others alone.
LEMMA OtherHandlers ==
    ASSUME Typed, NEW c \in Conn, StepOf(c), NEW d \in Conn, d # c
    PROVE  /\ at'[d] = at[d] /\ msg'[d] = msg[d] /\ idx'[d] = idx[d]
           /\ result'[d] = result[d] /\ shown'[d] = shown[d]
BY DEF StepOf, HandlerStep, Receive, RegisterKey, RegisterOrigins, RebindKey, RevokeKey,
   UpdateOrigins, PutPolicyOp, GetPolicyOp, SendReply, LoopStep, Finish, Answer, Typed, ControlTypeOK

\* Every step of a connection is observed.
LEMMA Observed == ASSUME NEW c, StepOf(c) PROVE Observe(c)
BY DEF StepOf, HandlerStep, Receive, RegisterKey, RegisterOrigins, RebindKey, RevokeKey,
   UpdateOrigins, PutPolicyOp, GetPolicyOp, SendReply

\* A message that is refused is not answered "ok", and "key not found" only if
\* it names no key.
LEMMA ReceiveRefuses ==
    ASSUME Typed, NEW c \in Conn, NEW m \in Message, Receive(c, m)
    PROVE  /\ result'[c] # "ok" /\ msg'[c] = m
           /\ at'[c] \in {"call", "reply"}
           /\ at'[c] = "reply" /\ result'[c] = "key not found" => m.key = None
<1>1. /\ result'[c] = Refusal(c, m) /\ msg'[c] = m
      /\ at'[c] = IF Refusal(c, m) = "none" THEN "call" ELSE "reply"
  BY DEF Receive, Typed, ControlTypeOK
<1>2. Refusal(c, m) # "ok"
  BY RefusalIsNoReply
<1>3. Refusal(c, m) = "key not found" => m.key = None
  BY DEF Refusal
<1> QED BY <1>1, <1>2, <1>3

\* What it takes for a key to count as ours all along.
LEMMA ObserveOwned ==
    ASSUME NEW c, Observe(c), NEW d \in Conn, owned'[d]
    PROVE  /\ msg'[d] # None /\ msg'[d].key # None
           /\ at[d] = "idle" \/ owned[d]
           /\ OwnedBy(d, msg'[d].key, rows')
BY Zenon DEF Observe

\* What it takes for a handler not to be disturbed.
LEMMA ObserveDisturbed ==
    ASSUME NEW c, Observe(c), NEW d \in Conn, ~disturbed'[d], msg'[d] # None,
           msg'[d].key # None
    PROVE  /\ at[d] # "idle" => ~disturbed[d]
           /\ d # c => rows'[msg'[d].key] = rows[msg'[d].key]
           /\ d = c /\ at[d] \in {"call", "origins"} => reply'.err # "failed"
BY Zenon DEF Observe

\* What was stored stays, or is replaced by something newer.
LEMMA StaysStored ==
    ASSUME Typed, [ControlNext]_vars, NEW a \in Account, NEW v \in Version, Stored(a, v)
    PROVE  Stored(a, v)'
<1>1. blobs[a] # None /\ blobs[a].version >= v
  BY DEF Stored
<1>2. v \in Int /\ blobs[a].version \in Int
  BY <1>1, NoneIsNoValue DEF Typed, ControlTypeOK, Policy
<1>3. blobs'[a] = blobs[a] \/ (blobs'[a] # None /\ blobs'[a].version > blobs[a].version)
  BY <1>1, StepPolicy
<1>4. Typed'
  BY NextTyped
<1>5. blobs'[a] # None => blobs'[a].version \in Int
  BY <1>4, NoneIsNoValue DEF Typed, ControlTypeOK, Policy
<1> QED BY <1>1, <1>2, <1>3, <1>5 DEF Stored

\* What a reply is about to tell is already stored.
ReplyIsStored ==
    \A c \in Conn :
        at[c] = "reply" => \A v \in Tells(c) : Stored(msg[c].account, v)

\* The types that StaysStored needs of a reply.
LEMMA TellsVersions ==
    ASSUME Typed, NEW c \in Conn, at[c] = "reply"
    PROVE  msg[c].account \in Account /\ Tells(c) \subseteq Version
<1>1. msg[c] \in Message
  BY DEF Typed, ControlTypeOK, Checked
<1>2. msg[c].account \in Account /\ msg[c].version \in Version
  BY <1>1, ControlAssumption DEF Messages
<1> QED BY <1>2 DEF Tells, Typed, ControlTypeOK

\* A put that the store accepted left its version or found a newer one.
LEMMA PutIsStored ==
    ASSUME Typed, NEW d \in Conn, PutPolicyOp(d), reply'.err = "ok"
    PROVE  Stored(msg[d].account, msg[d].version)'
<1> DEFINE m == msg[d]
           p == [version |-> m.version, blob |-> m.blob]
<1>1. at[d] = "call" /\ msg'[d] = msg[d] /\ PutPolicy(m.account, m.version, m.blob)
  BY DEF PutPolicyOp, Calling, Finish, Answer, Fails, Reply
<1>2. m \in Message /\ Refusal(d, m) = "none"
  BY <1>1 DEF Typed, ControlTypeOK, Checked
<1>3. m.account \in Account /\ m.version \in Version /\ m.blob \in Blob /\ m.version \in Int
  BY <1>2, NotRefused, NoneIsNoValue
<1>4. p \in Policy /\ p # None
  BY <1>3, NoneIsNoValue DEF Policy
<1>5. CASE blobs' = [blobs EXCEPT ![m.account] = p]
  <2>1. blobs'[m.account] = p
    BY <1>3, <1>5 DEF Typed, ControlTypeOK
  <2> QED BY <1>1, <1>3, <1>4, <2>1 DEF Stored
<1>6. CASE blobs' = blobs /\ blobs[m.account] # None /\ ~(m.version > blobs[m.account].version)
  <2>1. blobs[m.account].version \in Int
    BY <1>3, <1>6, NoneIsNoValue DEF Typed, ControlTypeOK, Policy
  <2> QED BY <1>1, <1>3, <1>6, <2>1 DEF Stored
<1> QED BY <1>1, <1>5, <1>6 DEF PutPolicy

\* A policy that was found is stored.
LEMMA ShownIsStored ==
    ASSUME Typed, NEW d \in Conn, GetPolicyOp(d), reply'.val # None
    PROVE  Stored(msg[d].account, reply.val.version)'
<1> DEFINE a == msg[d].account
<1>1. /\ at[d] = "call" /\ msg'[d] = msg[d] /\ blobs' = blobs /\ reply'.val = blobs[a]
  BY DEF GetPolicyOp, GetPolicy, Calling, Answer, Fails, Reply
<1>2. msg[d] \in Message
  BY <1>1 DEF Typed, ControlTypeOK, Checked
<1>3. a \in Account
  BY <1>2, ControlAssumption DEF Messages
<1>4. blobs[a].version \in Int
  BY <1>1, <1>3, NoneIsNoValue DEF Typed, ControlTypeOK, Policy
<1> QED BY <1>1, <1>4 DEF Stored

\* Every step keeps ReplyIsStored.
LEMMA NextReplyStored == Typed /\ ReplyIsStored /\ [ControlNext]_vars => ReplyIsStored'
<1> SUFFICES ASSUME Typed, ReplyIsStored, [ControlNext]_vars, NEW d \in Conn,
                    at'[d] = "reply", NEW v \in Tells(d)'
             PROVE  Stored(msg[d].account, v)'
  BY DEF ReplyIsStored
<1>1. ASSUME at[d] = "reply", msg'[d] = msg[d], result'[d] = result[d], shown'[d] = shown[d]
      PROVE  Stored(msg[d].account, v)'
  <2>1. v \in Tells(d)
    BY <1>1 DEF Tells
  <2>2. msg[d].account \in Account /\ v \in Version /\ Stored(msg[d].account, v)
    BY <1>1, <2>1, TellsVersions DEF ReplyIsStored
  <2>3. blobs'[msg[d].account] # None /\ blobs'[msg[d].account].version >= v
    BY <2>2, StaysStored DEF Stored
  <2> QED BY <1>1, <2>3 DEF Stored
<1>2. ASSUME NEW c \in Conn, StepOf(c), c # d PROVE Stored(msg[d].account, v)'
  BY <1>1, <1>2, OtherHandlers
<1>3. ASSUME StepOf(d) PROVE Stored(msg[d].account, v)'
  <2>1. \A m \in Message : ~Receive(d, m)
    <3>1. ASSUME NEW m \in Message, Receive(d, m) PROVE FALSE
      <4>1. shown'[d] = {} /\ result'[d] # "ok"
        BY <3>1, ReceiveRefuses DEF Receive, Typed, ControlTypeOK
      <4> QED BY <4>1 DEF Tells
    <3> QED BY <3>1
  <2>2. ~SendReply(d)
    BY DEF SendReply, Typed, ControlTypeOK
  <2>3. msg' = msg
    BY <1>3, <2>1, <2>2 DEF StepOf, HandlerStep, RegisterKey, RegisterOrigins, RebindKey,
       RevokeKey, UpdateOrigins, PutPolicyOp, GetPolicyOp, LoopStep, Finish, Answer
  <2>4. CASE GetPolicyOp(d)
    <3>1. shown'[d] = IF reply'.val = None THEN {} ELSE {reply'.val.version}
      BY <2>4 DEF GetPolicyOp, Answer, Typed, ControlTypeOK
    <3>2. msg'[d].op # "put_policy"
      BY <2>3, <2>4 DEF GetPolicyOp, Calling
    <3>3. reply'.val # None /\ v = reply'.val.version
      BY <3>1, <3>2 DEF Tells
    <3> QED BY <2>4, <3>3, ShownIsStored
  <2>5. CASE ~GetPolicyOp(d)
    <3>1. at[d] # "reply"
      BY <1>3, <2>2, <2>1 DEF StepOf, HandlerStep, RegisterKey, RegisterOrigins, RebindKey,
         RevokeKey, UpdateOrigins, PutPolicyOp, GetPolicyOp, Calling
    <3>2. shown'[d] = {}
      BY <1>3, <2>1, <2>2, <2>5, <3>1 DEF StepOf, HandlerStep, RegisterKey, RegisterOrigins,
         RebindKey, RevokeKey, UpdateOrigins, PutPolicyOp, LoopStep, Finish, Answer, Typed,
         ControlTypeOK
    <3>3. msg'[d].op = "put_policy" /\ result'[d] = "ok" /\ v = msg'[d].version
      BY <3>2 DEF Tells
    <3>4. ~RegisterOrigins(d)
      BY <2>3, <3>3 DEF RegisterOrigins, Typed, Checked
    <3>5. PutPolicyOp(d)
      BY <1>3, <2>1, <2>2, <2>3, <2>5, <3>3, <3>4 DEF StepOf, HandlerStep, RegisterKey,
         RebindKey, RevokeKey, UpdateOrigins, Calling
    <3>6. reply'.err = "ok"
      BY <3>3, <3>5 DEF PutPolicyOp, Finish, Answer, Typed
    <3> QED BY <2>3, <3>3, <3>5, <3>6, PutIsStored
  <2> QED BY <2>4, <2>5
<1>4. ~Restart
  BY DEF Restart
<1>5. CASE UNCHANGED vars
  BY <1>1, <1>5 DEF vars, ctlVars
<1> QED BY <1>2, <1>3, <1>4, <1>5 DEF ControlNext, StepOf

\* Every step keeps what devices were told of: sending a reply tells them of
\* something that is stored.
LEMMA NextAcknowledged ==
    Typed /\ ReplyIsStored /\ AcknowledgedPolicyIsStored /\ [ControlNext]_vars
        => AcknowledgedPolicyIsStored'
<1> SUFFICES ASSUME Typed, ReplyIsStored, AcknowledgedPolicyIsStored, [ControlNext]_vars,
                    NEW a \in Account, NEW v \in told'[a]
             PROVE  Stored(a, v)'
  BY DEF AcknowledgedPolicyIsStored
<1>1. told \in [Account -> SUBSET Version]
  BY DEF Typed, ControlTypeOK
<1>2. CASE v \in told[a]
  BY <1>1, <1>2, StaysStored DEF AcknowledgedPolicyIsStored
<1>3. CASE v \notin told[a]
  <2>1. PICK c : Observe(c)
    BY <1>3, Observed DEF ControlNext, StepOf, Restart, vars, ctlVars
  <2>2. c \in Conn /\ at[c] = "reply"
    BY <1>3, <2>1 DEF Observe
  <2>3. told' = [told EXCEPT ![msg[c].account] = @ \cup Tells(c)]
    BY <2>1, <2>2 DEF Observe
  <2>4. a = msg[c].account /\ v \in Tells(c)
    BY <1>1, <1>3, <2>3
  <2>5. v \in Version /\ Stored(a, v)
    BY <2>2, <2>4, TellsVersions DEF ReplyIsStored
  <2> QED BY <2>5, StaysStored
<1> QED BY <1>2, <1>3

\* Once any device of an account was told of a version of its policy, that
\* version or a newer one is stored for good: handleControl acknowledges only
\* what is on disk, and no later put, failing statement or restart takes it
\* away.
THEOREM AcknowledgedPolicy == ControlSpec => []AcknowledgedPolicyIsStored
<1>1. ControlInit => ReplyIsStored /\ AcknowledgedPolicyIsStored
  BY DEF ControlInit, ReplyIsStored, AcknowledgedPolicyIsStored
<1> QED BY <1>1, InitTyped, NextTyped, NextReplyStored, NextAcknowledged, PTL DEF ControlSpec

-----------------------------------------------------------------------------
(* Registration.                                                           *)

\* A key that was registered and not disturbed is still as it was written: so
\* it is between the two statements of the handler and until the answer.
Registered ==
    \A c \in Conn :
        LET m == msg[c]
        IN  \/ at[c] = "origins"
            \/ at[c] = "reply" /\ m.op = "register_key" /\ result[c] = "ok"
            => /\ m.key \in Key
               /\ ~disturbed[c] =>
                    /\ rows[m.key] # None
                    /\ rows[m.key].owner = m.account /\ rows[m.key].hash = m.hash
                    /\ at[c] = "reply" /\ m.origins # {} => rows[m.key].origins = m.origins

\* The first statement writes the row of the message.
LEMMA RegisterWrites ==
    ASSUME Typed, NEW d \in Conn, RegisterKey(d), reply'.err = "ok"
    PROVE  LET m == msg[d]
           IN  /\ m.key \in Key /\ rows'[m.key] # None
               /\ rows'[m.key].owner = m.account /\ rows'[m.key].hash = m.hash
<1> DEFINE m == msg[d]
           os == IF rows[m.key] = None THEN {} ELSE rows[m.key].origins
           row == [owner |-> m.account, hash |-> m.hash, origins |-> os]
<1>1. at[d] = "call" /\ m.op = "register_key" /\ RegisterAPIKey(m.key, m.account, m.hash)
  BY DEF RegisterKey, Calling, Fails, Reply
<1>2. m \in Message /\ Refusal(d, m) = "none"
  BY <1>1 DEF Typed, ControlTypeOK, Checked
<1>3. m.key \in Key /\ m.account \in Account /\ m.hash \in Hash
  BY <1>1, <1>2, NotRefused
<1>4. rows' = [rows EXCEPT ![m.key] = row]
  BY <1>1 DEF RegisterAPIKey, Reply
<1>5. rows'[m.key] = row
  BY <1>3, <1>4 DEF Typed, ControlTypeOK
<1>6. os \in SUBSET Origin
  BY <1>3 DEF Typed, ControlTypeOK, Row
<1> HIDE DEF os
<1>7. row \in Row
  BY <1>3, <1>6 DEF Row
<1> QED BY <1>3, <1>5, <1>7, NoneIsNoValue

\* The second one, if it does not fail, adds the origins.
LEMMA OriginsWritten ==
    ASSUME Typed, Registered, NEW d \in Conn, RegisterOrigins(d), ~disturbed[d],
           reply'.err # "failed"
    PROVE  LET m == msg[d]
           IN  /\ m.key \in Key /\ rows'[m.key] # None
               /\ rows'[m.key].owner = m.account /\ rows'[m.key].hash = m.hash
               /\ rows'[m.key].origins = m.origins
<1> DEFINE m == msg[d]
<1>1. /\ at[d] = "origins" /\ UpdateKeyOrigins(m.key, m.account, m.origins)
  BY DEF RegisterOrigins, Fails, Reply
<1>2. /\ m.key \in Key /\ rows[m.key] # None
      /\ rows[m.key].owner = m.account /\ rows[m.key].hash = m.hash
  BY <1>1 DEF Registered
<1>3. rows[m.key] \in Row
  BY <1>2 DEF Typed, ControlTypeOK
<1>4. rows' = [rows EXCEPT ![m.key] = [rows[m.key] EXCEPT !.origins = m.origins]]
  BY <1>1, <1>2, Zenon DEF UpdateKeyOrigins, IfOwned
<1>5. rows'[m.key] = [rows[m.key] EXCEPT !.origins = m.origins]
  BY <1>2, <1>4 DEF Typed, ControlTypeOK
<1>6. m \in Message /\ Refusal(d, m) = "none"
  BY <1>1 DEF Typed, ControlTypeOK, Checked
<1>7. m.origins \in SUBSET Origin
  BY <1>6, NotRefused
<1>8. rows'[m.key] \in Row
  BY <1>3, <1>5, <1>7 DEF Row
<1>9. /\ rows'[m.key].owner = rows[m.key].owner /\ rows'[m.key].hash = rows[m.key].hash
      /\ rows'[m.key].origins = m.origins
  BY <1>3, <1>5 DEF Row
<1> QED BY <1>2, <1>8, <1>9, NoneIsNoValue

\* Every step keeps Registered: a step of another connection that touches the
\* key disturbs the handler.
LEMMA NextRegistered == Typed /\ Registered /\ [ControlNext]_vars => Registered'
<1> DEFINE Good(m) == /\ m.key \in Key
                      /\ rows'[m.key] # None
                      /\ rows'[m.key].owner = m.account /\ rows'[m.key].hash = m.hash
<1> SUFFICES ASSUME Typed, Registered, [ControlNext]_vars, NEW d \in Conn,
                    \/ at'[d] = "origins"
                    \/ at'[d] = "reply" /\ msg'[d].op = "register_key" /\ result'[d] = "ok"
             PROVE  /\ msg'[d].key \in Key
                    /\ ~disturbed'[d] =>
                         /\ Good(msg'[d])
                         /\ at'[d] = "reply" /\ msg'[d].origins # {}
                              => rows'[msg'[d].key].origins = msg'[d].origins
  BY DEF Registered
<1>0. Typed'
  BY NextTyped
<1>1. msg'[d] # None /\ msg'[d] \in Message
  BY <1>0 DEF Typed, ControlTypeOK, Checked
<1>2. ASSUME NEW c \in Conn, StepOf(c), c # d
      PROVE  /\ msg'[d].key \in Key
             /\ ~disturbed'[d] =>
                  /\ Good(msg'[d])
                  /\ at'[d] = "reply" /\ msg'[d].origins # {}
                       => rows'[msg'[d].key].origins = msg'[d].origins
  <2>1. at'[d] = at[d] /\ msg'[d] = msg[d] /\ result'[d] = result[d]
    BY <1>2, OtherHandlers
  <2>2. msg[d].key \in Key /\ msg[d].key # None
    BY <2>1, NoneIsNoValue DEF Registered
  <2>3. ASSUME ~disturbed'[d] PROVE ~disturbed[d] /\ rows'[msg[d].key] = rows[msg[d].key]
    BY <1>0, <1>1, <1>2, <2>1, <2>2, <2>3, Observed, ObserveDisturbed DEF Typed, Checked
  <2> QED BY <2>1, <2>2, <2>3 DEF Registered
<1>3. ASSUME StepOf(d)
      PROVE  /\ msg'[d].key \in Key
             /\ ~disturbed'[d] =>
                  /\ Good(msg'[d])
                  /\ at'[d] = "reply" /\ msg'[d].origins # {}
                       => rows'[msg'[d].key].origins = msg'[d].origins
  <2>1. \A m \in Message : ~Receive(d, m)
    BY ReceiveRefuses
  <2>2. ~SendReply(d)
    BY DEF SendReply, Typed, ControlTypeOK
  <2>3. msg' = msg
    BY <1>3, <2>1, <2>2 DEF StepOf, HandlerStep, RegisterKey, RegisterOrigins, RebindKey,
       RevokeKey, UpdateOrigins, PutPolicyOp, GetPolicyOp, LoopStep, Finish, Answer
  <2>4. msg[d].op = "register_key"
    BY <1>0, <2>3 DEF Typed, Checked
  <2>5. RegisterKey(d) \/ RegisterOrigins(d)
    BY <1>3, <2>1, <2>2, <2>4 DEF StepOf, HandlerStep, RebindKey, RevokeKey, UpdateOrigins,
       PutPolicyOp, GetPolicyOp, Calling
  <2>6. CASE RegisterKey(d)
    <3>1. reply'.err = "ok" /\ (at'[d] = "reply" => msg[d].origins = {})
      BY <2>6 DEF RegisterKey, Finish, Answer, Typed, ControlTypeOK
    <3>2. Good(msg[d])
      BY <2>6, <3>1, RegisterWrites
    <3> QED BY <2>3, <3>1, <3>2
  <2>7. CASE RegisterOrigins(d)
    <3>1. msg[d].key \in Key /\ at[d] = "origins"
      BY <2>7 DEF RegisterOrigins, Registered
    <3>2. ASSUME ~disturbed'[d] PROVE ~disturbed[d] /\ reply'.err # "failed"
      BY <1>1, <1>3, <2>3, <3>1, <3>2, Observed, ObserveDisturbed, NoneIsNoValue
    <3>3. ASSUME ~disturbed'[d] PROVE Good(msg[d]) /\ rows'[msg[d].key].origins = msg[d].origins
      BY <2>7, <3>2, <3>3, OriginsWritten
    <3> QED BY <2>3, <3>1, <3>3
  <2> QED BY <2>5, <2>6, <2>7
<1>4. ~Restart
  BY DEF Restart
<1>5. CASE UNCHANGED vars
  BY <1>5 DEF vars, ctlVars, storeVars, Registered
<1> QED BY <1>2, <1>3, <1>4, <1>5 DEF ControlNext, StepOf

\* A device told that its key is registered finds it so, account, secret and
\* origins, unless another connection changed that key in the meantime or the
\* second statement failed.
THEOREM RegistrationTakesEffect == ControlSpec => []RegisterTakesEffect
<1>1. ControlInit => Registered
  BY DEF ControlInit, Registered
<1>2. Registered => RegisterTakesEffect
  BY DEF Registered, RegisterTakesEffect
<1> QED BY <1>1, <1>2, InitTyped, NextTyped, NextRegistered, PTL DEF ControlSpec

-----------------------------------------------------------------------------
(* The search for the account of a key.                                    *)

\* While a key is ours and undisturbed, the accounts the loop has been through
\* are not the one it belongs to.
Searched ==
    \A c \in Conn :
        LET m == msg[c]
        IN  at[c] = "call" /\ m.op \in {"rebind_key", "revoke_key"} /\ owned[c] /\ ~disturbed[c]
            => /\ OwnedBy(c, m.key, rows)
               /\ \A j \in 1..(idx[c] - 1) : AccountsOf[c][j] # rows[m.key].owner

\* A statement of the loop that did not fail and found nothing was not for the
\* owner of the key, and changed nothing.
LEMMA LoopMisses ==
    ASSUME Typed, NEW d \in Conn, RebindKey(d) \/ RevokeKey(d), reply'.err \notin {"ok", "failed"}
    PROVE  /\ rows' = rows
           /\ rows[msg[d].key] # None => rows[msg[d].key].owner # AccountsOf[d][idx[d]]
<1>1. \/ RebindAPIKey(msg[d].key, AccountsOf[d][idx[d]], msg[d].account)
      \/ RevokeAPIKey(AccountsOf[d][idx[d]], msg[d].key)
  BY DEF RebindKey, RevokeKey, Fails, Reply
<1>2. PICK row : IfOwned(msg[d].key, AccountsOf[d][idx[d]], row)
  BY <1>1, Zenon DEF RebindAPIKey, RevokeAPIKey
<1>3. reply' # Reply("ok", None)
  BY DEF Reply
<1> QED BY <1>2, <1>3, Zenon DEF IfOwned

\* Every step keeps Searched: an unsuccessful statement shows that the key was
\* not that account's.
LEMMA NextSearched ==
    Typed /\ Searched /\ NotFoundNeedsRace /\ [ControlNext]_vars
        => Searched' /\ NotFoundNeedsRace'
<1> SUFFICES ASSUME Typed, Searched, NotFoundNeedsRace, [ControlNext]_vars, NEW d \in Conn,
                    owned'[d], ~disturbed'[d]
             PROVE  /\ at'[d] = "call" /\ msg'[d].op \in {"rebind_key", "revoke_key"} =>
                         /\ OwnedBy(d, msg'[d].key, rows')
                         /\ \A j \in 1..(idx'[d] - 1) :
                              AccountsOf[d][j] # rows'[msg'[d].key].owner
                    /\ ~(at'[d] = "reply" /\ result'[d] = "key not found")
  BY DEF Searched, NotFoundNeedsRace
<1> DEFINE Goal == /\ at'[d] = "call" /\ msg'[d].op \in {"rebind_key", "revoke_key"} =>
                         /\ OwnedBy(d, msg'[d].key, rows')
                         /\ \A j \in 1..(idx'[d] - 1) :
                              AccountsOf[d][j] # rows'[msg'[d].key].owner
                   /\ ~(at'[d] = "reply" /\ result'[d] = "key not found")
<1>1. ASSUME NEW c \in Conn, StepOf(c)
      PROVE  /\ msg'[d] # None /\ msg'[d].key # None /\ OwnedBy(d, msg'[d].key, rows')
             /\ at[d] # "idle" => owned[d] /\ ~disturbed[d]
             /\ d # c => rows'[msg'[d].key] = rows[msg'[d].key]
             /\ d = c /\ at[d] \in {"call", "origins"} => reply'.err # "failed"
  <2>1. Observe(c)
    BY <1>1, Observed
  <2>2. /\ msg'[d] # None /\ msg'[d].key # None /\ OwnedBy(d, msg'[d].key, rows')
        /\ at[d] = "idle" \/ owned[d]
    BY <2>1, ObserveOwned
  <2> QED BY <2>1, <2>2, ObserveDisturbed
<1>2. ASSUME NEW c \in Conn, StepOf(c), c # d PROVE Goal
  <2>1. at'[d] = at[d] /\ msg'[d] = msg[d] /\ result'[d] = result[d] /\ idx'[d] = idx[d]
    BY <1>2, OtherHandlers
  <2>2. at[d] # "idle" => owned[d] /\ ~disturbed[d]
    BY <1>1, <1>2
  <2>3. rows'[msg'[d].key] = rows[msg'[d].key] /\ OwnedBy(d, msg'[d].key, rows')
    BY <1>1, <1>2
  <2> QED BY <2>1, <2>2, <2>3 DEF Searched, NotFoundNeedsRace
<1>3. ASSUME NEW m \in Message, Receive(d, m) PROVE Goal
  <2>1. /\ msg'[d].key # None /\ OwnedBy(d, msg'[d].key, rows')
    BY <1>1, <1>3 DEF StepOf
  <2>2. msg'[d] = m /\ (at'[d] = "reply" /\ result'[d] = "key not found" => m.key = None)
    BY <1>3, ReceiveRefuses
  <2>3. idx'[d] = 1
    BY <1>3 DEF Receive, Typed
  <2>4. \A j \in 1..(idx'[d] - 1) : FALSE
    BY <2>3
  <2> QED BY <2>1, <2>2, <2>4
<1>4. ASSUME RebindKey(d) \/ RevokeKey(d) PROVE Goal
  <2>0. StepOf(d)
    BY <1>4 DEF StepOf, HandlerStep
  <2>1. /\ at[d] = "call" /\ msg[d].op \in {"rebind_key", "revoke_key"}
        /\ msg' = msg /\ LoopStep(d)
    BY <1>4 DEF RebindKey, RevokeKey, Calling, LoopStep, Finish, Answer
  <2>2. /\ OwnedBy(d, msg[d].key, rows') /\ owned[d] /\ ~disturbed[d] /\ reply'.err # "failed"
    BY <1>1, <2>0, <2>1
  <2>3. /\ OwnedBy(d, msg[d].key, rows)
        /\ \A j \in 1..(idx[d] - 1) : AccountsOf[d][j] # rows[msg[d].key].owner
    BY <2>1, <2>2 DEF Searched
  <2>4. /\ idx[d] \in Nat /\ Len(AccountsOf[d]) \in Nat
        /\ DOMAIN AccountsOf[d] = 1..Len(AccountsOf[d])
    BY AccountList DEF Typed
  <2>5. CASE reply'.err = "ok"
    BY <2>1, <2>5 DEF LoopStep, Finish, Answer, Typed, ControlTypeOK
  <2>6. CASE reply'.err # "ok"
    <3>1. rows' = rows /\ rows[msg[d].key].owner # AccountsOf[d][idx[d]]
      BY <1>4, <2>2, <2>3, <2>6, LoopMisses DEF OwnedBy
    <3>2. \A j \in 1..idx[d] : AccountsOf[d][j] # rows[msg[d].key].owner
      BY <2>3, <2>4, <3>1
    <3>3. idx[d] # Len(AccountsOf[d])
      BY <2>3, <2>4, <3>2 DEF OwnedBy, Controls, Range
    <3>4. idx' = [idx EXCEPT ![d] = @ + 1] /\ at' = at
      BY <2>1, <2>6, <3>3 DEF LoopStep
    <3>5. idx'[d] - 1 = idx[d]
      BY <2>4, <3>4 DEF Typed
    <3> QED BY <2>1, <2>3, <3>1, <3>2, <3>4, <3>5
  <2> QED BY <2>5, <2>6
<1>5. ASSUME RegisterKey(d) \/ RegisterOrigins(d) \/ UpdateOrigins(d) \/ PutPolicyOp(d)
               \/ GetPolicyOp(d) \/ SendReply(d)
      PROVE  Goal
  <2>1. Typed' /\ TablesTyped'
    BY <1>5, NextTyped, HandlerTables DEF HandlerStep
  <2>2. at'[d] # "call"
    BY <1>5 DEF RegisterKey, RegisterOrigins, UpdateOrigins, PutPolicyOp, GetPolicyOp, SendReply,
       Finish, Answer, Typed, ControlTypeOK
  <2>3. at'[d] = "reply" => result'[d] = "ok" \/ result'[d] = reply'.err
    BY <1>5 DEF RegisterKey, RegisterOrigins, UpdateOrigins, PutPolicyOp, GetPolicyOp, SendReply,
       Finish, Answer, Typed, ControlTypeOK
  <2>4. reply'.err # "key not found"
    BY <2>1 DEF TablesTyped, Errors
  <2> QED BY <2>2, <2>3, <2>4
<1>6. ~Restart
  <2>1. ASSUME Restart PROVE FALSE
    <3>1. Observe(None) /\ msg'[d] = None
      BY <2>1 DEF Restart
    <3> QED BY <3>1, ObserveOwned
  <2> QED BY <2>1
<1>7. ASSUME UNCHANGED vars PROVE Goal
  BY <1>7 DEF vars, ctlVars, storeVars, Searched, NotFoundNeedsRace
<1> HIDE DEF Goal
<1>8. Goal
  BY <1>2, <1>3, <1>4, <1>5, <1>6, <1>7 DEF ControlNext, StepOf, HandlerStep
<1> QED BY <1>8 DEF Goal

\* A device that is told "key not found" by rebind_key or revoke_key, though
\* the key was one of its accounts' all along, lost it to a race: another
\* connection moved the key while the loop over the accounts was running, or a
\* statement failed.
THEOREM NotFoundIsRace == ControlSpec => []NotFoundNeedsRace
<1>1. ControlInit => Searched /\ NotFoundNeedsRace
  BY DEF ControlInit, Searched, NotFoundNeedsRace
<1> QED BY <1>1, InitTyped, NextTyped, NextSearched, PTL DEF ControlSpec
=============================================================================
