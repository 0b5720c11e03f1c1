------------------------------ MODULE Control ------------------------------
(***************************************************************************)
(* The control messages by which a device manages its API keys and its     *)
(* policy backup: handleControl of cmd/relay/http.go over the SQLite store *)
(* of SqliteStore.tla.                                                     *)
(*                                                                         *)
(* The read loop of a connection handles one message at a time, but the    *)
(* connections of several devices are served concurrently, and a handler   *)
(* may make several calls of the store: a step is one such call.           *)
(***************************************************************************)
EXTENDS SqliteStore, Sequences, Functions

CONSTANTS
    Conn,        \* enrolled connections
    AccountsOf,  \* the accounts each of them proved, in order
    Message,     \* control messages a device may send
    Faults       \* may a statement fail, and the relay crash?

Ops == {"register_key", "rebind_key", "revoke_key", "update_origins",
        "put_policy", "get_policy", "unknown"}

\* Fields a message does not set are None.
Messages == [op : Ops, key : Key \cup {None}, account : Account, hash : Hash \cup {None},
             origins : SUBSET Origin, version : Version, blob : Blob]

ASSUME ControlAssumption ==
    /\ AccountsOf \in [Conn -> Seq(Account) \ {<<>>}]
    /\ Message \subseteq Messages /\ None \notin Message
    /\ Faults \in BOOLEAN

VARIABLES
    at,      \* where the handler of each connection is
    msg,     \* the message it handles
    idx,     \* the loop over a.accounts, in rebind_key and revoke_key
    result,  \* reply.Error; "ok" for the empty string
    shown,   \* reply.Version: the version of the policy found, if any
    owned,   \* history: since the message came, the key was always one of ours
    disturbed, \* history: since then, somebody else changed the key, or a
               \* statement of this handler failed
    told       \* history: the versions of each account's policy that devices
               \* were told of

ctlVars == <<at, msg, idx, result, shown, owned, disturbed, told>>
vars == <<storeVars, ctlVars>>

Controls(c, a) == a \in Range(AccountsOf[c])

OwnedBy(c, k, table) == table[k] # None /\ Controls(c, table[k].owner)

\* The versions that the reply of c tells its device of: of a policy it was
\* sent, and of one it put.
Tells(c) ==
    shown[c] \cup (IF msg[c].op = "put_policy" /\ result[c] = "ok" THEN {msg[c].version} ELSE {})

\* What a step of connection c (None: the relay itself) means to the histories.
Observe(c) ==
    /\ owned' = [d \in Conn |-> IF msg'[d] = None \/ msg'[d].key = None THEN FALSE
                                ELSE /\ at[d] = "idle" \/ owned[d]
                                     /\ OwnedBy(d, msg'[d].key, rows')]
    /\ disturbed' =
         [d \in Conn |-> IF msg'[d] = None \/ msg'[d].key = None THEN FALSE
                         ELSE \/ at[d] # "idle" /\ disturbed[d]
                              \/ d # c /\ rows'[msg'[d].key] # rows[msg'[d].key]
                              \/ d = c /\ at[d] \in {"call", "origins"} /\ reply'.err = "failed"]
    /\ told' = IF c \in Conn /\ at[c] = "reply"
                 THEN [told EXCEPT ![msg[c].account] = @ \cup Tells(c)]
                 ELSE told

-----------------------------------------------------------------------------
\* Where the checks at the top of each case of the switch lead.
Refusal(c, m) ==
    IF m.op = "unknown" THEN "unknown op"
    ELSE IF m.op # "revoke_key" /\ ~Controls(c, m.account) THEN "not controlled"
    ELSE IF \/ m.op \in {"register_key", "rebind_key", "update_origins"} /\ m.key = None
            \/ m.op = "register_key" /\ m.hash = None
      THEN "incomplete"
    ELSE IF m.op = "revoke_key" /\ m.key = None THEN "key not found"
    ELSE "none"

\* The read loop takes a control message.  A revoke without a key id finds no
\* row, since no key is registered without one.
Receive(c, m) ==
    /\ at[c] = "idle"
    /\ msg' = [msg EXCEPT ![c] = m]
    /\ idx' = [idx EXCEPT ![c] = 1]
    /\ result' = [result EXCEPT ![c] = Refusal(c, m)]
    /\ shown' = [shown EXCEPT ![c] = {}]
    /\ at' = [at EXCEPT ![c] = IF Refusal(c, m) = "none" THEN "call" ELSE "reply"]
    /\ UNCHANGED storeVars
    /\ Observe(c)

\* The handler of c is at a call of the store for op.
Calling(c, op) == at[c] = "call" /\ msg[c].op = op

\* The handler has its answer, which may show a version.
Answer(c, err, versions) ==
    /\ at' = [at EXCEPT ![c] = "reply"]
    /\ result' = [result EXCEPT ![c] = err]
    /\ shown' = [shown EXCEPT ![c] = versions]
    /\ UNCHANGED <<msg, idx>>

Finish(c, err) == Answer(c, err, {})

\* The key first, then its origins, in a second statement.
RegisterKey(c) ==
    /\ Calling(c, "register_key")
    /\ \/ RegisterAPIKey(msg[c].key, msg[c].account, msg[c].hash)
       \/ Faults /\ Fails
    /\ IF reply'.err = "ok" /\ msg[c].origins # {}
         THEN at' = [at EXCEPT ![c] = "origins"] /\ UNCHANGED <<msg, idx, result, shown>>
         ELSE Finish(c, reply'.err)
    /\ Observe(c)

\* Mutant of RegisterOrigins: the origins are set for the first account.
RegisterOriginsOfFirst(c) ==
    /\ at[c] = "origins"
    /\ \/ UpdateKeyOrigins(msg[c].key, AccountsOf[c][1], msg[c].origins)
       \/ Faults /\ Fails
    /\ Finish(c, "ok")
    /\ Observe(c)

\* The error of the second statement is dropped.
RegisterOrigins(c) ==
    /\ at[c] = "origins"
    /\ \/ UpdateKeyOrigins(msg[c].key, msg[c].account, msg[c].origins)
       \/ Faults /\ Fails
    /\ Finish(c, "ok")
    /\ Observe(c)

\* Mutant of LoopStep: the last account is not tried.
LoopStepStopsEarly(c) ==
    IF reply'.err = "ok" THEN Finish(c, "ok")
    ELSE IF idx[c] + 1 >= Len(AccountsOf[c]) THEN Finish(c, "key not found")
    ELSE idx' = [idx EXCEPT ![c] = @ + 1] /\ UNCHANGED <<at, msg, result, shown>>

\* How one iteration of the loop over a.accounts ends: any error, not only
\* ErrNotFound, sends it on to the next account.
LoopStep(c) ==
    IF reply'.err = "ok" THEN Finish(c, "ok")
    ELSE IF idx[c] = Len(AccountsOf[c]) THEN Finish(c, "key not found")
    ELSE idx' = [idx EXCEPT ![c] = @ + 1] /\ UNCHANGED <<at, msg, result, shown>>

RebindKey(c) ==
    /\ Calling(c, "rebind_key")
    /\ \/ RebindAPIKey(msg[c].key, AccountsOf[c][idx[c]], msg[c].account)
       \/ Faults /\ Fails
    /\ LoopStep(c)
    /\ Observe(c)

RevokeKey(c) ==
    /\ Calling(c, "revoke_key")
    /\ \/ RevokeAPIKey(AccountsOf[c][idx[c]], msg[c].key)
       \/ Faults /\ Fails
    /\ LoopStep(c)
    /\ Observe(c)

UpdateOrigins(c) ==
    /\ Calling(c, "update_origins")
    /\ \/ UpdateKeyOrigins(msg[c].key, msg[c].account, msg[c].origins)
       \/ Faults /\ Fails
    /\ Finish(c, reply'.err)
    /\ Observe(c)

\* Mutant of PutPolicyOp: the error of the statement is dropped.
PutPolicyUnchecked(c) ==
    /\ Calling(c, "put_policy")
    /\ \/ PutPolicy(msg[c].account, msg[c].version, msg[c].blob)
       \/ Faults /\ Fails
    /\ Finish(c, "ok")
    /\ Observe(c)

PutPolicyOp(c) ==
    /\ Calling(c, "put_policy")
    /\ \/ PutPolicy(msg[c].account, msg[c].version, msg[c].blob)
       \/ Faults /\ Fails
    /\ Finish(c, reply'.err)
    /\ Observe(c)

\* An account without a policy is no error.
GetPolicyOp(c) ==
    /\ Calling(c, "get_policy")
    /\ GetPolicy(msg[c].account) \/ (Faults /\ Fails)
    /\ Answer(c, reply'.err, IF reply'.val = None THEN {} ELSE {reply'.val.version})
    /\ Observe(c)

\* writeJSON of the reply; its error is ignored and the read loop goes on.
SendReply(c) ==
    /\ at[c] = "reply"
    /\ at' = [at EXCEPT ![c] = "idle"]
    /\ msg' = [msg EXCEPT ![c] = None]
    /\ idx' = [idx EXCEPT ![c] = 1]
    /\ result' = [result EXCEPT ![c] = "none"]
    /\ shown' = [shown EXCEPT ![c] = {}]
    /\ UNCHANGED storeVars
    /\ Observe(c)

\* The relay stops and starts again.  The tables are on disk; handlers and
\* connections are lost, and the devices dial in afresh.
Restart ==
    /\ Faults
    /\ \E c \in Conn : at[c] # "idle"
    /\ at' = [c \in Conn |-> "idle"]
    /\ msg' = [c \in Conn |-> None]
    /\ idx' = [c \in Conn |-> 1]
    /\ result' = [c \in Conn |-> "none"]
    /\ shown' = [c \in Conn |-> {}]
    /\ UNCHANGED storeVars
    /\ Observe(None)

ControlInit ==
    /\ Init
    /\ at = [c \in Conn |-> "idle"]
    /\ msg = [c \in Conn |-> None]
    /\ idx = [c \in Conn |-> 1]
    /\ result = [c \in Conn |-> "none"]
    /\ shown = [c \in Conn |-> {}]
    /\ owned = [c \in Conn |-> FALSE]
    /\ disturbed = [c \in Conn |-> FALSE]
    /\ told = [a \in Account |-> {}]

HandlerStep(c) ==
    \/ RegisterKey(c) \/ RegisterOrigins(c) \/ RebindKey(c) \/ RevokeKey(c)
    \/ UpdateOrigins(c) \/ PutPolicyOp(c) \/ GetPolicyOp(c) \/ SendReply(c)

ControlNext ==
    \/ \E c \in Conn : (\E m \in Message : Receive(c, m)) \/ HandlerStep(c)
    \/ Restart

ControlSpec == ControlInit /\ [][ControlNext]_vars

\* A handler that has a message runs: every statement has a 10 second context.
FairControlSpec == ControlSpec /\ \A c \in Conn : WF_vars(HandlerStep(c))

-----------------------------------------------------------------------------
(* Properties.                                                             *)

\* The tables and the handlers have the types of the Go and SQL values.
ControlTypeOK ==
    /\ rows \in [Key -> Row \cup {None}]
    /\ blobs \in [Account -> Policy \cup {None}]
    /\ reply.err \in Errors
    /\ at \in [Conn -> {"idle", "call", "origins", "reply"}]
    /\ msg \in [Conn -> Message \cup {None}]
    /\ \A c \in Conn : idx[c] \in DOMAIN AccountsOf[c]
    /\ shown \in [Conn -> SUBSET Version]
    /\ told \in [Account -> SUBSET Version]

\* A device learns "key not found" from rebind_key or revoke_key only if the
\* key was, at some moment since it asked, none of its accounts' ("that search
\* *is* the authorisation check", http.go rebind_key).
NotFoundIsHonest ==
    \A c \in Conn :
        at[c] = "reply" /\ result[c] = "key not found" => ~owned[c]

\* The weaker promise that the loops keep: a key that was ours all along is
\* only missed if another connection moved it while the loop was running, or
\* a statement failed: any error sends the loop on.
NotFoundNeedsRace ==
    \A c \in Conn :
        at[c] = "reply" /\ result[c] = "key not found" /\ owned[c] => disturbed[c]

\* A row changes only on behalf of a connection that handles a message for
\* that key and that proved the account the key goes to.  It also proved the
\* account the key had, however the key moved since the message came, except
\* in one case: register_key takes the row of an id it finds taken, whoever
\* has it (ON CONFLICT(id) DO UPDATE, store_sqlite.go).
ChangesAreAuthorised ==
    [][\A k \in Key : rows'[k] # rows[k] =>
         \E c \in Conn :
             /\ at[c] \in {"call", "origins"} /\ at'[c] # "idle" /\ msg[c].key = k
             /\ rows'[k] # None => Controls(c, rows'[k].owner)
             /\ rows'[k] = None \/ msg[c].op # "register_key" =>
                  OwnedBy(c, k, rows)
      ]_vars

\* A device told that its key is registered finds it so, account, secret and
\* origins, unless somebody else changed that key in the meantime or the second
\* statement failed, whose error is dropped.
RegisterTakesEffect ==
    \A c \in Conn :
        LET m == msg[c]
        IN  (at[c] = "reply" /\ m.op = "register_key" /\ result[c] = "ok" /\ ~disturbed[c]) =>
              /\ rows[m.key] # None
              /\ rows[m.key].owner = m.account
              /\ rows[m.key].hash = m.hash
              /\ m.origins # {} => rows[m.key].origins = m.origins

\* What a device that is told "ok" may think, and the code does not promise:
\* the key has the origins it asked for.  The second statement may fail, or
\* another connection may move the key in between.
OriginsAreRegistered ==
    \A c \in Conn :
        (at[c] = "reply" /\ msg[c].op = "register_key" /\ result[c] = "ok"
           /\ rows[msg[c].key] # None /\ rows[msg[c].key].hash = msg[c].hash)
            => msg[c].origins \subseteq rows[msg[c].key].origins

\* The store has version v of the policy of a, or a newer one.
Stored(a, v) == blobs[a] # None /\ blobs[a].version >= v

\* Once any device of an account was told of a version of its policy, because
\* it put that version or because it was sent it, that version or a newer one
\* is there for good: through the writes of other devices, failing statements
\* and restarts.  (Of two policies with the same version the first one stays,
\* and both devices are told that theirs was put.)
AcknowledgedPolicyIsStored ==
    \A a \in Account : \A v \in told[a] : Stored(a, v)

\* Every message is answered, or lost in a restart.
HandlersReply ==
    \A c \in Conn : at[c] # "idle" ~> at[c] = "idle"
=============================================================================
