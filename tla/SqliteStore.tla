---------------------------- MODULE SqliteStore ----------------------------
(***************************************************************************)
(* The relay's persistence boundary as its SQLite implementation defines   *)
(* it (cmd/relay/store_sqlite.go).  Every method is one SQL statement on a *)
(* database with a single connection, hence one atomic step that changes   *)
(* the tables and replies.                                                 *)
(*                                                                         *)
(* A map or table is a total function with None for "no entry".  A secret  *)
(* is named by its SHA-256 hash.  The list of allowed origins is only ever *)
(* searched, so it is a set; nil, an empty list and the column's default   *)
(* '[]' are the empty set, which is also what decodeOrigins makes of them. *)
(***************************************************************************)
EXTENDS Integers

CONSTANTS
    Key,      \* API key ids
    Account,  \* nano_ addresses
    Hash,     \* hashes of API-key secrets
    Origin,   \* web origins
    Version,  \* versions of a policy blob
    Blob,     \* encrypted policies
    None      \* no row, no entry, no value

Row == [owner : Account, hash : Hash, origins : SUBSET Origin]
Policy == [version : Version, blob : Blob]

ASSUME StoreAssumption ==
    /\ Version \subseteq Int
    /\ None \notin Key \cup Hash \cup Row \cup Policy

VARIABLES
    rows,   \* api_keys by id
    blobs,  \* policy_blobs by account
    reply   \* what the last method returned

storeVars == <<rows, blobs, reply>>

APIKey == [id : Key, owner : Account, origins : SUBSET Origin]

\* A reply is an error (nil is "ok") and the value that was asked for.
Errors == {"ok", "not found", "constraint", "failed", "allowed", "denied"}
Reply(err, val) == [err |-> err, val |-> val]

\* Mutant of IfOwned: the owner is missing in the WHERE clause.
IfPresent(id, owner, row) ==
    IF rows[id] # None
      THEN /\ rows' = [rows EXCEPT ![id] = row]
           /\ reply' = Reply("ok", None)
      ELSE /\ UNCHANGED rows
           /\ reply' = Reply("not found", None)

\* UPDATE or DELETE of the row of id if it is owned by the account, with
\* ErrNotFound when no row is affected.
IfOwned(id, owner, row) ==
    IF rows[id] # None /\ rows[id].owner = owner
      THEN /\ rows' = [rows EXCEPT ![id] = row]
           /\ reply' = Reply("ok", None)
      ELSE /\ UNCHANGED rows
           /\ reply' = Reply("not found", None)

\* INSERT ... ON CONFLICT(id) DO UPDATE: a new row has no origins, an existing
\* one keeps them.  key_hash is UNIQUE: the hash of another row is refused.
RegisterAPIKey(id, owner, h) ==
    /\ IF \E k \in Key \ {id} : rows[k] # None /\ rows[k].hash = h
         THEN /\ UNCHANGED rows
              /\ reply' = Reply("constraint", None)
         ELSE /\ rows' = [rows EXCEPT ![id] =
                            [owner |-> owner, hash |-> h,
                             origins |-> IF @ = None THEN {} ELSE @.origins]]
              /\ reply' = Reply("ok", None)
    /\ UNCHANGED blobs

RebindAPIKey(id, old, new) ==
    /\ IfOwned(id, old, [rows[id] EXCEPT !.owner = new])
    /\ UNCHANGED blobs

RevokeAPIKey(owner, id) ==
    /\ IfOwned(id, owner, None)
    /\ UNCHANGED blobs

UpdateKeyOrigins(id, owner, origins) ==
    /\ IfOwned(id, owner, [rows[id] EXCEPT !.origins = origins])
    /\ UNCHANGED blobs

\* SELECT by hash; at most one row matches.
ResolveAPIKey(h) ==
    LET found == {k \in Key : rows[k] # None /\ rows[k].hash = h}
    IN  /\ \/ /\ found = {}
              /\ reply' = Reply("not found", None)
           \/ \E k \in found :
                reply' = Reply("ok", [id |-> k, owner |-> rows[k].owner,
                                      origins |-> rows[k].origins])
        /\ UNCHANGED <<rows, blobs>>

OriginAllowed(o) ==
    /\ reply' = Reply(IF \E k \in Key : rows[k] # None /\ o \in rows[k].origins
                        THEN "allowed" ELSE "denied", None)
    /\ UNCHANGED <<rows, blobs>>

\* Mutant of PutPolicy: the WHERE clause is missing.
PutPolicyAlways(a, v, b) ==
    /\ blobs' = [blobs EXCEPT ![a] = [version |-> v, blob |-> b]]
    /\ reply' = Reply("ok", None)
    /\ UNCHANGED rows

\* INSERT ... ON CONFLICT(account) DO UPDATE ... WHERE excluded.version is
\* greater; an ignored write is no error.
PutPolicy(a, v, b) ==
    /\ blobs' = IF blobs[a] = None \/ v > blobs[a].version
                  THEN [blobs EXCEPT ![a] = [version |-> v, blob |-> b]]
                  ELSE blobs
    /\ reply' = Reply("ok", None)
    /\ UNCHANGED rows

GetPolicy(a) ==
    /\ reply' = Reply("ok", blobs[a])
    /\ UNCHANGED <<rows, blobs>>

\* The statement fails (an I/O error, the context's deadline) and changes
\* nothing.
Fails ==
    /\ reply' = Reply("failed", None)
    /\ UNCHANGED <<rows, blobs>>

Init ==
    /\ rows = [k \in Key |-> None]
    /\ blobs = [a \in Account |-> None]
    /\ reply = Reply("ok", None)

Next ==
    \/ \E k \in Key, a \in Account, h \in Hash : RegisterAPIKey(k, a, h)
    \/ \E k \in Key, a, b \in Account : RebindAPIKey(k, a, b)
    \/ \E k \in Key, a \in Account : RevokeAPIKey(a, k)
    \/ \E k \in Key, a \in Account, os \in SUBSET Origin : UpdateKeyOrigins(k, a, os)
    \/ \E h \in Hash : ResolveAPIKey(h)
    \/ \E o \in Origin : OriginAllowed(o)
    \/ \E a \in Account, v \in Version, b \in Blob : PutPolicy(a, v, b)
    \/ \E a \in Account : GetPolicy(a)
    \/ Fails

Spec == Init /\ [][Next]_storeVars
=============================================================================
