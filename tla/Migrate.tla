------------------------------ MODULE Migrate ------------------------------
(***************************************************************************)
(* cmd/migrate: copies the API keys and the policy blobs of a Postgres     *)
(* database into the SQLite file of SqliteStore, row by row, without a     *)
(* transaction around them.  It may fail or be stopped after any row, is   *)
(* started again by hand, and nothing keeps the old relay from writing to  *)
(* Postgres (external), nor the new one from serving the SQLite file.      *)
(***************************************************************************)
EXTENDS SqliteStore

CONSTANTS
    Runs,  \* how often the command is started
    Edits  \* how many changes the two relays make meanwhile

ASSUME MigrateAssumption == Runs \in Nat /\ Edits \in Nat

VARIABLES
    src, srcBlobs,  \* the Postgres tables
    phase,          \* "stopped", "keys", "policies" or, at its end, "done"
    runs,           \* starts so far
    keys, policies, \* the rows that the SELECTs of the current run returned
    left,           \* the ids of those not copied yet
    edits,          \* changes of the relays so far
    touched,        \* history: keys the new relay has changed since the start
    copied,         \* history: what was last copied for each key
    due             \* history: the versions of each account's policy that the
                    \* new relay took, or that a run which ended had read

migVars == <<src, srcBlobs, phase, runs, keys, policies, left, edits, touched, copied, due>>
vars == <<storeVars, migVars>>

Present(table) == {i \in DOMAIN table : table[i] # None}

\* main opens the databases and creates the tables it does not find.  A SELECT
\* returns one snapshot of its table, read row by row.
Start ==
    /\ phase \in {"stopped", "done"} /\ runs < Runs
    /\ phase' = "keys" /\ runs' = runs + 1
    /\ keys' = src /\ left' = Present(src)
    /\ touched' = {}
    /\ UNCHANGED <<storeVars, src, srcBlobs, policies, edits, copied, due>>

Stop ==
    /\ phase' = "stopped"
    /\ UNCHANGED <<rows, src, srcBlobs, runs, keys, policies, left, edits, touched, copied, due>>

\* Mutant of CopyKey: the origins are only written with a new row.
CopyKeyKeepsOrigins(k) ==
    /\ phase = "keys" /\ k \in left
    /\ rows' = [rows EXCEPT ![k] = [keys[k] EXCEPT !.origins =
                                      IF rows[k] = None THEN @ ELSE rows[k].origins]]
    /\ left' = left \ {k}
    /\ copied' = [copied EXCEPT ![k] = keys[k]]
    /\ UNCHANGED <<blobs, reply, src, srcBlobs, phase, runs, keys, policies, edits, touched, due>>

\* The upsert of migrateAPIKeys replaces every column.  key_hash is UNIQUE: the
\* hash of another row is an error, which ends the command.
CopyKey(k) ==
    /\ phase = "keys" /\ k \in left
    /\ IF \E j \in Key \ {k} : rows[j] # None /\ rows[j].hash = keys[k].hash
         THEN Stop
         ELSE /\ rows' = [rows EXCEPT ![k] = keys[k]]
              /\ left' = left \ {k}
              /\ copied' = [copied EXCEPT ![k] = keys[k]]
              /\ UNCHANGED <<src, srcBlobs, phase, runs, keys, policies, edits, touched, due>>
    /\ UNCHANGED <<blobs, reply>>

EndKeys ==
    /\ phase = "keys" /\ left = {}
    /\ phase' = "policies"
    /\ policies' = srcBlobs /\ left' = Present(srcBlobs)
    /\ UNCHANGED <<storeVars, src, srcBlobs, runs, keys, edits, touched, copied, due>>

\* Mutant of CopyPolicy: the WHERE clause is missing.
CopyPolicyAlways(a) ==
    /\ phase = "policies" /\ a \in left
    /\ blobs' = [blobs EXCEPT ![a] = policies[a]]
    /\ left' = left \ {a}
    /\ UNCHANGED <<rows, reply, src, srcBlobs, phase, runs, keys, policies, edits, touched, copied,
                   due>>

\* The upsert of migratePolicyBlobs is that of PutPolicy.
CopyPolicy(a) ==
    /\ phase = "policies" /\ a \in left
    /\ PutPolicy(a, policies[a].version, policies[a].blob)
    /\ left' = left \ {a}
    /\ UNCHANGED <<src, srcBlobs, phase, runs, keys, policies, edits, touched, copied, due>>

End ==
    /\ phase = "policies" /\ left = {}
    /\ phase' = "done"
    /\ due' = [a \in Account |-> due[a] \cup (IF policies[a] = None THEN {}
                                              ELSE {policies[a].version})]
    /\ UNCHANGED <<storeVars, src, srcBlobs, runs, keys, policies, left, edits, touched, copied>>

\* A statement or the network fails, two minutes have passed, the machine goes.
Abort ==
    /\ phase \in {"keys", "policies"}
    /\ Stop
    /\ UNCHANGED <<blobs, reply>>

-----------------------------------------------------------------------------
\* External: the old relay's Postgres, where secrets are unique and policies
\* only get newer.
OldRelay ==
    /\ edits < Edits /\ edits' = edits + 1
    /\ \/ \E k \in Key, row \in Row \cup {None} :
            /\ row # None => row.hash \notin {src[j].hash : j \in Present(src) \ {k}}
            /\ src' = [src EXCEPT ![k] = row]
            /\ UNCHANGED srcBlobs
       \/ \E a \in Account, p \in Policy :
            /\ srcBlobs[a] # None => p.version > srcBlobs[a].version
            /\ srcBlobs' = [srcBlobs EXCEPT ![a] = p]
            /\ UNCHANGED src
    /\ UNCHANGED <<storeVars, phase, runs, keys, policies, left, touched, copied, due>>

\* The new relay serves the SQLite file.
NewRelay ==
    /\ edits < Edits /\ edits' = edits + 1
    /\ \/ /\ \/ \E k \in Key, a \in Account, h \in Hash : RegisterAPIKey(k, a, h)
             \/ \E k \in Key, a, b \in Account : RebindAPIKey(k, a, b)
             \/ \E k \in Key, a \in Account : RevokeAPIKey(a, k)
             \/ \E k \in Key, a \in Account, os \in SUBSET Origin : UpdateKeyOrigins(k, a, os)
          /\ UNCHANGED due
       \/ \E a \in Account, v \in Version, b \in Blob :
            PutPolicy(a, v, b) /\ due' = [due EXCEPT ![a] = @ \cup {v}]
    /\ touched' = touched \cup {k \in Key : rows'[k] # rows[k]}
    /\ UNCHANGED <<src, srcBlobs, phase, runs, keys, policies, left, copied>>

MigrateInit ==
    /\ Init
    /\ src = [k \in Key |-> None]
    /\ srcBlobs = [a \in Account |-> None]
    /\ phase = "stopped" /\ runs = 0
    /\ keys = [k \in Key |-> None] /\ policies = [a \in Account |-> None]
    /\ left = {}
    /\ edits = 0 /\ touched = {}
    /\ copied = [k \in Key |-> None]
    /\ due = [a \in Account |-> {}]

MigrateNext ==
    \/ Start
    \/ \E k \in Key : CopyKey(k)
    \/ EndKeys
    \/ \E a \in Account : CopyPolicy(a)
    \/ End
    \/ Abort
    \/ OldRelay
    \/ NewRelay

MigrateSpec == MigrateInit /\ [][MigrateNext]_vars

-----------------------------------------------------------------------------
(* Properties.                                                             *)

\* A run that is past the keys has copied every key of its snapshot as it was,
\* all columns, except where the new relay has changed it since the run began,
\* whatever runs that failed half-way have left behind.
KeysAreCopied ==
    phase \in {"policies", "done"} =>
        \A k \in Key : keys[k] # None /\ k \notin touched => rows[k] = keys[k]

\* The SQLite file has version v of the policy of a, or a newer one.
Stored(a, v) == blobs[a] # None /\ blobs[a].version >= v

\* Once a run has ended, the SQLite file has every policy that the run read, or
\* a newer one, and it keeps it through later runs, ended or not; a policy that
\* the new relay took before, beside or after the runs is not lost to a copy.
PoliciesAreNewest ==
    \A a \in Account : \A v \in due[a] : Stored(a, v)

\* "It is idempotent: rows are upserted, so re-running tops up the SQLite copy
\* without duplicating": a run changes a key only if Postgres has something for
\* it that was not copied before.
RerunTopsUp ==
    [][\A k \in Key : phase = "keys" /\ left' # left /\ rows'[k] # rows[k] =>
         copied'[k] # copied[k]]_vars
=============================================================================
