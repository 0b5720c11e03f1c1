---------------------------- MODULE RateLimiter ----------------------------
(***************************************************************************)
(* The per-key token buckets of POST /v1/requests and the goroutine that   *)
(* prunes the idle ones (cmd/relay/ratelimit.go, newServer of http.go).    *)
(*                                                                         *)
(* rateLimiter.mu guards the map, keyLimiter.mu one bucket, and allow      *)
(* releases the first before it takes the second: a handler holds a        *)
(* pointer to a bucket in between.  prune holds the first throughout, but  *)
(* the second only to read one bucket's time.                              *)
(*                                                                         *)
(* Time passes in ticks that earn Rate whole tokens; the float64           *)
(* arithmetic on fractions of a token is left out.  A bucket's last is     *)
(* kept as its age, now - last, capped where neither the refill nor prune  *)
(* can tell the difference any more.                                       *)
(***************************************************************************)
EXTENDS Integers, FiniteSets, FiniteSetsExt

CONSTANTS
    Proc,     \* concurrent calls of rateLimiter.allow
    Key,      \* API key ids
    Limiter,  \* memory for buckets
    Rate,     \* tokens per tick
    Burst,    \* capacity of a bucket
    TTL,      \* ticks after which an idle bucket is pruned
    None

\* An idle bucket is full before it is pruned: 5/s for an hour against 20.
ASSUME RateAssumption ==
    /\ Rate \in Nat \ {0} /\ Burst \in Nat \ {0} /\ TTL \in Nat
    /\ Rate * TTL >= Burst
    /\ IsFiniteSet(Key) /\ IsFiniteSet(Proc)
    /\ IsFiniteSet(Limiter) /\ Cardinality(Limiter) >= Cardinality(Key) + Cardinality(Proc)
    /\ None \notin Key \cup Limiter

VARIABLES
    keys,     \* rl.keys
    tokens,   \* kl.tokens
    age,      \* time since kl.last
    call,     \* the key of each call under way
    held,     \* the bucket it has looked up
    pruning,  \* does prune hold rl.mu?
    expired,  \* keys before the cutoff that prune has not come to yet
    doomed,   \* the key prune found idle and is about to delete
    credit,   \* history: the level of a bucket that is never pruned
    raced     \* history: keys served from a bucket prune had given up

vars == <<keys, tokens, age, call, held, pruning, expired, doomed, credit, raced>>

MaxAge == TTL + 1

\* Buckets the garbage collector has (or may have) taken back.
Unused == Limiter \ ({keys[k] : k \in Key} \cup {held[p] : p \in Proc})

\* rateLimiter.allow up to rl.mu.Unlock: find the bucket of k or make one.
Lookup(p, k) ==
    /\ call[p] = None
    /\ ~pruning
    /\ \/ /\ keys[k] # None
          /\ held' = [held EXCEPT ![p] = keys[k]]
          /\ UNCHANGED <<keys, tokens, age>>
       \/ /\ keys[k] = None
          /\ LET l == CHOOSE l \in Unused : TRUE
             IN  /\ keys' = [keys EXCEPT ![k] = l]
                 /\ held' = [held EXCEPT ![p] = l]
                 /\ tokens' = [tokens EXCEPT ![l] = Burst]
                 /\ age' = [age EXCEPT ![l] = 0]
    /\ call' = [call EXCEPT ![p] = k]
    /\ UNCHANGED <<pruning, expired, doomed, credit, raced>>

\* Mutant of Refilled: the bucket has no capacity.
RefilledUncapped(l) == tokens[l] + Rate * age[l]

\* The tokens of a bucket with those its age has earned.
Refilled(l) == Min({Burst, tokens[l] + Rate * age[l]})

\* keyLimiter.allow: earn, then spend one token or refuse.  The key is not
\* idle for a prune whose cutoff has passed.
Take(p) ==
    LET k == call[p]
        l == held[p]
        ok == Refilled(l) >= 1
    IN  /\ k # None
        /\ tokens' = [tokens EXCEPT ![l] = Refilled(l) - (IF ok THEN 1 ELSE 0)]
        /\ age' = [age EXCEPT ![l] = 0]
        /\ expired' = IF keys[k] = l THEN expired \ {k} ELSE expired
        /\ call' = [call EXCEPT ![p] = None]
        /\ held' = [held EXCEPT ![p] = None]
        /\ credit' = [credit EXCEPT ![k] = @ - (IF ok THEN 1 ELSE 0)]
        /\ raced' = IF keys[k] # l \/ doomed = k THEN raced \cup {k} ELSE raced
        /\ UNCHANGED <<keys, pruning, doomed>>

\* Time passes, up to the cap on ages.
Tick ==
    /\ age' = [l \in Limiter |-> Min({MaxAge, age[l] + 1})]
    /\ credit' = [k \in Key |-> Min({Burst, credit[k] + Rate})]
    /\ UNCHANGED <<keys, tokens, call, held, pruning, expired, doomed, raced>>

\* Mutant of PruneBegin: any bucket older than a tick is taken for idle.
PruneBeginEarly ==
    /\ ~pruning
    /\ pruning' = TRUE
    /\ expired' = {k \in Key : keys[k] # None /\ age[keys[k]] >= 1}
    /\ UNCHANGED <<keys, tokens, age, call, held, doomed, credit, raced>>

\* Mutant of PruneBegin: the comparison with the cutoff never holds.
PruneBeginNever ==
    /\ ~pruning
    /\ pruning' = TRUE
    /\ expired' = {k \in Key : keys[k] # None /\ age[keys[k]] > MaxAge}
    /\ UNCHANGED <<keys, tokens, age, call, held, doomed, credit, raced>>

\* The ticker fires: prune takes rl.mu and computes the cutoff.
PruneBegin ==
    /\ ~pruning
    /\ pruning' = TRUE
    /\ expired' = {k \in Key : keys[k] # None /\ age[keys[k]] > TTL}
    /\ UNCHANGED <<keys, tokens, age, call, held, doomed, credit, raced>>

\* One iteration reads kl.last under kl.mu; Go's map order is arbitrary.
PruneRead ==
    /\ pruning /\ doomed = None
    /\ \E k \in expired : doomed' = k /\ expired' = expired \ {k}
    /\ UNCHANGED <<keys, tokens, age, call, held, pruning, credit, raced>>

\* ... and deletes the entry after kl.mu is released.
PruneDelete ==
    /\ doomed # None
    /\ keys' = [keys EXCEPT ![doomed] = None]
    /\ doomed' = None
    /\ UNCHANGED <<tokens, age, call, held, pruning, expired, credit, raced>>

PruneEnd ==
    /\ pruning /\ doomed = None /\ expired = {}
    /\ pruning' = FALSE
    /\ UNCHANGED <<keys, tokens, age, call, held, expired, doomed, credit, raced>>

Init ==
    /\ keys = [k \in Key |-> None]
    /\ tokens = [l \in Limiter |-> 0]
    /\ age = [l \in Limiter |-> 0]
    /\ call = [p \in Proc |-> None]
    /\ held = [p \in Proc |-> None]
    /\ pruning = FALSE /\ expired = {} /\ doomed = None
    /\ credit = [k \in Key |-> Burst]
    /\ raced = {}

Prune == PruneBegin \/ PruneRead \/ PruneDelete \/ PruneEnd

Next ==
    \/ \E p \in Proc : (\E k \in Key : Lookup(p, k)) \/ Take(p)
    \/ Tick
    \/ Prune

Spec == Init /\ [][Next]_vars

\* A call that holds a bucket goes on, and the ticker goes on firing.
FairSpec == Spec /\ WF_vars(Prune) /\ \A p \in Proc : WF_vars(Take(p))

-----------------------------------------------------------------------------
(* Properties.                                                             *)

\* Levels and ages stay in range; a call under way holds a bucket.
TypeOK ==
    /\ keys \in [Key -> Limiter \cup {None}]
    /\ tokens \in [Limiter -> 0..Burst]
    /\ age \in [Limiter -> 0..MaxAge]
    /\ call \in [Proc -> Key \cup {None}]
    /\ held \in [Proc -> Limiter \cup {None}]
    /\ \A p \in Proc : call[p] = None <=> held[p] = None
    /\ pruning \in BOOLEAN
    /\ expired \subseteq Key
    /\ doomed \in Key \cup {None}
    /\ credit \in [Key -> Int]
    /\ raced \subseteq Key

\* A key is never admitted more often than one bucket of Burst tokens that
\* earns Rate per tick would admit it ("5 requests/sec sustained, burst of 20",
\* http.go newServer).
NeverExceedsRate == \A k \in Key : credit[k] >= 0

\* Pruning and recreating buckets gives a key no extra tokens, unless a call
\* spent from a bucket that prune had already found idle.
ExceedsOnlyByRace == \A k \in Key \ raced : credit[k] >= 0

\* Even then the excess is limited by the calls in flight: each can have come
\* to a bucket twice before it was given up, once for a bucket that was pruned
\* long ago and once for its successor.  (Rate * TTL must also cover that
\* excess, as 18000 tokens an hour do.)
ExcessBounded == \A k \in Key : credit[k] >= -(2 * Cardinality(Proc) - 1)

\* An idle entry does not stay in the map: it is deleted, or used again ("so
\* the map stays bounded", http.go newServer).
IdleEntriesGo ==
    \A k \in Key, l \in Limiter :
        keys[k] = l /\ age[l] > TTL ~> keys[k] # l \/ age[l] = 0
=============================================================================
