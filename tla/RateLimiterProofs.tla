------------------------- MODULE RateLimiterProofs -------------------------
(***************************************************************************)
(* Proofs about RateLimiter, for every number of keys and concurrent calls,*)
(* every rate and capacity, and every time to live in which an idle bucket *)
(* fills up.                                                               *)
(***************************************************************************)
EXTENDS RateLimiter, FiniteSetTheorems, TLAPS

-----------------------------------------------------------------------------
(* Arithmetic.                                                             *)

\* The smaller of two numbers.
LEMMA MinOfTwo ==
    ASSUME NEW a \in Int, NEW b \in Int
    PROVE  /\ Min({a, b}) \in {a, b}
           /\ Min({a, b}) <= a /\ Min({a, b}) <= b
<1>1. \E x \in {a, b} : \A y \in {a, b} : x <= y
  <2>1. CASE a <= b
    BY <2>1
  <2>2. CASE ~(a <= b)
    BY <2>2
  <2> QED BY <2>1, <2>2
<1>2. /\ Min({a, b}) \in {a, b}
      /\ \A y \in {a, b} : Min({a, b}) <= y
  BY <1>1 DEF Min
<1> QED BY <1>2

\* What time earns: a natural number of tokens, Rate more for each tick, and
\* enough to fill a bucket when the time to live is over.
LEMMA Earned ==
    ASSUME NEW t \in Nat
    PROVE  /\ Rate * t \in Nat
           /\ Rate * (t + 1) = Rate * t + Rate
           /\ t > TTL => Rate * t >= Burst
<1>1. Rate \in Nat /\ TTL \in Nat /\ Burst \in Nat /\ Rate * TTL >= Burst
  BY RateAssumption
<1>2. Rate * t \in Nat
  BY <1>1
<1>3. Rate * (t + 1) = Rate * t + Rate
  BY <1>1
<1>4. ASSUME t > TTL PROVE Rate * t >= Burst
  <2> DEFINE u == t - TTL
  <2>1. u \in Nat /\ t = TTL + u
    BY <1>1, <1>4
  <2> HIDE DEF u
  <2>2. Rate * t = Rate * TTL + Rate * u /\ Rate * u \in Nat
    BY <1>1, <2>1
  <2> QED BY <1>1, <2>2
<1> QED BY <1>2, <1>3, <1>4

\* The level of a bucket is between 0 and Burst.
LEMMA RefilledType ==
    ASSUME TypeOK, NEW l \in Limiter
    PROVE  /\ tokens[l] \in Nat /\ age[l] \in Nat /\ Rate * age[l] \in Nat /\ Burst \in Nat
           /\ Refilled(l) \in {Burst, tokens[l] + Rate * age[l]}
           /\ Refilled(l) <= Burst /\ Refilled(l) <= tokens[l] + Rate * age[l]
           /\ Refilled(l) \in 0..Burst
<1>1. tokens[l] \in Nat /\ age[l] \in Nat /\ Burst \in Nat
  BY RateAssumption DEF TypeOK, MaxAge
<1>2. Rate * age[l] \in Nat
  BY <1>1, Earned
<1> DEFINE e == Rate * age[l]
<1> HIDE DEF e
<1>0. e \in Nat /\ tokens[l] + e \in Int /\ Burst \in Int
  BY <1>1, <1>2 DEF e
<1>3. /\ Min({Burst, tokens[l] + e}) \in {Burst, tokens[l] + e}
      /\ Min({Burst, tokens[l] + e}) <= Burst /\ Min({Burst, tokens[l] + e}) <= tokens[l] + e
  BY <1>0, MinOfTwo
<1>4. Refilled(l) = Min({Burst, tokens[l] + e})
  BY DEF Refilled, e
<1>5. Refilled(l) \in 0..Burst
  BY <1>0, <1>1, <1>3, <1>4
<1> QED BY <1>1, <1>2, <1>3, <1>4, <1>5 DEF e

-----------------------------------------------------------------------------
(* Memory.                                                                 *)

\* An image of a finite set is finite and no larger.
LEMMA Image ==
    ASSUME NEW S, IsFiniteSet(S), NEW f, S \subseteq DOMAIN f
    PROVE  /\ IsFiniteSet({f[x] : x \in S})
           /\ Cardinality({f[x] : x \in S}) <= Cardinality(S)
<1> DEFINE T == {f[x] : x \in S}
           g == [x \in S |-> f[x]]
<1>1. g \in Surjection(S, T)
  BY DEF Surjection
<1> HIDE DEF g
<1> QED BY <1>1, FS_Surjection

\* There is memory for a new bucket whenever one is needed: every other key and
\* every other call has at most one.
LEMMA SomeUnused ==
    ASSUME TypeOK, NEW p \in Proc, NEW k \in Key, call[p] = None, keys[k] = None
    PROVE  \E l \in Limiter : l \in Unused
<1> DEFINE A == {keys[j] : j \in Key \ {k}}
           B == {held[q] : q \in Proc \ {p}}
<1>1. held[p] = None /\ None \notin Limiter
  BY RateAssumption DEF TypeOK
<1>2. /\ IsFiniteSet(Key \ {k}) /\ Cardinality(Key \ {k}) = Cardinality(Key) - 1
      /\ IsFiniteSet(Proc \ {p}) /\ Cardinality(Proc \ {p}) = Cardinality(Proc) - 1
      /\ Cardinality(Key) \in Nat /\ Cardinality(Proc) \in Nat /\ Cardinality(Limiter) \in Nat
  BY RateAssumption, FS_RemoveElement, FS_CardinalityType
<1>3. /\ IsFiniteSet(A) /\ Cardinality(A) <= Cardinality(Key) - 1
      /\ IsFiniteSet(B) /\ Cardinality(B) <= Cardinality(Proc) - 1
  BY <1>2, Image DEF TypeOK
<1>4. Unused = Limiter \ (A \cup B)
  BY <1>1 DEF Unused
<1> HIDE DEF A, B
<1>5. /\ IsFiniteSet(A \cup B)
      /\ Cardinality(A \cup B) <= Cardinality(Key) + Cardinality(Proc) - 2
  <2>1. /\ IsFiniteSet(A \cup B) /\ IsFiniteSet(A \cap B)
        /\ Cardinality(A \cup B) = Cardinality(A) + Cardinality(B) - Cardinality(A \cap B)
    BY <1>3, FS_Union, FS_Intersection
  <2>2. /\ Cardinality(A) \in Nat /\ Cardinality(B) \in Nat /\ Cardinality(A \cap B) \in Nat
    BY <1>3, <2>1, FS_CardinalityType
  <2> QED BY <1>2, <1>3, <2>1, <2>2
<1>6. ASSUME Limiter \subseteq A \cup B PROVE FALSE
  <2>1. Cardinality(Limiter) <= Cardinality(A \cup B) /\ Cardinality(A \cup B) \in Nat
    BY <1>5, <1>6, FS_Subset, FS_CardinalityType
  <2>2. Cardinality(Limiter) >= Cardinality(Key) + Cardinality(Proc)
    BY RateAssumption
  <2> QED BY <1>2, <1>5, <2>1, <2>2
<1> QED BY <1>4, <1>6

-----------------------------------------------------------------------------
(* Types.                                                                  *)

\* What Lookup does: the call holds the bucket of its key, which is there or is
\* made of memory that nobody uses.
LEMMA LookupEffect ==
    ASSUME TypeOK, NEW p \in Proc, NEW k \in Key, Lookup(p, k)
    PROVE  \E l \in Limiter :
             /\ call[p] = None /\ ~pruning
             /\ \/ keys[k] = l /\ UNCHANGED <<keys, tokens, age>>
                \/ /\ keys[k] = None /\ l \in Unused
                   /\ keys' = [keys EXCEPT ![k] = l]
                   /\ tokens' = [tokens EXCEPT ![l] = Burst]
                   /\ age' = [age EXCEPT ![l] = 0]
             /\ held' = [held EXCEPT ![p] = l] /\ call' = [call EXCEPT ![p] = k]
             /\ UNCHANGED <<pruning, expired, doomed, credit, raced>>
<1>1. CASE keys[k] # None
  <2>1. keys[k] \in Limiter
    BY <1>1 DEF TypeOK
  <2> QED BY <1>1, <2>1 DEF Lookup
<1>2. CASE keys[k] = None
  <2> DEFINE l == CHOOSE l \in Unused : TRUE
  <2>1. \E x \in Limiter : x \in Unused
    BY <1>2, SomeUnused DEF Lookup
  <2>2. l \in Unused /\ Unused \subseteq Limiter
    BY <2>1 DEF Unused
  <2>3. /\ call[p] = None /\ ~pruning
        /\ keys' = [keys EXCEPT ![k] = l]
        /\ tokens' = [tokens EXCEPT ![l] = Burst]
        /\ age' = [age EXCEPT ![l] = 0]
        /\ held' = [held EXCEPT ![p] = l] /\ call' = [call EXCEPT ![p] = k]
        /\ UNCHANGED <<pruning, expired, doomed, credit, raced>>
    BY <1>2 DEF Lookup
  <2> HIDE DEF l
  <2> QED BY <1>2, <2>2, <2>3
<1> QED BY <1>1, <1>2

\* What Take does: the level of the bucket, less a token if there is one.
LEMMA TakeEffect ==
    ASSUME TypeOK, NEW p \in Proc, Take(p)
    PROVE  /\ call[p] \in Key /\ held[p] \in Limiter
           /\ \E spent \in {0, 1} :
                /\ spent = 1 <=> Refilled(held[p]) >= 1
                /\ tokens' = [tokens EXCEPT ![held[p]] = Refilled(held[p]) - spent]
                /\ credit' = [credit EXCEPT ![call[p]] = @ - spent]
           /\ age' = [age EXCEPT ![held[p]] = 0]
           /\ expired' = IF keys[call[p]] = held[p] THEN expired \ {call[p]} ELSE expired
           /\ call' = [call EXCEPT ![p] = None] /\ held' = [held EXCEPT ![p] = None]
           /\ raced' = IF keys[call[p]] # held[p] \/ doomed = call[p]
                         THEN raced \cup {call[p]} ELSE raced
           /\ UNCHANGED <<keys, pruning, doomed>>
<1>1. call[p] \in Key /\ held[p] \in Limiter
  BY DEF Take, TypeOK
<1>2. \E spent \in {0, 1} :
        /\ spent = 1 <=> Refilled(held[p]) >= 1
        /\ tokens' = [tokens EXCEPT ![held[p]] = Refilled(held[p]) - spent]
        /\ credit' = [credit EXCEPT ![call[p]] = @ - spent]
  <2>1. CASE Refilled(held[p]) >= 1
    BY <2>1 DEF Take
  <2>2. CASE ~(Refilled(held[p]) >= 1)
    BY <2>2 DEF Take
  <2> QED BY <2>1, <2>2
<1> QED BY <1>1, <1>2 DEF Take

\* Every step keeps the types.
LEMMA NextTypeOK == TypeOK /\ [Next]_vars => TypeOK'
<1> SUFFICES ASSUME TypeOK, [Next]_vars PROVE TypeOK'
  OBVIOUS
<1>0. /\ Burst \in Nat /\ MaxAge \in Nat /\ Rate \in Nat
      /\ None \notin Key /\ None \notin Limiter
  BY RateAssumption DEF MaxAge
<1>1. ASSUME NEW p \in Proc, NEW k \in Key, Lookup(p, k) PROVE TypeOK'
  <2>1. PICK l \in Limiter :
          /\ \/ UNCHANGED <<keys, tokens, age>>
             \/ /\ keys' = [keys EXCEPT ![k] = l]
                /\ tokens' = [tokens EXCEPT ![l] = Burst]
                /\ age' = [age EXCEPT ![l] = 0]
          /\ held' = [held EXCEPT ![p] = l] /\ call' = [call EXCEPT ![p] = k]
          /\ UNCHANGED <<pruning, expired, doomed, credit, raced>>
    BY <1>1, LookupEffect
  <2>2. /\ keys' \in [Key -> Limiter \cup {None}]
        /\ tokens' \in [Limiter -> 0..Burst]
        /\ age' \in [Limiter -> 0..MaxAge]
    <3>1. Burst \in 0..Burst /\ 0 \in 0..MaxAge
      BY <1>0
    <3>2. CASE UNCHANGED <<keys, tokens, age>>
      BY <3>2 DEF TypeOK
    <3>3. CASE /\ keys' = [keys EXCEPT ![k] = l]
               /\ tokens' = [tokens EXCEPT ![l] = Burst]
               /\ age' = [age EXCEPT ![l] = 0]
      BY <3>1, <3>3 DEF TypeOK
    <3> QED BY <2>1, <3>2, <3>3
  <2>3. \A q \in Proc : call'[q] = None <=> held'[q] = None
    BY <1>0, <2>1 DEF TypeOK
  <2> QED BY <2>1, <2>2, <2>3 DEF TypeOK
<1>2. ASSUME NEW p \in Proc, Take(p) PROVE TypeOK'
  <2>1. /\ call[p] \in Key /\ held[p] \in Limiter
        /\ age' = [age EXCEPT ![held[p]] = 0]
        /\ expired' \subseteq expired /\ raced' \subseteq raced \cup {call[p]}
        /\ call' = [call EXCEPT ![p] = None] /\ held' = [held EXCEPT ![p] = None]
        /\ UNCHANGED <<keys, pruning, doomed>>
    BY <1>2, TakeEffect
  <2>2. PICK spent \in {0, 1} :
          /\ spent = 1 <=> Refilled(held[p]) >= 1
          /\ tokens' = [tokens EXCEPT ![held[p]] = Refilled(held[p]) - spent]
          /\ credit' = [credit EXCEPT ![call[p]] = @ - spent]
    BY <1>2, TakeEffect
  <2>3. Refilled(held[p]) \in 0..Burst
    BY <2>1, RefilledType
  <2>4. Refilled(held[p]) - spent \in 0..Burst /\ 0 \in 0..MaxAge
    BY <1>0, <2>2, <2>3
  <2>5. tokens' \in [Limiter -> 0..Burst] /\ age' \in [Limiter -> 0..MaxAge]
    BY <2>1, <2>2, <2>4 DEF TypeOK
  <2>6. credit' \in [Key -> Int]
    BY <2>1, <2>2 DEF TypeOK
  <2> QED BY <2>1, <2>5, <2>6 DEF TypeOK
<1>3. CASE Tick
  <2>1. ASSUME NEW l \in Limiter PROVE Min({MaxAge, age[l] + 1}) \in 0..MaxAge
    <3>1. age[l] \in 0..MaxAge
      BY DEF TypeOK
    <3>2. age[l] + 1 \in Nat /\ MaxAge \in Int /\ age[l] + 1 \in Int
      BY <1>0, <3>1
    <3>3. Min({MaxAge, age[l] + 1}) \in {MaxAge, age[l] + 1} /\ Min({MaxAge, age[l] + 1}) <= MaxAge
      BY <3>2, MinOfTwo
    <3> QED BY <1>0, <3>2, <3>3
  <2>2. ASSUME NEW k \in Key PROVE Min({Burst, credit[k] + Rate}) \in Int
    <3>1. credit[k] + Rate \in Int /\ Burst \in Int
      BY <1>0 DEF TypeOK
    <3>2. Min({Burst, credit[k] + Rate}) \in {Burst, credit[k] + Rate}
      BY <3>1, MinOfTwo
    <3> QED BY <3>1, <3>2
  <2>3. age' \in [Limiter -> 0..MaxAge] /\ credit' \in [Key -> Int]
    BY <1>3, <2>1, <2>2 DEF Tick
  <2> QED BY <1>3, <2>3 DEF Tick, TypeOK
<1>4. CASE PruneBegin
  BY <1>4 DEF PruneBegin, TypeOK
<1>5. CASE PruneRead
  BY <1>5 DEF PruneRead, TypeOK
<1>6. CASE PruneDelete
  BY <1>6 DEF PruneDelete, TypeOK
<1>7. CASE PruneEnd
  BY <1>7 DEF PruneEnd, TypeOK
<1>8. CASE UNCHANGED vars
  BY <1>8 DEF vars, TypeOK
<1> QED BY <1>1, <1>2, <1>3, <1>4, <1>5, <1>6, <1>7, <1>8 DEF Next, Prune

\* The limiter starts without buckets.
LEMMA InitTypeOK == Init => TypeOK
<1> SUFFICES ASSUME Init PROVE TypeOK
  OBVIOUS
<1>1. Burst \in Int /\ 0 \in 0..Burst /\ 0 \in 0..MaxAge
  BY RateAssumption DEF MaxAge
<1>2. tokens \in [Limiter -> 0..Burst] /\ age \in [Limiter -> 0..MaxAge] /\ credit \in [Key -> Int]
  BY <1>1 DEF Init
<1>3. /\ keys \in [Key -> Limiter \cup {None}]
      /\ call \in [Proc -> Key \cup {None}] /\ held \in [Proc -> Limiter \cup {None}]
      /\ \A p \in Proc : call[p] = None <=> held[p] = None
      /\ pruning \in BOOLEAN /\ expired \subseteq Key /\ doomed \in Key \cup {None}
      /\ raced \subseteq Key
  BY DEF Init
<1> QED BY <1>2, <1>3 DEF TypeOK

\* Levels and ages stay in range, and a call under way holds a bucket: there is
\* always memory for a new one.
THEOREM TypeCorrect == Spec => []TypeOK
BY InitTypeOK, NextTypeOK, PTL DEF Spec

-----------------------------------------------------------------------------
(* The race with prune.                                                    *)

\* Only a prune under way has given up a key, and it comes to a key once.
Pruning ==
    /\ ~pruning => expired = {} /\ doomed = None
    /\ doomed \notin expired

\* A bucket belongs to one key, and a call that holds one in the map holds it
\* for its own key.
Owned ==
    /\ \A j, k \in Key : keys[j] # None /\ keys[j] = keys[k] => j = k
    /\ \A p \in Proc, k \in Key : held[p] # None /\ keys[k] = held[p] => k = call[p]

\* The bucket of a key that raced with no prune never holds more than the one
\* that is never pruned, and a bucket that prune has given up is full.
Levels ==
    \A k \in Key \ raced :
        /\ credit[k] <= Burst
        /\ keys[k] = None => credit[k] = Burst
        /\ keys[k] # None => Refilled(keys[k]) <= credit[k]
        /\ k \in expired \/ doomed = k => keys[k] # None /\ Refilled(keys[k]) = Burst

\* Every step keeps Pruning.
LEMMA NextPruning == TypeOK /\ Pruning /\ [Next]_vars => Pruning'
<1> SUFFICES ASSUME TypeOK, Pruning, [Next]_vars PROVE Pruning'
  OBVIOUS
<1>0. None \notin Key /\ expired \subseteq Key
  BY RateAssumption DEF TypeOK
<1>1. ASSUME NEW p \in Proc, NEW k \in Key, Lookup(p, k) PROVE Pruning'
  BY <1>1 DEF Lookup, Pruning
<1>2. ASSUME NEW p \in Proc, Take(p) PROVE Pruning'
  <2>1. expired' \subseteq expired /\ UNCHANGED <<pruning, doomed>>
    BY <1>2, TakeEffect
  <2> QED BY <2>1 DEF Pruning
<1>3. CASE Tick
  BY <1>3 DEF Tick, Pruning
<1>4. CASE PruneBegin
  BY <1>0, <1>4 DEF PruneBegin, Pruning
<1>5. CASE PruneRead
  BY <1>5 DEF PruneRead, Pruning
<1>6. CASE PruneDelete
  BY <1>0, <1>6 DEF PruneDelete, Pruning
<1>7. CASE PruneEnd
  BY <1>7 DEF PruneEnd, Pruning
<1>8. CASE UNCHANGED vars
  BY <1>8 DEF vars, Pruning
<1> QED BY <1>1, <1>2, <1>3, <1>4, <1>5, <1>6, <1>7, <1>8 DEF Next, Prune

\* Every step keeps Owned: a new bucket is made of memory nobody uses.
LEMMA NextOwned == TypeOK /\ Owned /\ [Next]_vars => Owned'
<1> SUFFICES ASSUME TypeOK, Owned, [Next]_vars PROVE Owned'
  OBVIOUS
<1>0. None \notin Key /\ None \notin Limiter
  BY RateAssumption
<1>1. ASSUME NEW p \in Proc, NEW k \in Key, Lookup(p, k) PROVE Owned'
  <2>1. PICK l \in Limiter :
          /\ call[p] = None /\ ~pruning
          /\ \/ keys[k] = l /\ UNCHANGED <<keys, tokens, age>>
             \/ /\ keys[k] = None /\ l \in Unused
                /\ keys' = [keys EXCEPT ![k] = l]
                /\ tokens' = [tokens EXCEPT ![l] = Burst]
                /\ age' = [age EXCEPT ![l] = 0]
          /\ held' = [held EXCEPT ![p] = l] /\ call' = [call EXCEPT ![p] = k]
          /\ UNCHANGED <<pruning, expired, doomed, credit, raced>>
    BY <1>1, LookupEffect
  <2>2. /\ held'[p] = l /\ call'[p] = k
        /\ \A q \in Proc \ {p} : held'[q] = held[q] /\ call'[q] = call[q]
    BY <2>1 DEF TypeOK
  <2>3. CASE keys[k] = l /\ UNCHANGED <<keys, tokens, age>>
    BY <1>0, <2>2, <2>3 DEF Owned
  <2>4. CASE l \in Unused /\ keys' = [keys EXCEPT ![k] = l]
    <3>1. /\ keys'[k] = l /\ \A j \in Key \ {k} : keys'[j] = keys[j]
      BY <2>4 DEF TypeOK
    <3>2. (\A j \in Key : keys[j] # l) /\ (\A q \in Proc : held[q] # l)
      BY <2>4 DEF Unused
    <3>3. \A i, j \in Key : keys'[i] # None /\ keys'[i] = keys'[j] => i = j
      BY <3>1, <3>2 DEF Owned
    <3>4. \A q \in Proc, j \in Key : held'[q] # None /\ keys'[j] = held'[q] => j = call'[q]
      BY <2>2, <3>1, <3>2 DEF Owned
    <3> QED BY <3>3, <3>4 DEF Owned
  <2> QED BY <2>1, <2>3, <2>4
<1>2. ASSUME NEW p \in Proc, Take(p) PROVE Owned'
  <2>1. /\ call' = [call EXCEPT ![p] = None] /\ held' = [held EXCEPT ![p] = None]
        /\ keys' = keys
    BY <1>2, TakeEffect
  <2>2. /\ held'[p] = None
        /\ \A q \in Proc \ {p} : held'[q] = held[q] /\ call'[q] = call[q]
    BY <2>1 DEF TypeOK
  <2> QED BY <2>1, <2>2 DEF Owned
<1>3. CASE Tick
  BY <1>3 DEF Tick, Owned
<1>4. CASE PruneBegin
  BY <1>4 DEF PruneBegin, Owned
<1>5. CASE PruneRead
  BY <1>5 DEF PruneRead, Owned
<1>6. CASE PruneDelete
  <2>1. \A j \in Key : keys'[j] \in {keys[j], None}
    BY <1>6 DEF PruneDelete, TypeOK
  <2>2. UNCHANGED <<call, held>>
    BY <1>6 DEF PruneDelete
  <2> QED BY <2>1, <2>2 DEF Owned
<1>7. CASE PruneEnd
  BY <1>7 DEF PruneEnd, Owned
<1>8. CASE UNCHANGED vars
  BY <1>8 DEF vars, Owned
<1> QED BY <1>1, <1>2, <1>3, <1>4, <1>5, <1>6, <1>7, <1>8 DEF Next, Prune

\* A bucket whose tokens were just set, and are not above Burst, is at that level.
LEMMA FreshLevel ==
    ASSUME TypeOK', NEW l \in Limiter, NEW n \in 0..Burst, tokens'[l] = n, age'[l] = 0
    PROVE  Refilled(l)' = n
<1>1. Burst \in Int /\ Rate \in Int
  BY RateAssumption
<1>2. Refilled(l)' = Min({Burst, n + Rate * 0})
  BY DEF Refilled
<1>3. n + Rate * 0 = n /\ n \in Int /\ n <= Burst
  BY <1>1
<1>4. Min({Burst, n}) \in {Burst, n} /\ Min({Burst, n}) <= n
  BY <1>1, <1>3, MinOfTwo
<1> QED BY <1>1, <1>2, <1>3, <1>4

\* What a tick does to a bucket: at most Rate more, never less, and full buckets
\* stay full.
LEMMA TickLevel ==
    ASSUME TypeOK, TypeOK', Tick, NEW l \in Limiter
    PROVE  /\ Refilled(l)' \in Int /\ Refilled(l)' <= Burst
           /\ Refilled(l)' <= Refilled(l) + Rate
           /\ Refilled(l) = Burst => Refilled(l)' = Burst
<1>1. Rate \in Nat /\ Burst \in Nat /\ MaxAge \in Nat
  BY RateAssumption DEF MaxAge
<1>2. age[l] \in Nat /\ age[l] <= MaxAge /\ tokens[l] \in Nat /\ tokens'[l] = tokens[l]
  BY <1>1 DEF TypeOK, Tick
<1>3. age'[l] \in {age[l], age[l] + 1}
  <2>1. age'[l] = Min({MaxAge, age[l] + 1})
    BY DEF Tick
  <2>2. /\ Min({MaxAge, age[l] + 1}) \in {MaxAge, age[l] + 1}
        /\ Min({MaxAge, age[l] + 1}) <= age[l] + 1
    <3>1. MaxAge \in Int /\ age[l] + 1 \in Int
      BY <1>1, <1>2
    <3> QED BY <3>1, MinOfTwo
  <2> QED BY <1>1, <1>2, <2>1, <2>2
<1> DEFINE e == Rate * age[l]
           f == Rate * age'[l]
<1>4. e \in Nat /\ f \in {e, e + Rate}
  BY <1>2, <1>3, Earned
<1>5. /\ Refilled(l) \in {Burst, tokens[l] + e}
      /\ Refilled(l) <= Burst /\ Refilled(l) <= tokens[l] + e
  BY RefilledType
<1>6. /\ Refilled(l)' \in {Burst, tokens[l] + f}
      /\ Refilled(l)' <= Burst /\ Refilled(l)' <= tokens[l] + f
  <2>1. Refilled(l)' = Min({Burst, tokens[l] + f})
    BY <1>2 DEF Refilled
  <2> HIDE DEF e, f
  <2>2. Burst \in Int /\ tokens[l] + f \in Int
    BY <1>1, <1>2, <1>4
  <2> QED BY <2>1, <2>2, MinOfTwo
<1> HIDE DEF e, f
<1> QED BY <1>1, <1>2, <1>4, <1>5, <1>6

\* Every step keeps Levels.
LEMMA NextLevels ==
    TypeOK /\ TypeOK' /\ Pruning /\ Owned /\ Levels /\ [Next]_vars => Levels'
<1> SUFFICES ASSUME TypeOK, TypeOK', Pruning, Owned, Levels, [Next]_vars,
                    NEW k \in Key, k \notin raced'
             PROVE  /\ credit'[k] <= Burst
                    /\ keys'[k] = None => credit'[k] = Burst
                    /\ keys'[k] # None => Refilled(keys[k])' <= credit'[k]
                    /\ k \in expired' \/ doomed' = k =>
                         keys'[k] # None /\ Refilled(keys[k])' = Burst
  BY DEF Levels
<1> DEFINE Goal == /\ credit'[k] <= Burst
                   /\ keys'[k] = None => credit'[k] = Burst
                   /\ keys'[k] # None => Refilled(keys[k])' <= credit'[k]
                   /\ k \in expired' \/ doomed' = k =>
                        keys'[k] # None /\ Refilled(keys[k])' = Burst
           Here == /\ credit[k] <= Burst
                   /\ keys[k] = None => credit[k] = Burst
                   /\ keys[k] # None => Refilled(keys[k]) <= credit[k]
                   /\ k \in expired \/ doomed = k =>
                        keys[k] # None /\ Refilled(keys[k]) = Burst
<1>0. /\ Burst \in Nat /\ Rate \in Nat /\ MaxAge \in Nat
      /\ None \notin Key /\ None \notin Limiter
      /\ credit[k] \in Int /\ credit'[k] \in Int
  BY RateAssumption DEF MaxAge, TypeOK
<1>a. ASSUME k \notin raced PROVE Here
  BY <1>a DEF Levels
<1>b. ASSUME keys[k] # None
      PROVE  keys[k] \in Limiter /\ Refilled(keys[k]) \in Int /\ Refilled(keys[k]) <= Burst
  <2>1. keys[k] \in Limiter
    BY <1>b DEF TypeOK
  <2> QED BY <1>0, <2>1, RefilledType
\* The bucket and the credit of k stay as they were, and k is not given up anew.
<1>c. ASSUME k \notin raced, keys'[k] = keys[k], credit'[k] = credit[k],
             keys[k] # None =>
               tokens'[keys[k]] = tokens[keys[k]] /\ age'[keys[k]] = age[keys[k]],
             k \in expired' \/ doomed' = k => k \in expired \/ doomed = k
      PROVE  Goal
  <2>1. Here
    BY <1>a, <1>c
  <2>2. CASE keys[k] = None
    BY <1>0, <1>c, <2>1, <2>2
  <2>3. CASE keys[k] # None
    <3>1. Refilled(keys[k])' = Refilled(keys[k])
      <4>1. tokens'[keys'[k]] = tokens[keys[k]] /\ age'[keys'[k]] = age[keys[k]]
        BY <1>c, <2>3
      <4> QED BY <4>1 DEF Refilled
    <3> QED BY <1>c, <2>1, <2>3, <3>1
  <2> QED BY <2>2, <2>3
<1>1. ASSUME NEW p \in Proc, NEW j \in Key, Lookup(p, j) PROVE Goal
  <2>1. PICK l \in Limiter :
          /\ call[p] = None /\ ~pruning
          /\ \/ keys[j] = l /\ UNCHANGED <<keys, tokens, age>>
             \/ /\ keys[j] = None /\ l \in Unused
                /\ keys' = [keys EXCEPT ![j] = l]
                /\ tokens' = [tokens EXCEPT ![l] = Burst]
                /\ age' = [age EXCEPT ![l] = 0]
          /\ held' = [held EXCEPT ![p] = l] /\ call' = [call EXCEPT ![p] = j]
          /\ UNCHANGED <<pruning, expired, doomed, credit, raced>>
    BY <1>1, LookupEffect
  <2>2. CASE UNCHANGED <<keys, tokens, age>>
    BY <1>c, <2>1, <2>2
  <2>3. CASE /\ keys[j] = None /\ l \in Unused
             /\ keys' = [keys EXCEPT ![j] = l]
             /\ tokens' = [tokens EXCEPT ![l] = Burst]
             /\ age' = [age EXCEPT ![l] = 0]
    <3>1. tokens'[l] = Burst /\ age'[l] = 0
      BY <2>3 DEF TypeOK
    <3>2. \A m \in Limiter \ {l} : tokens'[m] = tokens[m] /\ age'[m] = age[m]
      BY <2>3 DEF TypeOK
    <3>3. CASE k = j
      <4>1. keys'[k] = l
        BY <2>3, <3>3 DEF TypeOK
      <4>2. Refilled(l)' = Burst
        BY <1>0, <3>1, FreshLevel
      <4>3. Refilled(keys[k])' = Burst
        BY <4>1, <4>2 DEF Refilled
      <4>4. credit'[k] = Burst /\ keys'[k] # None
        BY <1>0, <1>a, <2>1, <2>3, <3>3, <4>1
      <4> QED BY <1>0, <4>3, <4>4
    <3>4. CASE k # j
      <4>1. keys'[k] = keys[k]
        BY <2>3, <3>4 DEF TypeOK
      <4>2. keys[k] # l
        BY <2>3 DEF Unused
      <4>3. keys[k] # None =>
              tokens'[keys[k]] = tokens[keys[k]] /\ age'[keys[k]] = age[keys[k]]
        BY <1>b, <3>2, <4>2
      <4> QED BY <1>c, <2>1, <4>1, <4>3
    <3> QED BY <3>3, <3>4
  <2> QED BY <2>1, <2>2, <2>3
<1>2. ASSUME NEW p \in Proc, Take(p) PROVE Goal
  <2> DEFINE c == call[p]
             h == held[p]
  <2>1. /\ c \in Key /\ h \in Limiter
        /\ age' = [age EXCEPT ![h] = 0]
        /\ expired' = IF keys[c] = h THEN expired \ {c} ELSE expired
        /\ raced' = IF keys[c] # h \/ doomed = c THEN raced \cup {c} ELSE raced
        /\ UNCHANGED <<keys, pruning, doomed>>
    BY <1>2, TakeEffect
  <2>2. PICK spent \in {0, 1} :
          /\ spent = 1 <=> Refilled(h) >= 1
          /\ tokens' = [tokens EXCEPT ![h] = Refilled(h) - spent]
          /\ credit' = [credit EXCEPT ![c] = @ - spent]
    BY <1>2, TakeEffect
  <2>3. k \notin raced
    BY <2>1
  <2>4. CASE k = c
    <3>1. keys[k] = h /\ doomed # k /\ k \notin expired'
      BY <2>1, <2>4
    <3>2. Refilled(h) \in 0..Burst
      BY <2>1, RefilledType
    <3>3. PICK n \in 0..Burst : n = Refilled(h) - spent
      BY <1>0, <2>2, <3>2
    <3>4. PICK m \in Limiter : m = h
      BY <2>1
    <3>5. tokens'[m] = n /\ age'[m] = 0
      BY <2>1, <2>2, <3>3, <3>4 DEF TypeOK
    <3>6. Refilled(keys[k])' = n
      <4>1. Refilled(m)' = n
        BY <3>5, FreshLevel
      <4>2. keys'[k] = m
        BY <2>1, <3>1, <3>4
      <4> QED BY <4>1, <4>2 DEF Refilled
    <3>7. credit'[k] = credit[k] - spent
      BY <2>2, <2>4 DEF TypeOK
    <3>8. Refilled(h) <= credit[k] /\ credit[k] <= Burst
      BY <1>0, <1>a, <2>1, <2>3, <3>1
    <3>9. n <= credit'[k] /\ credit'[k] <= Burst
      BY <1>0, <3>2, <3>3, <3>7, <3>8
    <3> QED BY <1>0, <2>1, <3>1, <3>6, <3>9
  <2>5. CASE k # c
    <3>1. keys'[k] = keys[k] /\ credit'[k] = credit[k]
      BY <2>1, <2>2, <2>5 DEF TypeOK
    <3>2. keys[k] # h
      BY <1>0, <2>1, <2>5 DEF Owned
    <3>3. keys[k] # None =>
            tokens'[keys[k]] = tokens[keys[k]] /\ age'[keys[k]] = age[keys[k]]
      BY <1>b, <2>1, <2>2, <3>2 DEF TypeOK
    <3>4. k \in expired' \/ doomed' = k => k \in expired \/ doomed = k
      BY <2>1
    <3> QED BY <1>c, <2>3, <3>1, <3>3, <3>4
  <2> QED BY <2>4, <2>5
<1>3. CASE Tick
  <2>1. /\ UNCHANGED <<keys, expired, doomed, raced>>
        /\ credit'[k] = Min({Burst, credit[k] + Rate})
    BY <1>3 DEF Tick
  <2>2. credit'[k] \in {Burst, credit[k] + Rate} /\ credit'[k] <= Burst
    <3>1. Burst \in Int /\ credit[k] + Rate \in Int
      BY <1>0
    <3> QED BY <2>1, <3>1, MinOfTwo
  <2>3. Here
    BY <1>a, <2>1
  <2>4. CASE keys[k] = None
    <3>1. credit'[k] = Burst
      <4>1. /\ Min({Burst, Burst + Rate}) \in {Burst, Burst + Rate}
            /\ Min({Burst, Burst + Rate}) <= Burst
        <5>1. Burst \in Int /\ Burst + Rate \in Int
          BY <1>0
        <5> QED BY <5>1, MinOfTwo
      <4> QED BY <1>0, <2>1, <2>2, <2>3, <2>4, <4>1
    <3> QED BY <1>0, <2>1, <2>3, <2>4, <3>1
  <2>5. CASE keys[k] # None
    <3> DEFINE l == keys[k]
    <3>1. l \in Limiter /\ Refilled(l) \in Int /\ Refilled(l) <= Burst /\ Refilled(l) <= credit[k]
      BY <1>b, <2>3, <2>5
    <3>2. \A m \in Limiter :
            /\ Refilled(m)' \in Int /\ Refilled(m)' <= Burst
            /\ Refilled(m)' <= Refilled(m) + Rate
            /\ Refilled(m) = Burst => Refilled(m)' = Burst
      BY <1>3, TickLevel
    <3>3. PICK m \in Limiter : m = keys[k]
      BY <3>1
    <3>4. Refilled(keys[k])' = Refilled(m)'
      <4>1. keys'[k] = m
        BY <2>1, <3>3
      <4> QED BY <4>1 DEF Refilled
    <3>5. Refilled(m)' <= credit'[k]
      BY <1>0, <2>2, <3>1, <3>2, <3>3
    <3>6. Refilled(m) = Burst => Refilled(m)' = Burst
      BY <3>2
    <3> QED BY <2>1, <2>2, <2>3, <2>5, <3>3, <3>4, <3>5, <3>6
  <2> QED BY <2>4, <2>5
<1>4. CASE PruneBegin
  <2>1. /\ ~pruning /\ expired' = {j \in Key : keys[j] # None /\ age[keys[j]] > TTL}
        /\ UNCHANGED <<keys, tokens, age, doomed, credit, raced>>
    BY <1>4 DEF PruneBegin
  <2>2. Here /\ doomed' # k
    BY <1>0, <1>a, <2>1 DEF Pruning
  <2>3. CASE k \in expired'
    <3>1. keys[k] # None /\ age[keys[k]] > TTL
      BY <2>1, <2>3
    <3> DEFINE l == keys[k]
    <3>2. /\ l \in Limiter /\ tokens[l] \in Nat /\ age[l] \in Nat /\ Rate * age[l] \in Nat
          /\ Refilled(l) \in {Burst, tokens[l] + Rate * age[l]}
          /\ Refilled(l) <= Burst
      BY <1>b, <3>1, RefilledType
    <3>3. Rate * age[l] >= Burst
      BY <3>1, <3>2, Earned
    <3>4. Refilled(l) = Burst
      BY <1>0, <3>2, <3>3
    <3>5. Refilled(keys[k])' = Refilled(l)
      BY <2>1 DEF Refilled
    <3> QED BY <2>1, <2>2, <3>1, <3>4, <3>5
  <2>4. CASE k \notin expired'
    BY <1>c, <2>1, <2>2, <2>4
  <2> QED BY <2>3, <2>4
<1>5. CASE PruneRead
  <2>1. PICK j \in expired : doomed' = j /\ expired' = expired \ {j}
    BY <1>5 DEF PruneRead
  <2>2. UNCHANGED <<keys, tokens, age, credit, raced>>
    BY <1>5 DEF PruneRead
  <2> QED BY <1>c, <2>1, <2>2
<1>6. CASE PruneDelete
  <2>1. /\ keys' = [keys EXCEPT ![doomed] = None] /\ doomed' = None
        /\ UNCHANGED <<tokens, age, expired, credit, raced>>
    BY <1>6 DEF PruneDelete
  <2>2. CASE k = doomed
    <3>1. Here
      BY <1>a, <2>1
    <3>2. credit[k] = Burst
      BY <1>0, <2>2, <3>1
    <3>3. keys'[k] = None /\ k \notin expired' /\ doomed' # k
      BY <1>0, <2>1, <2>2 DEF Pruning, TypeOK
    <3> QED BY <1>0, <2>1, <3>2, <3>3
  <2>3. CASE k # doomed
    <3>1. keys'[k] = keys[k]
      BY <2>1, <2>3 DEF TypeOK
    <3> QED BY <1>0, <1>c, <2>1, <3>1
  <2> QED BY <2>2, <2>3
<1>7. CASE PruneEnd
  BY <1>7, <1>c DEF PruneEnd
<1>8. CASE UNCHANGED vars
  BY <1>8, <1>c DEF vars
<1> QED BY <1>1, <1>2, <1>3, <1>4, <1>5, <1>6, <1>7, <1>8 DEF Next, Prune

\* The limiter starts without buckets, and every key with its full credit.
LEMMA InitLevels == Init => Pruning /\ Owned /\ Levels
<1> SUFFICES ASSUME Init PROVE Pruning /\ Owned /\ Levels
  OBVIOUS
<1>1. Burst \in Int /\ None \notin Key
  BY RateAssumption
<1>2. Pruning
  BY DEF Init, Pruning
<1>3. Owned
  BY DEF Init, Owned
<1>4. Levels
  BY <1>1 DEF Init, Levels
<1> QED BY <1>2, <1>3, <1>4

\* Pruning and recreating buckets (prune and allow, ratelimit.go) gives no key
\* that never spent from a bucket prune had given up more admissions than one
\* bucket that is never pruned.
THEOREM NoExtraTokens == Spec => []ExceedsOnlyByRace
<1> DEFINE Inv == TypeOK /\ Pruning /\ Owned /\ Levels
<1>1. Init => Inv
  BY InitTypeOK, InitLevels
<1>2. Inv /\ [Next]_vars => Inv'
  BY NextTypeOK, NextPruning, NextOwned, NextLevels
<1>3. Inv => ExceedsOnlyByRace
  <2> SUFFICES ASSUME TypeOK, Levels, NEW k \in Key \ raced PROVE credit[k] >= 0
    BY DEF ExceedsOnlyByRace
  <2>1. Burst \in Nat /\ credit[k] \in Int
    BY RateAssumption DEF TypeOK
  <2>2. CASE keys[k] = None
    BY <2>1, <2>2 DEF Levels
  <2>3. CASE keys[k] # None
    <3>1. keys[k] \in Limiter
      BY <2>3 DEF TypeOK
    <3>2. Refilled(keys[k]) \in 0..Burst
      BY <3>1, RefilledType
    <3> QED BY <2>1, <2>3, <3>2 DEF Levels
  <2> QED BY <2>2, <2>3
<1> QED BY <1>1, <1>2, <1>3, PTL DEF Spec

-----------------------------------------------------------------------------
(* How far the race goes.                                                  *)

Calls == Cardinality(Proc)

\* An idle bucket earns enough to make up for one token per call as well: 5/s
\* for an hour against 20 and the calls in flight.
Recovers == Proc # {} /\ Rate * (TTL + 1) >= Burst + Calls

\* Calls that hold a bucket of k which prune has given up.
Stale(k) == {p \in Proc : call[p] = k /\ (held[p] # keys[k] \/ doomed = k)}

\* What is left of the credit of k when all of them have been served.
Reserve(k) == credit[k] - Cardinality(Stale(k))

\* A key that prune has not come to yet is idle.
Idle == \A k \in expired : keys[k] # None /\ age[keys[k]] > TTL

\* While the bucket of k is in the map, whoever made it or used it last is not
\* stale, and the reserve is short of the bucket's level by two tokens per call
\* but one, until the bucket has been idle for so long that only the stale calls
\* count.  When it is given up, every call that holds it is stale too.
Excess(k) ==
    /\ keys[k] = None \/ doomed = k => Reserve(k) >= Burst - (2 * Calls - 1)
    /\ keys[k] # None /\ doomed # k =>
         /\ Cardinality(Stale(k)) <= Calls - 1
         /\ \/ Reserve(k) >= Burst - (Calls - 1)
            \/ Reserve(k) >= tokens[keys[k]] + Rate * age[keys[k]] - (2 * Calls - 1)

\* The calls that are stale can be counted.
LEMMA StaleCount ==
    ASSUME NEW k \in Key
    PROVE  /\ IsFiniteSet(Stale(k)) /\ Cardinality(Stale(k)) \in 0..Calls
           /\ Calls \in Nat
           /\ (\E p \in Proc : p \notin Stale(k)) => Cardinality(Stale(k)) <= Calls - 1
<1>1. IsFiniteSet(Proc) /\ Calls \in Nat
  BY RateAssumption, FS_CardinalityType DEF Calls
<1>2. Stale(k) \subseteq Proc
  BY DEF Stale
<1> DEFINE S == Stale(k)
<1> HIDE DEF S
<1>3. IsFiniteSet(S) /\ Cardinality(S) \in Nat /\ Cardinality(S) <= Calls
  BY <1>1, <1>2, FS_Subset, FS_CardinalityType DEF Calls, S
<1>4. ASSUME NEW p \in Proc, p \notin S PROVE Cardinality(S) <= Calls - 1
  <2>1. S \subseteq Proc \ {p}
    BY <1>2, <1>4 DEF S
  <2>2. IsFiniteSet(Proc \ {p}) /\ Cardinality(Proc \ {p}) = Calls - 1
    BY <1>1, FS_RemoveElement DEF Calls
  <2> QED BY <2>1, <2>2, FS_Subset
<1> QED BY <1>1, <1>3, <1>4 DEF S

\* A step that leaves a key, its bucket and its calls alone keeps its reserve.
LEMMA SameExcess ==
    ASSUME NEW k \in Key, Excess(k), Stale(k)' = Stale(k), credit'[k] = credit[k],
           keys'[k] = keys[k], doomed' = k <=> doomed = k,
           keys[k] # None => tokens'[keys[k]] = tokens[keys[k]] /\ age'[keys[k]] = age[keys[k]]
    PROVE  Excess(k)'
<1>1. Reserve(k)' = Reserve(k) /\ Cardinality(Stale(k))' = Cardinality(Stale(k))
  BY DEF Reserve
<1> QED BY <1>1 DEF Excess

\* Every step keeps Idle.
LEMMA NextIdle ==
    TypeOK /\ Pruning /\ Owned /\ Idle /\ [Next]_vars => Idle'
<1> SUFFICES ASSUME TypeOK, Pruning, Owned, Idle, [Next]_vars,
                    NEW k \in expired'
             PROVE  keys'[k] # None /\ age'[keys'[k]] > TTL
  BY DEF Idle
<1>0. TTL \in Nat /\ MaxAge \in Int /\ MaxAge > TTL /\ expired \subseteq Key
  BY RateAssumption DEF MaxAge, TypeOK
<1>1. ASSUME NEW p \in Proc, NEW j \in Key, Lookup(p, j)
      PROVE  keys'[k] # None /\ age'[keys'[k]] > TTL
  BY <1>1 DEF Lookup, Pruning
<1>2. ASSUME NEW p \in Proc, Take(p) PROVE keys'[k] # None /\ age'[keys'[k]] > TTL
  <2>1. /\ call[p] \in Key /\ held[p] \in Limiter
        /\ age' = [age EXCEPT ![held[p]] = 0]
        /\ expired' = IF keys[call[p]] = held[p] THEN expired \ {call[p]} ELSE expired
        /\ keys' = keys
    BY <1>2, TakeEffect
  <2>2. k \in expired /\ k \in Key /\ keys[k] # None
    BY <1>0, <2>1 DEF Idle
  <2>3. keys[k] # held[p]
    BY <2>1, <2>2 DEF Owned
  <2>4. keys[k] \in Limiter
    BY <2>2 DEF TypeOK
  <2>5. age'[keys[k]] = age[keys[k]]
    BY <2>1, <2>3, <2>4 DEF TypeOK
  <2> QED BY <2>1, <2>2, <2>5 DEF Idle
<1>3. CASE Tick
  <2>1. k \in expired /\ k \in Key /\ keys' = keys
    BY <1>0, <1>3 DEF Tick
  <2>2. keys[k] # None /\ age[keys[k]] > TTL
    BY <2>1 DEF Idle
  <2> DEFINE l == keys[k]
  <2>3. l \in Limiter /\ age[l] \in 0..MaxAge
    BY <2>1, <2>2 DEF TypeOK
  <2>4. age'[l] = Min({MaxAge, age[l] + 1})
    BY <1>3, <2>3 DEF Tick
  <2> HIDE DEF l
  <2>5. age[l] + 1 \in Int /\ age[l] + 1 > TTL
    BY <1>0, <2>2, <2>3 DEF l
  <2>6. Min({MaxAge, age[l] + 1}) \in {MaxAge, age[l] + 1}
    BY <1>0, <2>5, MinOfTwo
  <2>7. age'[l] > TTL
    BY <1>0, <2>4, <2>5, <2>6
  <2> QED BY <2>1, <2>2, <2>7 DEF l
<1>4. CASE PruneBegin
  BY <1>4 DEF PruneBegin
<1>5. CASE PruneRead
  BY <1>5 DEF PruneRead, Idle
<1>6. CASE PruneDelete
  <2>1. k \in expired /\ k # doomed /\ k \in Key
    BY <1>0, <1>6 DEF PruneDelete, Pruning
  <2>2. keys'[k] = keys[k] /\ age' = age
    BY <1>6, <2>1 DEF PruneDelete, TypeOK
  <2> QED BY <2>1, <2>2 DEF Idle
<1>7. CASE PruneEnd
  BY <1>7 DEF PruneEnd, Idle
<1>8. CASE UNCHANGED vars
  BY <1>8 DEF vars, Idle
<1> QED BY <1>1, <1>2, <1>3, <1>4, <1>5, <1>6, <1>7, <1>8 DEF Next, Prune

\* A lookup makes no call stale, and the bucket it makes is as full as a reserve
\* that has lost two tokens per call allows.
LEMMA LookupExcess ==
    ASSUME TypeOK, Pruning, Owned, NEW p \in Proc, NEW j \in Key, Lookup(p, j),
           NEW k \in Key, Excess(k)
    PROVE  Excess(k)'
<1>0. None \notin Key /\ None \notin Limiter /\ Rate \in Nat /\ Burst \in Nat
  BY RateAssumption
<1>1. PICK l \in Limiter :
        /\ call[p] = None /\ ~pruning
        /\ \/ keys[j] = l /\ UNCHANGED <<keys, tokens, age>>
           \/ /\ keys[j] = None /\ l \in Unused
              /\ keys' = [keys EXCEPT ![j] = l]
              /\ tokens' = [tokens EXCEPT ![l] = Burst]
              /\ age' = [age EXCEPT ![l] = 0]
        /\ held' = [held EXCEPT ![p] = l] /\ call' = [call EXCEPT ![p] = j]
        /\ UNCHANGED <<pruning, expired, doomed, credit, raced>>
  BY LookupEffect
<1>2. doomed = None /\ doomed' = None /\ credit' = credit
  BY <1>1 DEF Pruning
<1>3. /\ held'[p] = l /\ call'[p] = j
      /\ \A q \in Proc \ {p} : held'[q] = held[q] /\ call'[q] = call[q]
  BY <1>1 DEF TypeOK
<1>4. keys'[j] = l /\ \A i \in Key \ {j} : keys'[i] = keys[i]
  BY <1>1 DEF TypeOK
<1>5. p \notin Stale(k) /\ p \notin Stale(k)'
  BY <1>0, <1>1, <1>2, <1>3, <1>4 DEF Stale
<1>6. ASSUME NEW q \in Proc \ {p} PROVE q \in Stale(k) <=> q \in Stale(k)'
  <2>1. CASE keys'[k] = keys[k]
    BY <1>2, <1>3, <2>1 DEF Stale
  <2>2. CASE keys'[k] # keys[k]
    <3>1. k = j /\ keys[k] = None /\ l \in Unused /\ keys'[k] = l
      BY <1>1, <1>4, <2>2
    <3>2. held[q] # l
      BY <3>1 DEF Unused
    <3>3. call[q] = k => held[q] # None
      BY <1>0 DEF TypeOK
    <3> QED BY <1>2, <1>3, <3>1, <3>2, <3>3 DEF Stale
  <2> QED BY <2>1, <2>2
<1>7. Stale(k)' = Stale(k)
  <2>1. Stale(k) \subseteq Proc /\ Stale(k)' \subseteq Proc
    BY DEF Stale
  <2> QED BY <1>5, <1>6, <2>1
<1>8. CASE keys'[k] = keys[k]
  <2>1. ASSUME keys[k] # None
        PROVE  tokens'[keys[k]] = tokens[keys[k]] /\ age'[keys[k]] = age[keys[k]]
    <3>1. keys[k] \in Limiter
      BY <2>1 DEF TypeOK
    <3>2. CASE UNCHANGED <<keys, tokens, age>>
      BY <3>2
    <3>3. CASE /\ l \in Unused
               /\ tokens' = [tokens EXCEPT ![l] = Burst]
               /\ age' = [age EXCEPT ![l] = 0]
      <4>1. keys[k] # l
        BY <3>3 DEF Unused
      <4> QED BY <3>1, <3>3, <4>1 DEF TypeOK
    <3> QED BY <1>1, <3>2, <3>3
  <2> QED BY <1>2, <1>7, <1>8, <2>1, SameExcess
<1>9. CASE keys'[k] # keys[k]
  <2>1. /\ k = j /\ keys[k] = None /\ keys'[k] = l
        /\ tokens' = [tokens EXCEPT ![l] = Burst]
        /\ age' = [age EXCEPT ![l] = 0]
    BY <1>1, <1>4, <1>9
  <2>2. tokens'[l] = Burst /\ age'[l] = 0
    BY <2>1 DEF TypeOK
  <2>3. Reserve(k)' = Reserve(k)
    BY <1>2, <1>7 DEF Reserve
  <2>4. Reserve(k) >= Burst - (2 * Calls - 1)
    BY <2>1 DEF Excess
  <2>5. Cardinality(Stale(k)) <= Calls - 1 /\ Calls \in Nat
    BY <1>5, StaleCount
  <2>6. Burst + Rate * 0 - (2 * Calls - 1) = Burst - (2 * Calls - 1)
    BY <1>0, <2>5
  <2> QED BY <1>2, <1>7, <1>0, <2>1, <2>2, <2>3, <2>4, <2>5, <2>6 DEF Excess
<1> QED BY <1>8, <1>9

\* Serving a stale call costs the credit a token and the stale calls one of
\* them; any other call lowers the level of its bucket with the credit.
LEMMA TakeExcess ==
    ASSUME TypeOK, TypeOK', Owned, NEW p \in Proc, Take(p), NEW k \in Key, Excess(k)
    PROVE  Excess(k)'
<1>0. None \notin Key /\ None \notin Limiter /\ Rate \in Nat /\ Burst \in Nat
  BY RateAssumption
<1> DEFINE l == held[p]
<1>1. /\ call[p] \in Key /\ l \in Limiter
      /\ age' = [age EXCEPT ![l] = 0]
      /\ call' = [call EXCEPT ![p] = None] /\ held' = [held EXCEPT ![p] = None]
      /\ keys' = keys /\ doomed' = doomed
  BY TakeEffect
<1>2. PICK spent \in {0, 1} :
        /\ spent = 1 <=> Refilled(l) >= 1
        /\ tokens' = [tokens EXCEPT ![l] = Refilled(l) - spent]
        /\ credit' = [credit EXCEPT ![call[p]] = @ - spent]
  BY TakeEffect
<1>3. /\ call'[p] = None
      /\ \A q \in Proc \ {p} : held'[q] = held[q] /\ call'[q] = call[q]
  BY <1>1 DEF TypeOK
<1>4. Stale(k)' = Stale(k) \ {p}
  <2>1. p \notin Stale(k)'
    BY <1>0, <1>3 DEF Stale
  <2>2. ASSUME NEW q \in Proc \ {p} PROVE q \in Stale(k)' <=> q \in Stale(k)
    BY <1>1, <1>3 DEF Stale
  <2>3. Stale(k) \subseteq Proc /\ Stale(k)' \subseteq Proc
    BY DEF Stale
  <2> QED BY <2>1, <2>2, <2>3
<1>5. credit[k] \in Int /\ credit'[k] \in Int
  BY DEF TypeOK
<1>6. /\ Cardinality(Stale(k)) \in Nat /\ IsFiniteSet(Stale(k)) /\ Calls \in Nat
      /\ Cardinality(Stale(k)) <= Calls
  BY StaleCount
<1> DEFINE n == Cardinality(Stale(k))
<1>7. CASE p \in Stale(k)
  <2>1. call[p] = k /\ (l # keys[k] \/ doomed = k)
    BY <1>7 DEF Stale
  <2>2. Cardinality(Stale(k))' = n - 1
    <3>1. Cardinality(Stale(k) \ {p}) = n - 1
      BY <1>6, <1>7, FS_RemoveElement
    <3> QED BY <1>4, <3>1
  <2>3. credit'[k] = credit[k] - spent
    BY <1>2, <2>1 DEF TypeOK
  <2>4. Reserve(k)' >= Reserve(k) /\ Reserve(k) \in Int /\ Reserve(k)' \in Int
    BY <1>2, <1>5, <1>6, <2>2, <2>3 DEF Reserve
  <2>5. CASE keys[k] = None \/ doomed = k
    <3>1. Reserve(k) >= Burst - (2 * Calls - 1)
      BY <2>5 DEF Excess
    <3>2. Reserve(k)' >= Burst - (2 * Calls - 1)
      BY <1>0, <1>6, <2>4, <3>1
    <3> QED BY <1>1, <2>5, <3>2 DEF Excess
  <2>6. CASE keys[k] # None /\ doomed # k
    <3> DEFINE m == keys[k]
    <3>1. m \in Limiter /\ m # l
      BY <2>1, <2>6 DEF TypeOK
    <3>2. tokens'[m] = tokens[m] /\ age'[m] = age[m]
      BY <1>1, <1>2, <3>1 DEF TypeOK
    <3>3. tokens[m] \in Nat /\ Rate * age[m] \in Nat
      BY <3>1, RefilledType
    <3>4. /\ n <= Calls - 1
          /\ \/ Reserve(k) >= Burst - (Calls - 1)
             \/ Reserve(k) >= tokens[m] + Rate * age[m] - (2 * Calls - 1)
      BY <2>6 DEF Excess
    <3> DEFINE e == Rate * age[m]
    <3> HIDE DEF e
    <3>5. /\ n - 1 <= Calls - 1
          /\ \/ Reserve(k)' >= Burst - (Calls - 1)
             \/ Reserve(k)' >= tokens[m] + e - (2 * Calls - 1)
      <4>1. CASE Reserve(k) >= Burst - (Calls - 1)
        BY <1>0, <1>6, <2>4, <4>1, <3>4
      <4>2. CASE Reserve(k) >= tokens[m] + e - (2 * Calls - 1)
        BY <1>6, <2>4, <3>3, <4>2, <3>4 DEF e
      <4> QED BY <3>4, <4>1, <4>2 DEF e
    <3>6. Cardinality(Stale(k))' <= Calls - 1
      BY <2>2, <3>5
    <3>7. Rate * age'[keys'[k]] = e /\ tokens'[keys'[k]] = tokens[m] /\ keys'[k] # None /\ doomed' # k
      BY <1>1, <2>6, <3>2 DEF e
    <3> QED BY <3>5, <3>6, <3>7 DEF Excess
  <2> QED BY <2>5, <2>6
<1>8. CASE p \notin Stale(k) /\ call[p] # k
  <2>1. Stale(k)' = Stale(k)
    BY <1>4, <1>8
  <2>2. credit'[k] = credit[k]
    BY <1>2, <1>8 DEF TypeOK
  <2>3. ASSUME keys[k] # None
        PROVE  tokens'[keys[k]] = tokens[keys[k]] /\ age'[keys[k]] = age[keys[k]]
    <3>1. keys[k] \in Limiter /\ keys[k] # l
      BY <1>0, <1>1, <1>8, <2>3 DEF TypeOK, Owned
    <3> QED BY <1>1, <1>2, <3>1 DEF TypeOK
  <2> QED BY <1>1, <2>1, <2>2, <2>3, SameExcess
<1>9. CASE p \notin Stale(k) /\ call[p] = k
  <2>1. keys[k] = l /\ doomed # k
    BY <1>9 DEF Stale
  <2>2. Stale(k)' = Stale(k) /\ credit'[k] = credit[k] - spent
    BY <1>2, <1>4, <1>9 DEF TypeOK
  <2>3. tokens'[l] = Refilled(l) - spent /\ age'[l] = 0
    BY <1>1, <1>2 DEF TypeOK
  <2>4. /\ Refilled(l) \in 0..Burst
        /\ tokens[l] \in Nat /\ Rate * age[l] \in Nat
        /\ Refilled(l) <= tokens[l] + Rate * age[l]
    BY <1>1, RefilledType
  <2>5. /\ n <= Calls - 1
        /\ \/ Reserve(k) >= Burst - (Calls - 1)
           \/ Reserve(k) >= tokens[l] + Rate * age[l] - (2 * Calls - 1)
    BY <1>0, <1>1, <2>1 DEF Excess
  <2>6. Reserve(k)' = Reserve(k) - spent /\ Reserve(k) \in Int
    BY <1>2, <1>5, <1>6, <2>2 DEF Reserve
  <2>7. Reserve(k) >= Refilled(l) - (2 * Calls - 1)
    <3> DEFINE e == Rate * age[l]
    <3> HIDE DEF e, l
    <3>1. CASE Reserve(k) >= Burst - (Calls - 1)
      BY <1>0, <1>6, <2>4, <2>6, <3>1
    <3>2. CASE Reserve(k) >= tokens[l] + e - (2 * Calls - 1)
      BY <1>6, <2>4, <2>6, <3>2 DEF e
    <3> QED BY <2>5, <3>1, <3>2 DEF e
  <2>8. Reserve(k)' >= (Refilled(l) - spent) + Rate * 0 - (2 * Calls - 1)
    BY <1>0, <1>2, <1>6, <2>4, <2>6, <2>7
  <2>9. Cardinality(Stale(k))' <= Calls - 1
    BY <2>2, <2>5
  <2>10. keys'[k] = l /\ l # None /\ doomed' # k
    BY <1>0, <1>1, <2>1
  <2> HIDE DEF l
  <2> QED BY <2>3, <2>8, <2>9, <2>10 DEF Excess
<1> QED BY <1>7, <1>8, <1>9

\* Time refills the reserve as it refills the bucket, up to one token for each
\* stale call; the cap on ages is never noticed.
LEMMA TickExcess ==
    ASSUME TypeOK, TypeOK', Recovers, Tick, NEW k \in Key, Excess(k)
    PROVE  Excess(k)'
<1>0. /\ Rate \in Nat /\ Burst \in Nat /\ TTL \in Nat
      /\ MaxAge \in Nat /\ MaxAge = TTL + 1
      /\ None \notin Limiter
  BY RateAssumption DEF MaxAge
<1>1. /\ Cardinality(Stale(k)) \in Nat /\ Calls \in Nat
      /\ Cardinality(Stale(k)) <= Calls
  BY StaleCount
<1>2. Calls >= 1
  <2>1. Calls # 0
    BY RateAssumption, FS_EmptySet DEF Recovers, Calls
  <2> QED BY <1>1, <2>1
<1>3. keys' = keys /\ doomed' = doomed /\ tokens' = tokens /\ Stale(k)' = Stale(k)
  BY DEF Tick, Stale
<1> DEFINE n == Cardinality(Stale(k))
<1>4. credit[k] \in Int /\ credit'[k] \in {Burst, credit[k] + Rate}
  <2>1. credit[k] \in Int
    BY DEF TypeOK
  <2>2. credit'[k] = Min({Burst, credit[k] + Rate})
    BY DEF Tick
  <2>3. credit[k] + Rate \in Int /\ Burst \in Int
    BY <1>0, <2>1
  <2> QED BY <2>1, <2>2, <2>3, MinOfTwo
<1>5. /\ Reserve(k) \in Int /\ Reserve(k)' \in Int
      /\ Reserve(k)' \in {Burst - n, Reserve(k) + Rate}
  BY <1>0, <1>1, <1>3, <1>4 DEF Reserve
<1>6. CASE keys[k] = None \/ doomed = k
  <2>1. Reserve(k) >= Burst - (2 * Calls - 1)
    BY <1>6 DEF Excess
  <2>2. Reserve(k)' >= Burst - (2 * Calls - 1)
    BY <1>0, <1>1, <1>2, <1>5, <2>1
  <2> QED BY <1>3, <1>6, <2>2 DEF Excess
<1>7. CASE keys[k] # None /\ doomed # k
  <2> DEFINE l == keys[k]
  <2>1. l \in Limiter /\ age[l] \in 0..MaxAge /\ tokens[l] \in Nat
    BY <1>0, <1>7 DEF TypeOK
  <2>2. /\ n <= Calls - 1
        /\ \/ Reserve(k) >= Burst - (Calls - 1)
           \/ Reserve(k) >= tokens[l] + Rate * age[l] - (2 * Calls - 1)
    BY <1>7 DEF Excess
  <2>3. age'[l] = Min({MaxAge, age[l] + 1})
    BY <2>1 DEF Tick
  <2> HIDE DEF l
  <2>4. age'[l] = age[l] + 1 \/ (age'[l] = MaxAge /\ age[l] = MaxAge)
    <3>1. MaxAge \in Int /\ age[l] + 1 \in Int
      BY <1>0, <2>1
    <3>2. /\ Min({MaxAge, age[l] + 1}) \in {MaxAge, age[l] + 1}
          /\ Min({MaxAge, age[l] + 1}) <= age[l] + 1
      BY <3>1, MinOfTwo
    <3> QED BY <1>0, <2>1, <2>3, <3>2
  <2> DEFINE e == Rate * age[l]
             f == Rate * age'[l]
  <2>5. e \in Nat /\ (f = e + Rate \/ (f = e /\ e >= Burst + Calls))
    <3>1. age[l] \in Nat
      BY <1>0, <2>1
    <3>2. CASE age'[l] = age[l] + 1
      BY <3>1, <3>2, Earned
    <3>3. CASE age'[l] = MaxAge /\ age[l] = MaxAge
      BY <1>0, <3>1, <3>3, Earned DEF Recovers
    <3> QED BY <2>4, <3>2, <3>3
  <2> HIDE DEF e, f
  <2>6. \/ Reserve(k)' >= Burst - (Calls - 1)
        \/ Reserve(k)' >= tokens[l] + f - (2 * Calls - 1)
    <3>1. CASE Reserve(k)' = Burst - n
      BY <1>0, <1>1, <2>2, <3>1
    <3>2. CASE Reserve(k)' = Reserve(k) + Rate
      <4>1. CASE Reserve(k) >= Burst - (Calls - 1)
        BY <1>0, <1>1, <1>5, <3>2, <4>1
      <4>2. CASE Reserve(k) >= tokens[l] + e - (2 * Calls - 1)
        BY <1>0, <1>1, <1>5, <2>1, <2>5, <3>2, <4>2
      <4> QED BY <2>2, <4>1, <4>2 DEF e
    <3> QED BY <1>5, <3>1, <3>2
  <2>7. keys'[k] = l /\ keys'[k] # None /\ doomed' # k /\ tokens'[l] = tokens[l]
    BY <1>3, <1>7 DEF l
  <2>8. Cardinality(Stale(k))' <= Calls - 1
    BY <1>3, <2>2
  <2> QED BY <2>6, <2>7, <2>8 DEF Excess, f
<1> QED BY <1>6, <1>7

\* Giving an idle bucket up makes every call that holds it stale, and by then
\* the reserve has recovered to one token less for each stale call but one.
LEMMA PruneReadExcess ==
    ASSUME TypeOK, Idle, Recovers, PruneRead, NEW k \in Key, Excess(k)
    PROVE  Excess(k)'
<1>0. /\ Rate \in Nat /\ Burst \in Nat /\ TTL \in Nat /\ MaxAge = TTL + 1
      /\ None \notin Key
  BY RateAssumption DEF MaxAge
<1>1. PICK d \in expired : doomed' = d
  BY DEF PruneRead
<1>2. doomed = None /\ UNCHANGED <<keys, tokens, age, call, held, credit>> /\ d \in Key
  BY <1>1 DEF PruneRead, TypeOK
<1>3. CASE k # d
  <2>1. Stale(k)' = Stale(k)
    BY <1>0, <1>1, <1>2, <1>3 DEF Stale
  <2>2. doomed' = k <=> doomed = k
    BY <1>0, <1>1, <1>2, <1>3
  <2> QED BY <1>2, <2>1, <2>2, SameExcess
<1>4. CASE k = d
  <2> DEFINE l == keys[k]
             n == Cardinality(Stale(k))
             m == Cardinality(Stale(k)')
  <2>1. l # None /\ age[l] > TTL
    BY <1>1, <1>4 DEF Idle
  <2>2. l \in Limiter /\ age[l] \in 0..MaxAge /\ tokens[l] \in Nat
    BY <1>0, <2>1 DEF TypeOK
  <2>3. /\ n \in Nat /\ Calls \in Nat /\ m \in Nat /\ m <= Calls
    <3>1. n \in Nat /\ Calls \in Nat
      BY StaleCount
    <3>2. Stale(k)' \subseteq Proc /\ IsFiniteSet(Proc)
      BY RateAssumption DEF Stale
    <3>3. IsFiniteSet(Stale(k)') /\ m <= Calls
      BY <3>2, FS_Subset DEF Calls
    <3>4. m \in Nat
      BY <3>3, FS_CardinalityType
    <3> QED BY <3>1, <3>3, <3>4
  <2>4. Rate * age[l] >= Burst + Calls /\ Rate * age[l] \in Nat
    <3>1. age[l] = TTL + 1
      BY <1>0, <2>1, <2>2
    <3> QED BY <1>0, <3>1, Earned DEF Recovers
  <2>5. \/ Reserve(k) >= Burst - (Calls - 1)
        \/ Reserve(k) >= tokens[l] + Rate * age[l] - (2 * Calls - 1)
    BY <1>0, <1>2, <2>1 DEF Excess
  <2> DEFINE e == Rate * age[l]
  <2>6. credit[k] \in Int /\ Reserve(k) = credit[k] - n
    BY DEF TypeOK, Reserve
  <2> HIDE DEF e, l, n, m
  <2>7. credit[k] >= Burst - (Calls - 1)
    BY <1>0, <2>2, <2>3, <2>4, <2>5, <2>6 DEF e
  <2>8. credit[k] - m >= Burst - (2 * Calls - 1)
    BY <1>0, <2>3, <2>6, <2>7
  <2>9. Reserve(k)' = credit[k] - m
    BY <1>2 DEF Reserve, m
  <2>10. doomed' = k
    BY <1>1, <1>4
  <2> QED BY <2>8, <2>9, <2>10 DEF Excess
<1> QED BY <1>3, <1>4

\* Every step keeps what is known about the reserves.
LEMMA NextExcess ==
    ASSUME Recovers, TypeOK, TypeOK', Pruning, Owned, Idle, [Next]_vars,
           NEW k \in Key, Excess(k)
    PROVE  Excess(k)'
<1>0. None \notin Key
  BY RateAssumption
<1>1. ASSUME NEW p \in Proc, NEW j \in Key, Lookup(p, j) PROVE Excess(k)'
  BY <1>1, LookupExcess
<1>2. ASSUME NEW p \in Proc, Take(p) PROVE Excess(k)'
  BY <1>2, TakeExcess
<1>3. CASE Tick
  BY <1>3, TickExcess
<1>4. CASE PruneBegin
  BY <1>4 DEF PruneBegin, Excess, Reserve, Stale
<1>5. CASE PruneRead
  BY <1>5, PruneReadExcess
<1>6. CASE PruneDelete
  <2>1. /\ doomed # None /\ doomed' = None
        /\ keys' = [keys EXCEPT ![doomed] = None]
        /\ UNCHANGED <<tokens, age, call, held, credit>>
    BY <1>6 DEF PruneDelete
  <2>2. \A q \in Proc : call[q] = k => held[q] # None
    BY <1>0 DEF TypeOK
  <2>3. CASE k = doomed
    <3>1. keys'[k] = None /\ doomed' # k
      BY <1>0, <2>1, <2>3 DEF TypeOK
    <3>2. Stale(k)' = Stale(k)
      BY <2>1, <2>2, <2>3, <3>1 DEF Stale
    <3>3. Reserve(k)' = Reserve(k)
      BY <2>1, <3>2 DEF Reserve
    <3> QED BY <2>3, <3>1, <3>3 DEF Excess
  <2>4. CASE k # doomed
    <3>1. keys'[k] = keys[k] /\ doomed' # k
      BY <1>0, <2>1, <2>4 DEF TypeOK
    <3>2. Stale(k)' = Stale(k)
      BY <2>1, <2>4, <3>1 DEF Stale
    <3> QED BY <2>1, <2>4, <3>1, <3>2, SameExcess
  <2> QED BY <2>3, <2>4
<1>7. CASE PruneEnd
  BY <1>7 DEF PruneEnd, Excess, Reserve, Stale
<1>8. CASE UNCHANGED vars
  BY <1>8 DEF vars, Excess, Reserve, Stale
<1> QED BY <1>1, <1>2, <1>3, <1>4, <1>5, <1>6, <1>7, <1>8 DEF Next, Prune

\* A key is never short of more than two tokens per concurrent call but one,
\* whatever calls race with prune, as long as the time to live is enough to
\* earn that back (allow and prune, ratelimit.go).
THEOREM ExcessIsBounded == Recovers => (Spec => []ExcessBounded)
<1> SUFFICES ASSUME Recovers PROVE Spec => []ExcessBounded
  OBVIOUS
<1> DEFINE Inv == TypeOK /\ Pruning /\ Owned /\ Idle /\ \A k \in Key : Excess(k)
<1>1. Init => Inv
  <2> SUFFICES ASSUME Init PROVE Inv
    OBVIOUS
  <2>1. TypeOK /\ Pruning /\ Owned
    BY InitTypeOK, InitLevels
  <2>2. Idle
    BY DEF Init, Idle
  <2>3. ASSUME NEW k \in Key PROVE Excess(k)
    <3>1. keys[k] = None /\ credit[k] = Burst /\ Stale(k) = {}
      BY RateAssumption DEF Init, Stale
    <3>2. Cardinality(Stale(k)) = 0
      BY <3>1, FS_EmptySet
    <3>3. Calls \in Nat /\ Calls # 0 /\ Burst \in Nat
      BY RateAssumption, FS_EmptySet, FS_CardinalityType DEF Recovers, Calls
    <3>4. Reserve(k) >= Burst - (2 * Calls - 1)
      BY <3>1, <3>2, <3>3 DEF Reserve
    <3> QED BY <3>1, <3>4 DEF Excess
  <2> QED BY <2>1, <2>2, <2>3
<1>2. Inv /\ [Next]_vars => Inv'
  <2> SUFFICES ASSUME Inv, [Next]_vars PROVE Inv'
    OBVIOUS
  <2>1. TypeOK' /\ Pruning' /\ Owned' /\ Idle'
    BY NextTypeOK, NextPruning, NextOwned, NextIdle
  <2>2. ASSUME NEW k \in Key PROVE Excess(k)'
    BY <2>1, NextExcess
  <2> QED BY <2>1, <2>2
<1>3. Inv => ExcessBounded
  <2> SUFFICES ASSUME TypeOK, NEW k \in Key, Excess(k)
               PROVE  credit[k] >= -(2 * Cardinality(Proc) - 1)
    BY DEF ExcessBounded
  <2>1. /\ Cardinality(Stale(k)) \in Nat /\ Calls \in Nat
        /\ Burst \in Nat /\ credit[k] \in Int
    BY StaleCount, RateAssumption DEF TypeOK
  <2>2. Reserve(k) \in Int /\ credit[k] >= Reserve(k)
    BY <2>1 DEF Reserve
  <2>3. Reserve(k) >= -(2 * Calls - 1)
    <3>1. CASE keys[k] = None \/ doomed = k
      BY <2>1, <2>2, <3>1 DEF Excess
    <3>2. CASE keys[k] # None /\ doomed # k
      <4> DEFINE l == keys[k]
                 e == Rate * age[l]
      <4>1. l \in Limiter
        BY <3>2 DEF TypeOK
      <4>2. tokens[l] \in Nat /\ e \in Nat
        BY <4>1, RefilledType
      <4>3. \/ Reserve(k) >= Burst - (Calls - 1)
            \/ Reserve(k) >= tokens[l] + e - (2 * Calls - 1)
        BY <3>2 DEF Excess
      <4> HIDE DEF l, e
      <4> QED BY <2>1, <2>2, <4>2, <4>3
    <3> QED BY <3>1, <3>2
  <2> QED BY <2>1, <2>2, <2>3 DEF Calls
<1> QED BY <1>1, <1>2, <1>3, PTL DEF Spec
=============================================================================
