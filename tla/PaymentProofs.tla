--------------------------- MODULE PaymentProofs ---------------------------
(***************************************************************************)
(* Proofs about Payment, for every finite set of devices and any number of *)
(* payments, tries and queries.                                            *)
(***************************************************************************)
EXTENDS Payment, SequenceTheorems, FiniteSetTheorems, TLAPS

\* Append adds one element to the chain.
LEMMA RangeOfAppend ==
    ASSUME NEW S, NEW s \in Seq(S), NEW e \in S
    PROVE  /\ Append(s, e) \in Seq(S)
           /\ Range(Append(s, e)) = Range(s) \cup {e}
<1> DEFINE t == Append(s, e)
<1>1. /\ t \in Seq(S)
      /\ DOMAIN s = 1..Len(s) /\ DOMAIN t = 1..(Len(s)+1) /\ Len(s) \in Nat
      /\ \A i \in 1..Len(s) : t[i] = s[i]
      /\ t[Len(s)+1] = e
  BY AppendProperties, LenProperties
<1> HIDE DEF t
<1>2. ASSUME NEW x PROVE x \in Range(t) <=> x \in Range(s) \/ x = e
  BY <1>1 DEF Range
<1> QED BY <1>1, <1>2 DEF t

-----------------------------------------------------------------------------
(* Types.                                                                  *)

Blocks == [nonce : Nonce, prev : Nat]
Answers == Blocks \cup {Failed, NotFound}
Caches == [Nonce \cup Req \cup {None} -> Blocks \cup {None}]

\* The relay forwards the nonce that the caller named.
Typed ==
    /\ bound \subseteq Device
    /\ ret \in [Call -> {"idle", "open", "offline", "timeout", "answered"}]
    /\ offer \in [Call -> SUBSET Device] /\ given \in [Call -> SUBSET Device]
    /\ by \in [Call -> Device \cup {None}]
    /\ nonce \in [Call -> Nonce \cup {None}] /\ forwarded = nonce
    /\ op \in [Qry -> {"request_status", "broadcast_nonce", None}]
    /\ cache \in [Device -> Caches]
    /\ published \in [Device -> SUBSET Nonce]
    /\ answers \in [Device -> [Call -> Answers \cup {None}]]
    /\ chain \in Seq(Blocks)
    /\ known \in [Qry -> SUBSET Device]

\* None is no block and no answer, and the answers that name no block are none.
LEMMA NoneIsNoAnswer ==
    /\ None \notin Nonce /\ None \notin Answers
    /\ Failed \notin Blocks /\ NotFound \notin Blocks /\ Failed # NotFound
<1>1. /\ Failed \in [nonce : Nonce \cup {None}, prev : Int]
      /\ NotFound \in [nonce : Nonce \cup {None}, prev : Int]
      /\ Blocks \subseteq [nonce : Nonce \cup {None}, prev : Int]
  BY DEF Failed, NotFound, Block, Blocks
<1>2. Failed \notin Blocks /\ NotFound \notin Blocks /\ Failed # NotFound
  BY DEF Failed, NotFound, Block, Blocks
<1> QED BY <1>1, <1>2, PaymentAssumption DEF Answers

\* What an assignment to one entry of a table of tables does.
LEMMA NestedUpdate ==
    ASSUME NEW S, NEW T, NEW V, NEW f \in [S -> [T -> V]], NEW s \in S, NEW t \in T, NEW v \in V,
           NEW g, g = [f EXCEPT ![s][t] = v]
    PROVE  /\ g \in [S -> [T -> V]] /\ g[s][t] = v
           /\ \A x \in S, y \in T : x # s \/ y # t => g[x][y] = f[x][y]
OBVIOUS

\* The same for the caches.
CacheSet(d, n, v) == cache' = [cache EXCEPT ![d][n] = v]

\* Setting one entry of a device's cache leaves every other one alone.
LEMMA CacheUpdate ==
    ASSUME cache \in [Device -> Caches], NEW d \in Device, NEW n \in Nonce,
           NEW v \in Blocks \cup {None}, CacheSet(d, n, v)
    PROVE  /\ cache' \in [Device -> Caches] /\ cache'[d][n] = v
           /\ \A e \in Device, m \in Nonce \cup Req \cup {None} :
                e # d \/ m # n => cache'[e][m] = cache[e][m]
<1> DEFINE N == Nonce \cup Req \cup {None}
           V == Blocks \cup {None}
<1>1. n \in N /\ v \in V /\ cache \in [Device -> [N -> V]]
  BY DEF Caches
<1> HIDE DEF N, V
<1>2. /\ cache' \in [Device -> [N -> V]] /\ cache'[d][n] = v
      /\ \A e \in Device, m \in N : e # d \/ m # n => cache'[e][m] = cache[e][m]
  BY <1>1, NestedUpdate DEF CacheSet
<1> QED BY <1>2 DEF N, V, Caches

\* The frame of a step of a device: what the relay keeps does not change.
DeviceFrame == UNCHANGED <<hubVars, nonce, forwarded, op, known>>

\* What signing does.
LEMMA SignEffect ==
    ASSUME Typed, NEW d \in Device, NEW k \in Call, Sign(d, k), nonce[k] \in Nonce
    PROVE  /\ DeviceFrame /\ UNCHANGED <<published, answers, chain>>
           /\ k \in Req /\ d \in given[k] /\ cache[d][nonce[k]] = None
           /\ cache' \in [Device -> Caches]
           /\ cache'[d][nonce[k]] \in Blocks /\ cache'[d][nonce[k]].nonce = nonce[k]
           /\ \A e \in Device, m \in Nonce \cup Req \cup {None} :
                e # d \/ m # nonce[k] => cache'[e][m] = cache[e][m]
<1> DEFINE b == Block(nonce[k], Len(chain))
<1>1. Len(chain) \in Nat
  BY LenProperties DEF Typed
<1>2. b \in Blocks /\ b.nonce = nonce[k]
  BY <1>1 DEF Block, Blocks
<1>3. CacheSet(d, nonce[k], b)
  BY DEF Sign, Typed, CacheSet
<1>4. /\ DeviceFrame /\ UNCHANGED <<published, answers, chain>>
      /\ k \in Req /\ d \in given[k] /\ cache[d][nonce[k]] = None
  BY DEF Sign, Reading, DeviceFrame, Typed
<1> HIDE DEF b
<1>5. /\ cache' \in [Device -> Caches] /\ cache'[d][nonce[k]] = b
      /\ \A e \in Device, m \in Nonce \cup Req \cup {None} :
           e # d \/ m # nonce[k] => cache'[e][m] = cache[e][m]
  BY <1>2, <1>3, CacheUpdate DEF Typed
<1> QED BY <1>2, <1>4, <1>5

\* What a broadcast does: the block is on the chain and its nonce published, or
\* only the cache of that nonce changes.
LEMMA PublishEffect ==
    ASSUME Typed, NEW d \in Device, NEW n \in Nonce, cache[d][n] # None,
           NEW kept \in {None, cache[d][n]}, Publish(d, n, kept)
    PROVE  /\ cache[d][n] \in Blocks
           /\ \/ /\ Outcome(d, n) = cache[d][n]
                 /\ cache' = cache
                 /\ published' \in [Device -> SUBSET Nonce]
                 /\ published'[d] = published[d] \cup {n}
                 /\ \A e \in Device : e # d => published'[e] = published[e]
                 /\ chain' \in Seq(Blocks) /\ Range(chain') = Range(chain) \cup {cache[d][n]}
              \/ /\ Outcome(d, n) = Failed
                 /\ UNCHANGED <<chain, published>>
                 /\ cache' \in [Device -> Caches] /\ cache'[d][n] = kept
                 /\ \A e \in Device, m \in Nonce \cup Req \cup {None} :
                      e # d \/ m # n => cache'[e][m] = cache[e][m]
<1> DEFINE b == cache[d][n]
<1>1. b \in Blocks
  BY DEF Typed, Caches
<1>2. CASE Accepts(b)
  <2>1. /\ cache' = cache /\ Outcome(d, n) = b
        /\ published' = [published EXCEPT ![d] = @ \cup {n}]
        /\ chain' = IF b \in Range(chain) THEN chain ELSE Append(chain, b)
    BY <1>2 DEF Publish, Outcome
  <2>2. chain' \in Seq(Blocks) /\ Range(chain') = Range(chain) \cup {b}
    <3>1. CASE b \in Range(chain)
      BY <2>1, <3>1 DEF Typed
    <3>2. CASE b \notin Range(chain)
      BY <1>1, <2>1, <3>2, RangeOfAppend DEF Typed
    <3> QED BY <3>1, <3>2
  <2>3. /\ published' \in [Device -> SUBSET Nonce]
        /\ published'[d] = published[d] \cup {n}
        /\ \A e \in Device : e # d => published'[e] = published[e]
    BY <2>1 DEF Typed
  <2> QED BY <1>1, <2>1, <2>2, <2>3
<1>3. CASE ~Accepts(b)
  <2>1. /\ CacheSet(d, n, kept) /\ Outcome(d, n) = Failed
        /\ UNCHANGED <<chain, published>>
    BY <1>3 DEF Publish, Outcome, CacheSet
  <2>2. /\ cache' \in [Device -> Caches] /\ cache'[d][n] = kept
        /\ \A e \in Device, m \in Nonce \cup Req \cup {None} :
             e # d \/ m # n => cache'[e][m] = cache[e][m]
    <3>1. kept \in Blocks \cup {None}
      BY <1>1
    <3> QED BY <2>1, <3>1, CacheUpdate DEF Typed
  <2> QED BY <1>1, <2>1, <2>2
<1> QED BY <1>2, <1>3

\* What answering a call does.
LEMMA AnswerEffect ==
    ASSUME Typed, NEW d \in Device, NEW k \in Call, NEW a \in Answers, AnswerCall(d, k, a)
    PROVE  /\ answers' \in [Device -> [Call -> Answers \cup {None}]]
           /\ answers'[d][k] = a
           /\ \A e \in Device, l \in Call : e # d \/ l # k => answers'[e][l] = answers[e][l]
<1>1. answers' = [answers EXCEPT ![d][k] = a]
  BY DEF AnswerCall
<1>2. a \in Answers \cup {None}
  OBVIOUS
<1> QED BY <1>1, <1>2, NestedUpdate DEF Typed

-----------------------------------------------------------------------------
(* Calls.                                                                  *)

\* A call has a nonce from its beginning on; only devices that were given it
\* answer it, and what it returns is the answer of such a device.
Opened ==
    \A k \in Call :
        /\ nonce[k] = None <=> ret[k] = "idle"
        /\ ret[k] = "idle" => given[k] = {}
        /\ \A d \in Device : answers[d][k] # None => d \in given[k]
        /\ ret[k] = "answered" => by[k] \in Device /\ answers[by[k]][k] # None

\* A call that a device reads has a nonce.
LEMMA ReadingOpened ==
    ASSUME Typed, Opened, NEW d \in Device, NEW k \in Call, Reading(d, k)
    PROVE  d \in given[k] /\ answers[d][k] = None /\ nonce[k] \in Nonce
BY DEF Reading, Opened, Typed

\* What a device does to its tables and the chain when it publishes a block.
Tables(d, n, kept, a) ==
    \/ /\ a = cache[d][n]
       /\ cache' = cache
       /\ published' \in [Device -> SUBSET Nonce]
       /\ published'[d] = published[d] \cup {n}
       /\ \A e \in Device : e # d => published'[e] = published[e]
       /\ chain' \in Seq(Blocks) /\ Range(chain') = Range(chain) \cup {cache[d][n]}
    \/ /\ a = Failed
       /\ UNCHANGED <<chain, published>>
       /\ cache' \in [Device -> Caches] /\ cache'[d][n] = kept
       /\ \A e \in Device, m \in Nonce \cup Req \cup {None} :
            e # d \/ m # n => cache'[e][m] = cache[e][m]

\* One answer is given, and no other changes.
Answer(d, k) ==
    /\ answers' \in [Device -> [Call -> Answers \cup {None}]]
    /\ answers'[d][k] \in Answers
    /\ \A e \in Device, l \in Call : e # d \/ l # k => answers'[e][l] = answers[e][l]

\* How a device answers a request.
LEMMA FinishEffect ==
    ASSUME Typed, Opened, NEW d \in Device, NEW k \in Call, Finish(d, k)
    PROVE  /\ DeviceFrame /\ k \in Req /\ Answer(d, k)
           /\ d \in given[k] /\ answers[d][k] = None
           /\ nonce[k] \in Nonce /\ cache[d][nonce[k]] \in Blocks
           /\ \/ /\ nonce[k] \in SignOnly \cup published[d]
                 /\ answers'[d][k] = cache[d][nonce[k]] /\ UNCHANGED <<cache, published, chain>>
              \/ /\ nonce[k] \notin SignOnly \cup published[d]
                 /\ Tables(d, nonce[k], None, answers'[d][k])
<1> DEFINE n == nonce[k]
<1>1. forwarded[k] = n /\ Reading(d, k)
  BY DEF Finish, Typed
<1>2. d \in given[k] /\ answers[d][k] = None /\ n \in Nonce
  BY <1>1, ReadingOpened
<1>3. DeviceFrame /\ k \in Req /\ cache[d][n] # None
  BY <1>1 DEF Finish, DeviceFrame
<1>4. cache[d][n] \in Blocks
  BY <1>2, <1>3 DEF Typed, Caches
<1>5. CASE /\ n \in SignOnly \cup published[d] /\ AnswerCall(d, k, cache[d][n])
           /\ UNCHANGED <<cache, published, chain>>
  BY <1>2, <1>3, <1>4, <1>5, AnswerEffect DEF Answers, Answer
<1>6. CASE /\ n \notin SignOnly \cup published[d]
           /\ Publish(d, n, None) /\ AnswerCall(d, k, Outcome(d, n))
  <2>1. Tables(d, n, None, Outcome(d, n))
    BY <1>2, <1>3, <1>6, PublishEffect DEF Tables
  <2>2. Outcome(d, n) \in Answers
    BY <1>4 DEF Outcome, Answers
  <2>3. Answer(d, k) /\ answers'[d][k] = Outcome(d, n)
    BY <1>6, <2>2, AnswerEffect DEF Answer
  <2> QED BY <1>2, <1>3, <1>4, <1>6, <2>1, <2>3
<1> QED BY <1>1, <1>5, <1>6 DEF Finish

\* How it answers request_status.
LEMMA StatusEffect ==
    ASSUME Typed, Opened, NEW d \in Device, NEW q \in Qry, AnswerStatus(d, q)
    PROVE  /\ DeviceFrame /\ Answer(d, q) /\ UNCHANGED <<cache, published, chain>>
           /\ d \in given[q] /\ answers[d][q] = None /\ nonce[q] \in Nonce
           /\ answers'[d][q] = NotFound => cache[d][nonce[q]] = None
<1> DEFINE n == nonce[q]
           a == IF cache[d][n] = None THEN NotFound ELSE cache[d][n]
<1>1. forwarded[q] = n /\ Reading(d, q) /\ q \in Call
  BY DEF AnswerStatus, Typed, Call
<1>2. d \in given[q] /\ answers[d][q] = None /\ n \in Nonce
  BY <1>1, ReadingOpened
<1>3. a \in Answers /\ (a = NotFound => cache[d][n] = None)
  BY <1>2, NoneIsNoAnswer DEF Typed, Caches, Answers
<1>4. AnswerCall(d, q, a) /\ DeviceFrame /\ UNCHANGED <<cache, published, chain>>
  BY <1>1 DEF AnswerStatus, DeviceFrame
<1> HIDE DEF a
<1>5. Answer(d, q) /\ answers'[d][q] = a
  BY <1>1, <1>3, <1>4, AnswerEffect DEF Answer
<1> QED BY <1>2, <1>3, <1>4, <1>5

\* How it answers broadcast_nonce.
LEMMA BroadcastEffect ==
    ASSUME Typed, Opened, NEW d \in Device, NEW q \in Qry, AnswerBroadcast(d, q)
    PROVE  /\ DeviceFrame /\ Answer(d, q) /\ op[q] = "broadcast_nonce"
           /\ d \in given[q] /\ answers[d][q] = None /\ nonce[q] \in Nonce
           /\ \/ UNCHANGED <<cache, published, chain>>
              \/ /\ cache[d][nonce[q]] \in Blocks
                 /\ Tables(d, nonce[q], cache[d][nonce[q]], answers'[d][q])
<1> DEFINE n == nonce[q]
<1>1. forwarded[q] = n /\ Reading(d, q) /\ q \in Call /\ DeviceFrame /\ op[q] = "broadcast_nonce"
  BY DEF AnswerBroadcast, Typed, Call, DeviceFrame
<1>2. d \in given[q] /\ answers[d][q] = None /\ n \in Nonce
  BY <1>1, ReadingOpened
<1>3. CASE AnswerCall(d, q, NotFound) /\ UNCHANGED <<cache, published, chain>>
  <2>1. NotFound \in Answers
    BY DEF Answers
  <2> QED BY <1>1, <1>2, <1>3, <2>1, AnswerEffect DEF Answer
<1>4. CASE /\ cache[d][n] # None
           /\ Publish(d, n, cache[d][n]) /\ AnswerCall(d, q, Outcome(d, n))
  <2>1. cache[d][n] \in Blocks
    BY <1>2, <1>4 DEF Typed, Caches
  <2>2. Tables(d, n, cache[d][n], Outcome(d, n))
    BY <1>2, <1>4, PublishEffect DEF Tables
  <2>3. Outcome(d, n) \in Answers
    BY <2>1 DEF Outcome, Answers
  <2>4. Answer(d, q) /\ answers'[d][q] = Outcome(d, n)
    BY <1>1, <1>4, <2>3, AnswerEffect DEF Answer
  <2> QED BY <1>1, <1>2, <2>1, <2>2, <2>4
<1> QED BY <1>1, <1>3, <1>4 DEF AnswerBroadcast

\* A call begins.
LEMMA OpenEffect ==
    ASSUME Typed, NEW k \in Call, NEW n \in Nonce, H!Open(k, TheAccount),
           nonce' = [nonce EXCEPT ![k] = n], forwarded' = [forwarded EXCEPT ![k] = n]
    PROVE  /\ ret[k] = "idle" /\ ret'[k] \in {"open", "offline"}
           /\ \A l \in Call : l # k => ret'[l] = ret[l] /\ nonce'[l] = nonce[l]
           /\ nonce'[k] = n /\ UNCHANGED <<given, by, bound>>
           /\ ret' \in [Call -> {"idle", "open", "offline", "timeout", "answered"}]
           /\ offer' \in [Call -> SUBSET Device]
           /\ nonce' \in [Call -> Nonce \cup {None}] /\ forwarded' = nonce'
<1>1. H!Serving(TheAccount) \subseteq Device
  BY DEF H!Serving, Typed
<1>2. offer' \in [Call -> SUBSET Device]
  BY <1>1 DEF H!Open, Typed
<1>3. forwarded' = nonce' /\ UNCHANGED <<given, by, bound>> /\ ret[k] = "idle"
  BY DEF H!Open, Typed
<1>4. /\ ret'[k] \in {"open", "offline"} /\ \A l \in Call : l # k => ret'[l] = ret[l]
      /\ ret' \in [Call -> {"idle", "open", "offline", "timeout", "answered"}]
  BY DEF H!Open, Typed
<1>5. /\ \A l \in Call : l # k => nonce'[l] = nonce[l]
      /\ nonce'[k] = n /\ nonce' \in [Call -> Nonce \cup {None}]
  BY DEF Typed
<1> QED BY <1>2, <1>3, <1>4, <1>5

\* A call is offered to a device.
LEMMA ForwardEffect ==
    ASSUME Typed, NEW k \in Call, NEW d \in Device, Forward(k, d)
    PROVE  /\ UNCHANGED <<bound, ret, by, nonce, forwarded, op, deviceVars, chain, known>>
           /\ ret[k] = "open"
           /\ offer' \in [Call -> SUBSET Device] /\ given' \in [Call -> SUBSET Device]
           /\ \A l \in Call : given[l] \subseteq given'[l]
           /\ \A l \in Call : l # k => given'[l] = given[l]
<1>1. /\ UNCHANGED <<bound, ret, by, nonce, forwarded, op, deviceVars, chain, known>>
      /\ ret[k] = "open"
  BY DEF Forward, H!Give, H!Skip
<1>2. offer' \in [Call -> SUBSET Device]
  <2>1. offer \in [Call -> SUBSET Device]
    BY DEF Typed
  <2>2. \/ offer' = [offer EXCEPT ![k] = IF k \in Qry THEN {} ELSE offer[k] \ {d}]
        \/ offer' = [offer EXCEPT ![k] = offer[k] \ {d}]
    BY DEF Forward, H!Give, H!Skip
  <2> QED BY <2>1, <2>2
<1>3. given' = given \/ given' = [given EXCEPT ![k] = @ \cup {d}]
  BY DEF Forward, H!Give, H!Skip
<1>4. /\ given' \in [Call -> SUBSET Device]
      /\ \A l \in Call : given[l] \subseteq given'[l]
      /\ \A l \in Call : l # k => given'[l] = given[l]
  <2>1. CASE given' = given
    BY <2>1 DEF Typed
  <2>2. CASE given' = [given EXCEPT ![k] = @ \cup {d}]
    BY <2>2 DEF Typed
  <2> QED BY <1>3, <2>1, <2>2
<1> QED BY <1>1, <1>2, <1>4

\* A call returns.
LEMMA ConcludeEffect ==
    ASSUME Typed, NEW k \in Call, Conclude(k)
    PROVE  /\ UNCHANGED <<bound, offer, given, nonce, forwarded, op, deviceVars, chain, known>>
           /\ ret[k] = "open" /\ ret'[k] \in {"offline", "timeout", "answered"}
           /\ ret'[k] = "answered" => by'[k] \in Device /\ answers[by'[k]][k] # None
           /\ \A l \in Call : l # k => ret'[l] = ret[l] /\ by'[l] = by[l]
           /\ ret' \in [Call -> {"idle", "open", "offline", "timeout", "answered"}]
           /\ by' \in [Call -> Device \cup {None}]
<1>1. UNCHANGED <<bound, offer, given, nonce, forwarded, op, deviceVars, chain, known>>
  BY DEF Conclude, H!ReturnAnswer, H!ReturnError
<1>2. CASE H!ReturnError(k)
  BY <1>1, <1>2 DEF H!ReturnError, Typed
<1>3. ASSUME NEW d \in Device, answers[d][k] # None, H!ReturnAnswer(k, d)
      PROVE  /\ ret[k] = "open" /\ ret'[k] = "answered" /\ by'[k] = d
             /\ \A l \in Call : l # k => ret'[l] = ret[l] /\ by'[l] = by[l]
             /\ ret' \in [Call -> {"idle", "open", "offline", "timeout", "answered"}]
             /\ by' \in [Call -> Device \cup {None}]
  <2>1. ret[k] = "open" /\ ret' = [ret EXCEPT ![k] = "answered"] /\ by' = [by EXCEPT ![k] = d]
    BY <1>3 DEF H!ReturnAnswer
  <2> QED BY <2>1 DEF Typed
<1> QED BY <1>1, <1>2, <1>3 DEF Conclude

\* Each step keeps the types.
LEMMA NextTyped == Typed /\ Opened /\ [Next]_vars => Typed'
<1> SUFFICES ASSUME Typed, Opened, [Next]_vars PROVE Typed'
  OBVIOUS
<1>1. ASSUME NEW d \in Device, Connection(d) PROVE Typed'
  <2>1. bound' \subseteq Device /\ UNCHANGED <<ret, offer, given, by>>
    BY <1>1 DEF Connection, H!Prove, H!BindConn, H!UnbindConn, Typed
  <2> QED BY <1>1, <2>1 DEF Connection, deviceVars, Typed
<1>2. ASSUME NEW k \in Req, NEW n \in Nonce, Post(k, n) PROVE Typed'
  <2>1. k \in Call
    BY DEF Call
  <2>2. /\ UNCHANGED <<given, by, bound, op, deviceVars, chain, known>>
        /\ ret' \in [Call -> {"idle", "open", "offline", "timeout", "answered"}]
        /\ offer' \in [Call -> SUBSET Device]
        /\ nonce' \in [Call -> Nonce \cup {None}] /\ forwarded' = nonce'
    BY <1>2, <2>1, OpenEffect DEF Post
  <2> QED BY <2>2 DEF Typed, deviceVars
<1>3. ASSUME NEW q \in Qry, NEW o \in {"request_status", "broadcast_nonce"}, NEW n \in Nonce,
             Ask(q, o, n)
      PROVE  Typed'
  <2>1. q \in Call
    BY DEF Call
  <2>2. /\ UNCHANGED <<given, by, bound, deviceVars, chain>>
        /\ ret' \in [Call -> {"idle", "open", "offline", "timeout", "answered"}]
        /\ offer' \in [Call -> SUBSET Device]
        /\ nonce' \in [Call -> Nonce \cup {None}] /\ forwarded' = nonce'
    BY <1>3, <2>1, OpenEffect DEF Ask
  <2>3. op' \in [Qry -> {"request_status", "broadcast_nonce", None}]
    BY <1>3 DEF Ask, Typed
  <2>4. known' \in [Qry -> SUBSET Device]
    <3>1. CompletedBy(n) \in SUBSET Device
      BY DEF CompletedBy, Opened, Call
    <3> QED BY <1>3, <3>1 DEF Ask, Typed
  <2> QED BY <2>2, <2>3, <2>4 DEF Typed, deviceVars
<1>4. ASSUME NEW k \in Call, NEW d \in Device, Forward(k, d) PROVE Typed'
  BY <1>4, ForwardEffect DEF Typed, deviceVars
<1>5. ASSUME NEW k \in Call, Conclude(k) PROVE Typed'
  BY <1>5, ConcludeEffect DEF Typed, deviceVars
<1>6. ASSUME NEW d \in Device, NEW k \in Call, Sign(d, k) PROVE Typed'
  <2>1. nonce[k] \in Nonce
    BY <1>6, ReadingOpened DEF Sign
  <2> QED BY <1>6, <2>1, SignEffect DEF Typed, DeviceFrame, hubVars
<1>7. ASSUME DeviceFrame, NEW d \in Device, NEW k \in Call, Answer(d, k),
             \/ UNCHANGED <<cache, published, chain>>
             \/ \E n, kept : Tables(d, n, kept, answers'[d][k])
      PROVE  Typed'
  <2>1. /\ cache' \in [Device -> Caches] /\ published' \in [Device -> SUBSET Nonce]
        /\ chain' \in Seq(Blocks)
    BY <1>7 DEF Tables, Typed
  <2> QED BY <1>7, <2>1 DEF DeviceFrame, hubVars, Answer, Typed
<1>8. ASSUME NEW d \in Device, NEW k \in Call, Finish(d, k) PROVE Typed'
  BY <1>7, <1>8, FinishEffect
<1>9. ASSUME NEW d \in Device, NEW q \in Qry, AnswerStatus(d, q) \/ AnswerBroadcast(d, q)
      PROVE  Typed'
  <2>1. q \in Call
    BY DEF Call
  <2>2. CASE AnswerStatus(d, q)
    BY <1>7, <2>1, <2>2, StatusEffect
  <2>3. CASE AnswerBroadcast(d, q)
    BY <1>7, <2>1, <2>3, BroadcastEffect
  <2> QED BY <1>9, <2>2, <2>3
<1>10. CASE UNCHANGED vars
  BY <1>10 DEF vars, hubVars, deviceVars, Typed
<1> QED BY <1>1, <1>2, <1>3, <1>4, <1>5, <1>6, <1>8, <1>9, <1>10 DEF Next

\* Each step keeps the calls in order.
LEMMA NextOpened == Typed /\ Opened /\ [Next]_vars => Opened'
<1> SUFFICES ASSUME Typed, Opened, [Next]_vars PROVE Opened'
  OBVIOUS
<1>1. ASSUME NEW d \in Device, Connection(d) PROVE Opened'
  BY <1>1 DEF Connection, deviceVars, H!Prove, H!BindConn, H!UnbindConn, Opened
<1>2. ASSUME NEW k \in Call, NEW n \in Nonce, H!Open(k, TheAccount),
             nonce' = [nonce EXCEPT ![k] = n], forwarded' = [forwarded EXCEPT ![k] = n],
             UNCHANGED deviceVars
      PROVE  Opened'
  <2>1. /\ ret[k] = "idle" /\ ret'[k] \in {"open", "offline"}
        /\ \A l \in Call : l # k => ret'[l] = ret[l] /\ nonce'[l] = nonce[l]
        /\ nonce'[k] = n /\ UNCHANGED <<given, by>>
    BY <1>2, OpenEffect
  <2> QED BY <1>2, <2>1, NoneIsNoAnswer DEF deviceVars, Opened
<1>3. ASSUME NEW k \in Req, NEW n \in Nonce, Post(k, n) PROVE Opened'
  BY <1>2, <1>3 DEF Post, Call
<1>4. ASSUME NEW q \in Qry, NEW o, NEW n \in Nonce, Ask(q, o, n) PROVE Opened'
  BY <1>2, <1>4 DEF Ask, Call
<1>5. ASSUME NEW k \in Call, NEW d \in Device, Forward(k, d) PROVE Opened'
  BY <1>5, ForwardEffect DEF Opened, deviceVars
<1>6. ASSUME NEW k \in Call, Conclude(k) PROVE Opened'
  BY <1>6, ConcludeEffect DEF Opened, deviceVars
<1>7. ASSUME DeviceFrame, NEW d \in Device, NEW k \in Call, d \in given[k], Answer(d, k)
      PROVE  Opened'
  <2>1. UNCHANGED <<nonce, ret, given, by>>
    BY <1>7 DEF DeviceFrame, hubVars
  <2>2. \A e \in Device, l \in Call :
          \/ answers'[e][l] = answers[e][l]
          \/ e = d /\ l = k /\ answers'[e][l] # None
    BY <1>7, NoneIsNoAnswer DEF Answer
  <2> QED BY <1>7, <2>1, <2>2 DEF Opened
<1>8. ASSUME NEW d \in Device, NEW k \in Call, Sign(d, k) PROVE Opened'
  BY <1>8 DEF Sign, hubVars, Opened
<1>9. ASSUME NEW d \in Device, NEW k \in Call, Finish(d, k) PROVE Opened'
  BY <1>7, <1>9, FinishEffect
<1>10. ASSUME NEW d \in Device, NEW q \in Qry, AnswerStatus(d, q) \/ AnswerBroadcast(d, q)
       PROVE  Opened'
  BY <1>7, <1>10, StatusEffect, BroadcastEffect DEF Call
<1>11. CASE UNCHANGED vars
  BY <1>11 DEF vars, hubVars, deviceVars, Opened
<1> QED BY <1>1, <1>3, <1>4, <1>5, <1>6, <1>8, <1>9, <1>10, <1>11 DEF Next

\* Nothing is asked, cached or on the chain initially.
LEMMA InitTyped == Init => Typed /\ Opened
<1>1. <<>> \in Seq(Blocks)
  OBVIOUS
<1> QED BY <1>1 DEF Init, H!Init, Call, Typed, Caches, Opened

-----------------------------------------------------------------------------
(* Blocks.                                                                 *)

\* What a cache may be asked for.
Known == Nonce \cup Req \cup {None}

\* A device signs for a nonce only if it was given a request that names it.
Cached ==
    \A d \in Device, n \in Known : cache[d][n] # None =>
        /\ n \in Nonce /\ cache[d][n].nonce = n
        /\ \E k \in Req : nonce[k] = n /\ d \in given[k]

\* What a device has published is cached and on the chain, and every block of
\* the chain is what some device has published for its nonce.
Published ==
    /\ \A d \in Device : \A n \in published[d] :
         cache[d][n] # None /\ cache[d][n] \in Range(chain)
    /\ \A b \in Range(chain) :
         \E d \in Device : b.nonce \in published[d] /\ cache[d][b.nonce] = b

\* The block that a device answers a request with is the one it has cached for
\* the nonce, and it was published if it was to be.
Told ==
    \A d \in Device, k \in Req : answers[d][k] \notin {None, Failed} =>
        /\ answers[d][k] = cache[d][nonce[k]]
        /\ nonce[k] \in SignOnly \cup published[d]

\* The history of a call: what it has, it keeps.
LEMMA CallsKeep ==
    ASSUME Typed, Opened, [Next]_vars, NEW k \in Call
    PROVE  /\ ret[k] # "idle" => nonce'[k] = nonce[k]
           /\ given[k] \subseteq given'[k]
           /\ ret[k] = "answered" => ret'[k] = "answered" /\ by'[k] = by[k]
           /\ \A d \in Device : answers[d][k] # None => answers'[d][k] = answers[d][k]
<1> DEFINE Goal == /\ ret[k] # "idle" => nonce'[k] = nonce[k]
                   /\ given[k] \subseteq given'[k]
                   /\ ret[k] = "answered" => ret'[k] = "answered" /\ by'[k] = by[k]
                   /\ \A d \in Device : answers[d][k] # None => answers'[d][k] = answers[d][k]
<1>1. ASSUME NEW d \in Device, Connection(d) PROVE Goal
  BY <1>1 DEF Connection, deviceVars, H!Prove, H!BindConn, H!UnbindConn
<1>2. ASSUME NEW l \in Call, NEW n \in Nonce, H!Open(l, TheAccount),
             nonce' = [nonce EXCEPT ![l] = n], forwarded' = [forwarded EXCEPT ![l] = n],
             UNCHANGED deviceVars
      PROVE  Goal
  <2>1. /\ ret[l] = "idle"
        /\ \A m \in Call : m # l => ret'[m] = ret[m] /\ nonce'[m] = nonce[m]
        /\ UNCHANGED <<given, by>>
    BY <1>2, OpenEffect
  <2> QED BY <1>2, <2>1 DEF deviceVars
<1>3. ASSUME NEW l \in Req, NEW n \in Nonce, Post(l, n) PROVE Goal
  BY <1>2, <1>3 DEF Post, Call
<1>4. ASSUME NEW q \in Qry, NEW o, NEW n \in Nonce, Ask(q, o, n) PROVE Goal
  BY <1>2, <1>4 DEF Ask, Call
<1>5. ASSUME NEW l \in Call, NEW d \in Device, Forward(l, d) PROVE Goal
  BY <1>5, ForwardEffect DEF deviceVars
<1>6. ASSUME NEW l \in Call, Conclude(l) PROVE Goal
  BY <1>6, ConcludeEffect DEF deviceVars
<1>7. ASSUME DeviceFrame, NEW d \in Device, NEW l \in Call, answers[d][l] = None, Answer(d, l)
      PROVE  Goal
  BY <1>7 DEF DeviceFrame, hubVars, Answer
<1>8. ASSUME NEW d \in Device, NEW l \in Call, Sign(d, l) PROVE Goal
  BY <1>8 DEF Sign, hubVars
<1>9. ASSUME NEW d \in Device, NEW l \in Call, Finish(d, l) PROVE Goal
  BY <1>7, <1>9, FinishEffect
<1>10. ASSUME NEW d \in Device, NEW q \in Qry, AnswerStatus(d, q) \/ AnswerBroadcast(d, q)
       PROVE  Goal
  BY <1>7, <1>10, StatusEffect, BroadcastEffect DEF Call
<1>11. ASSUME UNCHANGED vars PROVE Goal
  BY <1>11 DEF vars, hubVars, deviceVars
<1> HIDE DEF Goal
<1>12. Goal
  BY <1>1, <1>3, <1>4, <1>5, <1>6, <1>8, <1>9, <1>10, <1>11 DEF Next
<1> QED BY <1>12 DEF Goal

\* A step of a device, and a step that is none.
DeviceStep ==
    \/ \E d \in Device, k \in Call : Sign(d, k) \/ Finish(d, k)
    \/ \E d \in Device, q \in Qry : AnswerStatus(d, q) \/ AnswerBroadcast(d, q)

\* A step of the relay changes neither a device's state nor the chain.
LEMMA RelayFrame == ASSUME [Next]_vars, ~DeviceStep PROVE UNCHANGED <<deviceVars, chain>>
BY DEF DeviceStep, Next, Connection, Post, Ask, Forward, Conclude, vars

\* A device that was given a request for a nonce still was.
LEMMA GivenKeeps ==
    ASSUME Typed, Opened, [Next]_vars, NEW d \in Device, NEW n, NEW k \in Req,
           nonce[k] = n, d \in given[k]
    PROVE  nonce'[k] = n /\ d \in given'[k]
<1>1. k \in Call /\ ret[k] # "idle"
  BY DEF Call, Opened
<1> QED BY <1>1, CallsKeep

\* Signing keeps the three invariants.
LEMMA SignBlocks ==
    ASSUME Typed, Opened, Cached, Published, Told, [Next]_vars,
           NEW d \in Device, NEW k \in Call, Sign(d, k)
    PROVE  Cached' /\ Published' /\ Told'
<1> DEFINE n == nonce[k]
<1>0. n \in Nonce
  BY ReadingOpened DEF Sign
<1>1. /\ UNCHANGED <<published, answers, chain, nonce, given>>
      /\ k \in Req /\ d \in given[k] /\ cache[d][n] = None
      /\ cache'[d][n] \in Blocks /\ cache'[d][n].nonce = n
      /\ \A e \in Device, m \in Known : e # d \/ m # n => cache'[e][m] = cache[e][m]
  BY <1>0, SignEffect DEF DeviceFrame, hubVars, Known
<1>2. Cached'
  <2> SUFFICES ASSUME NEW e \in Device, NEW m \in Known, cache'[e][m] # None
               PROVE  /\ m \in Nonce /\ cache'[e][m].nonce = m
                      /\ \E l \in Req : nonce[l] = m /\ e \in given[l]
    BY <1>1 DEF Cached
  <2>1. CASE e = d /\ m = n
    BY <1>0, <1>1, <2>1
  <2>2. CASE e # d \/ m # n
    BY <1>1, <2>2 DEF Cached
  <2> QED BY <2>1, <2>2
<1>3. \A e \in Device : \A m \in published[e] : m \in Known /\ (e # d \/ m # n)
  BY <1>1 DEF Published, Typed, Known
<1>4. Published'
  <2>1. \A e \in Device : \A m \in published[e] : cache'[e][m] = cache[e][m]
    BY <1>1, <1>3
  <2> QED BY <1>1, <2>1 DEF Published
<1>5. Told'
  <2> SUFFICES ASSUME NEW e \in Device, NEW l \in Req, answers[e][l] \notin {None, Failed}
               PROVE  /\ answers[e][l] = cache'[e][nonce[l]]
                      /\ nonce[l] \in SignOnly \cup published[e]
    BY <1>1 DEF Told
  <2>1. /\ answers[e][l] = cache[e][nonce[l]] /\ answers[e][l] # None
        /\ nonce[l] \in SignOnly \cup published[e]
    BY DEF Told
  <2>2. nonce[l] \in Known
    BY DEF Typed, Call, Known
  <2>3. e # d \/ nonce[l] # n
    BY <1>1, <2>1
  <2> QED BY <1>1, <2>1, <2>2, <2>3
<1> QED BY <1>2, <1>4, <1>5

\* A block that is published, or refused and forgotten or kept, leaves the three
\* invariants as they are, but for the new answer.
LEMMA TablesBlocks ==
    ASSUME Typed, Cached, Published, DeviceFrame, NEW d \in Device, NEW n \in Nonce,
           NEW kept, NEW a, Tables(d, n, kept, a), cache[d][n] \in Blocks,
           kept = cache[d][n] \/ (kept = None /\ n \notin SignOnly \cup published[d])
    PROVE  /\ Cached' /\ Published'
           /\ \A e \in Device, m \in Known :
                m \in SignOnly \cup published[e] =>
                  cache'[e][m] = cache[e][m] /\ m \in SignOnly \cup published'[e]
           /\ a = cache[d][n] => cache'[d][n] = a /\ n \in published'[d]
           /\ a \in {cache[d][n], Failed}
<1>0. UNCHANGED <<nonce, given>> /\ n \in Known /\ \A e \in Device : published[e] \subseteq Known
  BY DEF DeviceFrame, hubVars, Known, Typed
<1>1. CASE /\ a = cache[d][n]
           /\ cache' = cache
           /\ published'[d] = published[d] \cup {n}
           /\ \A e \in Device : e # d => published'[e] = published[e]
           /\ Range(chain') = Range(chain) \cup {cache[d][n]}
  <2> DEFINE b == cache[d][n]
  <2>1. Cached'
    BY <1>0, <1>1 DEF Cached
  <2>2. \A e \in Device : published[e] \subseteq published'[e]
    BY <1>1
  <2>3. b # None /\ b.nonce = n
    BY <1>0, NoneIsNoAnswer DEF Cached, Answers
  <2>4. ASSUME NEW e \in Device, NEW m \in published'[e]
        PROVE  cache[e][m] # None /\ cache[e][m] \in Range(chain')
    BY <1>1, <2>3, <2>4 DEF Published
  <2>5. ASSUME NEW x \in Range(chain')
        PROVE  \E e \in Device : x.nonce \in published'[e] /\ cache[e][x.nonce] = x
    <3>1. CASE x = b
      BY <1>1, <2>3, <3>1
    <3>2. CASE x \in Range(chain)
      BY <1>1, <2>2, <3>2 DEF Published
    <3> QED BY <1>1, <2>5, <3>1, <3>2
  <2>6. Published'
    BY <1>1, <2>4, <2>5 DEF Published
  <2>7. /\ \A e \in Device, m \in Known :
             m \in SignOnly \cup published[e] =>
               cache'[e][m] = cache[e][m] /\ m \in SignOnly \cup published'[e]
        /\ cache'[d][n] = a /\ n \in published'[d]
    BY <1>1, <2>2
  <2> QED BY <1>1, <2>1, <2>6, <2>7
<1>2. CASE /\ a = Failed
           /\ UNCHANGED <<chain, published>>
           /\ cache'[d][n] = kept
           /\ \A e \in Device, m \in Known : e # d \/ m # n => cache'[e][m] = cache[e][m]
  <2>1. \A e \in Device, m \in Known :
          \/ cache'[e][m] = cache[e][m]
          \/ cache'[e][m] = None /\ m \notin SignOnly \cup published[e]
    BY <1>2
  <2>2. Cached'
    BY <1>0, <2>1 DEF Cached
  <2>3. \A e \in Device : \A m \in published[e] : cache'[e][m] = cache[e][m]
    BY <1>0, <2>1
  <2>4. Published'
    BY <1>2, <2>3 DEF Published
  <2>5. a # cache[d][n]
    BY <1>2, NoneIsNoAnswer
  <2> QED BY <1>2, <2>1, <2>2, <2>4, <2>5
<1> QED BY <1>1, <1>2 DEF Tables, Known

\* Answers of a device keep the three invariants.
LEMMA AnswerBlocks ==
    ASSUME Typed, Opened, Cached, Published, Told, NEW d \in Device, NEW k \in Call,
           Finish(d, k) \/ (k \in Qry /\ (AnswerStatus(d, k) \/ AnswerBroadcast(d, k)))
    PROVE  Cached' /\ Published' /\ Told'
<1> DEFINE n == nonce[k]
<1>1. ASSUME DeviceFrame, Answer(d, k), answers[d][k] = None, Cached', Published',
             \A e \in Device, m \in Known :
                m \in SignOnly \cup published[e] =>
                  cache'[e][m] = cache[e][m] /\ m \in SignOnly \cup published'[e],
             k \in Req => \/ answers'[d][k] = Failed
                          \/ /\ answers'[d][k] = cache'[d][n]
                             /\ n \in SignOnly \cup published'[d]
      PROVE  Told'
  <2>1. nonce' = nonce
    BY <1>1 DEF DeviceFrame
  <2> SUFFICES ASSUME NEW e \in Device, NEW l \in Req, answers'[e][l] \notin {None, Failed}
               PROVE  /\ answers'[e][l] = cache'[e][nonce[l]]
                      /\ nonce[l] \in SignOnly \cup published'[e]
    BY <2>1 DEF Told
  <2>2. CASE e = d /\ l = k
    BY <1>1, <2>2
  <2>3. CASE e # d \/ l # k
    <3>1. answers'[e][l] = answers[e][l]
      BY <1>1, <2>3 DEF Answer, Call
    <3>2. answers[e][l] = cache[e][nonce[l]] /\ nonce[l] \in SignOnly \cup published[e]
      BY <3>1 DEF Told
    <3>3. nonce[l] \in Known
      BY DEF Typed, Call, Known
    <3> QED BY <1>1, <3>1, <3>2, <3>3
  <2> QED BY <2>2, <2>3
<1>2. ASSUME DeviceFrame, UNCHANGED <<cache, published, chain>>
      PROVE  /\ Cached' /\ Published'
             /\ \A e \in Device, m \in Known :
                  m \in SignOnly \cup published[e] =>
                    cache'[e][m] = cache[e][m] /\ m \in SignOnly \cup published'[e]
  BY <1>2 DEF DeviceFrame, hubVars, Cached, Published
<1>3. CASE Finish(d, k)
  <2>1. /\ DeviceFrame /\ k \in Req /\ Answer(d, k) /\ answers[d][k] = None
        /\ n \in Nonce /\ cache[d][n] \in Blocks
    BY <1>3, FinishEffect
  <2>2. CASE /\ n \in SignOnly \cup published[d]
             /\ answers'[d][k] = cache[d][n] /\ UNCHANGED <<cache, published, chain>>
    BY <1>1, <1>2, <2>1, <2>2
  <2>3. CASE n \notin SignOnly \cup published[d] /\ Tables(d, n, None, answers'[d][k])
    <3>1. /\ Cached' /\ Published'
          /\ \A e \in Device, m \in Known :
               m \in SignOnly \cup published[e] =>
                 cache'[e][m] = cache[e][m] /\ m \in SignOnly \cup published'[e]
          /\ answers'[d][k] = cache[d][n] => cache'[d][n] = answers'[d][k] /\ n \in published'[d]
          /\ answers'[d][k] \in {cache[d][n], Failed}
      BY <2>1, <2>3, TablesBlocks
    <3> QED BY <1>1, <2>1, <3>1
  <2> QED BY <1>3, <2>2, <2>3, FinishEffect
<1>4. CASE k \in Qry /\ AnswerStatus(d, k)
  <2>1. /\ DeviceFrame /\ Answer(d, k) /\ answers[d][k] = None
        /\ UNCHANGED <<cache, published, chain>> /\ k \notin Req
    BY <1>4, StatusEffect, PaymentAssumption
  <2> QED BY <1>1, <1>2, <2>1
<1>5. CASE k \in Qry /\ AnswerBroadcast(d, k)
  <2>1. /\ DeviceFrame /\ Answer(d, k) /\ answers[d][k] = None /\ k \notin Req /\ n \in Nonce
        /\ \/ UNCHANGED <<cache, published, chain>>
           \/ cache[d][n] \in Blocks /\ Tables(d, n, cache[d][n], answers'[d][k])
    BY <1>5, BroadcastEffect, PaymentAssumption
  <2>2. CASE UNCHANGED <<cache, published, chain>>
    BY <1>1, <1>2, <2>1, <2>2
  <2>3. CASE cache[d][n] \in Blocks /\ Tables(d, n, cache[d][n], answers'[d][k])
    <3>1. /\ Cached' /\ Published'
          /\ \A e \in Device, m \in Known :
               m \in SignOnly \cup published[e] =>
                 cache'[e][m] = cache[e][m] /\ m \in SignOnly \cup published'[e]
      BY <2>1, <2>3, TablesBlocks
    <3> QED BY <1>1, <2>1, <3>1
  <2> QED BY <2>1, <2>2, <2>3
<1> QED BY <1>3, <1>4, <1>5

\* Steps of the relay keep them.
LEMMA RelayBlocks ==
    ASSUME Typed, Opened, Cached, Published, Told, [Next]_vars, ~DeviceStep
    PROVE  Cached' /\ Published' /\ Told'
<1>1. UNCHANGED <<cache, published, answers, chain>>
  BY RelayFrame DEF deviceVars
<1>2. Published'
  BY <1>1 DEF Published
<1>3. Cached'
  <2> SUFFICES ASSUME NEW d \in Device, NEW n \in Known, cache[d][n] # None
               PROVE  /\ n \in Nonce /\ cache[d][n].nonce = n
                      /\ \E k \in Req : nonce'[k] = n /\ d \in given'[k]
    BY <1>1 DEF Cached
  <2>1. PICK k \in Req : nonce[k] = n /\ d \in given[k]
    BY DEF Cached
  <2>2. nonce'[k] = n /\ d \in given'[k]
    BY <2>1, GivenKeeps
  <2> QED BY <2>2 DEF Cached
<1>4. Told'
  <2> SUFFICES ASSUME NEW d \in Device, NEW k \in Req, answers[d][k] \notin {None, Failed}
               PROVE  /\ answers[d][k] = cache[d][nonce'[k]]
                      /\ nonce'[k] \in SignOnly \cup published[d]
    BY <1>1 DEF Told
  <2>1. k \in Call /\ ret[k] # "idle"
    BY DEF Call, Opened
  <2>2. nonce'[k] = nonce[k]
    BY <2>1, CallsKeep
  <2> QED BY <2>2 DEF Told
<1> QED BY <1>2, <1>3, <1>4

\* Every step keeps Cached, Published and Told.
LEMMA NextBlocks ==
    Typed /\ Opened /\ Cached /\ Published /\ Told /\ [Next]_vars
        => Cached' /\ Published' /\ Told'
<1> SUFFICES ASSUME Typed, Opened, Cached, Published, Told, [Next]_vars
             PROVE  Cached' /\ Published' /\ Told'
  OBVIOUS
<1>1. CASE DeviceStep
  BY <1>1, SignBlocks, AnswerBlocks DEF DeviceStep, Call
<1>2. CASE ~DeviceStep
  BY <1>2, RelayBlocks
<1> QED BY <1>1, <1>2

\* No block exists initially.
LEMMA InitBlocks == Init => Cached /\ Published /\ Told
<1>1. Range(<<>>) = {}
  BY DEF Range
<1>2. Init => \A b \in Range(chain) : FALSE
  BY <1>1 DEF Init
<1> QED BY <1>2 DEF Init, Cached, Known, Published, Told, Call

-----------------------------------------------------------------------------
(* What the callers see.                                                   *)

\* What a caller was told is what the device has cached.
LEMMA ToldCached ==
    ASSUME Typed, Opened, Cached, Told, NEW k \in Req, ret[k] = "answered",
           answers[by[k]][k] # Failed
    PROVE  /\ by[k] \in Device /\ nonce[k] \in Nonce
           /\ answers[by[k]][k] = cache[by[k]][nonce[k]]
           /\ cache[by[k]][nonce[k]] # None /\ cache[by[k]][nonce[k]].nonce = nonce[k]
           /\ nonce[k] \in SignOnly \cup published[by[k]]
<1>1. k \in Call
  BY DEF Call
<1>2. by[k] \in Device /\ answers[by[k]][k] # None /\ nonce[k] \in Nonce
  BY <1>1 DEF Opened, Typed
<1>3. /\ answers[by[k]][k] = cache[by[k]][nonce[k]]
      /\ nonce[k] \in SignOnly \cup published[by[k]]
  BY <1>2 DEF Told
<1>4. nonce[k] \in Known
  BY <1>2 DEF Known
<1> QED BY <1>2, <1>3, <1>4 DEF Cached

\* A caller told of a block finds it on the chain, if the payment was to be
\* broadcast, and it is the block of its own payment.
THEOREM TrueAnswers == Spec => []AnswersAreTrue
<1>1. Typed /\ Opened /\ Cached /\ Published /\ Told => AnswersAreTrue
  <2> SUFFICES ASSUME Typed, Opened, Cached, Published, Told, NEW k \in Req,
                      ret[k] = "answered", answers[by[k]][k] # Failed
               PROVE  LET b == answers[by[k]][k]
                      IN  /\ b # None /\ b.nonce = forwarded[k]
                          /\ nonce[k] \in SignOnly \/ b \in BlocksFor(nonce[k])
    BY DEF AnswersAreTrue
  <2> DEFINE b == answers[by[k]][k]
  <2>1. /\ by[k] \in Device /\ nonce[k] \in Nonce /\ b = cache[by[k]][nonce[k]]
        /\ b # None /\ b.nonce = nonce[k]
        /\ nonce[k] \in SignOnly \cup published[by[k]]
    BY ToldCached
  <2>2. forwarded[k] = nonce[k]
    BY DEF Typed
  <2>3. nonce[k] \notin SignOnly => b \in Range(chain)
    BY <2>1 DEF Published
  <2> QED BY <2>1, <2>2, <2>3 DEF BlocksFor
<1> QED BY <1>1, InitTyped, NextTyped, NextOpened, InitBlocks, NextBlocks, PTL DEF Spec

\* Tries of one payment that the same device answered, with anything but a
\* failure, got the same answer, in whatever order they arrived and ended.
THEOREM RetriesAgree == Spec => []RetrySameDevice
<1>1. Typed /\ Opened /\ Cached /\ Told => RetrySameDevice
  BY ToldCached DEF RetrySameDevice
<1> QED BY <1>1, InitTyped, NextTyped, NextOpened, InitBlocks, NextBlocks, PTL DEF Spec

\* However often a payment is retried, and however late devices act on the
\* requests they were sent, it is made at most once per device that was given
\* a request for it.
THEOREM AtMostOncePerDevice == Spec => []OncePerDevice
<1>1. Typed /\ Opened /\ Cached /\ Published => OncePerDevice
  <2> SUFFICES ASSUME Typed, Opened, Cached, Published, NEW n \in Nonce
               PROVE  Cardinality(BlocksFor(n)) <= Cardinality(GivenFor(n))
    BY DEF OncePerDevice
  <2> DEFINE G == GivenFor(n)
             I == {cache[d][n] : d \in G}
  <2>1. G \subseteq Device
    BY DEF GivenFor, Typed, Call
  <2>2. IsFiniteSet(G)
    BY <2>1, FS_Subset, PaymentAssumption
  <2>3. BlocksFor(n) \subseteq I
    <3> SUFFICES ASSUME NEW b \in BlocksFor(n) PROVE b \in I
      OBVIOUS
    <3>1. b \in Range(chain) /\ b.nonce = n
      BY DEF BlocksFor, Typed
    <3>2. PICK d \in Device : n \in published[d] /\ cache[d][n] = b
      BY <3>1 DEF Published
    <3>3. cache[d][n] # None
      BY <3>2 DEF Published
    <3>4. PICK k \in Req : nonce[k] = n /\ d \in given[k]
      BY <3>3 DEF Cached, Known
    <3>5. d \in G
      BY <3>4 DEF GivenFor
    <3> QED BY <3>2, <3>5
  <2> HIDE DEF G
  <2>4. IsFiniteSet(I) /\ Cardinality(I) <= Cardinality(G)
    <3> DEFINE f == [d \in G |-> cache[d][n]]
    <3>1. f \in Surjection(G, I)
      BY DEF Surjection
    <3> HIDE DEF f, I
    <3> QED BY <2>2, <3>1, FS_Surjection
  <2> HIDE DEF I
  <2>5. Cardinality(BlocksFor(n)) <= Cardinality(I)
    BY <2>3, <2>4, FS_Subset
  <2>6. /\ Cardinality(BlocksFor(n)) \in Nat /\ Cardinality(I) \in Nat /\ Cardinality(G) \in Nat
    BY <2>2, <2>3, <2>4, FS_Subset, FS_CardinalityType
  <2> QED BY <2>4, <2>5, <2>6 DEF G
<1> QED BY <1>1, InitTyped, NextTyped, NextOpened, InitBlocks, NextBlocks, PTL DEF Spec

\* A device that had completed a payment when a query for it came has not
\* answered that query with "not found".
Remembered ==
    \A q \in Qry : \A d \in known[q] :
        /\ \E k \in Req : /\ nonce[k] = nonce[q] /\ ret[k] = "answered"
                          /\ answers[by[k]][k] # Failed /\ by[k] = d
        /\ op[q] = "request_status" => answers[d][q] # NotFound

\* Every step keeps Remembered: a device that has an answer in its cache does
\* not report it as not found.
LEMMA NextRemembered ==
    Typed /\ Opened /\ Cached /\ Told /\ Remembered /\ [Next]_vars => Remembered'
<1> SUFFICES ASSUME Typed, Opened, Cached, Told, Remembered, [Next]_vars,
                    NEW q \in Qry, NEW d \in known'[q]
             PROVE  /\ \E k \in Req : /\ nonce'[k] = nonce'[q] /\ ret'[k] = "answered"
                                      /\ answers'[by'[k]][k] # Failed /\ by'[k] = d
                    /\ op'[q] = "request_status" => answers'[d][q] # NotFound
  BY DEF Remembered
<1>0. q \in Call /\ q \notin Req /\ Req \subseteq Call
  BY PaymentAssumption DEF Call
\* A payment that is completed stays so, with its nonce and its device.
<1>1. ASSUME NEW k \in Req, ret[k] = "answered", answers[by[k]][k] # Failed
      PROVE  /\ nonce'[k] = nonce[k] /\ ret'[k] = "answered" /\ by'[k] = by[k]
             /\ by[k] \in Device /\ answers'[by'[k]][k] # Failed
  <2>1. by[k] \in Device /\ answers[by[k]][k] # None
    BY <1>0, <1>1 DEF Opened
  <2> QED BY <1>0, <1>1, <2>1, CallsKeep
<1>2. CASE \E o \in {"request_status", "broadcast_nonce"}, n \in Nonce : Ask(q, o, n)
  <2>1. PICK o \in {"request_status", "broadcast_nonce"}, n \in Nonce : Ask(q, o, n)
    BY <1>2
  <2>2. /\ known' = [known EXCEPT ![q] = CompletedBy(n)] /\ nonce' = [nonce EXCEPT ![q] = n]
        /\ ret[q] = "idle" /\ answers' = answers
    BY <2>1 DEF Ask, H!Open, deviceVars
  <2>3. d \in CompletedBy(n) /\ nonce'[q] = n
    BY <1>0, <2>2 DEF Typed
  <2>4. PICK k \in Req : nonce[k] = n /\ ret[k] = "answered" /\ answers[by[k]][k] # Failed
                         /\ by[k] = d
    BY <2>3 DEF CompletedBy
  <2>5. /\ nonce'[k] = n /\ ret'[k] = "answered" /\ by'[k] = d /\ d \in Device
        /\ answers'[by'[k]][k] # Failed
    BY <1>1, <2>4
  <2>6. answers'[d][q] = None
    BY <1>0, <2>2, <2>5 DEF Opened
  <2>7. answers'[d][q] # NotFound
    BY <2>6, NoneIsNoAnswer DEF Answers
  <2> QED BY <2>3, <2>5, <2>7
<1>3. CASE d \in known[q] /\ nonce'[q] = nonce[q] /\ op'[q] = op[q]
  <2>1. PICK k \in Req : /\ nonce[k] = nonce[q] /\ ret[k] = "answered"
                         /\ answers[by[k]][k] # Failed /\ by[k] = d
    BY <1>3 DEF Remembered
  <2>2. /\ nonce'[k] = nonce'[q] /\ ret'[k] = "answered" /\ by'[k] = d /\ d \in Device
        /\ answers'[by'[k]][k] # Failed
    BY <1>1, <1>3, <2>1
  <2>3. ASSUME op[q] = "request_status", answers'[d][q] = NotFound, answers[d][q] # NotFound
        PROVE  FALSE
    <3>1. AnswerStatus(d, q)
      <4>1. ~(UNCHANGED answers)
        BY <2>3
      <4>2. DeviceStep
        BY <4>1, RelayFrame DEF deviceVars
      <4>3. ASSUME NEW e \in Device, NEW l \in Call, Answer(e, l) PROVE e = d /\ l = q
        BY <1>0, <2>2, <2>3, <4>3 DEF Answer
      <4>4. \A e \in Device, l \in Call : ~Sign(e, l)
        BY <4>1 DEF Sign
      <4>5. \A e \in Device, l \in Call : ~Finish(e, l)
        BY <1>0, <4>3, FinishEffect
      <4>6. PICK e \in Device, p \in Qry : AnswerStatus(e, p) \/ AnswerBroadcast(e, p)
        BY <4>2, <4>4, <4>5 DEF DeviceStep
      <4>7. e = d /\ p = q
        BY <4>3, <4>6, StatusEffect, BroadcastEffect DEF Call
      <4>8. ~AnswerBroadcast(d, q)
        BY <2>3 DEF AnswerBroadcast
      <4> QED BY <4>6, <4>7, <4>8
    <3>2. cache[d][nonce[q]] = None
      BY <2>2, <2>3, <3>1, StatusEffect
    <3>3. cache[by[k]][nonce[k]] # None
      BY <2>1, ToldCached
    <3> QED BY <2>1, <3>2, <3>3
  <2>4. op[q] = "request_status" => answers[d][q] # NotFound
    BY <1>3 DEF Remembered
  <2> QED BY <1>3, <2>2, <2>3, <2>4
<1>4. CASE ~\E o \in {"request_status", "broadcast_nonce"}, n \in Nonce : Ask(q, o, n)
  <2>1. ASSUME NEW p \in Qry, p # q, NEW o, NEW n, Ask(p, o, n)
        PROVE  d \in known[q] /\ nonce'[q] = nonce[q] /\ op'[q] = op[q]
    BY <1>0, <2>1 DEF Ask, Typed
  <2>2. ASSUME NEW k \in Req, NEW n, Post(k, n)
        PROVE  d \in known[q] /\ nonce'[q] = nonce[q] /\ op'[q] = op[q]
    BY <1>0, <2>2 DEF Post, Typed
  <2>3. ASSUME UNCHANGED <<known, nonce, op>>
        PROVE  d \in known[q] /\ nonce'[q] = nonce[q] /\ op'[q] = op[q]
    BY <2>3
  <2>4. d \in known[q] /\ nonce'[q] = nonce[q] /\ op'[q] = op[q]
    BY <1>4, <2>1, <2>2, <2>3 DEF Next, Connection, Forward, Conclude, Sign, Finish, AnswerStatus,
       AnswerBroadcast, vars
  <2> QED BY <1>3, <2>4
<1> QED BY <1>2, <1>4

\* A device that has completed a payment never reports it as "not found" to a
\* status query that comes later.
THEOREM LostElsewhere == Spec => []LostOnlyElsewhere
<1>1. Init => Remembered
  BY DEF Init, Remembered
<1>2. Remembered => LostOnlyElsewhere
  BY DEF Remembered, LostOnlyElsewhere
<1> QED BY <1>1, <1>2, InitTyped, NextTyped, NextOpened, InitBlocks, NextBlocks, NextRemembered,
        PTL DEF Spec
=============================================================================
