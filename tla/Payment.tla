------------------------------ MODULE Payment ------------------------------
(***************************************************************************)
(* Payments end to end, for one account: callers that post requests and    *)
(* retry them under the same nonce, the relay (handlers on top of Router), *)
(* the account's devices and its chain of blocks.                          *)
(*                                                                         *)
(* The relay keeps no results: "idempotency lives on the device"           *)
(* (cmd/relay/http.go).  Devices and network are external; they behave as  *)
(* the relay's tests and comments have it: a device caches the signed and  *)
(* broadcast results by nonce and answers a known nonce from the cache, a  *)
(* block is determined by the payment and the frontier it is built on, and *)
(* the network takes a block once, if its frontier is still current.       *)
(***************************************************************************)
EXTENDS Integers, Sequences, FiniteSets, Functions

CONSTANTS
    Device,    \* the installs that hold the account's seed, one connection each
    Nonce,     \* the caller's nonces, one per payment it means to make
    SignOnly,  \* the payments asked for with action "sign_only"
    Req,       \* requests, with a fresh id each
    Qry,       \* request_status and broadcast_nonce queries
    None

ASSUME PaymentAssumption ==
    /\ SignOnly \subseteq Nonce
    /\ Req \cap Qry = {}
    /\ IsFiniteSet(Device)
    /\ None \notin Nonce \cup [nonce : Nonce \cup {None}, prev : Int]

VARIABLES
    proved, bound, ret, acct, offer, given, by,  \* the hub
    nonce,      \* the nonce the caller named in each call
    forwarded,  \* the nonce in the frame that the relay sends for it
    op,         \* what a query asks
    cache,      \* per device: nonce -> block signed for it
    published,  \* per device: nonces whose block it has broadcast
    answers,    \* per device: call -> what it answers
    chain,      \* the blocks of the account
    known       \* history: who had completed the nonce when the query came

hubVars == <<proved, bound, ret, acct, offer, given, by>>
deviceVars == <<cache, published, answers>>
vars == <<hubVars, nonce, forwarded, op, deviceVars, chain, known>>

Call == Req \cup Qry
TheAccount == "account"

H == INSTANCE Router WITH Account <- {TheAccount}, Conn <- Device,
                          DeviceOf <- [d \in Device |-> d]

\* A block: the payment, as the device knows it, and the frontier below it.
Block(n, frontier) == [nonce |-> n, prev |-> frontier]

\* Answers that name no block.
Failed == Block(None, -1)
NotFound == Block(None, -2)

BlocksFor(n) == {b \in Range(chain) : \E k \in Req : nonce[k] = n /\ b.nonce = forwarded[k]}

\* A request is completed when a caller was told its block; these are the
\* devices that completed one for n.
CompletedBy(n) ==
    {by[k] : k \in {l \in Req : nonce[l] = n /\ ret[l] = "answered" /\ answers[by[l]][l] # Failed}}

-----------------------------------------------------------------------------
(* The relay.                                                              *)

Connection(d) ==
    /\ H!Prove(d, {TheAccount}) \/ H!BindConn(d) \/ H!UnbindConn(d)
    /\ UNCHANGED <<nonce, forwarded, op, deviceVars, chain, known>>

\* Mutant of Post: the request id always serves as the nonce.
PostFreshNonce(k, n) ==
    /\ H!Open(k, TheAccount)
    /\ nonce' = [nonce EXCEPT ![k] = n]
    /\ forwarded' = [forwarded EXCEPT ![k] = k]
    /\ UNCHANGED <<op, deviceVars, chain, known>>

\* handleCreateRequest and buildTxRequest: the caller's nonce is forwarded.
\* (Without one the relay takes the fresh request id, which is the same as a
\* nonce that is never used again.)
Post(k, n) ==
    /\ H!Open(k, TheAccount)
    /\ nonce' = [nonce EXCEPT ![k] = n]
    /\ forwarded' = [forwarded EXCEPT ![k] = n]
    /\ UNCHANGED <<op, deviceVars, chain, known>>

\* Mutant of Ask: the nonce is left out of the query.
AskWithoutNonce(q, o, n) ==
    /\ H!Open(q, TheAccount)
    /\ nonce' = [nonce EXCEPT ![q] = n]
    /\ op' = [op EXCEPT ![q] = o]
    /\ known' = [known EXCEPT ![q] = CompletedBy(n)]
    /\ UNCHANGED <<forwarded, deviceVars, chain>>

\* handleRequestStatus and handleBroadcast: a query about a nonce.
Ask(q, o, n) ==
    /\ H!Open(q, TheAccount)
    /\ nonce' = [nonce EXCEPT ![q] = n]
    /\ forwarded' = [forwarded EXCEPT ![q] = n]
    /\ op' = [op EXCEPT ![q] = o]
    /\ known' = [known EXCEPT ![q] = CompletedBy(n)]
    /\ UNCHANGED <<deviceVars, chain>>

Forward(k, d) ==
    /\ H!Give(k, d) \/ H!Skip(k, d)
    /\ UNCHANGED <<nonce, forwarded, op, deviceVars, chain, known>>

\* Mutant of Conclude: a result is taken for the call that waits, whichever
\* request it names.
ConcludeAny(k) ==
    /\ \E d \in Device : (\E l \in Call : answers[d][l] # None) /\ H!ReturnAnswer(k, d)
    /\ UNCHANGED <<nonce, forwarded, op, deviceVars, chain, known>>

\* The call returns: with the answer of a device, matched by the id, or not.
Conclude(k) ==
    /\ \/ \E d \in Device : answers[d][k] # None /\ H!ReturnAnswer(k, d)
       \/ H!ReturnError(k)
    /\ UNCHANGED <<nonce, forwarded, op, deviceVars, chain, known>>

-----------------------------------------------------------------------------
(* A device.  It reads a request whenever it gets to it, perhaps after the *)
(* caller has been told of a timeout, as long as no withdraw has been read *)
(* (never reading the request stands for that).                            *)

Reading(d, k) == d \in given[k] /\ answers[d][k] = None

AnswerCall(d, k, a) == answers' = [answers EXCEPT ![d][k] = a]

\* A nonce it knows is answered from the cache; an unknown one is signed on
\* the frontier the network reports now.
Sign(d, k) ==
    /\ k \in Req /\ Reading(d, k) /\ cache[d][forwarded[k]] = None
    /\ cache' = [cache EXCEPT ![d][forwarded[k]] = Block(forwarded[k], Len(chain))]
    /\ UNCHANGED <<hubVars, nonce, forwarded, op, published, answers, chain, known>>

\* The network accepts a block on the current frontier, knows one it has, and
\* refuses any other.
Accepts(b) == b.prev = Len(chain) \/ b \in Range(chain)

\* The device broadcasts the block it has signed for nonce n: if it is refused,
\* what stays cached for n is kept.
Publish(d, n, kept) ==
    LET b == cache[d][n]
    IN  IF Accepts(b)
          THEN /\ chain' = IF b \in Range(chain) THEN chain ELSE Append(chain, b)
               /\ published' = [published EXCEPT ![d] = @ \cup {n}]
               /\ UNCHANGED cache
          ELSE /\ cache' = [cache EXCEPT ![d][n] = kept]
               /\ UNCHANGED <<chain, published>>

\* What it answers then.
Outcome(d, n) == IF Accepts(cache[d][n]) THEN cache[d][n] ELSE Failed

\* The request is answered.  Failures are not cached, so that a retry signs a
\* new block.
Finish(d, k) ==
    LET n == forwarded[k]
    IN  /\ k \in Req /\ Reading(d, k) /\ cache[d][n] # None
        /\ IF n \in SignOnly \cup published[d]
             THEN AnswerCall(d, k, cache[d][n]) /\ UNCHANGED <<cache, published, chain>>
             ELSE Publish(d, n, None) /\ AnswerCall(d, k, Outcome(d, n))
        /\ UNCHANGED <<hubVars, nonce, forwarded, op, known>>

\* request_status: from the cache.
AnswerStatus(d, q) ==
    /\ q \in Qry /\ op[q] = "request_status" /\ Reading(d, q)
    /\ AnswerCall(d, q, IF cache[d][forwarded[q]] = None THEN NotFound
                                                         ELSE cache[d][forwarded[q]])
    /\ UNCHANGED <<hubVars, nonce, forwarded, op, cache, published, chain, known>>

\* broadcast_nonce: a block that was signed and not yet broadcast.
AnswerBroadcast(d, q) ==
    LET n == forwarded[q]
    IN  /\ q \in Qry /\ op[q] = "broadcast_nonce" /\ Reading(d, q)
        /\ IF cache[d][n] = None \/ n \in published[d]
             THEN AnswerCall(d, q, NotFound) /\ UNCHANGED <<cache, published, chain>>
             ELSE Publish(d, n, cache[d][n]) /\ AnswerCall(d, q, Outcome(d, n))
        /\ UNCHANGED <<hubVars, nonce, forwarded, op, known>>

-----------------------------------------------------------------------------
Init ==
    /\ H!Init
    /\ nonce = [k \in Call |-> None]
    /\ forwarded = [k \in Call |-> None]
    /\ op = [q \in Qry |-> None]
    /\ cache = [d \in Device |-> [n \in Nonce \cup Req \cup {None} |-> None]]
    /\ published = [d \in Device |-> {}]
    /\ answers = [d \in Device |-> [k \in Call |-> None]]
    /\ chain = <<>>
    /\ known = [q \in Qry |-> {}]

Next ==
    \/ \E d \in Device : Connection(d)
    \/ \E k \in Req, n \in Nonce : Post(k, n)
    \/ \E q \in Qry, o \in {"request_status", "broadcast_nonce"}, n \in Nonce : Ask(q, o, n)
    \/ \E k \in Call : Conclude(k)
    \/ \E d \in Device, k \in Call :
         Forward(k, d) \/ Sign(d, k) \/ Finish(d, k)
    \/ \E d \in Device, q \in Qry : AnswerStatus(d, q) \/ AnswerBroadcast(d, q)

Spec == Init /\ [][Next]_vars

-----------------------------------------------------------------------------
(* Properties.                                                             *)

GivenFor(n) == UNION {given[k] : k \in {l \in Req : nonce[l] = n}}

\* However often a caller retries a payment, and however late devices act on
\* the requests they were sent, the payment is made at most once per device
\* that was given a request for it; in particular not at all if every try
\* ended "offline", and once if there is one device.
OncePerDevice ==
    \A n \in Nonce : Cardinality(BlocksFor(n)) <= Cardinality(GivenFor(n))

\* A caller told of a block finds it on the chain (if the payment was to be
\* broadcast), and it is the block of its own payment.
AnswersAreTrue ==
    \A k \in Req :
        ret[k] = "answered" /\ answers[by[k]][k] # Failed =>
            LET b == answers[by[k]][k]
            IN  /\ b # None /\ b.nonce = forwarded[k]
                /\ nonce[k] \in SignOnly \/ b \in BlocksFor(nonce[k])

\* Tries of one payment that the same device answered, with anything but a
\* failure, got the same answer: the nonce the caller chose is the one the
\* device knows it by, in whatever order the tries arrive, time out and end.
RetrySameDevice ==
    \A j, k \in Req :
        /\ nonce[j] # None /\ nonce[j] = nonce[k]
        /\ ret[j] = "answered" /\ ret[k] = "answered" /\ by[j] = by[k]
        /\ answers[by[j]][j] # Failed /\ answers[by[k]][k] # Failed
        => answers[by[j]][j] = answers[by[k]][k]

\* A device that has completed a request never reports it as "not found" to a
\* later request_status, through whatever retries, broadcasts and reconnections:
\* such an answer comes from a device that completed none of its tries.
LostOnlyElsewhere ==
    \A q \in Qry :
        (op[q] = "request_status" /\ ret[q] = "answered" /\ answers[by[q]][q] = NotFound) =>
            by[q] \notin known[q]

\* Hub.sendRequest: "Fan-out is safe against double-execution".  One request
\* leads to one block.
FanoutExecutesOnce ==
    Cardinality(Req) = 1 => Cardinality(Range(chain)) <= 1

\* handleCreateRequest: "a retry with the same nonce is recognized there and the
\* original outcome is returned without re-signing".  Stated for requests that
\* were each given to one device, so that the fan-out has no part in it.
RetryReturnsOriginal ==
    \A j, k \in Req :
        /\ nonce[j] # None /\ nonce[j] = nonce[k]
        /\ ret[j] = "answered" /\ ret[k] = "answered"
        /\ Cardinality(given[j]) = 1 /\ Cardinality(given[k]) = 1
        /\ answers[by[j]][j] # Failed /\ answers[by[k]][k] # Failed
        => answers[by[j]][j] = answers[by[k]][k]

\* handleRequestStatus "returns a previously completed request's result by
\* nonce": 404 is for a pending, rejected, or never-submitted nonce.
CompletedIsFound ==
    \A q \in Qry :
        op[q] = "request_status" /\ known[q] # {} /\ ret[q] = "answered" =>
            answers[by[q]][q] # NotFound
=============================================================================
