# Verification of the Nora relay

The relay (`src/cmd/relay`) connects external HTTP callers, who hold API keys,
with the desktop agents that hold the private keys of Nano accounts. Agents dial
in over WebSocket, prove their accounts, register API keys and keep an encrypted
policy backup on the relay; callers post payment requests and queries, which the
relay routes to the devices of the key's account. This directory holds TLA+
modules for the parts of it that keep state, TLC configurations that check them
on small instances, and TLAPS proofs, for all instances, of every safety property that the passing runs check.

`PROJECT.json` lists components, runs, mutants, the map from definitions to source
lines, findings, hazards and theorems.

## Inventory

| Component | State | Operations | Interaction | What is hard | What makes it correct |
|---|---|---|---|---|---|
| Hub (`hub.go`) | bindings account → devices, waiters of requests and queries | bind, unbind, sendRequest, withdraw, sendQuery, deliverResult, deliverQueryResult | called by the goroutine of each agent connection and of each HTTP request; three mutexes, none held across a write | results, timeouts, reconnections and deletes in any order; two snapshots of the devices per request | bindings exact, no waiter leaked, an answer only from a device that proved the account, one copy per connection, withdrawn where it was sent, every call returns |
| Agent connection (`http.go` handleAgent, enroll, agentReadLoop, pinger) | proven accounts, socket, deadlines | challenge/response, welcome, read loop, ping | drives the hub and the control handler | half-dead sockets; bind before welcome | bound exactly while served; gone devices leave |
| Control messages (`http.go` handleControl) | none of its own | register, rebind, revoke, update origins, put and get policy | one or more store calls per message, concurrent across connections | check-then-act over several statements, dropped errors, restarts | changes only with authority, acknowledged effects are there, honest errors |
| In-memory store (`store.go`) | keys, byHash, policy | the Store interface | one mutex | two maps to keep consistent | behaves as SQLite does; a secret leads to one live key |
| SQLite store (`store_sqlite.go`) | api_keys, policy_blobs | the Store interface | one connection, one statement per call | upserts, UNIQUE | the reference for the above |
| Rate limiter (`ratelimit.go`) | bucket per key | allow, prune | HTTP handlers and a ticker goroutine; two levels of locks | pruning a bucket somebody holds | no more than rate and burst; the map shrinks |
| HTTP handlers (`http.go`) | none | create request, broadcast, request status, status, read-only views, CORS | authKey → limiter → online → hub | the key and "online" are stale when used; devices go in between | only devices of the key's account see a call; a refusal means unsent; every accepted call is answered |
| Enrollment (`http.go` enroll, `nano/auth.go`) | nonce per connection | hello, challenge, auth | its result is what the hub binds | replayed signatures, silent agents | an agent proves only what it announced and holds |
| Device and ledger (external) | nonce cache, account chain | execute, answer, broadcast | through the hub | fan-out, retries after timeouts | a payment happens once per nonce and device |
| Migration (`cmd/migrate`) | two databases | copy keys, copy policies | writes the file the new relay serves | failure in the middle, re-runs | everything is copied, nothing newer is overwritten |
| Nano addresses (`nano/account.go`) | none | Address, ParseAddress | enroll, buildTxRequest | pad bits, byte orders | decoding inverts encoding and accepts nothing else |
| Nano signatures (`nano/sign.go`, `keys.go`) | none | Sign, Verify, key expansion | enroll | canonical scalars | what is signed verifies, in one form |
| Amounts, protocol types, configuration, main | none | parsing, JSON types, flags, `.env`, shutdown | | | |

## Modules and how they correspond to the code

### Hub (`Hub.tla`, runs through `MCHub.tla`)

A step is what a goroutine does between two points where another can see it: one
critical section, one locked write, one channel operation. `conn[c]` is the
program counter of the handleAgent goroutine of connection `c` (`new`, `proven`
after enroll, `bound`, `serving`, `left` when the read loop has returned,
`unbound`, `closed`), `pc[k]` that of the sendRequest or sendQuery call `k`.
`bindings` is the Go map with an empty sequence for an absent account;
`pending` and `queryPending` are the key sets of the maps, and `chan[k]` is the
one-slot waiter. A read loop looks the waiter up (`ReadAnswer`) and sends to it
after the lock is released (`Deliver`); `holding` is the pointer in between.
`wire[c]` is the history of the frames written to `c`. A write succeeds or fails at
any time; after a failure the connection refuses every later write, as
gorilla/websocket does.

The desktop agent is external: it may answer what it has been sent, repeatedly,
late, on any live connection of the same install, or vanish. Answers carry no
content; which connection they come from is what the properties need. `enroll`
is one step with any non-empty list from `ProvenLists`, duplicates included.

### Stores (`SqliteStore.tla`, `MemStore.tla`, runs through `MCStore.tla`)

One action per method of the Store interface, with the same names and a `reply`
variable for the returned value and error. `SqliteStore` is also the abstract
specification of what a Store promises: `MemStore` is shown to implement it, with
the table reconstructed from the two maps (`Table`). `SharedSecrets` says whether a
device may register a hash that another key already has. Timestamps are left out
(nothing reads them), origins are a set, and `put_policy` with an absent blob is
left out (what a nil blob means to a NOT NULL column is the driver's business).

### Control messages (`Control.tla`, runs through `MCControl.tla`)

`Control` extends `SqliteStore` with one handler per connection: `Receive` makes
the checks at the top of each case, then one action per store call, then
`SendReply`. `rebind_key` and `revoke_key` try the proven accounts one statement at
a time (`idx`). With `Faults`, a statement may fail without effect and the relay
may restart, keeping its tables. `owned` and `disturbed` are history variables of
what happened to the key, or to the handler's own statements, while a message was
handled; `told` is the history of the policy versions that some device was told of, by
an acknowledged `put_policy` or the answer to a `get_policy`, and is kept across
restarts.

`register_key` is an upsert on the key's id (`store_sqlite.go:70`, and so in
`store.go`): it takes the row of an id that is taken from whoever has it. The handler
only checks the account that the key goes to. `ChangesAreAuthorised` states what the
code does: every other operation needs the account the key had, `register_key` does
not.

### Rate limiter (`RateLimiter.tla`, runs through `MCRateLimiter.tla`)

`Lookup` is rateLimiter.allow up to the unlock of the map, `Take` is
keyLimiter.allow; `held` is the pointer in between. prune is four kinds of steps:
it takes the map's lock and fixes the cutoff, reads a bucket's time under the
bucket's lock, deletes the entry after releasing it, and ends. Time is the age of
each bucket, capped at `TTL + 1`, so no bound on time is needed. `credit` is the
level of an ideal bucket that is never pruned, negative when more was admitted.

### Router (`Router.tla`, `HubRouter.tla`, run through `MCHub.tla`)

What the HTTP handlers may rely on, without goroutines, waiters and frames: a call
opens with the connections that serve its account, is given to some of them (a query
to one), and returns `offline`, `timeout`, or the answer of a device that was given
it. `HubRouter` maps `Hub` to it: `bound` is the set of connections in `bindings`,
`offer` is `todo`, `given` is `reached`, a call is open from its snapshot to its
return. `Server` and `Payment` are built on `Router`, so what they show holds of the
hub too: `ImplementsRouter` is checked and proved.

### HTTP handlers (`Server.tla`, runs through `MCServer.tla`)

`Server` extends `SqliteStore` and instantiates `Router`. A call is an HTTP request
`[path, secret, origin, method, body]`; its handler is a goroutine with the steps
`Cors`, `RejectMethod`, `AuthKey`, `Admit`, `Online`, `Send`, `WriteDevices`,
`Await`, each the code between two looks at shared state. The five endpoints share
this skeleton and differ where `http[x].path` is asked: handleStatus accepts any
method and answers at `Online`, only requests and broadcasts are rate-limited, only
the endpoints about a nonce know 404. Whether the limiter says no is a free choice
(its own module says when), as is what a device answers. Meanwhile `KeyStep`
registers, rotates, rebinds, edits and revokes keys, by any statement of the store and
without handleControl's checks, and `HubStep` moves devices. `seen[x]` is the history
of the accounts that the call's secret stood for.

### Payments (`Payment.tla`, runs through `MCPayment.tla`)

The whole path of a payment, on `Router`: `Post`, `Ask`, `Forward` and `Conclude`
are the relay; `Sign`, `Finish`, `AnswerStatus` and `AnswerBroadcast` are a device,
`Accepts` the network. Device and network are not in the repository. They do what
the relay's comments, message types and mock agents say: results are cached by
nonce, failures are not, construction of a block is deterministic given the
account's frontier, the network takes a block once and only on the current
frontier. A device acts on a request whenever it reads it, also after the caller
was told of a timeout. `known[q]` is the history of the devices whose completion of the
nonce had been answered when query `q` was made.

### Migration (`Migrate.tla`, runs through `MCMigrate.tla`)

Extends `SqliteStore`, the file it writes. `Start` opens both databases and takes
the snapshot of the first SELECT, `CopyKey` and `CopyPolicy` are the upserts of one
row, `Abort` ends the command between any two rows. `OldRelay` writes to Postgres,
`NewRelay` is the relay on the SQLite file. `touched` is the history of the keys the
new relay has changed since the run began, `due` that of the policy versions which the
new relay took or a run that ended had read.

### Addresses (`NanoAddress.tla`, run through `MCNano.tla`)

`encodeBase32`, `decodeBase32`, `Address` and `ParseAddress` with the widths of bytes,
characters, keys and checksums as constants. The states are an address on its way
through hands that mistype it, parsers and printers. The reference definition in
`AcceptsExactlyAliases` reads the text as one number instead of bit by bit. The
loops of the code that build one value (a shift, a number bit by bit, the list of
proven accounts) are `Loop` of `ForLoop.tla`, a recursive function over the counter.

### Enrollment and signatures (`Enroll.tla`, `Signature.tla`, run through `MCEnroll.tla`)

`Enroll` has the steps of enroll up to its result, which is the `Enroll` step of
`Hub`: `Accept`, `SendChallenge`, `ReadAuth`, `Fail` (also the 15 second deadline).
Agents may present any signature ever made under any address, and sign block
hashes that look like a nonce. `Signature` has the equations of Sign, Verify and the
key expansion over the integers modulo `Cofactor * L` in place of the curve, with
hashes as constants. `Enroll` computes with them: a signature is accepted because
Verify's equation holds, not because the model says who made it. What BLAKE2b and
ed25519 are relied on for is stated as assumptions of `Enroll` on the keys and
challenges that occur: `HashAssumption` (SetUniformBytes gives a scalar below `L`) and
`Unforgeable` (a signature answers no challenge but the one it was made over). The loop of `ProvenBy` keeps
duplicates and order, as the code does.

## Runs

| Run | Instance | Result |
|---|---|---|
| `hub` | 2 devices, 2 accounts, lists `<a1,a1>` and `<a2>`, a request or a query; 844 thousand states up to exchanging the devices | types, bindings, waiters, answers, withdraws and single sends hold, and `Router` is implemented |
| `hub_live` | 1 connection, a request and a query at once, with fairness | `Router` with its fairness is implemented, so every call returns; a gone device is unbound |
| `store_refines` | 2 keys, 2 accounts, 3 hashes, 1 origin, 2 versions of 2 blobs | memStore implements the SQLite store, its maps are consistent |
| `control` | 2 connections with two accounts in opposite orders, one with a third account, 1 key, 13 messages, failing statements, restarts; 1.4 million states | no operation but `register_key` touches a key of an account that the connection has not proved; registration takes effect; a key is missed only after a race or a failure; a policy version that a device was told of stays or gives way to a newer one |
| `control_race` | register and rebinds only, no faults | violated: "key not found" for a key that was ours all along |
| `limiter` | 2 calls, 1 key, 3 buckets, burst 2, rate 1, TTL 6, fairness | excess only by the race with prune, at most 3; idle entries leave the map |
| `server` | 2 connections of a device, 2 accounts, 1 key, 2 secrets, 11 shapes of HTTP calls, failing statements, fairness from the first look at the hub on; 534 thousand states | only devices of an account the secret stood for see the call; a refusal means unsent; every accepted call is answered |
| `payment` | 2 devices, a payment to broadcast and one to sign only, 2 requests, 1 query; 1.6 million states up to symmetry | at most once per device, true answers, one answer per device, no device misses what it completed itself |
| `payment_fanout` | 2 devices, 1 request | violated: one request, two blocks |
| `migrate` | 2 accounts, 2 keys, 2 secrets, 2 policy versions, 2 starts, 4 edits | complete copies of the keys; no policy lost to an older one |
| `nano` | 2-bit bytes, 3-bit characters, 2-byte keys, 3-byte checksums, 2 pad bits, 4 slips | round trip; accepted are exactly the aliases |
| `enroll` | 2 agents, 2 keys, 4 addresses, 2 nonces, group of order 8 * 127 | only announced and held accounts are proved, signatures verify and are unique |

Every property has a mutant of the code, listed in `PROJECT.json`, that violates it.
The type invariants of `MemStore`, `Control`, `Server` and `Enroll`, and
`EveryKeyHasSecret`, hold on these instances too; those of `Control` and `Server` are
theorems, and that of `Enroll` is part of its inductive invariant (`EnrollInvariant`).

Symmetry: the two devices of `hub` are interchangeable together with their
connections (`Exchange`), so are the devices and requests of `payment` and the
keys, secrets and accounts of `migrate` (`Alike`); it is used only where no liveness is
checked.

Why the bounds are enough. Two connections are needed for every race between
devices, and an account shared by both is what fan-out and fallback are about; a
third would only repeat the second's part. In `control` the third account is a stranger's to
the first connection. `OneCall` in `hub` and `server` looks at
one call per behaviour: calls share nothing but the bindings they read, the writers
they may break and the maps keyed by fresh ids; `hub_live` has two at once and the
theorems cover any number. Two keys and three hashes allow rotation and reuse; the two
account orders are what makes the search of `rebind_key` racy, and one key is
enough for it. TTL 6 lets an idle bucket earn its capacity and the excess of two
calls, as an hour does at 5 tokens a second; the bound `2N - 1` was also confirmed
for three calls. Two requests are a try and its retry; two nonces tell payments
apart. `Edits = 4` allows a row and two changes of it on either side, or a policy and a
newer one on both; `Runs = 2` a re-run. `Slips = 4` reaches every text of an
address's length. In `enroll` the stand-in hash and the order of the
group were chosen so that `Unforgeable` holds of what is signed; TLC evaluates it.

What the runs do not tell apart. `Router` lets a write fail whenever it likes (`Skip`), as
the code's writes may, so `ImplementsRouter` says that each connection was tried before
a call counts as offline, not that the attempt was a fair one; a sendQuery that gave
up at the first failed write would break it, and would not break `NoDuplicateSend`.
`RegisterTakesEffect` is about registrations that nothing disturbed; what the dropped
error of the second statement does is `MCControlOrigins.cfg`. `ImplementsSqlite` is about
devices that do not reuse another key's secret; what happens otherwise is
`MCStoreShared.cfg`. `KeysAreCopied` leaves out the keys the new relay changed during
the run; what a re-run does to those changed before it is `MCMigrateRerun.cfg`. Two
policies of the same version are not told apart by `AcknowledgedPolicyIsStored`: the
first one stays, and both devices are told "ok".

Fairness: a goroutine that can run does. A call waits at most for its context's
deadline and each write for 10 seconds, so weak fairness on its steps is what the
code gives (`CallStep` in `Router`, `HubCall` in `Server`); the read loop of a
device that is gone ends at its 60 second deadline (`gone[c] /\ Leave(c)`). Handlers of
control messages run under a 10 second context; the pruner's ticker keeps firing.
Nothing is assumed of agents, devices and callers, and nothing of the database where the
code sets no deadline: corsMiddleware and authKey ask the store under `r.Context()`
(`http.go:623`), and the body is read with `ReadHeaderTimeout` alone (`main.go:47`).
`CallsAnswered` therefore begins where the handler has the key and the body. That an
enrollment ends is its 15 second deadline itself, and is not stated as a property.

## Where code and comments differ

The two violations are recorded as findings with the lines they contradict.
`control_race`: the loop of `rebind_key` can miss a key that another device of the
same user moves behind it. `payment_fanout`: the comment of sendRequest calls
fan-out safe because block construction is deterministic; it is, for one frontier.
A second device that reads the request after the first one's block is confirmed,
and before the withdraw, builds another block. What does hold is `OncePerDevice`.

Eight further configurations are kept for the same purpose, each with one property
that TLC refutes at once, and whose weaker form is part of the runs above:

| Configuration (module) | Property | What the trace shows | What holds instead |
|---|---|---|---|
| `MCHubWelcome.cfg` (`MCHub`) | `WelcomeFirst` | a request is written between bind (`http.go:127`) and the Welcome (`:132`); the mock agent of `relay_test.go:60` takes the Welcome to be first | |
| `MCStoreShared.cfg` (`MCStore`) | `ImplementsSqlite` | a key registered with another key's hash: memStore re-points the hash (`store.go:116`), SQLite refuses; "interchangeable" (`store.go:23`) | `ImplementsSqlite` with one secret per key |
| `MCControlOrigins.cfg` (`MCControl`) | `OriginsAreRegistered` | the second statement of `register_key` fails, or another device moves the key before it; the error is dropped (`http.go:270`) and the device is told "ok" | `RegisterTakesEffect` |
| `MCRateLimiterRace.cfg` (`MCRateLimiter`) | `NeverExceedsRate` | a bucket looked up before it is pruned and spent from afterwards (`ratelimit.go:59`): burst + 1 | `ExceedsOnlyByRace`, `ExcessBounded` |
| `MCServerOrigins.cfg` (`MCServer`) | `OriginsArePerKey` | an answer carries Access-Control-Allow-Origin for an origin that another key lists (`http.go:106`); "permitted to call this key's endpoints" (`protocol.go:105`) | |
| `MCPaymentRetry.cfg` (`MCPayment`) | `RetryReturnsOriginal` | a retry reaches a device that has not seen the nonce; "recognized there" (`http.go:419`) | `RetrySameDevice` |
| `MCPaymentStatus.cfg` (`MCPayment`) | `CompletedIsFound` | request_status goes to the device that did not complete the request: 404 (`http.go:567`) | `LostOnlyElsewhere` |
| `MCMigrateRerun.cfg` (`MCMigrate`) | `RerunTopsUp` | a second run undoes a rotation made on the new relay; "re-running tops up" (`migrate/main.go:9`) | `KeysAreCopied`, `PoliciesAreNewest` |

`MCNanoWide.cfg` (`MCNano`) checks `RoundTrip` at the widths of the code (8-bit bytes,
5-bit characters, 32-byte keys) for the keys of one set bit and of all bits.
`MCControlLive.cfg` (`MCControl`) checks `HandlersReply`, under the fairness of the handlers,
for three connections with the messages about policies, and `MCControlStranger.cfg` the
safety properties about keys for two devices of one user and one of somebody else (1.6
million states). These three pass.

## Proofs

A theorem holds for every value of the constants that satisfies the module's
`...Assumption`: any number of devices, connections, accounts, keys, calls and
retries, any lists of proven accounts, any rates. Every inductive invariant named
here was checked with TLC, on instances like those of the runs, before it was
proved. The proofs share one layout: a type invariant (`Typed`, with what else the
types need to be inductive), then one invariant per idea, each with a lemma `Next...`
that takes the steps one action at a time.

| Module | Theorem | Property | Rests on |
|---|---|---|---|
| `HubProofs` | `TypeCorrect` | `TypeOK` | `Fresh` |
| | `BindingsCorrect` | `BindingsExact` | |
| | `WaitersCorrect` | `WaitersExact` | |
| | `AnswersCorrect` | `AnsweredByController` | `BindingsExact`, `Routed` |
| | `SentOnce` | `NoDuplicateSend` | `BindingsExact`, `Dialled`, `Sent` |
| | `WithdrawsFollow` | `WithdrawnWhereSent` | the above, `Withdrawing` |
| | `HubImplementsRouter` | `ImplementsRouter` | the above but `Withdrawing`; `Decided`, `Heard` |
| `MemStoreProofs` | `SecretsLeadToKeys`, `RotationIsComplete` | `NoDanglingSecret`, `OneSecretPerKey` | `Index` |
| | `MemImplementsSqlite` | `ImplementsSqlite` | `Linked` |
| `ControlProofs` | `Authorised` | `ChangesAreAuthorised` | `Checked` |
| | `AcknowledgedPolicy` | `AcknowledgedPolicyIsStored` | `Checked`, `ReplyIsStored` |
| | `RegistrationTakesEffect` | `RegisterTakesEffect` | `Registered` |
| | `NotFoundIsRace` | `NotFoundNeedsRace` | `Searched` |
| `MigrateProofs` | `KeysCopied` | `KeysAreCopied` | `Copying` |
| | `PoliciesNewest` | `PoliciesAreNewest` | `CopyingPolicies` |
| `ServerProofs` | `RefusalsAreSafe` | `RefusedMeansUnsent` | `Stage` |
| | `OnlyTheOwnersDevices` | `GivenToKeyOwner` | `Stage`, `Routed` |
| `PaymentProofs` | `TrueAnswers`, `RetriesAgree` | `AnswersAreTrue`, `RetrySameDevice` | `Opened`, `Cached`, `Published`, `Told` |
| | `AtMostOncePerDevice` | `OncePerDevice` | `Opened`, `Cached`, `Published` |
| | `LostElsewhere` | `LostOnlyElsewhere` | the above, `Remembered` |
| `RateLimiterProofs` | `TypeCorrect` | `TypeOK` | |
| | `NoExtraTokens` | `ExceedsOnlyByRace` | `Pruning`, `Owned`, `Levels` |
| | `ExcessIsBounded` | `ExcessBounded` | `Pruning`, `Owned`, `Idle`, `Excess`; hypothesis `Recovers` |
| `NanoProofs` | `NanoRoundTrip` | `RoundTrip` | `NanoInv`, `DecodeEncode`, `Accepted` |
| | `NanoAcceptsExactlyAliases` | `AcceptsExactlyAliases` | `NanoInv`, `ParseIsOwner`; hypothesis `SumsFit` |
| | `EnrollProvenIsHeld` | `ProvenIsHeld` | `OneNonceEach`, `MadeBySign`, `Unforgeable` |
| | `EnrollSignedVerifies` | `SignedVerifies` | `MadeBySign`, `SignVerify` |
| | `EnrollOneEncoding` | `OneEncoding` | `MadeBySign`, `VerifyOnce` |

`ControlProofs` and `ServerProofs` also prove the type invariants of `Control` and
`Server`.

The arguments:

- Hub. `BindingsExact` is inductive with the types, given what `removeConn` keeps and
  that it keeps a list injective. `AnsweredByController` is not: `Routed` follows the
  account from the snapshot (`todo` holds devices that proved it) to the wire, from
  the wire to the read loop that holds the waiter, to the channel and to the
  answer. `NoDuplicateSend` needs that a snapshot is injective, even when a device
  proved an account twice, and that a connection still in the list has not been
  sent the call (`Sent`). `WithdrawnWhereSent` is about two snapshots: the second one
  contains every connection of the first that is still bound, because it proved
  the account (`Routed`) and the bindings are exact; a connection is bound once in
  its life, so nobody enters in between who was given the request.
- The refinement of `Router` maps the steps of `Hub` one by one: the step that takes
  the snapshot opens the call, the first and each further successful write gives it,
  the last step of a call returns it, and everything else stutters. That a call
  returns an answer only of an install that was given it is `Heard`; that it returns
  `offline` exactly if nobody was is `Decided`.
- MemStore. `Linked` (each key has exactly one secret, each secret leads to a key)
  makes `Table` well defined, so that every method's effect on it is the
  statement's. It holds if devices never share secrets; the two theorems on `Index`
  do not assume that.
- Control. `Checked` keeps the result of the checks at the top of handleControl until
  the statement runs; the statements of rebind, revoke and update name the owner
  themselves, which is why no race lets these three touch somebody else's key
  (`register_key` may, and needs no race for it). `ReplyIsStored` carries the version of a
  policy from the statement to the reply, and from there it is only ever replaced by a
  newer one, which a restart does not change. `Registered` and `Searched` say what a handler
  may still believe between two statements, as long as no other connection has
  disturbed it: the row it wrote, and that the accounts it has been through are not
  the owner's.
- Migration. `Copying`: a row that is not left any more is as the SELECT found it, or
  touched. `CopyingPolicies`: a policy that is not left any more is in the file, or a newer
  one is; at the end of the run none is left.
- Server. `Stage`: a handler that has not called the hub has given nothing. `Routed`:
  whoever was offered a call proved the account that its secret stood for when it
  was resolved, and `seen` remembers that moment. Both are proved on `Router`, and
  `HubImplementsRouter` carries them over to the hub.
- Payments. A cached block is for its nonce and there is a request that brought it
  (`Cached`); the chain holds what devices published, and they publish what they
  cached (`Published`); so the blocks of a nonce are an image of the devices that
  were given it, and no more than those. A device answers a request with its cache
  (`Told`), whose entries never change.
- Rate limiter. There is always unused memory for a bucket because every other key and
  call holds at most one. `Levels` compares the bucket of a key with the one that is
  never pruned: it holds no more, and a bucket that prune has given up is full,
  since its age alone has earned the capacity; so nothing is gained when it is
  deleted and a full one is made. `Owned` and `Pruning` are what makes a call on one
  key leave the buckets of the others alone.
- How far the race goes. A call is stale when prune has given up the bucket it holds.
  `Excess` keeps what is left of the credit once every stale call is served: it falls
  short of the bucket's level by at most `2N - 1`, one for a bucket long gone and one
  for its successor per call, less the call that made or last used the bucket and so is
  not stale. When the bucket has been idle for a time to live, the time alone has
  paid for the first half, which is `Recovers`: without it the excess could add up from
  one pruning to the next.
- Addresses. `Loop` is characterised once (`LoopValue`, `LoopStep`), by an induction that
  `SetInduction` states for the set of numbers on which a claim holds. From that:
  the bits of `Number(bits)` are `bits` and the number of a number's bits is that
  number, so the two base32 loops are inverse to each other at every position, across
  bytes and characters that do not line up, and behind the pad bits (`DecodeEncode`).
  For the converse, `Accepted` takes ParseAddress apart. The reference reads a text as one
  number: it is the number of all the text's bits (`TextValueBits`), cut into bytes
  (`Chunks`), and bytes are determined by their number (`BytesValueInjective`).
- Signatures. Arithmetic modulo `Cofactor * L`: what is congruent modulo `L` stays so when
  multiplied by the cofactor (`ModScale`), which is why Sign may reduce S and Verify
  still accepts it (`SignVerify`). Two values of S below `L` that solve the same equation
  are equal (`VerifyOnce`): this is where the check for canonical scalars is needed.
- Enrollment. `OneNonceEach`: a nonce belongs to one connection. `MadeBySign`: every
  signature is Sign's result, over a block or over the challenge of a connection whose
  agent holds the key. A signature accepted on a connection was thus made over its
  nonce (`Unforgeable`), hence by its own agent. A block hash that equals a nonce does
  not matter because of the domain in the digest.

Assumptions, beyond the shape of the constants: requests and queries have different
ids; `None` is not a value of what it may stand in for; the devices of a payment, the
keys and the calls of the limiter are finitely many; a time to live fills a bucket
(`RateAssumption`: 18000 tokens an hour against 20); a control message is one of the
operations' (`ControlAssumption`), any string the relay does not know included; the
text of a key and its pad bits, and that of a checksum, fill whole characters
(`NanoAssumption`: 260 and 40 bits of 5); and the two assumptions on hashes and
signatures above. TLC evaluates all of them in the runs.

Two theorems have a hypothesis of their own. `Recovers`: an idle time to live earns a
full bucket and one token for each call in flight; 18000 tokens an hour against 20 and
the calls of one key, and 7 against 4 in `limiter`. `SumsFit`: the checksum of every key,
not only of those written down, has the length that ParseAddress compares; in the code it is
the fixed size 5 given to blake2bSum, in `nano` the stand-in is built so.

Only model-checked: the liveness properties `GoneIsUnbound`, `HandlersReply`, `IdleEntriesGo`,
`CallsAnswered` and `ImplementsFairRouter`, which is `Router` with its fairness. Fairness and ENABLED are out of
the prover's reach. The induction theorems of the library take an operator as a
parameter, which the provers cannot instantiate; `SetInduction` derives a form for sets
from the well-foundedness of `<` on Nat, which they can use, and it carries the theorems on loops.

## Not modelled

- The strength of ed25519 and BLAKE2b, and what the library does with encodings of
  points; seeds, DeriveKey and PolicySyncKey, which are one hash each.
- ParseNanoAmount: one exact multiplication of math/big; the relay passes the
  result on or refuses the request, which `Server` has.
- `.env` files, flags and environment: read once before anything runs. Listening
  and shutdown: net/http's. A restart is an action of `Control`; a call cut off by
  it is, for `Payment`, a call that never returns.
- JSON, logging, and the wording of errors: no property depends on them.
- Sizes and times: deadlines are fairness, the age of a bucket is counted in
  ticks, body and message limits are part of "acceptable or not".

## Plan

Done: hub, stores, control, limiter; the contract `Router` and its refinement; the
handlers on top of it; payments; enrollment with signatures; migration; addresses.

Proved: every safety property that a passing run checks, the two refinements, and the
invariants they rest on.

Left: nothing that the prover can do. Liveness stays with TLC.
