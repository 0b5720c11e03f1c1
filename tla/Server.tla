------------------------------- MODULE Server -------------------------------
(***************************************************************************)
(* The caller API of cmd/relay/http.go: corsMiddleware and the handlers of *)
(* /v1/requests, /v1/broadcast, /v1/requests/status, /v1/status and the    *)
(* read-only views (/v1/settings, /v1/balance, /v1/activity), on top of    *)
(* the store (SqliteStore) and of what the hub promises (Router).          *)
(*                                                                         *)
(* One goroutine per HTTP call.  Its steps are the moments at which it     *)
(* looks at state others change: the store, the bindings, the hub.         *)
(* Meanwhile devices connect, disconnect, and register, rotate, rebind and *)
(* revoke keys, each by one statement of the store (module Control has     *)
(* their handlers).  The rate limiter (module RateLimiter) may say no.     *)
(***************************************************************************)
EXTENDS SqliteStore

CONSTANTS Conn, Device, DeviceOf,
          Req,       \* calls of /v1/requests, with the id of their request
          Qry,       \* other calls, with the id of their query
          HttpCall   \* the HTTP requests a caller may make

Call == Req \cup Qry
Endpoints == {"requests", "broadcast", "request_status", "view", "status"}

\* secret and origin are None without an Authorization header of the form
\* "Bearer x", and without an Origin header.  body says whether the body or the
\* nonce parameter is acceptable.
HttpCalls == [path : Endpoints, secret : Hash \cup {None}, origin : Origin \cup {None},
              method : {"right", "wrong", "OPTIONS"}, body : BOOLEAN]

ASSUME ServerAssumption ==
    /\ HttpCall \subseteq HttpCalls
    /\ Req \cap Qry = {}
    /\ None \notin Account \cup APIKey

VARIABLES proved, bound, ret, acct, offer, given, by,   \* the hub
          at,      \* where the handler of each call is
          http,    \* the HTTP request
          key,     \* the APIKey that authKey returned
          status,  \* the HTTP status sent, 0 before that
          allowed, \* the response carries Access-Control-Allow-Origin
          seen     \* history: what the secret stood for since the call came

hubVars == <<proved, bound, ret, acct, offer, given, by>>
handlerVars == <<at, http, key, status, allowed>>
vars == <<storeVars, hubVars, handlerVars, seen>>

H == INSTANCE Router

-----------------------------------------------------------------------------
\* The accounts a secret stands for in a table.
Stands(h, table) ==
    {table[k].owner : k \in {j \in Key : table[j] # None /\ table[j].hash = h}}

\* Every step is watched by the history of every call that is not answered.
Observe ==
    seen' = [x \in Call |->
               IF at'[x] = "idle" \/ at[x] = "done" THEN seen[x]
               ELSE seen[x] \cup Stands(http'[x].secret, rows')]

\* The handler of x goes on at pc, or answers with a status.
GoTo(x, pc) == at' = [at EXCEPT ![x] = pc] /\ UNCHANGED status
Respond(x, code) ==
    /\ at' = [at EXCEPT ![x] = "done"]
    /\ status' = [status EXCEPT ![x] = code]

\* net/http starts the handler of a call in a goroutine of its own.
Arrive(x, h) ==
    /\ at[x] = "idle"
    /\ h.path = "requests" <=> x \in Req
    /\ http' = [http EXCEPT ![x] = h]
    /\ GoTo(x, IF h.origin = None THEN "auth" ELSE "cors")
    /\ UNCHANGED <<storeVars, hubVars, key, allowed>>
    /\ Observe

\* corsMiddleware: any key's list of origins will do; a preflight is answered
\* here, and an error of the store counts as "not allowed".
Cors(x) ==
    /\ at[x] = "cors"
    /\ OriginAllowed(http[x].origin) \/ Fails
    /\ allowed' = [allowed EXCEPT ![x] = reply'.err = "allowed"]
    /\ IF http[x].method = "OPTIONS"
         THEN Respond(x, IF reply'.err = "allowed" THEN 204 ELSE 403)
         ELSE GoTo(x, "auth")
    /\ UNCHANGED <<hubVars, http, key>>
    /\ Observe

WrongMethod(x) == http[x].path # "status" /\ http[x].method # "right"

\* The handlers begin with the method, which handleStatus does not look at ...
RejectMethod(x) ==
    /\ at[x] = "auth" /\ WrongMethod(x)
    /\ Respond(x, 405)
    /\ UNCHANGED <<storeVars, hubVars, http, key, allowed>>
    /\ Observe

\* Mutant of AuthKey: the account the caller names stands in for the key's owner.
AuthKeyNamedAccount(x) ==
    /\ at[x] = "auth" /\ ~WrongMethod(x)
    /\ ResolveAPIKey(http[x].secret) \/ Fails
    /\ IF reply'.err = "ok"
         THEN /\ \E a \in Account : key' = [key EXCEPT ![x] = [reply'.val EXCEPT !.owner = a]]
              /\ GoTo(x, "admit")
         ELSE UNCHANGED key /\ Respond(x, 401)
    /\ UNCHANGED <<hubVars, http, allowed>>
    /\ Observe

\* ... then authKey resolves the secret, once for the whole call.  Without a
\* secret the store is not asked; None is no key's hash.
AuthKey(x) ==
    /\ at[x] = "auth" /\ ~WrongMethod(x)
    /\ ResolveAPIKey(http[x].secret) \/ Fails
    /\ IF reply'.err = "ok"
         THEN key' = [key EXCEPT ![x] = reply'.val] /\ GoTo(x, "admit")
         ELSE UNCHANGED key /\ Respond(x, 401)
    /\ UNCHANGED <<hubVars, http, allowed>>
    /\ Observe

\* buildTxRequest wants a kind, a destination and an amount it can read, the
\* endpoints about one nonce want the nonce.
BadBody(x) == http[x].path \in {"requests", "broadcast", "request_status"} /\ ~http[x].body

\* The rate limiter, which only guards the endpoints that can move funds, and
\* then the body.
Admit(x) ==
    /\ at[x] = "admit"
    /\ \/ http[x].path \in {"requests", "broadcast"} /\ Respond(x, 429)
       \/ IF BadBody(x) THEN Respond(x, 400) ELSE GoTo(x, "online")
    /\ UNCHANGED <<storeVars, hubVars, http, key, allowed>>
    /\ Observe

\* accountOnline: handleStatus reports it, the others need it.
Online(x) ==
    /\ at[x] = "online"
    /\ IF http[x].path = "status" THEN Respond(x, 200)
       ELSE IF H!Serving(key[x].owner) = {} THEN Respond(x, 503)
       ELSE GoTo(x, "send")
    /\ UNCHANGED <<storeVars, hubVars, http, key, allowed>>
    /\ Observe

\* sendRequest or sendQuery begins: the devices may have gone since.
Send(x) ==
    /\ at[x] = "send"
    /\ H!Open(x, key[x].owner)
    /\ IF ret'[x] = "offline" THEN Respond(x, 503) ELSE GoTo(x, "wait")
    /\ UNCHANGED <<storeVars, http, key, allowed>>
    /\ Observe

\* Its loop over the devices.
WriteDevices(x) ==
    /\ at[x] = "wait"
    /\ \E c \in Conn : H!Give(x, c) \/ H!Skip(x, c)
    /\ UNCHANGED <<storeVars, handlerVars>>
    /\ Observe

\* What the answer of a device becomes: a TxResult is passed on whatever it
\* says, a QueryResult by its Error; only the handlers that name a nonce know
\* "not_found".
Answered(x) ==
    CASE x \in Req -> {200}
      [] http[x].path = "view" -> {200, 502}
      [] OTHER -> {200, 404, 502}

\* Mutant of Await: a timeout is reported as 503.
AwaitOffline(x) ==
    /\ at[x] = "wait"
    /\ H!Return(x)
    /\ \E code \in IF ret'[x] = "answered" THEN Answered(x) ELSE {503} : Respond(x, code)
    /\ UNCHANGED <<storeVars, http, key, allowed>>
    /\ Observe

\* Mutant of Await: the handler waits for an answer, whatever its context says.
AwaitAnswer(x) ==
    /\ at[x] = "wait"
    /\ \E c \in Conn : H!ReturnAnswer(x, c)
    /\ \E code \in Answered(x) : Respond(x, code)
    /\ UNCHANGED <<storeVars, http, key, allowed>>
    /\ Observe

\* sendRequest or sendQuery returns.
Await(x) ==
    /\ at[x] = "wait"
    /\ H!Return(x)
    /\ \E code \in CASE ret'[x] = "offline" -> {503}
                     [] ret'[x] = "timeout" -> {504}
                     [] OTHER -> Answered(x) : Respond(x, code)
    /\ UNCHANGED <<storeVars, http, key, allowed>>
    /\ Observe

-----------------------------------------------------------------------------
\* Devices come and go.
HubStep ==
    /\ \/ \E c \in Conn : H!BindConn(c) \/ H!UnbindConn(c)
       \/ \E c \in Conn, S \in SUBSET Account : S # {} /\ H!Prove(c, S)
    /\ UNCHANGED <<storeVars, handlerVars>>
    /\ Observe

\* Devices manage the keys: any statement that handleControl may make (module
\* Control has the handler and its checks).
KeyStep ==
    /\ \/ \E k \in Key, a \in Account, h \in Hash : RegisterAPIKey(k, a, h)
       \/ \E k \in Key, a, b \in Account : RebindAPIKey(k, a, b)
       \/ \E k \in Key, a \in Account : RevokeAPIKey(a, k)
       \/ \E k \in Key, a \in Account, os \in SUBSET Origin : UpdateKeyOrigins(k, a, os)
    /\ reply'.err = "ok"
    /\ UNCHANGED <<hubVars, handlerVars>>
    /\ Observe

ServerInit ==
    /\ Init
    /\ H!Init
    /\ at = [x \in Call |-> "idle"]
    /\ http = [x \in Call |-> None]
    /\ key = [x \in Call |-> None]
    /\ status = [x \in Call |-> 0]
    /\ allowed = [x \in Call |-> FALSE]
    /\ seen = [x \in Call |-> {}]

\* What a handler does once it has read and accepted the request takes bounded
\* time: it looks at the hub, and its call of the hub has a context with a
\* deadline and writes that have one.
HubCall(x) == Online(x) \/ Send(x) \/ WriteDevices(x) \/ Await(x)

HandlerStep(x) ==
    \/ Cors(x) \/ RejectMethod(x) \/ AuthKey(x) \/ Admit(x) \/ HubCall(x)

ServerNext ==
    \/ \E x \in Call : (\E h \in HttpCall : Arrive(x, h)) \/ HandlerStep(x)
    \/ HubStep
    \/ KeyStep

ServerSpec == ServerInit /\ [][ServerNext]_vars

\* Nothing is assumed of what comes before: authKey and corsMiddleware ask the
\* store under r.Context(), which has no deadline of its own, and the body is
\* read without one (the server only sets ReadHeaderTimeout).
FairServerSpec == ServerSpec /\ \A x \in Call : WF_vars(HubCall(x))

-----------------------------------------------------------------------------
(* Properties.                                                             *)

\* The handlers' variables have the types of their Go values; only a call that
\* was authenticated goes past authKey.
ServerTypeOK ==
    /\ at \in [Call -> {"idle", "cors", "auth", "admit", "online", "send", "wait", "done"}]
    /\ http \in [Call -> HttpCall \cup {None}]
    /\ key \in [Call -> APIKey \cup {None}]
    /\ status \in [Call -> {0, 200, 204, 400, 401, 403, 404, 405, 429, 502, 503, 504}]
    /\ \A x \in Call : at[x] \in {"admit", "online", "send", "wait"} => key[x] # None

\* A call reaches, and is answered by, only devices that proved an account the
\* caller's secret stood for at some moment of the call.  The key is resolved
\* once; a rotation, rebind or revocation before the call began is respected,
\* one during the call may be missed (authKey, buildTxRequest).
GivenToKeyOwner ==
    \A x \in Call :
        /\ \A c \in given[x] : proved[c] \cap seen[x] # {}
        /\ by[x] # None => \E c \in given[x] : DeviceOf[c] = DeviceOf[by[x]]

\* A caller that gets any status but 200, 404, 502 or 504 knows that no device
\* has seen its request, so that trying again cannot move funds twice: 503 is
\* only sent when the hub gave the call to nobody.
RefusedMeansUnsent ==
    \A x \in Call : status[x] \in {204, 400, 401, 403, 405, 429, 503} => given[x] = {}

\* Every call that was admitted gets its answer, with devices gone or silent.
CallsAnswered ==
    \A x \in Call : at[x] \in {"online", "send", "wait"} ~> status[x] # 0

\* What protocol.go says of AllowedOrigins: a page of an origin can read the
\* answer of an authenticated call only if the key's own list names the origin.
\* (Stated for keys that end the call with the list they were resolved with.)
OriginsArePerKey ==
    \A x \in Call :
        (status[x] = 200 /\ allowed[x]
         /\ rows[key[x].id] # None /\ rows[key[x].id].origins = key[x].origins) =>
            http[x].origin \in key[x].origins
=============================================================================
