-------------------------------- MODULE Hub --------------------------------
(***************************************************************************)
(* The relay's hub (cmd/relay/hub.go) together with the goroutines of      *)
(* cmd/relay/http.go that drive it: one handleAgent goroutine and one      *)
(* pinger per agent connection, and one goroutine per sendRequest or       *)
(* sendQuery call made on behalf of an HTTP caller.                        *)
(*                                                                         *)
(* A step is what a goroutine does between two points at which another     *)
(* goroutine can observe it: one critical section of h.mu, h.pmu or h.qmu, *)
(* one locked WebSocket write, one channel operation.                      *)
(*                                                                         *)
(* The agent (the desktop application) is external.  It reads the frames   *)
(* of its connection in order, at its own pace, may answer any request or  *)
(* query it has been sent, any number of times and on any live connection  *)
(* of the same device, and may disappear at any moment.  Because it may    *)
(* be arbitrarily slow, what it has read so far need not be a variable:    *)
(* wire[c] is the history of the frames written to c.                      *)
(***************************************************************************)
EXTENDS Integers, Sequences, SequencesExt

CONSTANTS
    Account,      \* nano_ addresses
    Conn,         \* agentConn objects: every accepted WebSocket is a new one
    Device,       \* installs of the desktop agent
    DeviceOf,     \* the install that dialled each connection
    ProvenLists,  \* the account lists enroll may return (order, duplicates)
    Req,          \* request ids, fresh per sendRequest ("req_" + random)
    Qry,          \* query ids, fresh per sendQuery ("qry_" + random)
    None          \* the nil value

ASSUME HubAssumption ==
    /\ DeviceOf \in [Conn -> Device]
    /\ ProvenLists \subseteq Seq(Account) \ {<<>>}
    /\ Req \cap Qry = {}
    /\ None \notin Conn \cup Req \cup Qry \cup Account

VARIABLES
    conn,          \* where the handleAgent goroutine of each connection is
    accounts,      \* agentConn.accounts
    bindings,      \* Hub.bindings: account -> connections, most recent last
    wfail,         \* the connection's writer has failed (gorilla keeps the error)
    gone,          \* the agent of this connection will never be heard again
    wire,          \* frames written to each connection, oldest first
    pending,       \* keys of Hub.pending
    queryPending,  \* keys of Hub.queryPending
    chan,          \* the waiter of each call: a channel with one slot
    holding,       \* the call whose waiter a read loop is about to send to
    pc,            \* where the goroutine of each call is
    acct,          \* the account a call is for
    todo,          \* devices that a call has still to write to
    reached,       \* connections that took the frame (delivered / sent count them)
    outcome,       \* what the call returns: "none" until it is decided
    answer         \* the connection whose result is returned

connVars == <<conn, accounts, bindings, gone, holding>>
callVars == <<pc, acct, todo, reached, outcome, answer, pending, queryPending>>
vars == <<conn, accounts, bindings, wfail, gone, wire, pending, queryPending,
          chan, holding, pc, acct, todo, reached, outcome, answer>>

Call == Req \cup Qry

ConnStates == {"new", "proven", "bound", "serving", "left", "unbound", "closed"}
CallStates == {"idle", "snapped", "sending", "waiting", "cleanup", "deleted",
               "withdrawing", "done"}

-----------------------------------------------------------------------------
(* Frames of the agent WebSocket that concern the hub.                     *)

WelcomeFrame == <<"welcome", None>>
RequestFrame(r) == <<"request", r>>
WithdrawFrame(r) == <<"withdraw", r>>
QueryFrame(q) == <<"query", q>>

Frame == {WelcomeFrame} \cup ({"request", "withdraw"} \X Req) \cup ({"query"} \X Qry)

CallFrame(k) == IF k \in Req THEN RequestFrame(k) ELSE QueryFrame(k)

\* f has been written to connection c.
OnWire(f, c) == f \in Range(wire[c])

\* The calls a device has been told about.  Ids are 12 random bytes, so an
\* agent can name a call only if it has been sent it.
HeardOf(d) ==
    {k \in Call : \E c \in Conn : DeviceOf[c] = d /\ OnWire(CallFrame(k), c)}

-----------------------------------------------------------------------------
(* Operations on the lists of bindings.                                    *)

\* The loop of removeConn: it appends every element but c.
removeConn(list, c) ==
    LET out[n \in 0..Len(list)] ==
            IF n = 0 THEN <<>>
            ELSE IF list[n] = c THEN out[n-1]
            ELSE Append(out[n-1], list[n])
    IN  out[Len(list)]

devicesForAccount(a) == Reverse(bindings[a])

\* agentConn.writeJSON under writeMu.  The write succeeds or fails; once it
\* has failed, or the relay has closed the socket, every later one fails.
WriteJSON(c, f, ok) ==
    IF ok
      THEN /\ ~wfail[c] /\ conn[c] # "closed"
           /\ wire' = [wire EXCEPT ![c] = Append(@, f)]
           /\ UNCHANGED wfail
      ELSE /\ wfail' = [wfail EXCEPT ![c] = TRUE]
           /\ UNCHANGED wire

-----------------------------------------------------------------------------
(* handleAgent: one goroutine per connection.                              *)

\* enroll returns an agentConn with a non-empty list of proven accounts.  The
\* list follows the agent's Hello, which may announce an account twice.
Enroll(c, list) ==
    /\ conn[c] = "new"
    /\ conn' = [conn EXCEPT ![c] = "proven"]
    /\ accounts' = [accounts EXCEPT ![c] = list]
    /\ UNCHANGED <<bindings, gone, holding, wfail, wire, chan, callVars>>

\* enroll fails: the error is written and the socket closed.
EnrollFails(c) ==
    /\ conn[c] = "new"
    /\ conn' = [conn EXCEPT ![c] = "closed"]
    /\ UNCHANGED <<accounts, bindings, gone, holding, wfail, wire, chan, callVars>>

\* Mutant of Bind: announced accounts are bound, proved or not.
BindUnproved(c) ==
    /\ conn[c] = "proven"
    /\ conn' = [conn EXCEPT ![c] = "bound"]
    /\ bindings' = [a \in Account |-> Append(removeConn(bindings[a], c), c)]
    /\ UNCHANGED <<accounts, gone, holding, wfail, wire, chan, callVars>>

\* Mutant of Bind: append without removeConn, once per mention of the account.
BindWithoutRemove(c) ==
    /\ conn[c] = "proven"
    /\ conn' = [conn EXCEPT ![c] = "bound"]
    /\ bindings' = [a \in Account |->
                      bindings[a] \o [i \in 1..Len(SelectSeq(accounts[c],
                                                              LAMBDA x : x = a)) |-> c]]
    /\ UNCHANGED <<accounts, gone, holding, wfail, wire, chan, callVars>>

\* Under h.mu.  The loop over a.accounts sets the list of each account it
\* names; doing so twice for a duplicate gives the same list.
Bind(c) ==
    /\ conn[c] = "proven"
    /\ conn' = [conn EXCEPT ![c] = "bound"]
    /\ bindings' = [a \in Account |->
                      IF a \in Range(accounts[c])
                        THEN Append(removeConn(bindings[a], c), c)
                        ELSE bindings[a]]
    /\ UNCHANGED <<accounts, gone, holding, wfail, wire, chan, callVars>>

\* The connection is already bound when its Welcome is written; the error of
\* the write is ignored and the read loop starts either way.
Welcome(c) ==
    /\ conn[c] = "bound"
    /\ conn' = [conn EXCEPT ![c] = "serving"]
    /\ \E ok \in BOOLEAN : WriteJSON(c, WelcomeFrame, ok)
    /\ UNCHANGED <<accounts, bindings, gone, holding, chan, callVars>>

\* A ping that cannot be written ends the pinger, not the connection: the
\* read loop goes on until its own deadline.
PingFails(c) ==
    /\ conn[c] = "serving" /\ ~wfail[c]
    /\ wfail' = [wfail EXCEPT ![c] = TRUE]
    /\ UNCHANGED <<connVars, wire, chan, callVars>>

\* The read loop takes a result or a query result and looks the waiter up
\* under the lock.  An id nobody waits for is dropped.
ReadAnswer(c, k) ==
    /\ conn[c] = "serving" /\ holding[c] = None /\ ~gone[c]
    /\ k \in HeardOf(DeviceOf[c])
    /\ holding' = [holding EXCEPT
                     ![c] = IF k \in pending \cup queryPending THEN k ELSE None]
    /\ UNCHANGED <<conn, accounts, bindings, gone, wfail, wire, chan, callVars>>

\* Mutant of Deliver: the waiter has room for every answer.
DeliverUnbounded(c) ==
    /\ holding[c] # None
    /\ chan' = [chan EXCEPT ![holding[c]] = Append(@, c)]
    /\ holding' = [holding EXCEPT ![c] = None]
    /\ UNCHANGED <<conn, accounts, bindings, gone, wfail, wire, callVars>>

\* With the lock released, the answer goes into the waiter's slot, or is
\* dropped when the slot is taken.
Deliver(c) ==
    /\ holding[c] # None
    /\ chan' = [chan EXCEPT ![holding[c]] = IF @ = <<>> THEN <<c>> ELSE @]
    /\ holding' = [holding EXCEPT ![c] = None]
    /\ UNCHANGED <<conn, accounts, bindings, gone, wfail, wire, callVars>>

\* Mutant of Leave: no read deadline, so a silent connection is never left.
LeaveWithoutDeadline(c) ==
    /\ conn[c] = "serving" /\ holding[c] = None /\ ~gone[c]
    /\ conn' = [conn EXCEPT ![c] = "left"]
    /\ UNCHANGED <<accounts, bindings, gone, holding, wfail, wire, chan, callVars>>

\* The read loop ends: a network error, an unreadable frame, or 60 seconds
\* without a frame or a pong.
Leave(c) ==
    /\ conn[c] = "serving" /\ holding[c] = None
    /\ conn' = [conn EXCEPT ![c] = "left"]
    /\ UNCHANGED <<accounts, bindings, gone, holding, wfail, wire, chan, callVars>>

\* Mutant of Unbind: the account's entry is deleted with its other devices.
UnbindDeletesAccount(c) ==
    /\ conn[c] = "left"
    /\ conn' = [conn EXCEPT ![c] = "unbound"]
    /\ bindings' = [a \in Account |->
                      IF a \in Range(accounts[c]) THEN <<>> ELSE bindings[a]]
    /\ UNCHANGED <<accounts, gone, holding, wfail, wire, chan, callVars>>

\* Under h.mu, from the deferred function of handleAgent.
Unbind(c) ==
    /\ conn[c] = "left"
    /\ conn' = [conn EXCEPT ![c] = "unbound"]
    /\ bindings' = [a \in Account |->
                      IF a \in Range(accounts[c])
                        THEN removeConn(bindings[a], c)
                        ELSE bindings[a]]
    /\ UNCHANGED <<accounts, gone, holding, wfail, wire, chan, callVars>>

CloseConn(c) ==
    /\ conn[c] = "unbound"
    /\ conn' = [conn EXCEPT ![c] = "closed"]
    /\ UNCHANGED <<accounts, bindings, gone, holding, wfail, wire, chan, callVars>>

\* External: the agent quits, sleeps or loses its network.
AgentGone(c) ==
    /\ conn[c] \in {"proven", "bound", "serving"} /\ ~gone[c]
    /\ gone' = [gone EXCEPT ![c] = TRUE]
    /\ UNCHANGED <<conn, accounts, bindings, holding, wfail, wire, chan, callVars>>

-----------------------------------------------------------------------------
(* What sendRequest and sendQuery have in common.                          *)

\* The device snapshot, under the read lock.  Without a device the call
\* returns before it has registered anything.
Snapshot(k, a) ==
    /\ pc[k] = "idle"
    /\ acct' = [acct EXCEPT ![k] = a]
    /\ IF devicesForAccount(a) = <<>>
         THEN /\ pc' = [pc EXCEPT ![k] = "done"]
              /\ outcome' = [outcome EXCEPT ![k] = "offline"]
              /\ UNCHANGED todo
         ELSE /\ pc' = [pc EXCEPT ![k] = "snapped"]
              /\ todo' = [todo EXCEPT ![k] = devicesForAccount(a)]
              /\ UNCHANGED outcome
    /\ UNCHANGED <<connVars, wfail, wire, chan, pending, queryPending, reached, answer>>

\* The select: the waiter has an answer ...
TakeAnswer(k) ==
    /\ pc[k] = "waiting" /\ chan[k] # <<>>
    /\ pc' = [pc EXCEPT ![k] = "cleanup"]
    /\ outcome' = [outcome EXCEPT ![k] = "answered"]
    /\ answer' = [answer EXCEPT ![k] = Head(chan[k])]
    /\ chan' = [chan EXCEPT ![k] = Tail(@)]
    /\ UNCHANGED <<connVars, wfail, wire, pending, queryPending, acct, todo, reached>>

\* Mutant of ContextDone: the select does not watch the context.
ContextDoneIgnored(k) ==
    /\ pc[k] = "waiting" /\ chan[k] # <<>>
    /\ pc' = [pc EXCEPT ![k] = "cleanup"]
    /\ outcome' = [outcome EXCEPT ![k] = "timeout"]
    /\ UNCHANGED <<connVars, wfail, wire, chan, pending, queryPending, acct, todo,
                   reached, answer>>

\* ... or the context is done: the timeout has passed or the caller hung up.
\* With both ready Go picks either.
ContextDone(k) ==
    /\ pc[k] = "waiting"
    /\ pc' = [pc EXCEPT ![k] = "cleanup"]
    /\ outcome' = [outcome EXCEPT ![k] = "timeout"]
    /\ UNCHANGED <<connVars, wfail, wire, chan, pending, queryPending, acct, todo,
                   reached, answer>>

-----------------------------------------------------------------------------
(* sendRequest.                                                            *)

RegisterRequest(r) ==
    /\ pc[r] = "snapped"
    /\ pc' = [pc EXCEPT ![r] = "sending"]
    /\ pending' = pending \cup {r}
    /\ UNCHANGED <<connVars, wfail, wire, chan, queryPending, acct, todo, reached,
                   outcome, answer>>

\* One iteration of the fan-out loop.
WriteRequest(r) ==
    /\ pc[r] = "sending" /\ todo[r] # <<>>
    /\ \E ok \in BOOLEAN :
         /\ WriteJSON(Head(todo[r]), RequestFrame(r), ok)
         /\ reached' = [reached EXCEPT ![r] = IF ok THEN @ \cup {Head(todo[r])} ELSE @]
    /\ todo' = [todo EXCEPT ![r] = Tail(@)]
    /\ UNCHANGED <<connVars, chan, pending, queryPending, pc, acct, outcome, answer>>

\* The loop has ended: no device took the request, or the call waits.
EndFanout(r) ==
    /\ pc[r] = "sending" /\ todo[r] = <<>>
    /\ IF reached[r] = {}
         THEN /\ pc' = [pc EXCEPT ![r] = "cleanup"]
              /\ outcome' = [outcome EXCEPT ![r] = "offline"]
         ELSE /\ pc' = [pc EXCEPT ![r] = "waiting"]
              /\ UNCHANGED outcome
    /\ UNCHANGED <<connVars, wfail, wire, chan, pending, queryPending, acct, todo,
                   reached, answer>>

\* Mutant of DeleteRequest: only an answered request is forgotten.
DeleteRequestIfAnswered(r) ==
    /\ pc[r] = "cleanup"
    /\ pc' = [pc EXCEPT ![r] = "deleted"]
    /\ pending' = IF outcome[r] = "answered" THEN pending \ {r} ELSE pending
    /\ UNCHANGED <<connVars, wfail, wire, chan, queryPending, acct, todo, reached,
                   outcome, answer>>

\* The deferred function: delete the waiter ...
DeleteRequest(r) ==
    /\ pc[r] = "cleanup"
    /\ pc' = [pc EXCEPT ![r] = "deleted"]
    /\ pending' = pending \ {r}
    /\ UNCHANGED <<connVars, wfail, wire, chan, queryPending, acct, todo, reached,
                   outcome, answer>>

\* Mutant of WithdrawSnapshot: nothing is withdrawn when the call timed out.
WithdrawSnapshotIfAnswered(r) ==
    /\ pc[r] = "deleted"
    /\ pc' = [pc EXCEPT ![r] = "withdrawing"]
    /\ todo' = [todo EXCEPT ![r] = IF outcome[r] = "answered"
                                     THEN devicesForAccount(acct[r]) ELSE <<>>]
    /\ UNCHANGED <<connVars, wfail, wire, chan, pending, queryPending, acct, reached,
                   outcome, answer>>

\* ... then withdraw, which takes a snapshot of its own ...
WithdrawSnapshot(r) ==
    /\ pc[r] = "deleted"
    /\ pc' = [pc EXCEPT ![r] = "withdrawing"]
    /\ todo' = [todo EXCEPT ![r] = devicesForAccount(acct[r])]
    /\ UNCHANGED <<connVars, wfail, wire, chan, pending, queryPending, acct, reached,
                   outcome, answer>>

\* ... and writes to each device, whether or not the write succeeds.
WriteWithdraw(r) ==
    /\ pc[r] = "withdrawing" /\ todo[r] # <<>>
    /\ \E ok \in BOOLEAN : WriteJSON(Head(todo[r]), WithdrawFrame(r), ok)
    /\ todo' = [todo EXCEPT ![r] = Tail(@)]
    /\ UNCHANGED <<connVars, chan, pending, queryPending, pc, acct, reached, outcome,
                   answer>>

EndWithdraw(r) ==
    /\ pc[r] = "withdrawing" /\ todo[r] = <<>>
    /\ pc' = [pc EXCEPT ![r] = "done"]
    /\ UNCHANGED <<connVars, wfail, wire, chan, pending, queryPending, acct, todo,
                   reached, outcome, answer>>

-----------------------------------------------------------------------------
(* sendQuery.                                                              *)

RegisterQuery(q) ==
    /\ pc[q] = "snapped"
    /\ pc' = [pc EXCEPT ![q] = "sending"]
    /\ queryPending' = queryPending \cup {q}
    /\ UNCHANGED <<connVars, wfail, wire, chan, pending, acct, todo, reached, outcome,
                   answer>>

\* Mutant of WriteQuery: the loop goes on after a device has taken the query.
WriteQueryWithoutBreak(q) ==
    /\ pc[q] = "sending" /\ todo[q] # <<>>
    /\ \E ok \in BOOLEAN :
         /\ WriteJSON(Head(todo[q]), QueryFrame(q), ok)
         /\ reached' = [reached EXCEPT ![q] = IF ok THEN @ \cup {Head(todo[q])} ELSE @]
         /\ pc' = [pc EXCEPT ![q] = IF Len(todo[q]) = 1 THEN "waiting" ELSE @]
    /\ todo' = [todo EXCEPT ![q] = Tail(@)]
    /\ UNCHANGED <<connVars, chan, pending, queryPending, acct, outcome, answer>>

\* The loop breaks at the first device that takes the query.
WriteQuery(q) ==
    /\ pc[q] = "sending" /\ todo[q] # <<>>
    /\ \/ /\ WriteJSON(Head(todo[q]), QueryFrame(q), TRUE)
          /\ reached' = [reached EXCEPT ![q] = @ \cup {Head(todo[q])}]
          /\ pc' = [pc EXCEPT ![q] = "waiting"]
          /\ UNCHANGED todo
       \/ /\ WriteJSON(Head(todo[q]), QueryFrame(q), FALSE)
          /\ todo' = [todo EXCEPT ![q] = Tail(@)]
          /\ UNCHANGED <<pc, reached>>
    /\ UNCHANGED <<connVars, chan, pending, queryPending, acct, outcome, answer>>

\* Every device refused the query.
QueryUnsent(q) ==
    /\ pc[q] = "sending" /\ todo[q] = <<>>
    /\ pc' = [pc EXCEPT ![q] = "cleanup"]
    /\ outcome' = [outcome EXCEPT ![q] = "offline"]
    /\ UNCHANGED <<connVars, wfail, wire, chan, pending, queryPending, acct, todo,
                   reached, answer>>

DeleteQuery(q) ==
    /\ pc[q] = "cleanup"
    /\ pc' = [pc EXCEPT ![q] = "done"]
    /\ queryPending' = queryPending \ {q}
    /\ UNCHANGED <<connVars, wfail, wire, chan, pending, acct, todo, reached, outcome,
                   answer>>

-----------------------------------------------------------------------------
Init ==
    /\ conn = [c \in Conn |-> "new"]
    /\ accounts = [c \in Conn |-> <<>>]
    /\ bindings = [a \in Account |-> <<>>]
    /\ wfail = [c \in Conn |-> FALSE]
    /\ gone = [c \in Conn |-> FALSE]
    /\ wire = [c \in Conn |-> <<>>]
    /\ pending = {}
    /\ queryPending = {}
    /\ chan = [k \in Call |-> <<>>]
    /\ holding = [c \in Conn |-> None]
    /\ pc = [k \in Call |-> "idle"]
    /\ acct = [k \in Call |-> None]
    /\ todo = [k \in Call |-> <<>>]
    /\ reached = [k \in Call |-> {}]
    /\ outcome = [k \in Call |-> "none"]
    /\ answer = [k \in Call |-> None]

ConnStep(c) ==
    \/ Bind(c) \/ Welcome(c) \/ Deliver(c) \/ Unbind(c) \/ CloseConn(c)

RequestStep(r) ==
    \/ RegisterRequest(r) \/ WriteRequest(r) \/ EndFanout(r)
    \/ TakeAnswer(r) \/ ContextDone(r)
    \/ DeleteRequest(r) \/ WithdrawSnapshot(r) \/ WriteWithdraw(r) \/ EndWithdraw(r)

QueryStep(q) ==
    \/ RegisterQuery(q) \/ WriteQuery(q) \/ QueryUnsent(q)
    \/ TakeAnswer(q) \/ ContextDone(q)
    \/ DeleteQuery(q)

\* Every socket is closed and every call has returned: the finite supply of
\* connections and ids is used up.
Terminated ==
    /\ \A c \in Conn : conn[c] = "closed"
    /\ \A k \in Call : pc[k] = "done"
    /\ UNCHANGED vars

Next ==
    \/ \E c \in Conn :
         \/ \E list \in ProvenLists : Enroll(c, list)
         \/ EnrollFails(c)
         \/ ConnStep(c)
         \/ PingFails(c)
         \/ \E k \in Call : ReadAnswer(c, k)
         \/ Leave(c)
         \/ AgentGone(c)
    \/ \E k \in Call, a \in Account : Snapshot(k, a)
    \/ \E r \in Req : RequestStep(r)
    \/ \E q \in Qry : QueryStep(q)
    \/ Terminated

Spec == Init /\ [][Next]_vars

\* A goroutine that can run does: the context of a call has a deadline, every
\* WebSocket write has one, and the read loop of an agent that is gone meets
\* its 60 second read deadline.  Nothing is assumed of the agent.
Fairness ==
    /\ \A c \in Conn : WF_vars(ConnStep(c)) /\ WF_vars(gone[c] /\ Leave(c))
    /\ \A r \in Req : WF_vars(RequestStep(r))
    /\ \A q \in Qry : WF_vars(QueryStep(q))

FairSpec == Spec /\ Fairness

-----------------------------------------------------------------------------
(* Properties.                                                             *)

\* Every variable has the type of the Go value it stands for.
TypeOK ==
    /\ conn \in [Conn -> ConnStates]
    /\ accounts \in [Conn -> Seq(Account)]
    /\ bindings \in [Account -> Seq(Conn)]
    /\ wfail \in [Conn -> BOOLEAN]
    /\ gone \in [Conn -> BOOLEAN]
    /\ wire \in [Conn -> Seq(Frame)]
    /\ pending \subseteq Req
    /\ queryPending \subseteq Qry
    /\ chan \in [Call -> {<<>>} \cup {<<c>> : c \in Conn}]
    /\ holding \in [Conn -> Call \cup {None}]
    /\ pc \in [Call -> CallStates]
    /\ acct \in [Call -> Account \cup {None}]
    /\ todo \in [Call -> Seq(Conn)]
    /\ reached \in [Call -> SUBSET Conn]
    /\ outcome \in [Call -> {"none", "offline", "timeout", "answered"}]
    /\ answer \in [Call -> Conn \cup {None}]

IsBound(c) == conn[c] \in {"bound", "serving", "left"}

\* The list of an account holds exactly the connections that proved it and
\* have been bound and not yet unbound, each once: bind displaces nobody,
\* unbind removes the connection everywhere and nobody else, and an account
\* announced twice does not bind its connection twice (hub.go bind, unbind).
BindingsExact ==
    /\ \A a \in Account : IsInjective(bindings[a])
    /\ \A a \in Account, c \in Conn :
         c \in Range(bindings[a]) <=> IsBound(c) /\ a \in Range(accounts[c])

\* The waiter maps hold exactly the calls that are between registering and
\* their deferred delete, on every path out of sendRequest and sendQuery: no
\* entry outlives its call and none disappears under it.
WaitersExact ==
    /\ pending = {r \in Req : pc[r] \in {"sending", "waiting", "cleanup"}}
    /\ queryPending = {q \in Qry : pc[q] \in {"sending", "waiting", "cleanup"}}

\* A caller is answered only by a device that proved control of the account
\* the call is for, however results, reconnections and other calls interleave.
AnsweredByController ==
    \A k \in Call : outcome[k] = "answered" =>
        /\ answer[k] \in Conn
        /\ \E c \in Conn : /\ DeviceOf[c] = DeviceOf[answer[k]]
                           /\ acct[k] \in Range(accounts[c])

\* When sendRequest has returned, every connection that was given the request
\* and is still bound with a working writer has been sent the withdraw, after
\* the request, although the withdraw goes by a second snapshot of the devices.
WithdrawnWhereSent ==
    \A r \in Req, c \in Conn :
        (pc[r] = "done" /\ c \in reached[r] /\ IsBound(c) /\ ~wfail[c]) =>
            \E i, j \in DOMAIN wire[c] :
                /\ i < j
                /\ wire[c][i] = RequestFrame(r)
                /\ wire[c][j] = WithdrawFrame(r)

\* A query is given to at most one connection, and a request at most once to
\* the same connection, whatever writes fail (no fan-out of queries; an
\* account announced twice does not double a request).
NoDuplicateSend ==
    /\ \A k \in Call, c \in Conn :
         \A i, j \in DOMAIN wire[c] :
             wire[c][i] = CallFrame(k) /\ wire[c][j] = CallFrame(k) => i = j
    /\ \A q \in Qry, c, d \in Conn :
         OnWire(QueryFrame(q), c) /\ OnWire(QueryFrame(q), d) => c = d

\* What the agent of relay_test.go connectMockAgent relies on: the first
\* frame after the challenge is the Welcome.
WelcomeFirst ==
    \A c \in Conn : wire[c] # <<>> => Head(wire[c]) = WelcomeFrame

\* A connection whose agent is gone does not stay in the bindings for ever.
GoneIsUnbound ==
    \A c \in Conn : gone[c] ~> ~IsBound(c)
=============================================================================
