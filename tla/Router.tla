------------------------------- MODULE Router -------------------------------
(***************************************************************************)
(* What the hub promises the HTTP handlers that call sendRequest and       *)
(* sendQuery (cmd/relay/hub.go), without its goroutines, locks, waiters    *)
(* and frames.  Hub implements this specification (module HubRouter); the  *)
(* handlers of module Server are modelled on top of it.                    *)
(***************************************************************************)
CONSTANTS Account, Conn, Device, DeviceOf, Req, Qry, None

VARIABLES
    proved,  \* the accounts each connection has proved
    bound,   \* the connections calls are routed to
    ret,     \* "idle", "open", or what the call returned
    acct,    \* the account a call is for
    offer,   \* the connections a call has still to be offered to
    given,   \* the connections that were given the call
    by       \* the connection whose answer was returned

routerVars == <<proved, bound, ret, acct, offer, given, by>>

Serving(a) == {c \in bound : a \in proved[c]}

\* External in part: an agent proves its accounts.
Prove(c, S) ==
    /\ proved[c] = {} /\ c \notin bound
    /\ proved' = [proved EXCEPT ![c] = S]
    /\ UNCHANGED <<bound, ret, acct, offer, given, by>>

BindConn(c) ==
    /\ proved[c] # {} /\ c \notin bound
    /\ bound' = bound \cup {c}
    /\ UNCHANGED <<proved, ret, acct, offer, given, by>>

UnbindConn(c) ==
    /\ c \in bound
    /\ bound' = bound \ {c}
    /\ UNCHANGED <<proved, ret, acct, offer, given, by>>

\* A call begins with the connections that serve its account now, and ends at
\* once when there is none.
Open(k, a) ==
    /\ ret[k] = "idle"
    /\ acct' = [acct EXCEPT ![k] = a]
    /\ offer' = [offer EXCEPT ![k] = Serving(a)]
    /\ ret' = [ret EXCEPT ![k] = IF Serving(a) = {} THEN "offline" ELSE "open"]
    /\ UNCHANGED <<proved, bound, given, by>>

\* A connection takes the call.  A request is offered to the others as well, a
\* query is not.
Give(k, c) ==
    /\ ret[k] = "open" /\ c \in offer[k]
    /\ offer' = [offer EXCEPT ![k] = IF k \in Qry THEN {} ELSE @ \ {c}]
    /\ given' = [given EXCEPT ![k] = @ \cup {c}]
    /\ UNCHANGED <<proved, bound, ret, acct, by>>

\* A connection cannot be written to.
Skip(k, c) ==
    /\ ret[k] = "open" /\ c \in offer[k]
    /\ offer' = [offer EXCEPT ![k] = @ \ {c}]
    /\ UNCHANGED <<proved, bound, ret, acct, given, by>>

\* The call returns: with the answer of a device that was given it, with a
\* timeout after somebody was given it, or "offline" if nobody took it.
ReturnAnswer(k, c) ==
    /\ ret[k] = "open" /\ offer[k] = {}
    /\ \E d \in given[k] : DeviceOf[d] = DeviceOf[c]
    /\ ret' = [ret EXCEPT ![k] = "answered"]
    /\ by' = [by EXCEPT ![k] = c]
    /\ UNCHANGED <<proved, bound, acct, offer, given>>

ReturnError(k) ==
    /\ ret[k] = "open" /\ offer[k] = {}
    /\ ret' = [ret EXCEPT ![k] = IF given[k] = {} THEN "offline" ELSE "timeout"]
    /\ UNCHANGED <<proved, bound, acct, offer, given, by>>

Init ==
    /\ proved = [c \in Conn |-> {}]
    /\ bound = {}
    /\ ret = [k \in Req \cup Qry |-> "idle"]
    /\ acct = [k \in Req \cup Qry |-> None]
    /\ offer = [k \in Req \cup Qry |-> {}]
    /\ given = [k \in Req \cup Qry |-> {}]
    /\ by = [k \in Req \cup Qry |-> None]

Return(k) == ReturnError(k) \/ \E c \in Conn : ReturnAnswer(k, c)

CallStep(k) == Return(k) \/ \E c \in Conn : Give(k, c) \/ Skip(k, c)

Next ==
    \/ \E c \in Conn :
         (\E S \in SUBSET Account : Prove(c, S)) \/ BindConn(c) \/ UnbindConn(c)
    \/ \E k \in Req \cup Qry : CallStep(k) \/ \E a \in Account : Open(k, a)

Spec == Init /\ [][Next]_routerVars

\* Calls go on to their return, because writes and contexts have deadlines.
FairSpec == Spec /\ \A k \in Req \cup Qry : WF_routerVars(CallStep(k))
=============================================================================
