------------------------------ MODULE MCServer ------------------------------
(* Instances of Server: one or two connections of an account owner's        *)
(* install, and a caller with calls of both kinds.                          *)
EXTENDS Server, TLC, FiniteSets

CONSTANTS c1, c2, d1, h1, h2, o1

SameDevice == c1 :> d1 @@ c2 :> d1

Http(p, h, o, m, b) == [path |-> p, secret |-> h, origin |-> o, method |-> m, body |-> b]

\* Every way through the handlers.
AllCalls ==
    {Http(p, h1, None, "right", TRUE) : p \in Endpoints}
    \cup {Http(p, h1, o1, "right", TRUE) : p \in {"requests", "view"}}
    \cup {Http("requests", h1, None, "right", FALSE), Http("requests", None, None, "right", TRUE),
          Http("view", h2, None, "wrong", TRUE), Http("requests", None, o1, "OPTIONS", TRUE)}

\* Calls share no variable but the store and the hub, which other steps change
\* as much as a second call would: one call per behaviour is looked at.
OneCall == Cardinality({x \in Call : at[x] # "idle"}) <= 1

OriginCalls == {Http("status", h1, o1, "right", TRUE)}
=============================================================================
