----------------------------- MODULE HubRouter -----------------------------
(***************************************************************************)
(* Hub implements Router: the refinement mapping.  A call is open from its *)
(* snapshot to the end of its deferred function, and what it decided in    *)
(* between is returned only then.                                          *)
(***************************************************************************)
EXTENDS Hub

R == INSTANCE Router
     WITH proved <- [c \in Conn |-> Range(accounts[c])],
          bound <- {c \in Conn : IsBound(c)},
          ret <- [k \in Call |-> IF pc[k] = "idle" THEN "idle"
                                 ELSE IF pc[k] = "done" THEN outcome[k] ELSE "open"],
          offer <- [k \in Call |-> IF pc[k] \in {"snapped", "sending"}
                                   THEN Range(todo[k]) ELSE {}],
          given <- reached,
          by <- [k \in Call |-> IF pc[k] = "done" THEN answer[k] ELSE None]

\* Routing calls keeps the hub's promises: what the handlers see of locks,
\* waiters and frames is a call that is offered once to each connection serving
\* its account when it began, to one only if that one takes a query, and that
\* returns once, answered by a device that was given it, or "offline" only if
\* every connection was tried and none took it.
ImplementsRouter == R!Spec

\* ... and every call does return, even with every device gone or silent, since
\* Router goes on with each call until it has.
ImplementsFairRouter == R!FairSpec
=============================================================================
