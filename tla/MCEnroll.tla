------------------------------ MODULE MCEnroll ------------------------------
(* Alice and Bob hold one key each; Alice's account has two spellings, and  *)
(* one address parses to nothing.  The group has order 8 * 127, and with    *)
(* the stand-in for the hash no signature answers two challenges.           *)
EXTENDS Enroll, TLC

CONSTANTS alice, bob, nanoA, xrbA, nanoB, broken, c1, c2

MCKeyOf == nanoA :> Public(1) @@ xrbA :> Public(1) @@ nanoB :> Public(2) @@ broken :> None
MCHolds == alice :> {1} @@ bob :> {2}
MCAgentOf == c1 :> alice @@ c2 :> bob
MCHellos == {<<>>, <<nanoA, xrbA>>, <<nanoB, nanoA, nanoB>>, <<broken, nanoB>>}

Scalars == 0 .. 2 * L + 2
MCKeyHash(pk) == <<37 * pk + 5, 3 * pk>>
MCHash(parts) == FoldLeft(LAMBDA v, p : (2 * v * v + p + 1) % L, 3, parts)
=============================================================================
