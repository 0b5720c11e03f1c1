------------------------------ MODULE MCStore ------------------------------
(***************************************************************************)
(* Instances of MemStore for TLC: two keys, and one secret more than keys, *)
(* so that a key can be rotated while the other one has a secret.          *)
(***************************************************************************)
EXTENDS MemStore
=============================================================================
