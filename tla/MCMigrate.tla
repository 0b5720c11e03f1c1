----------------------------- MODULE MCMigrate -----------------------------
(* A small instance of Migrate: two keys, two secrets, two accounts.       *)
EXTENDS Migrate, TLC

\* Keys are alike, and so are secrets and accounts.
Alike == Permutations(Key) \cup Permutations(Hash) \cup Permutations(Account)
=============================================================================
