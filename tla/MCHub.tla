------------------------------- MODULE MCHub -------------------------------
(***************************************************************************)
(* Instances of Hub for TLC: one or two connections.                       *)
(***************************************************************************)
EXTENDS HubRouter

CONSTANTS a1, a2, c1, c2, d1, d2

\* Two installs, one connection each.
TwoDevices == c1 :> d1 @@ c2 :> d2

\* The two installs are alike: exchanging them, with their connections, maps
\* the instance to itself.
Exchange ==
    {p \in Permutations({c1, c2, d1, d2}) :
        \A c \in {c1, c2} : p[c] \in {c1, c2} /\ TwoDevices[p[c]] = p[TwoDevices[c]]}

\* One connection.
OneConn == c1 :> d1

\* The same account announced twice; two accounts.
Lists == {<<a1, a1>>, <<a2>>}

\* One account only.
ShortLists == {<<a1>>}

\* A request or a query, not both: calls that overlap are the matter of the
\* instance with one connection.
OneCall == \A j, k \in Call : pc[j] # "idle" /\ pc[k] # "idle" => j = k
=============================================================================
