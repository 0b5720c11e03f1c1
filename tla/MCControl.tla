----------------------------- MODULE MCControl -----------------------------
(* Small instances of Control: two devices that know the same two accounts *)
(* in opposite orders, where the second one knows an account more; or two  *)
(* devices of one user and one of somebody else.                           *)
EXTENDS Control, TLC

CONSTANTS c1, c2, c3, a1, a2, a3, k1, h1, h2, o1, b1, b2

OppositeOrders == c1 :> <<a1, a2>> @@ c2 :> <<a2, a1, a3>>
WithStranger == c1 :> <<a1, a2>> @@ c2 :> <<a2, a1>> @@ c3 :> <<a3>>

Msg(op, k, a, h, os) ==
    [op |-> op, key |-> k, account |-> a, hash |-> h, origins |-> os,
     version |-> 1, blob |-> b1]

Put(a, v, b) == [Msg("put_policy", None, a, None, {}) EXCEPT !.version = v, !.blob = b]

\* Registration, rotation, moves in both directions, what another user may ask
\* of the same key id; each of them is refused to somebody.
KeyMessages ==
    { Msg("register_key", k1, a1, h1, {}), Msg("register_key", k1, a2, h2, {o1}),
      Msg("register_key", k1, a3, h1, {}), Msg("rebind_key", k1, a1, None, {}),
      Msg("rebind_key", k1, a2, None, {}), Msg("rebind_key", k1, a3, None, {}),
      Msg("revoke_key", k1, a1, None, {}), Msg("update_origins", k1, a1, None, {o1}) }

\* Two policies of one version and a newer one, a loop of two statements and
\* an operation there is none of.
PolicyMessages ==
    { Msg("unknown", None, a1, None, {}), Put(a1, 1, b1), Put(a1, 1, b2), Put(a1, 2, b1),
      Msg("get_policy", None, a1, None, {}), Msg("rebind_key", k1, a1, None, {}) }

AllMessages == KeyMessages \cup PolicyMessages

RaceMessages ==
    { Msg("register_key", k1, a1, h1, {}),
      Msg("rebind_key", k1, a1, None, {}), Msg("rebind_key", k1, a2, None, {}) }
=============================================================================
