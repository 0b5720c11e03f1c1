----------------------------- MODULE MCPayment -----------------------------
(* Instances of Payment: two devices that are alike, tries of a payment.   *)
EXTENDS Payment, TLC

\* Exchanging the devices, or the requests, changes nothing.
Alike == Permutations(Device) \cup Permutations(Req)
=============================================================================
