----------------------------- MODULE MCDelivery -----------------------------
(* Instances of Delivery: two processes that send, one of which may not    *)
(* know every destination.                                                 *)
EXTENDS Delivery

CONSTANTS p1, p2, r1, r2, d1, d2

OneDest == {<<r1, d1>>, <<r2, d1>>}
Single == {<<r1, d1>>}
Failures == [d \in Dests |-> {"failed"}]
All == [p \in Procs |-> Dests]
SoonOrNever == {0, 1, Never}
OnlyFirst == [p \in Procs |-> IF p = p1 THEN Dests ELSE {}]
=============================================================================
