----------------------------- MODULE MCSensors -----------------------------
(* Instances of Sensors: two processes over a handful of runs. *)
EXTENDS Sensors

CONSTANTS p1, p2

NoSkew == [p \in Procs |-> 0]
Ahead == [p \in Procs |-> IF p = p1 THEN 1 ELSE 0]
=============================================================================
