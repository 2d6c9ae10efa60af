---------------------------- MODULE MCSchedules ----------------------------
(* Instances of Schedules: two processes, a job with one cron or an asset  *)
(* with two.                                                               *)
EXTENDS Schedules, TLC

CONSTANTS p1, p2, hourly, daily, twin, job, asset

Symmetric == Permutations(Procs)

NoSkew == [p \in Procs |-> 0]
Ahead == [p \in Procs |-> IF p = p1 THEN 1 ELSE 0]

One == {<<hourly>>}
OneOrTwo == {<<hourly>>, <<daily, twin>>}

JobOrAsset == [s \in Schedules |-> IF s = hourly THEN job ELSE asset]
Instants == [s \in Schedules |-> IF s = hourly THEN 1..Horizon ELSE {Horizon}]
FirstTermAtLast == {<<1, Horizon>>}

CatchUps == [s \in Schedules |->
               CASE s = hourly -> "all" [] s = daily -> "one" [] OTHER -> "skip"]
AtMostTwo == [s \in Schedules |-> 2]

Queued == [j \in Targets |-> IF j = job THEN "queue" ELSE "skip"]
=============================================================================
