------------------------------ MODULE Sensors ------------------------------
(***************************************************************************)
(* One sensor (sensor.rs) of a deployment, evaluated by whichever process  *)
(* decides: a run-status sensor, fed by the runs that finish, or a user's, *)
(* fed by things the outside world shows it in an order of its own.  Its   *)
(* cursor is a row of the store, its requests are launched through the     *)
(* deciding fence under run keys, and an evaluation is a task that outlives*)
(* the turn, and the term, it began in.                                    *)
(***************************************************************************)
EXTENDS DeciderLease, FiniteSets, FiniteSetsExt

CONSTANTS
    Runs,       \* what finishes: 1..n, in the order of their ids
    Matching,   \* those the sensor is about
    Kinds,      \* kinds of sensor: "runs", "user"
    Page,       \* RUN_SENSOR_PAGE
    Keyed,      \* whether its requests carry a run key
    Ordered     \* whether runs land in the order they were stamped in

ASSUME SensorsAssumption ==
    /\ IsFiniteSet(Runs) /\ Runs = 1..Cardinality(Runs)
    /\ Matching \subseteq Runs
    /\ Kinds \subseteq {"runs", "user"}
    /\ Page \in Nat \ {0}
    /\ Keyed \in BOOLEAN /\ Ordered \in BOOLEAN

Unset == -1     \* no cursor yet

VARIABLES
    kind,       \* which the sensor is
    stamp,      \* runs.finished_at, from when its process took the time
    landed,     \* the runs whose terminal row is committed
    paused, cursor,     \* sensors
    keys,       \* sensor_run_keys
    launched,   \* how many runs were launched for each; 2 is "more than one"
    eval,       \* the evaluation of each process
    seeded      \* history: what a new cursor was set past

sensorVars == <<stamp, landed, paused, cursor, keys, launched, eval, seeded>>
vars == <<leaseVars, kind, sensorVars>>

(* (finished_at, id), the order a cursor moves in. *)
At(r) == stamp[r] * (Cardinality(Runs) + 1) + r
Places == 0..(Cardinality(Runs) * (Cardinality(Runs) + 2))

Idle == [step |-> "idle", read |-> Unset, upto |-> Unset, rest |-> {}]

TypeOK ==
    /\ LeaseTypeOK
    /\ kind \in Kinds
    /\ stamp \in [Runs -> 0..Cardinality(Runs)] /\ landed \subseteq Runs
    /\ paused \in BOOLEAN /\ cursor \in {Unset} \cup Places
    /\ keys \subseteq Runs /\ launched \in [Runs -> 0..2]
    /\ eval \in [Procs -> [step : {"idle", "read", "seed", "page", "call", "ask", "launch", "commit"},
                           read : {Unset} \cup Places, upto : {Unset} \cup Places,
                           rest : SUBSET Matching]]
    /\ seeded \subseteq Runs

Init ==
    /\ LeaseInit
    /\ kind \in Kinds
    /\ stamp = [r \in Runs |-> 0] /\ landed = {}
    /\ paused = FALSE /\ cursor = Unset
    /\ keys = {} /\ launched = [r \in Runs |-> 0]
    /\ eval = [p \in Procs |-> Idle]
    /\ seeded = {}

-----------------------------------------------------------------------------
(* The runs it watches. *)

(* A run takes the time it finished at... *)
Stamp(r) ==
    LET last == Max({stamp[s] : s \in Runs}) IN
    /\ stamp[r] = 0
    /\ \E at \in {last, last + 1} \ {0} : stamp' = [stamp EXCEPT ![r] = at]
    /\ UNCHANGED <<leaseVars, kind, landed, paused, cursor, keys, launched, eval, seeded>>

(* ...and run_finished commits it, when the store lets it (`landed`).      *)
Land(r) ==
    /\ stamp[r] # 0 /\ r \notin landed
    /\ Ordered => \A s \in Runs : s \in landed \/ stamp[s] = 0 \/ At(s) >= At(r)
    /\ Ordered => \A s \in landed : At(s) < At(r)
    /\ landed' = landed \cup {r}
    /\ UNCHANGED <<leaseVars, kind, stamp, paused, cursor, keys, launched, eval, seeded>>

-----------------------------------------------------------------------------
(* An evaluation. *)

Ends(p) == eval' = [eval EXCEPT ![p] = Idle]
Goes(p, step) == eval' = [eval EXCEPT ![p].step = step]

(* A statement of the sensor fails; "heard", and is executed all the same. *)
Fails(fault) == fault \in Faults

(* run_sensors: a sensor that is due, not paused and not being evaluated.  *)
Turn(p) ==
    /\ mode[p] = "up" /\ Leading(p) /\ eval[p].step = "idle" /\ ~paused
    /\ Goes(p, "read")
    /\ UNCHANGED <<leaseVars, kind, stamp, landed, paused, cursor, keys, launched, seeded>>

(* The cursor it starts from.  A user's sensor goes on without one it      *)
(* could not read; a run-status sensor without one is seeded.              *)
ReadCursor(p) ==
    /\ eval[p].step = "read"
    /\ \/ eval' = [eval EXCEPT ![p].read = cursor,
                               ![p].step = IF kind = "runs" /\ cursor = Unset THEN "seed" ELSE "page"]
       \/ Fails("read") /\ kind = "runs" /\ Ends(p)
       \/ Fails("read") /\ kind = "user" /\ Goes(p, "page")
    /\ UNCHANGED <<leaseVars, kind, stamp, landed, paused, cursor, keys, launched, seeded>>

(* seed_cursor reads where "now" is, which its commit then sets. *)
Seed(p) ==
    /\ eval[p].step = "seed"
    /\ \/ eval' = [eval EXCEPT ![p].step = "commit",
                               ![p].upto = IF landed = {} THEN 0 ELSE Max({At(r) : r \in landed})]
       \/ Fails("read") /\ Ends(p)
    /\ UNCHANGED <<leaseVars, kind, stamp, landed, paused, cursor, keys, launched, seeded>>

(* terminal_runs_after; or the closure of a user's sensor looks around.    *)
After(c) == {r \in landed : At(r) > c}
PageAfter(c) == {r \in After(c) : Cardinality({s \in After(c) : At(s) < At(r)}) < Page}

(* After a request, or before the first: the closure of a run-status       *)
(* sensor is called for each run, a user's returned them all.              *)
Then(rest) == IF rest = {} THEN "commit" ELSE IF kind = "runs" THEN "call" ELSE "ask"

Read(p) ==
    LET page == PageAfter(eval[p].read)
        rest == page \cap Matching
    IN
    /\ eval[p].step = "page"
    /\ \/ /\ page # {}
          /\ eval' = [eval EXCEPT ![p].upto = Max({At(r) : r \in page}),
                                  ![p].rest = rest, ![p].step = Then(rest)]
       \/ page = {} /\ Ends(p)
       \/ Fails("read") /\ Ends(p)
    /\ UNCHANGED <<leaseVars, kind, stamp, landed, paused, cursor, keys, launched, seeded>>

Oldest(p) == CHOOSE r \in eval[p].rest : \A s \in eval[p].rest : At(r) <= At(s)

(* The closure returns its request, or errs, panics, or is out of time.    *)
Call(p) ==
    /\ eval[p].step = "call"
    /\ Goes(p, "ask") \/ (Fails("closure") /\ Ends(p))
    /\ UNCHANGED <<leaseVars, kind, stamp, landed, paused, cursor, keys, launched, seeded>>

Handled(p) ==
    LET rest == eval[p].rest \ {Oldest(p)} IN
    eval' = [eval EXCEPT ![p].rest = rest, ![p].step = Then(rest)]

(* launch_request reads whether the key is claimed... *)
Ask(p) ==
    /\ eval[p].step = "ask"
    /\ \/ Keyed /\ Oldest(p) \in keys /\ Handled(p)
       \/ (Keyed => Oldest(p) \notin keys) /\ Goes(p, "launch")
       \/ Keyed /\ Fails("read") /\ Ends(p)
    /\ UNCHANGED <<leaseVars, kind, stamp, landed, paused, cursor, keys, launched, seeded>>

(* a mutant: the key is claimed in a statement after the launch *)
LaunchThenKey(p) ==
    LET r == Oldest(p) IN
    /\ eval[p].step = "launch"
    /\ \/ /\ FencePasses(p) /\ (Keyed => r \notin keys)
          /\ launched' = [launched EXCEPT ![r] = IF @ < 2 THEN @ + 1 ELSE @]
          /\ \/ keys' = (IF Keyed THEN keys \cup {r} ELSE keys) /\ Handled(p)
             \/ Fails("write") /\ UNCHANGED keys /\ Ends(p)
       \/ ~(FencePasses(p) /\ (Keyed => r \notin keys)) /\ Ends(p) /\ UNCHANGED <<launched, keys>>
    /\ UNCHANGED <<leaseVars, kind, stamp, landed, paused, cursor, seeded>>

(* a mutant: a launch the fence refuses does not fail the evaluation *)
LaunchForgiving(p) ==
    LET r == Oldest(p) IN
    /\ eval[p].step = "launch"
    /\ \/ /\ FencePasses(p) /\ (Keyed => r \notin keys)
          /\ launched' = [launched EXCEPT ![r] = IF @ < 2 THEN @ + 1 ELSE @]
          /\ keys' = IF Keyed THEN keys \cup {r} ELSE keys
       \/ ~FencePasses(p) /\ UNCHANGED <<launched, keys>>
    /\ Handled(p)
    /\ UNCHANGED <<leaseVars, kind, stamp, landed, paused, cursor, seeded>>

(* ...and launches: one transaction, which the fence and the key decide.   *)
Launch(p) ==
    LET r == Oldest(p)
        lands == /\ FencePasses(p) /\ (Keyed => r \notin keys)
                 /\ launched' = [launched EXCEPT ![r] = IF @ < 2 THEN @ + 1 ELSE @]
                 /\ keys' = IF Keyed THEN keys \cup {r} ELSE keys
    IN
    /\ eval[p].step = "launch"
    /\ \/ lands /\ Handled(p)
       \/ Fails("heard") /\ lands /\ Ends(p)
       \/ FencePasses(p) /\ Keyed /\ r \in keys /\ Handled(p) /\ UNCHANGED <<launched, keys>>
       \/ (~FencePasses(p) \/ Fails("write")) /\ Ends(p) /\ UNCHANGED <<launched, keys>>
    /\ UNCHANGED <<leaseVars, kind, stamp, landed, paused, cursor, seeded>>

(* set_sensor_cursor, once everything read was handled; no fence, no order.*)
Commit(p) ==
    /\ eval[p].step = "commit"
    /\ \/ /\ cursor' = eval[p].upto
          /\ seeded' = IF kind = "runs" /\ eval[p].read = Unset
                       THEN seeded \cup {r \in landed : At(r) <= eval[p].upto} ELSE seeded
       \/ Fails("write") /\ UNCHANGED <<cursor, seeded>>
    /\ Ends(p)
    /\ UNCHANGED <<leaseVars, kind, stamp, landed, paused, keys, launched>>

Evaluation(p) ==
    /\ mode[p] # "dead"
    /\ \/ Turn(p) \/ ReadCursor(p) \/ Seed(p) \/ Read(p)
       \/ Call(p) \/ Ask(p) \/ Launch(p) \/ Commit(p)

-----------------------------------------------------------------------------

Pause ==
    /\ ~paused /\ paused' = TRUE
    /\ UNCHANGED <<leaseVars, kind, stamp, landed, cursor, keys, launched, eval, seeded>>

Resume ==
    /\ paused /\ paused' = FALSE
    /\ UNCHANGED <<leaseVars, kind, stamp, landed, cursor, keys, launched, eval, seeded>>

Leases ==
    /\ \/ \E p \in Procs : Take(p) \/ Renew(p) \/ RenewErrs(p) \/ HandBack(p)
       \/ Tick
    /\ UNCHANGED <<kind, sensorVars>>

Crash(p) ==
    /\ Die(p) /\ Ends(p)
    /\ UNCHANGED <<kind, stamp, landed, paused, cursor, keys, launched, seeded>>

Next ==
    \/ \E p \in Procs : Evaluation(p) \/ Crash(p)
    \/ \E r \in Runs : Stamp(r) \/ Land(r)
    \/ Pause \/ Resume \/ Leases

Spec == Init /\ [][Next]_vars

-----------------------------------------------------------------------------
(* Properties. *)

(* However often a request is repeated, by a replay after a failed         *)
(* evaluation, an unheard launch or a second process, one run carries its  *)
(* key.                                                                    *)
OneRunPerKey == Keyed => \A r \in Runs : launched[r] <= 1

(* What the cursor has passed was handled: a sensor may repeat an event    *)
(* and never loses one (evaluate_runs), but for those a new cursor starts  *)
(* after.                                                                  *)
NoEventLost ==
    \A r \in Matching \cap landed : At(r) <= cursor /\ r \notin seeded => launched[r] > 0
=============================================================================
