---------------------------- MODULE RunExecution ----------------------------
(***************************************************************************)
(* One execution of one run (execute_in_span and run_op in executor.rs):   *)
(* the op graph, its trigger rules and skips, the fan-outs that grow it,   *)
(* the concurrency cap, the attempts of each op, the child processes of    *)
(* isolated ops (isolate.rs), the cancel and its drain.                    *)
(*                                                                         *)
(* A unit is what a row of op_runs is about: <<o, <<>>>> is an op, and     *)
(* <<m, p>> the instance of the mapped op m whose labels are p.  A mapped  *)
(* op has no row of its own.                                               *)
(*                                                                         *)
(* The run's own task settles, spawns, waits and joins; the ops' tasks and *)
(* the children run beside it.  What the task does between two of its      *)
(* waits is cut where an op's task could be told from it: one unit of the  *)
(* sweep, one spawn, one joined outcome.                                   *)
(***************************************************************************)
EXTENDS Integers, Sequences, FiniteSets

CONSTANTS
    Ops, NoOp,
    Deps,       \* the ops each op waits for; acyclic, as topo_order requires
    Rule,       \* the trigger rule of each op (When)
    Over,       \* the dep a mapped op maps over, or NoOp
    Isolated,   \* the ops that run in a child process
    Retries,    \* extra attempts after the first
    Cap,        \* max_parallel
    Ceiling,    \* max_instances
    Reused,     \* ops a resume or a build seeds with their recorded output
    MaxFan,     \* bound: the most elements an op's array has
    Timeouts,   \* the isolated ops that declare a timeout
    Unread,     \* the isolated ops whose child the parent may fail to wait
                \* for, or whose row it may fail to read
    Endless,    \* the ops whose body may never return
    Faults,     \* what may go wrong: an output that cannot be stored ("put")
                \* or read back ("get"), a resource or a secret that is not
                \* there ("open"), a child that dies ("die"), a watermark a
                \* child cannot commit ("mark"), the run let go of ("let")
    MayCancel   \* TRUE: somebody may cancel the run

Rules == {"all_succeeded", "any_failed", "always"}

(* topo_order never runs out of ops to put next: among any ops there is    *)
(* one that waits for none of them.                                        *)
Acyclic == \A S \in SUBSET Ops : S # {} => \E o \in S : Deps[o] \cap S = {}

ASSUME RunExecutionAssumption ==
    /\ IsFiniteSet(Ops) /\ NoOp \notin Ops
    /\ Deps \in [Ops -> SUBSET Ops] /\ Acyclic
    /\ Rule \in [Ops -> Rules]
    /\ Over \in [Ops -> Ops \cup {NoOp}]
    /\ \A o \in Ops : Over[o] # NoOp => Over[o] \in Deps[o] /\ o \notin Isolated
    /\ Isolated \subseteq Ops /\ Endless \subseteq Ops
    /\ Timeouts \subseteq Isolated /\ Unread \subseteq Isolated
    /\ Retries \in [Ops -> Nat]
    /\ Cap \in Nat \ {0} /\ Ceiling \in Nat /\ MaxFan \in Nat
    /\ Reused \subseteq {o \in Ops : Over[o] = NoOp}
    /\ Faults \subseteq {"put", "get", "open", "die", "mark", "let"}
    /\ MayCancel \in BOOLEAN

VARIABLES
    at,         \* where the run's own task is
    pending,    \* units not yet admitted or skipped
    ready,      \* units admitted, and then those about to be spawned
    stat,       \* `statuses`: what each settled unit did
    val,        \* what a unit produced: Scalar, or the length of its array
    row,        \* op_runs.status
    task,       \* the task of each unit
    attempt,    \* op_runs.attempts
    failed, canceled, \* the run's own flags
    verdict,    \* runs.status at the end
    asked,      \* the cancel channel holds true
    admitted,   \* history: units whose trigger rule let them run
    unkept      \* history: successes whose staged watermark was not committed

vars == <<at, pending, ready, stat, val, row, task, attempt, failed, canceled,
          verdict, asked, admitted, unkept>>

Scalar   == -1
Mapped   == {o \in Ops : Over[o] # NoOp}
Op(u)    == u[1]
Path(u)  == u[2]
Unit(o)  == <<o, <<>>>>
IsInstance(u) == Path(u) # <<>>
(* fanout_depth: one label for each level of fan-out. *)
Depth[o \in Ops] == IF Over[o] = NoOp THEN 0 ELSE 1 + Depth[Over[o]]
Units    == {Unit(o) : o \in Ops}
              \cup UNION {{m} \X [1..Depth[m] -> 1..MaxFan] : m \in Mapped}
HasRow(u) == IsInstance(u) \/ Op(u) \notin Mapped

Settled  == {"success", "failed", "skipped"}
Ended    == {"success", "failed", "skipped", "canceled"}
(* What a task may be doing, and what it may hand the run's task. *)
Working  == {"spawned", "body", "terminating", "expiring", "backoff"}
Outcomes == {"produced", "recorded", "failed", "skipped", "skipped_in_child", "killed", "aborted"}
Running  == {u \in Units : task[u] \in Working}
Landed   == {u \in Units : task[u] \in Outcomes}
InFlight == Running \cup Landed
Up       == at \notin {"ended", "abandoned"}

TypeOK ==
    /\ at \in {"opening", "settle", "spawn", "select", "drain", "closing", "ended", "abandoned"}
    /\ pending \subseteq Units /\ ready \subseteq Units /\ admitted \subseteq Units
    /\ unkept \subseteq Units
    /\ stat \in [Units -> {"none"} \cup Settled]
    /\ val \in [Units -> {Scalar} \cup 0..MaxFan]
    /\ row \in [Units -> {"absent", "pending", "running"} \cup Ended]
    /\ task \in [Units -> {"idle", "joined"} \cup Working \cup Outcomes]
    /\ attempt \in [Units -> Nat]
    /\ {failed, canceled, asked} \subseteq BOOLEAN
    /\ verdict \in {"none", "success", "failed", "canceled"}

(* A unit some op maps over should produce an array; it may not. *)
Shapes(o) == {Scalar} \cup IF \E m \in Mapped : Over[m] = o THEN 0..MaxFan ELSE {}

Init ==
    /\ at = "opening"
    /\ pending = {Unit(o) : o \in Ops \ Reused}
    /\ ready = {} /\ admitted = {} /\ unkept = {}
    /\ stat = [u \in Units |-> IF u \in {Unit(o) : o \in Reused} THEN "success" ELSE "none"]
    /\ \E out \in [Reused -> {Scalar} \cup 0..MaxFan] :
          /\ \A o \in Reused : out[o] \in Shapes(o)
          /\ val = [u \in Units |-> IF Op(u) \in Reused THEN out[Op(u)] ELSE Scalar]
    /\ row = [u \in Units |-> IF u \in pending /\ HasRow(u) THEN "pending" ELSE "absent"]
    /\ task = [u \in Units |-> "idle"]
    /\ attempt = [u \in Units |-> 0]
    /\ failed = FALSE /\ canceled = FALSE /\ asked = FALSE
    /\ verdict = "none"

-----------------------------------------------------------------------------
(* What the rows and the graph say. *)

MovesAny(r, us, s) == [u \in Units |-> IF u \in us /\ r[u] # "absent" THEN s ELSE r[u]]

(* op_finished and op_unstopped move a row only off pending or running. *)
Moves(r, us, s) == [u \in Units |-> IF u \in us /\ r[u] \in {"pending", "running"} THEN s ELSE r[u]]

AdmitsOf(o, status) ==
    CASE Rule[o] = "all_succeeded" -> \A d \in Deps[o] : status[Unit(d)] = "success"
      [] Rule[o] = "any_failed"    -> \E d \in Deps[o] : status[Unit(d)] # "success"
      [] OTHER                     -> TRUE
Admits(o) == AdmitsOf(o, stat)

(* a mutant: the walk goes through an op whatever its rule *)
CutOffAll == [o \in Ops |-> {d \in Ops :
    \A S \in SUBSET Ops :
       (\A e \in Ops : Deps[e] \cap (S \cup {o}) # {} => e \in S) => d \in S}]

(* downstream_through: the dependents of o reached through ops that need   *)
(* every dep to succeed, the least set the walk leads out of nowhere.      *)
WalkStays(o, S) ==
    \A d \in Ops : (Rule[d] = "all_succeeded" /\ Deps[d] \cap (S \cup {o}) # {}) => d \in S
CutOff == [o \in Ops |-> {d \in Ops : \A S \in SUBSET Ops : WalkStays(o, S) => d \in S}]
Cut(o) == {Unit(d) : d \in CutOff[o]} \cap pending

(* stop_here: u reached s instead of producing a value, in a run whose rows *)
(* are by now r.  The first instance to stop stops its mapped op.          *)
StopsHere(u, s, r) ==
    LET root == IF IsInstance(u) THEN Unit(Op(u)) ELSE u
        cut  == IF stat[root] = "none" THEN Cut(Op(u)) ELSE {}
    IN  /\ stat' = [v \in Units |-> IF v = u THEN s
                                    ELSE IF v = root /\ stat[root] = "none" THEN s
                                    ELSE IF v \in cut THEN "skipped" ELSE stat[v]]
        /\ row' = Moves(r, cut, "skipped")
        /\ pending' = pending \ cut

(* An instance's siblings, once its mapped op has expanded. *)
Instances(m) == {u \in Units : Op(u) = m /\ IsInstance(u) /\ row[u] # "absent"}

CollectsLast(u) ==
    LET m == Unit(Op(u))
        whole == IsInstance(u) /\ \A v \in Instances(Op(u)) \ {u} : stat[v] # "none"
    IN  /\ stat' = [v \in Units |-> IF v = u \/ (whole /\ v = m) THEN "success" ELSE stat[v]]
        /\ UNCHANGED pending

(* collect, and deliver: the mapped op has its array when every instance   *)
(* has its value and none stopped.                                         *)
Collects(u) ==
    LET m == Unit(Op(u))
        whole == IsInstance(u) /\ stat[m] = "none"
                 /\ \A v \in Instances(Op(u)) \ {u} : stat[v] = "success"
    IN  /\ stat' = [v \in Units |-> IF v = u \/ (whole /\ v = m) THEN "success" ELSE stat[v]]
        /\ UNCHANGED pending

-----------------------------------------------------------------------------
(* The run opens. *)

Open ==
    /\ at = "opening" /\ at' = "settle"
    /\ UNCHANGED <<pending, ready, stat, val, row, task, attempt, failed, canceled, verdict, asked,
                   admitted, unkept>>

OpenRefusedUnsaid ==
    /\ at = "opening" /\ "open" \in Faults
    /\ at' = "settle"
    /\ pending' = {} /\ failed' = TRUE
    /\ UNCHANGED <<ready, stat, val, row, task, attempt, canceled, verdict, asked, admitted, unkept>>

(* A run-scoped resource or a secret parameter is missing: no op runs. *)
OpenRefused ==
    /\ at = "opening" /\ "open" \in Faults
    /\ at' = "settle"
    /\ row' = Moves(row, pending, "skipped")
    /\ pending' = {} /\ failed' = TRUE
    /\ UNCHANGED <<ready, stat, val, task, attempt, canceled, verdict, asked, admitted, unkept>>

OpenCanceled ==
    /\ at = "opening" /\ asked
    /\ at' = "drain" /\ canceled' = TRUE
    /\ UNCHANGED <<pending, ready, stat, val, row, task, attempt, failed, verdict, asked, admitted,
                   unkept>>

-----------------------------------------------------------------------------
(* The sweep: settle every unit whose deps are settled. *)

ReadyEarly(u) == u \in pending /\ (Deps[Op(u)] = {} \/ \E d \in Deps[Op(u)] : stat[Unit(d)] # "none")
Ready(u) == u \in pending /\ \A d \in Deps[Op(u)] : stat[Unit(d)] # "none"

Decline(u) ==
    /\ at = "settle" /\ Ready(u) /\ ~Admits(Op(u))
    /\ LET cut == Cut(Op(u))
       IN  /\ stat' = [v \in Units |-> IF v \in {u} \cup cut THEN "skipped" ELSE stat[v]]
           /\ row' = Moves(row, {u} \cup cut, "skipped")
           /\ pending' = pending \ ({u} \cup cut)
    /\ UNCHANGED <<at, ready, val, task, attempt, failed, canceled, verdict, asked, admitted, unkept>>

Admit(u) ==
    /\ at = "settle" /\ Ready(u) /\ Admits(Op(u)) /\ HasRow(u)
    /\ pending' = pending \ {u}
    /\ ready' = ready \cup {u}
    /\ admitted' = admitted \cup {u}
    /\ UNCHANGED <<at, stat, val, row, task, attempt, failed, canceled, verdict, asked, unkept>>

(* What m expands over: the elements of what it maps over, or of what each *)
(* instance of that produced; nothing, when no value arrived.              *)
Parents(m) == IF stat[Unit(Over[m])] # "success" THEN {}
              ELSE IF Over[m] \in Mapped THEN Instances(Over[m]) ELSE {Unit(Over[m])}
Expanded(m) == {v \in Units : /\ Op(v) = m /\ IsInstance(v)
                              /\ \E q \in Parents(m) : \E i \in 1..val[q] :
                                     Path(v) = Append(Path(q), i)}
Made == {u \in Units : IsInstance(u) /\ row[u] # "absent"}

(* a mutant: only what is about to be made is held against the ceiling *)
ExpandableAlone(m) == /\ \A q \in Parents(m) : val[q] # Scalar
                      /\ Cardinality(Expanded(m)) <= Ceiling

(* expansion refuses a value that is not an array, and a run past its      *)
(* ceiling, before it writes a row.                                        *)
Expandable(m) == /\ \A q \in Parents(m) : val[q] # Scalar
                 /\ Cardinality(Made) + Cardinality(Expanded(m)) <= Ceiling

Expand(u) ==
    /\ at = "settle" /\ Ready(u) /\ Admits(Op(u)) /\ ~HasRow(u)
    /\ Expandable(Op(u))
    /\ pending' = (pending \ {u}) \cup Expanded(Op(u))
    /\ row' = [v \in Units |-> IF v \in Expanded(Op(u)) THEN "pending" ELSE row[v]]
    /\ stat' = IF Expanded(Op(u)) = {} THEN [stat EXCEPT ![u] = "success"] ELSE stat
    /\ admitted' = admitted \cup {u}
    /\ UNCHANGED <<at, ready, val, task, attempt, failed, canceled, verdict, asked, unkept>>

(* The op has no row to fail: its name carries the failure. *)
ExpandRefused(u) ==
    /\ at = "settle" /\ Ready(u) /\ Admits(Op(u)) /\ ~HasRow(u)
    /\ ~Expandable(Op(u)) \/ ("get" \in Faults /\ Parents(Op(u)) # {})
    /\ LET cut == Cut(Op(u))
       IN  /\ stat' = [v \in Units |-> IF v = u THEN "failed"
                                       ELSE IF v \in cut THEN "skipped" ELSE stat[v]]
           /\ row' = Moves(row, cut, "skipped")
           /\ pending' = pending \ ({u} \cup cut)
    /\ failed' = TRUE
    /\ admitted' = admitted \cup {u}
    /\ UNCHANGED <<at, ready, val, task, attempt, canceled, verdict, asked, unkept>>

-----------------------------------------------------------------------------
(* Spawning, up to the cap. *)

Least(a, b) == IF a < b THEN a ELSE b
Room == IF Cardinality(InFlight) < Cap THEN Cap - Cardinality(InFlight) ELSE 0

(* A sweep that settles nothing ends; what the cap leaves out waits in     *)
(* `pending`.  (Which ones it leaves out is the order of the graph: any.)  *)
Pick ==
    /\ at = "settle" /\ \A u \in pending : ~Ready(u)
    /\ \E chosen \in SUBSET ready :
         /\ Cardinality(chosen) = Least(Room, Cardinality(ready))
         /\ ready' = chosen
         /\ pending' = pending \cup (ready \ chosen)
    /\ at' = "spawn"
    /\ UNCHANGED <<stat, val, row, task, attempt, failed, canceled, verdict, asked, admitted, unkept>>

Spawn(u) ==
    /\ at = "spawn" /\ u \in ready
    /\ ready' = ready \ {u}
    /\ task' = [task EXCEPT ![u] = "spawned"]
    /\ UNCHANGED <<at, pending, stat, val, row, attempt, failed, canceled, verdict, asked, admitted,
                   unkept>>

(* An input that cannot be read back is the op's failure; no task starts.  *)
(* A child reads its own.                                                  *)
Unreadable(u) ==
    /\ at = "spawn" /\ u \in ready /\ "get" \in Faults /\ Op(u) \notin Isolated
    /\ \E d \in Deps[Op(u)] : stat[Unit(d)] = "success"
    /\ ready' = ready \ {u}
    /\ StopsHere(u, "failed", Moves(row, {u}, "failed"))
    /\ failed' = TRUE
    /\ UNCHANGED <<at, val, task, attempt, canceled, verdict, asked, admitted, unkept>>

Spawned ==
    /\ at = "spawn" /\ ready = {} /\ at' = "select"
    /\ UNCHANGED <<pending, ready, stat, val, row, task, attempt, failed, canceled, verdict, asked,
                   admitted, unkept>>

-----------------------------------------------------------------------------
(* The attempts of one op, in its own task and its child. *)

Goes(u, s) == task' = [task EXCEPT ![u] = s]
Beside     == <<at, pending, ready, stat, failed, canceled, verdict, asked, admitted>>

(* op_started: whatever the row says.  An aborted task gets no further than *)
(* where it waits, and a backoff entered after the cancel does not elapse. *)
OpStart(u) ==
    /\ Up /\ task[u] \in {"spawned", "backoff"}
    /\ IF Op(u) \in Isolated THEN at # "closing" ELSE ~canceled
    /\ Goes(u, "body")
    /\ row' = [row EXCEPT ![u] = "running"]
    /\ attempt' = [attempt EXCEPT ![u] = @ + 1]
    /\ UNCHANGED <<Beside, val, unkept>>

(* An attempt that failed: the retry policy has its say. *)
AttemptFails(u) == Goes(u, IF attempt[u] <= Retries[Op(u)] THEN "backoff" ELSE "failed")

Produces(u, shape) ==
    /\ Up /\ task[u] = "body" /\ Op(u) \notin Isolated
    /\ shape \in Shapes(Op(u))
    /\ Goes(u, "produced")
    /\ val' = [val EXCEPT ![u] = shape]
    /\ UNCHANGED <<Beside, row, attempt, unkept>>

BodyFails(u) ==
    /\ Up /\ task[u] = "body" /\ Op(u) \notin Isolated
    /\ AttemptFails(u)
    /\ UNCHANGED <<Beside, val, row, attempt, unkept>>

SkipsItself(u) ==
    /\ Up /\ task[u] = "body" /\ Op(u) \notin Isolated
    /\ Goes(u, "skipped")
    /\ UNCHANGED <<Beside, val, row, attempt, unkept>>

(* The child records its own outcome, and may do so while it is being told *)
(* to stop.  The watermark is a second write.                              *)
ChildRecords(u, s, shape) ==
    /\ Up /\ Op(u) \in Isolated /\ task[u] \in {"body", "terminating", "expiring"}
    /\ row[u] \in {"pending", "running"}
    /\ row' = Moves(row, {u}, s)
    /\ val' = [val EXCEPT ![u] = IF s = "success" THEN shape ELSE @]
    /\ \/ UNCHANGED unkept
       \/ "mark" \in Faults /\ s = "success" /\ unkept' = unkept \cup {u}
    /\ UNCHANGED <<Beside, task, attempt>>

ChildExitsTaken(u) ==
    /\ Up /\ Op(u) \in Isolated /\ task[u] = "body"
    /\ \/ row[u] \in {"success", "skipped"} /\ Goes(u, "recorded")
       \/ row[u] = "failed" /\ AttemptFails(u)
       \/ row[u] = "running" /\ "die" \in Faults /\ AttemptFails(u)
    /\ UNCHANGED <<Beside, val, row, attempt, unkept>>

(* The child is gone and the row says what it did, or nothing. *)
ChildExits(u) ==
    /\ Up /\ Op(u) \in Isolated /\ task[u] = "body"
    /\ \/ row[u] = "success" /\ Goes(u, "recorded")
       \/ row[u] = "skipped" /\ Goes(u, "skipped_in_child")
       \/ row[u] = "failed" /\ AttemptFails(u)
       \/ row[u] = "running" /\ "die" \in Faults /\ AttemptFails(u)
    /\ UNCHANGED <<Beside, val, row, attempt, unkept>>

(* The wait for the child, or the reading of its row, errs: the attempt     *)
(* failed, whatever the row says.                                          *)
ChildUnread(u) ==
    /\ Up /\ Op(u) \in Unread /\ task[u] = "body"
    /\ AttemptFails(u)
    /\ UNCHANGED <<Beside, val, row, attempt, unkept>>

(* The parent tells its child to stop: a cancel, or the attempt's timeout. *)
ChildTold(u) ==
    /\ Up /\ Op(u) \in Isolated /\ task[u] = "body"
    /\ \/ asked /\ Goes(u, "terminating")
       \/ Op(u) \in Timeouts /\ Goes(u, "expiring")
    /\ UNCHANGED <<Beside, val, row, attempt, unkept>>

(* SIGTERM, a grace, SIGKILL: the child is reaped. *)
ChildReaped(u) ==
    /\ Up
    /\ \/ task[u] = "terminating" /\ Goes(u, "killed")
       \/ task[u] = "expiring" /\ AttemptFails(u)
    /\ UNCHANGED <<Beside, val, row, attempt, unkept>>

(* An isolated op watches for the cancel in its backoff. *)
BackoffCanceled(u) ==
    /\ Up /\ Op(u) \in Isolated /\ task[u] = "backoff" /\ asked
    /\ Goes(u, "killed")
    /\ UNCHANGED <<Beside, val, row, attempt, unkept>>

(* The drain's abort takes effect where an in-process task waits. *)
AbortTakes(u) ==
    /\ at \in {"drain", "closing"} /\ Op(u) \notin Isolated /\ task[u] \in Working
    /\ Goes(u, "aborted")
    /\ UNCHANGED <<Beside, val, row, attempt, unkept>>

-----------------------------------------------------------------------------
(* The run's task waits: for a cancel, or for the next outcome. *)

SeeCancel ==
    /\ at = "select" /\ asked
    /\ at' = "drain" /\ canceled' = TRUE
    /\ UNCHANGED <<pending, ready, stat, val, row, task, attempt, failed, verdict, asked, admitted,
                   unkept>>

NothingLeftAtAll ==
    /\ at = "select" /\ InFlight = {} /\ pending = {}
    /\ at' = "closing"
    /\ UNCHANGED <<pending, ready, stat, val, row, task, attempt, failed, canceled, verdict, asked,
                   admitted, unkept>>

(* Nothing is in flight: the loop is over, whatever is still pending. *)
NothingLeft ==
    /\ at = "select" /\ InFlight = {}
    /\ at' = "closing"
    /\ UNCHANGED <<pending, ready, stat, val, row, task, attempt, failed, canceled, verdict, asked,
                   admitted, unkept>>

Joins(u) == at = "select" /\ u \in Landed /\ Goes(u, "joined") /\ at' = "settle"

(* The output is stored, the row says success, the value is collected; a   *)
(* child's success needs only the last.                                    *)
JoinSuccess(u) ==
    /\ Joins(u) /\ task[u] \in {"produced", "recorded"}
    /\ row' = IF task[u] = "produced" THEN Moves(row, {u}, "success") ELSE row
    /\ Collects(u)
    /\ UNCHANGED <<ready, val, attempt, failed, canceled, verdict, asked, admitted, unkept>>

JoinFailureUnsaid(u) ==
    /\ Joins(u)
    /\ task[u] = "failed" /\ StopsHere(u, "failed", Moves(row, {u}, "failed"))
    /\ UNCHANGED <<ready, val, attempt, failed, canceled, verdict, asked, admitted, unkept>>

(* The output could not be stored; or it was, and an instance's cannot be  *)
(* read back for its fan-out; or the op failed.                            *)
JoinFailure(u) ==
    /\ Joins(u)
    /\ \/ task[u] = "failed" /\ StopsHere(u, "failed", Moves(row, {u}, "failed"))
       \/ /\ task[u] = "produced" /\ "put" \in Faults
          /\ StopsHere(u, "failed", Moves(row, {u}, "failed"))
       \/ /\ task[u] = "produced" /\ "get" \in Faults /\ IsInstance(u)
          /\ StopsHere(u, "failed", Moves(row, {u}, "success"))
    /\ failed' = TRUE
    /\ UNCHANGED <<ready, val, attempt, canceled, verdict, asked, admitted, unkept>>

JoinSkip(u) ==
    /\ Joins(u)
    /\ \/ task[u] = "skipped" /\ StopsHere(u, "skipped", Moves(row, {u}, "skipped"))
       \/ task[u] = "skipped_in_child" /\ StopsHere(u, "skipped", row)
    /\ UNCHANGED <<ready, val, attempt, failed, canceled, verdict, asked, admitted, unkept>>

(* Only a cancel kills a child: go and drain the rest. *)
JoinKilled(u) ==
    /\ at = "select" /\ task[u] = "killed" /\ Goes(u, "joined")
    /\ row' = Moves(row, {u}, "canceled")
    /\ canceled' = TRUE /\ at' = "drain"
    /\ UNCHANGED <<pending, ready, stat, val, attempt, failed, verdict, asked, admitted, unkept>>

-----------------------------------------------------------------------------
(* A canceled run drains. *)

(* What won the race against the abort is recorded as what it did. *)
DrainJoin(u) ==
    /\ at = "drain" /\ u \in Landed /\ Goes(u, "joined")
    /\ row' \in CASE task[u] = "produced" -> {Moves(row, {u}, "success")} \cup
                        IF "put" \in Faults THEN {Moves(row, {u}, "failed")} ELSE {}
                  [] task[u] \in {"failed", "skipped"} -> {Moves(row, {u}, task[u])}
                  [] task[u] \in {"killed", "aborted"} -> {Moves(row, {u}, "canceled")}
                  [] OTHER -> {row}
    /\ UNCHANGED <<at, pending, ready, stat, val, attempt, failed, canceled, verdict, asked,
                   admitted, unkept>>

DrainEndsPending ==
    /\ at = "drain" /\ Landed = {}
    /\ \A u \in Running : task[u] \notin {"spawned", "backoff"}
    /\ row' = Moves(row, Running, "canceled")
    /\ pending' = {} /\ ready' = {}
    /\ at' = "closing"
    /\ UNCHANGED <<stat, val, task, attempt, failed, canceled, verdict, asked, admitted, unkept>>
DrainEndsWhenDone ==
    /\ at = "drain" /\ InFlight = {}
    /\ row' = Moves(row, pending, "canceled")
    /\ pending' = {} /\ ready' = {}
    /\ at' = "closing"
    /\ UNCHANGED <<stat, val, task, attempt, failed, canceled, verdict, asked, admitted, unkept>>

(* Every task landed, or the grace is over.  CANCEL_GRACE is seconds, so a *)
(* task that only waits to be scheduled has been.                          *)
DrainEnds ==
    /\ at = "drain" /\ Landed = {}
    /\ \A u \in Running : task[u] \notin {"spawned", "backoff"}
    /\ row' = Moves(row, Running \cup pending, "canceled")
    /\ pending' = {} /\ ready' = {}
    /\ at' = "closing"
    /\ UNCHANGED <<stat, val, task, attempt, failed, canceled, verdict, asked, admitted, unkept>>

(* run_finished; the JoinSet and its children are dropped on the way out.  *)
Finish ==
    /\ at = "closing"
    /\ verdict' = IF canceled THEN "canceled" ELSE IF failed THEN "failed" ELSE "success"
    /\ at' = "ended"
    /\ task' = [u \in Units |-> IF u \in InFlight THEN "joined" ELSE task[u]]
    /\ UNCHANGED <<pending, ready, stat, val, row, attempt, failed, canceled, asked, admitted, unkept>>

(* A write that records what the run did does not land, or the run's task  *)
(* is aborted: everything in flight is dropped and the run left unfinished. *)
LetGo ==
    /\ Up /\ "let" \in Faults
    /\ at' = "abandoned"
    /\ task' = [u \in Units |-> IF u \in InFlight THEN "joined" ELSE task[u]]
    /\ UNCHANGED <<pending, ready, stat, val, row, attempt, failed, canceled, verdict, asked,
                   admitted, unkept>>

(* Runner::cancel, while the run is in `active`. *)
Cancel ==
    /\ MayCancel /\ Up /\ ~asked
    /\ asked' = TRUE
    /\ UNCHANGED <<at, pending, ready, stat, val, row, task, attempt, failed, canceled, verdict,
                   admitted, unkept>>

-----------------------------------------------------------------------------
RunTask == \/ Open \/ OpenRefused \/ OpenCanceled
           \/ Pick \/ Spawned \/ SeeCancel \/ NothingLeft \/ DrainEnds \/ Finish
           \/ \E u \in Units : \/ Decline(u) \/ Admit(u) \/ Expand(u) \/ ExpandRefused(u)
                               \/ Spawn(u) \/ Unreadable(u)
                               \/ JoinSuccess(u) \/ JoinFailure(u) \/ JoinSkip(u) \/ JoinKilled(u)
                               \/ DrainJoin(u)

(* What a body or a child does of its own accord, and what is done to it. *)
Body(u) == \/ BodyFails(u) \/ SkipsItself(u)
           \/ \E shape \in Shapes(Op(u)) : \/ Produces(u, shape)
                                         \/ \E s \in Settled : ChildRecords(u, s, shape)
Attempt(u) == \/ OpStart(u) \/ ChildExits(u) \/ ChildUnread(u) \/ ChildTold(u) \/ ChildReaped(u)
              \/ BackoffCanceled(u) \/ AbortTakes(u)

Next == \/ RunTask \/ LetGo \/ Cancel
        \/ \E u \in Units : Body(u) \/ Attempt(u)

Done == ~Up /\ UNCHANGED vars

Spec == Init /\ [][Next \/ Done]_vars

(* tokio schedules the run's task and the ops' tasks, and an abort lands   *)
(* where a task waits for tokio; a parent reaps the child it told to stop; *)
(* a body that is not endless returns.  Nobody has to cancel, no child has *)
(* to die, no read to fail, and a body that never awaits is never aborted. *)
Fairness ==
    /\ WF_vars(RunTask)
    /\ \A u \in Units : /\ WF_vars(OpStart(u) \/ ChildExits(u) \/ ChildReaped(u) \/ BackoffCanceled(u))
                        /\ WF_vars(asked /\ ChildTold(u))
                        /\ WF_vars(task[u] # "body" /\ AbortTakes(u))
                        /\ Op(u) \notin Endless => WF_vars(Body(u))

FairSpec == Init /\ [][Next]_vars /\ Fairness

-----------------------------------------------------------------------------
(* What an execution promises. *)

(* An op runs exactly when its trigger rule says so of what its deps came  *)
(* to in the end: the skips that were propagated early, past ops that were *)
(* still running, agree with the rule read once everything is known.       *)
RulesObeyed == (at = "ended" /\ verdict # "canceled") =>
    \A o \in Ops \ Reused : /\ stat[Unit(o)] # "none"
                           /\ Unit(o) \in admitted <=> Admits(o)

(* A finished run leaves no op behind: nothing waits to be spawned and no  *)
(* row is pending or running (execute_in_span asserts the first).          *)
NoOpLeft == at \in {"closing", "ended"} =>
    pending = {} /\ \A u \in Units : row[u] \notin {"pending", "running"}

(* A run that succeeded has no op that failed or was canceled, and one that *)
(* failed had a failure the run's own task knew of, or ran nothing.        *)
VerdictTells == at = "ended" =>
    /\ verdict = "success" => \A u \in Units : row[u] \in {"absent", "success", "skipped"}
    /\ verdict = "failed" => admitted = {} \/ \E u \in Units : stat[u] = "failed"

(* A child may record what its parent does not hear of: while its timeout   *)
(* stops it, or before the parent fails to wait for it or to read its row. *)
Unheard == Timeouts \cup Unread

(* What the run's task believes of a unit and what the unit's row says are *)
(* the same thing, whoever wrote the row.  Only an instance whose stored   *)
(* output cannot be read back, and a child that was not heard of, are      *)
(* believed failed over what they recorded.                                *)
StatusesAgreeWithRows == \A u \in Units : (stat[u] # "none" /\ row[u] # "absent") =>
    \/ stat[u] = row[u]
    \/ stat[u] = "failed" /\ row[u] = "success" /\ IsInstance(u) /\ "get" \in Faults
    \/ stat[u] = "failed" /\ row[u] \in {"success", "skipped"} /\ Op(u) \in Unheard

(* A recorded outcome is kept: only that of a child is reopened, by the    *)
(* next attempt its op still has, and only its failure, unless its parent  *)
(* may not have heard of it.                                               *)
OutcomeIsKept == [][\A u \in Units : (row[u] \in Ended /\ row'[u] # row[u]) =>
    /\ row'[u] = "running" /\ Op(u) \in Isolated
    /\ attempt'[u] = attempt[u] + 1 /\ attempt[u] <= Retries[Op(u)]
    /\ row[u] = "failed" \/ Op(u) \in Unheard]_vars

(* What a child recorded as its success is what happened, however its      *)
(* process ended.                                                          *)
SuccessIsKept == [][\A u \in Units : row[u] = "success" => row'[u] = "success"]_vars

(* A fan-out is all or nothing: a mapped op succeeds with all of its       *)
(* instances, stops with the first that stops, and what needs it to        *)
(* succeed runs on a whole array.                                          *)
AllOrNothing == \A m \in Mapped :
    /\ stat[Unit(m)] = "success" => \A v \in Instances(m) : row[v] = "success"
    /\ (\E v \in Instances(m) : stat[v] \in {"failed", "skipped"})
          => stat[Unit(m)] \in {"failed", "skipped"}
    /\ \A u \in InFlight : (m \in Deps[Op(u)] /\ Rule[Op(u)] = "all_succeeded")
          => \A v \in Instances(m) : row[v] = "success"

(* However the run grows, no more ops are in flight than max_parallel and  *)
(* no more instances made than the ceiling.                                *)
BoundsHold == Cardinality(InFlight) <= Cap /\ Cardinality(Made) <= Ceiling

(* An op starts once everything it waits for is over: no row of a dep is   *)
(* still moving.                                                           *)
DepsDone == \A u \in InFlight, v \in Units :
    Op(v) \in Deps[Op(u)] => row[v] \notin {"pending", "running"}

(* A cancel that was answered Requested ends in a canceled run. *)
CancelHeard == (at = "ended" /\ asked) => verdict = "canceled"

(* A run that succeeded remembers every watermark its ops staged. *)
SuccessRemembers == verdict = "success" => unkept = {}

(* A canceled run ends, though a body or a child never returns. *)
CancelEnds == []<>(asked => ~Up)

(* A run ends, unless a body never returns: no order of skips, expansions  *)
(* and outcomes leaves its task waiting for nothing.                       *)
RunEnds == []<>~Up \/ <>[](\E u \in Units : Op(u) \in Endless /\ task[u] = "body")
=============================================================================
