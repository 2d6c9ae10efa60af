------------------------- MODULE RunExecutionProofs -------------------------
(***************************************************************************)
(* What holds of RunExecution for any acyclic graph of ops, any rules,     *)
(* retries, arrays, cap and ceiling, any faults and any cancel.            *)
(***************************************************************************)
EXTENDS RunExecution, FiniteSetTheorems, TLAPS

(* The tuple of variables, to be expanded wherever a step is.              *)
USE DEF vars

-----------------------------------------------------------------------------
(* Units. *)

(* A unit is an op, or an instance of a mapped op; an op is a unit.        *)
LEMMA UnitFacts ==
    /\ \A o \in Ops : Unit(o) \in Units /\ Op(Unit(o)) = o /\ ~IsInstance(Unit(o))
    /\ \A u \in Units : /\ Op(u) \in Ops
                        /\ IsInstance(u) => Op(u) \in Mapped
                        /\ ~IsInstance(u) => u = Unit(Op(u))
BY DEF Units, Unit, Op, Path, IsInstance, Mapped

(* What is cut off waits, and is an op, never an instance.                 *)
LEMMA CutFacts == \A o \in Ops : Cut(o) \subseteq pending /\ \A v \in Cut(o) : ~IsInstance(v)
BY DEF Cut, Unit, IsInstance, Path

(* A unit without a row is a mapped op.                                    *)
LEMMA RowFacts ==
    /\ \A u \in Units : ~HasRow(u) => u = Unit(Op(u)) /\ Op(u) \in Mapped
    /\ \A m \in Mapped : ~HasRow(Unit(m))
    /\ \A u \in Units : IsInstance(u) => HasRow(u)
BY UnitFacts DEF HasRow, Mapped

-----------------------------------------------------------------------------
(* Type correctness. *)

(* A move leaves a row a row.                                              *)
LEMMA MovesType ==
    ASSUME NEW r \in [Units -> {"absent", "pending", "running"} \cup Ended], NEW S, NEW s \in Ended
    PROVE  Moves(r, S, s) \in [Units -> {"absent", "pending", "running"} \cup Ended]
BY DEF Moves

(* The empty graph of tasks is well typed.                                 *)
LEMMA InitTypeOK == Init => TypeOK
<1>1. SUFFICES ASSUME Init PROVE TypeOK
  OBVIOUS
<1>2. val \in [Units -> {Scalar} \cup 0..MaxFan]
  <2>1. PICK out \in [Reused -> {Scalar} \cup 0..MaxFan] :
          val = [u \in Units |-> IF Op(u) \in Reused THEN out[Op(u)] ELSE Scalar]
    BY <1>1 DEF Init
  <2>. QED  BY <2>1
<1>3. pending \subseteq Units
  BY <1>1, UnitFacts DEF Init
<1>. QED  BY <1>1, <1>2, <1>3 DEF Init, TypeOK, Ended, Settled

(* What a body returns is a value a unit can have.                         *)
LEMMA ShapesType == \A o : Shapes(o) \subseteq {Scalar} \cup 0..MaxFan
BY DEF Shapes

(* A stopped unit, whatever it stops.                                      *)
LEMMA StopsType ==
    ASSUME TypeOK, NEW u \in Units, NEW s \in {"failed", "skipped"},
           NEW r \in [Units -> {"absent", "pending", "running"} \cup Ended], StopsHere(u, s, r)
    PROVE  /\ stat' \in [Units -> {"none"} \cup Settled]
           /\ row' \in [Units -> {"absent", "pending", "running"} \cup Ended]
           /\ pending' \subseteq Units
<1>1. "skipped" \in Ended /\ s \in Settled /\ "skipped" \in Settled
  BY DEF Ended, Settled
<1>2. row' \in [Units -> {"absent", "pending", "running"} \cup Ended]
  BY <1>1, MovesType DEF StopsHere
<1>. QED  BY <1>1, <1>2 DEF StopsHere, TypeOK

(* Every step keeps the types.                                             *)
LEMMA StepTypeOK == TypeOK /\ [Next]_vars => TypeOK'
<1>. SUFFICES ASSUME TypeOK, [Next]_vars PROVE TypeOK'
  OBVIOUS
<1>. USE DEF TypeOK
<1>t. /\ {"running", "pending"} \subseteq {"absent", "pending", "running"} \cup Ended
      /\ {"success", "failed", "skipped"} \subseteq Settled
      /\ {"success", "failed", "skipped", "canceled"} \subseteq Ended
      /\ {"idle", "joined", "spawned", "body", "terminating", "expiring", "backoff", "produced",
          "recorded", "failed", "skipped", "skipped_in_child", "killed", "aborted"}
            \subseteq {"idle", "joined"} \cup Working \cup Outcomes
  BY DEF Settled, Ended, Working, Outcomes
<1>1. CASE Open
  BY <1>1, <1>t DEF Open
<1>2. CASE OpenRefused
  BY <1>2, <1>t, MovesType DEF OpenRefused
<1>3. CASE OpenCanceled
  BY <1>3, <1>t DEF OpenCanceled
<1>4. CASE Pick
  BY <1>4, <1>t DEF Pick
<1>5. CASE Spawned
  BY <1>5, <1>t DEF Spawned
<1>6. CASE SeeCancel
  BY <1>6, <1>t DEF SeeCancel
<1>7. CASE NothingLeft
  BY <1>7, <1>t DEF NothingLeft
<1>8. CASE DrainEnds
  BY <1>8, <1>t, MovesType DEF DrainEnds
<1>9. CASE Finish
  BY <1>9, <1>t DEF Finish
<1>10. CASE LetGo
  BY <1>10, <1>t DEF LetGo
<1>11. CASE Cancel
  BY <1>11, <1>t DEF Cancel
<1>12. ASSUME NEW u \in Units, Decline(u) PROVE TypeOK'
  BY <1>12, <1>t, MovesType DEF Decline
<1>13. ASSUME NEW u \in Units, Admit(u) PROVE TypeOK'
  BY <1>13, <1>t DEF Admit
<1>14. ASSUME NEW u \in Units, Expand(u) PROVE TypeOK'
  BY <1>14, <1>t DEF Expand, Expanded
<1>15. ASSUME NEW u \in Units, ExpandRefused(u) PROVE TypeOK'
  BY <1>15, <1>t, MovesType DEF ExpandRefused
<1>16. ASSUME NEW u \in Units, Spawn(u) PROVE TypeOK'
  BY <1>16, <1>t DEF Spawn
<1>17. ASSUME NEW u \in Units, Unreadable(u) PROVE TypeOK'
  BY <1>17, <1>t, MovesType, StopsType DEF Unreadable
<1>18. ASSUME NEW u \in Units, JoinSuccess(u) PROVE TypeOK'
  BY <1>18, <1>t, MovesType DEF JoinSuccess, Joins, Goes, Collects
<1>19. ASSUME NEW u \in Units, JoinFailure(u) PROVE TypeOK'
  BY <1>19, <1>t, MovesType, StopsType DEF JoinFailure, Joins, Goes
<1>20. ASSUME NEW u \in Units, JoinSkip(u) PROVE TypeOK'
  BY <1>20, <1>t, MovesType, StopsType DEF JoinSkip, Joins, Goes
<1>21. ASSUME NEW u \in Units, JoinKilled(u) PROVE TypeOK'
  BY <1>21, <1>t, MovesType DEF JoinKilled, Goes
<1>22. ASSUME NEW u \in Units, DrainJoin(u) PROVE TypeOK'
  BY <1>22, <1>t, MovesType DEF DrainJoin, Goes
<1>23. ASSUME NEW u \in Units, OpStart(u) PROVE TypeOK'
  BY <1>23, <1>t DEF OpStart, Goes, Beside
<1>24. ASSUME NEW u \in Units, ChildExits(u) PROVE TypeOK'
  BY <1>24, <1>t DEF ChildExits, AttemptFails, Goes, Beside
<1>25. ASSUME NEW u \in Units, ChildTold(u) PROVE TypeOK'
  BY <1>25, <1>t DEF ChildTold, Goes, Beside
<1>26. ASSUME NEW u \in Units, ChildReaped(u) PROVE TypeOK'
  BY <1>26, <1>t DEF ChildReaped, AttemptFails, Goes, Beside
<1>27. ASSUME NEW u \in Units, BackoffCanceled(u) PROVE TypeOK'
  BY <1>27, <1>t DEF BackoffCanceled, Goes, Beside
<1>28. ASSUME NEW u \in Units, AbortTakes(u) PROVE TypeOK'
  BY <1>28, <1>t DEF AbortTakes, Goes, Beside
<1>29. ASSUME NEW u \in Units, BodyFails(u) PROVE TypeOK'
  BY <1>29, <1>t DEF BodyFails, AttemptFails, Goes, Beside
<1>30. ASSUME NEW u \in Units, SkipsItself(u) PROVE TypeOK'
  BY <1>30, <1>t DEF SkipsItself, Goes, Beside
<1>31. ASSUME NEW u \in Units, NEW shape \in Shapes(Op(u)), Produces(u, shape) PROVE TypeOK'
  BY <1>31, <1>t, ShapesType DEF Produces, Goes, Beside
<1>32. ASSUME NEW u \in Units, NEW s \in Settled, NEW shape \in Shapes(Op(u)),
      ChildRecords(u, s, shape) PROVE TypeOK'
  BY <1>32, <1>t, ShapesType, MovesType DEF ChildRecords, Beside, Ended, Settled
<1>33. CASE UNCHANGED vars
  BY <1>33
<1>34. ASSUME NEW u \in Units, ChildUnread(u) PROVE TypeOK'
  BY <1>34, <1>t DEF ChildUnread, AttemptFails, Goes, Beside
<1>. QED  BY <1>1, <1>2, <1>3, <1>4, <1>5, <1>6, <1>7, <1>8, <1>9, <1>10, <1>11, <1>12, <1>13,
      <1>14, <1>15, <1>16, <1>17, <1>18, <1>19, <1>20, <1>21, <1>22, <1>23, <1>24, <1>25, <1>26,
      <1>27, <1>28, <1>29, <1>30, <1>31, <1>32, <1>33, <1>34 DEF Next, RunTask, Body, Attempt

-----------------------------------------------------------------------------
(* The inductive invariant. *)

(* What a unit that waits, or was never made, has: nothing of its own yet. *)
Blank(u) == task[u] = "idle" /\ stat[u] = "none"

WaitsBlank(u) == /\ u \in pending \cup ready => Blank(u) /\ (HasRow(u) => row[u] = "pending")
                 /\ u \in ready => HasRow(u) /\ u \notin pending

(* A mapped op has neither row nor task, and until it expands no instance  *)
(* of it has anything.                                                     *)
MappedBlank(u) ==
    /\ ~HasRow(u) => row[u] = "absent" /\ task[u] = "idle"
    /\ (IsInstance(u) /\ Unit(Op(u)) \in pending)
          => Blank(u) /\ row[u] = "absent" /\ u \notin pending \cup ready

(* A settled unit is at rest.                                              *)
SettledRests(u) == stat[u] # "none" => task[u] \in {"idle", "joined"}

(* What the row of a unit says while its task is where it is.  A child that *)
(* was not heard of may have recorded anything.                            *)
Fits(u) ==
    /\ task[u] \in {"produced", "skipped"} => Op(u) \notin Isolated
    /\ task[u] = "spawned" => row[u] = "pending"
    /\ (task[u] \in {"body", "backoff", "produced", "failed", "skipped"} /\ Op(u) \notin Isolated)
          => row[u] = "running"
    /\ task[u] \in {"body", "expiring", "backoff", "failed"} => row[u] \in {"running"} \cup Settled
    /\ (task[u] \in {"backoff", "failed"} /\ Op(u) \notin Unheard)
          => row[u] \in {"running", "failed"}
    /\ task[u] = "backoff" => attempt[u] <= Retries[Op(u)]
    /\ task[u] = "recorded" => row[u] = "success"
    /\ task[u] = "skipped_in_child" => row[u] = "skipped"
    /\ task[u] = "expiring" => Op(u) \in Timeouts

Recording == at \in {"opening", "settle", "spawn", "select", "drain"}

Agrees(u) == (stat[u] # "none" /\ row[u] # "absent") =>
    \/ stat[u] = row[u]
    \/ stat[u] = "failed" /\ row[u] = "success" /\ IsInstance(u) /\ "get" \in Faults
    \/ stat[u] = "failed" /\ row[u] \in {"success", "skipped"} /\ Op(u) \in Unheard

(* Once the run's task has left its loop, what is still in flight is that  *)
(* of a canceled run, and a drain is that of a canceled one.               *)
OnlyCanceledDrains ==
    /\ at = "drain" => canceled
    /\ at = "closing" => canceled \/ InFlight = {}
    /\ ~Up => InFlight = {}

(* What is in flight has a row.                                            *)
HasItsRow(u) == task[u] \notin {"idle", "joined"} => row[u] # "absent"

UnitInv(u) == /\ HasItsRow(u) /\ WaitsBlank(u) /\ MappedBlank(u) /\ SettledRests(u) /\ Agrees(u)
              /\ Recording => Fits(u)

IInv == TypeOK /\ OnlyCanceledDrains /\ \A u \in Units : UnitInv(u)

(* Every step keeps, of each unit, what the invariant says.                *)
LEMMA StepUnits == IInv /\ [Next]_vars => \A v \in Units : UnitInv(v)'
<1>. SUFFICES ASSUME IInv, [Next]_vars, NEW v \in Units PROVE UnitInv(v)'
  OBVIOUS
<1>. USE DEF UnitInv, HasItsRow, WaitsBlank, MappedBlank, SettledRests, Agrees, Recording, Settled
<1>a. TypeOK /\ OnlyCanceledDrains /\ UnitInv(v) /\ \A u \in Units : UnitInv(u)
  BY DEF IInv
<1>b. /\ Op(v) \in Ops /\ Unit(Op(v)) \in Units
      /\ (IsInstance(v) => HasRow(v) /\ ~HasRow(Unit(Op(v))))
      /\ (~IsInstance(v) => v = Unit(Op(v)))
  BY UnitFacts, RowFacts
<1>1. CASE Open
  BY <1>1, <1>a, <1>b DEF Open, Blank, Fits
<1>2. CASE OpenCanceled
  BY <1>2, <1>a, <1>b DEF OpenCanceled, Blank, Fits
<1>3. CASE Spawned
  BY <1>3, <1>a, <1>b DEF Spawned, Blank, Fits
<1>4. CASE SeeCancel
  BY <1>4, <1>a, <1>b DEF SeeCancel, Blank, Fits
<1>5. CASE NothingLeft
  BY <1>5, <1>a, <1>b DEF NothingLeft, Blank, Fits
<1>6. CASE Cancel
  BY <1>6, <1>a, <1>b DEF Cancel, Blank, Fits
<1>7. CASE OpenRefused
  BY <1>7, <1>a, <1>b DEF OpenRefused, Moves, Blank, Fits, TypeOK, Ended
<1>8. CASE Pick
  BY <1>8, <1>a, <1>b DEF Pick, Blank, Fits
<1>9. CASE DrainEnds
  BY <1>9, <1>a, <1>b DEF DrainEnds, Moves, Blank, Running, Working, TypeOK
<1>10. CASE Finish
  BY <1>10, <1>a, <1>b DEF Finish, Blank, InFlight, Running, Landed, Working, Outcomes
<1>11. CASE LetGo
  BY <1>11, <1>a, <1>b DEF LetGo, Blank, InFlight, Running, Landed, Working, Outcomes
<1>12. ASSUME NEW u \in Units, Decline(u) PROVE UnitInv(v)'
  <2> DEFINE off == {u} \cup Cut(Op(u))
  <2>1. off \subseteq pending
    BY <1>12, CutFacts, UnitFacts DEF Decline, Ready
  <2>2. /\ stat'[v] = IF v \in off THEN "skipped" ELSE stat[v]
        /\ row'[v] = IF v \in off /\ row[v] \in {"pending", "running"} THEN "skipped" ELSE row[v]
        /\ pending' = pending \ off
    BY <1>12 DEF Decline, Moves
  <2>. HIDE DEF off
  <2>. QED  BY <1>12, <1>a, <1>b, <2>1, <2>2 DEF Decline, Blank, Fits
<1>13. ASSUME NEW u \in Units, Admit(u) PROVE UnitInv(v)'
  BY <1>13, <1>a, <1>b DEF Admit, Ready, TypeOK, Blank, Fits
<1>14. ASSUME NEW u \in Units, Expand(u) PROVE UnitInv(v)'
  BY SMTT(30), <1>14, <1>a, <1>b, RowFacts, UnitFacts DEF Expand, Ready, Expanded, TypeOK, Blank, Fits
<1>15. ASSUME NEW u \in Units, ExpandRefused(u) PROVE UnitInv(v)'
  BY <1>15, <1>a, <1>b, CutFacts, UnitFacts, RowFacts DEF ExpandRefused, Ready, Moves, TypeOK,
        Blank, Fits
<1>16. ASSUME NEW u \in Units, Spawn(u) PROVE UnitInv(v)'
  BY <1>16, <1>a, <1>b DEF Spawn, TypeOK, Blank, Fits
<1>17. ASSUME NEW u \in Units, Unreadable(u) PROVE UnitInv(v)'
  BY <1>17, <1>a, <1>b, CutFacts, UnitFacts, RowFacts DEF Unreadable, StopsHere, Moves, TypeOK,
        Blank, Fits
<1>18. ASSUME NEW u \in Units, JoinSuccess(u) PROVE UnitInv(v)'
  BY <1>18, <1>a, <1>b, UnitFacts, RowFacts DEF JoinSuccess, Joins, Goes, Collects, Landed,
        Outcomes, Moves, TypeOK, Blank, Fits
<1>19. ASSUME NEW u \in Units, JoinFailure(u) PROVE UnitInv(v)'
  BY <1>19, <1>a, <1>b, CutFacts, UnitFacts, RowFacts DEF JoinFailure, Joins, Goes, StopsHere,
        Moves, Landed, Outcomes, TypeOK, Blank, Fits
<1>20. ASSUME NEW u \in Units, JoinSkip(u) PROVE UnitInv(v)'
  BY <1>20, <1>a, <1>b, CutFacts, UnitFacts, RowFacts DEF JoinSkip, Joins, Goes, StopsHere, Moves,
        Landed, Outcomes, TypeOK, Blank, Fits
<1>21. ASSUME NEW u \in Units, JoinKilled(u) PROVE UnitInv(v)'
  BY <1>21, <1>a, <1>b DEF JoinKilled, Goes, Moves, TypeOK, Blank, Fits
<1>22. ASSUME NEW u \in Units, DrainJoin(u) PROVE UnitInv(v)'
  BY <1>22, <1>a, <1>b DEF DrainJoin, Goes, Moves, Landed, Outcomes, TypeOK, Blank, Fits
<1>23. ASSUME NEW u \in Units, OpStart(u) PROVE UnitInv(v)'
  BY <1>23, <1>a, <1>b DEF OpStart, Goes, Beside, OnlyCanceledDrains, InFlight, Running, Working,
        Up, TypeOK, Blank, Fits
<1>24. ASSUME NEW u \in Units, ChildExits(u) PROVE UnitInv(v)'
  BY <1>24, <1>a, <1>b DEF ChildExits, AttemptFails, Goes, Beside, TypeOK, Blank, Fits
<1>25. ASSUME NEW u \in Units, ChildTold(u) PROVE UnitInv(v)'
  BY <1>25, <1>a, <1>b DEF ChildTold, Goes, Beside, TypeOK, Blank, Fits
<1>26. ASSUME NEW u \in Units, ChildReaped(u) PROVE UnitInv(v)'
  BY <1>26, <1>a, <1>b, RunExecutionAssumption DEF ChildReaped, AttemptFails, Goes, Beside,
        TypeOK, Blank, Fits, Unheard
<1>27. ASSUME NEW u \in Units, BackoffCanceled(u) PROVE UnitInv(v)'
  BY <1>27, <1>a, <1>b DEF BackoffCanceled, Goes, Beside, TypeOK, Blank, Fits
<1>28. ASSUME NEW u \in Units, AbortTakes(u) PROVE UnitInv(v)'
  BY <1>28, <1>a, <1>b DEF AbortTakes, Goes, Beside, Working, TypeOK, Blank, Fits
<1>29. ASSUME NEW u \in Units, BodyFails(u) PROVE UnitInv(v)'
  BY <1>29, <1>a, <1>b DEF BodyFails, AttemptFails, Goes, Beside, TypeOK, Blank, Fits
<1>30. ASSUME NEW u \in Units, SkipsItself(u) PROVE UnitInv(v)'
  BY <1>30, <1>a, <1>b DEF SkipsItself, Goes, Beside, TypeOK, Blank, Fits
<1>31. ASSUME NEW u \in Units, NEW shape \in Shapes(Op(u)), Produces(u, shape) PROVE UnitInv(v)'
  BY <1>31, <1>a, <1>b DEF Produces, Goes, Beside, TypeOK, Blank, Fits
<1>32. ASSUME NEW u \in Units, NEW s \in Settled, NEW shape \in Shapes(Op(u)),
      ChildRecords(u, s, shape) PROVE UnitInv(v)'
  BY <1>32, <1>a, <1>b DEF ChildRecords, Beside, Moves, Settled, TypeOK, Blank, Fits
<1>33. CASE UNCHANGED vars
  BY <1>33, <1>a, <1>b DEF Blank, Fits
<1>34. ASSUME NEW u \in Units, ChildUnread(u) PROVE UnitInv(v)'
  BY <1>34, <1>a, <1>b, RunExecutionAssumption DEF ChildUnread, AttemptFails, Goes, Beside,
        TypeOK, Blank, Fits, Unheard
<1>. QED  BY <1>1, <1>2, <1>3, <1>4, <1>5, <1>6, <1>7, <1>8, <1>9, <1>10, <1>11, <1>12, <1>13,
      <1>14, <1>15, <1>16, <1>17, <1>18, <1>19, <1>20, <1>21, <1>22, <1>23, <1>24, <1>25, <1>26,
      <1>27, <1>28, <1>29, <1>30, <1>31, <1>32, <1>33, <1>34 DEF Next, RunTask, Body, Attempt

(* Every step keeps what is in flight to a run that still has a task.      *)
LEMMA StepDrains == IInv /\ [Next]_vars => OnlyCanceledDrains'
<1>. SUFFICES ASSUME IInv, [Next]_vars PROVE OnlyCanceledDrains'
  OBVIOUS
<1>. USE DEF OnlyCanceledDrains, Up
<1>a. TypeOK /\ OnlyCanceledDrains
  BY DEF IInv
<1>b. \A u \in Units : task[u] = "idle" => u \notin InFlight
  BY DEF InFlight, Running, Landed, Working, Outcomes
<1>c. InFlight = {u \in Units : task[u] \in Working \cup Outcomes}
  BY DEF InFlight, Running, Landed
<1>d. InFlight' = {u \in Units : task'[u] \in Working \cup Outcomes}
  BY DEF InFlight, Running, Landed
<1>1. CASE Open
  BY <1>1, <1>a, <1>c, <1>d DEF Open
<1>2. CASE OpenRefused
  BY <1>2, <1>a, <1>c, <1>d DEF OpenRefused
<1>3. CASE OpenCanceled
  BY <1>3, <1>a, <1>c, <1>d DEF OpenCanceled
<1>4. CASE Pick
  BY <1>4, <1>a, <1>c, <1>d DEF Pick
<1>5. CASE Spawned
  BY <1>5, <1>a, <1>c, <1>d DEF Spawned
<1>6. CASE SeeCancel
  BY <1>6, <1>a, <1>c, <1>d DEF SeeCancel
<1>7. CASE NothingLeft
  BY <1>7, <1>a, <1>c, <1>d DEF NothingLeft
<1>8. CASE DrainEnds
  BY <1>8, <1>a, <1>c, <1>d DEF DrainEnds
<1>9. CASE Cancel
  BY <1>9, <1>a, <1>c, <1>d DEF Cancel
<1>10. CASE Finish
  BY <1>10, <1>a, <1>c, <1>d DEF Finish, Working, Outcomes
<1>11. CASE LetGo
  BY <1>11, <1>a, <1>c, <1>d DEF LetGo, Working, Outcomes
<1>12. ASSUME NEW u \in Units, Decline(u) PROVE OnlyCanceledDrains'
  BY <1>12, <1>a DEF Decline
<1>13. ASSUME NEW u \in Units, Admit(u) PROVE OnlyCanceledDrains'
  BY <1>13, <1>a DEF Admit
<1>14. ASSUME NEW u \in Units, Expand(u) PROVE OnlyCanceledDrains'
  BY <1>14, <1>a DEF Expand
<1>15. ASSUME NEW u \in Units, ExpandRefused(u) PROVE OnlyCanceledDrains'
  BY <1>15, <1>a DEF ExpandRefused
<1>16. ASSUME NEW u \in Units, Spawn(u) PROVE OnlyCanceledDrains'
  BY <1>16, <1>a DEF Spawn
<1>17. ASSUME NEW u \in Units, Unreadable(u) PROVE OnlyCanceledDrains'
  BY <1>17, <1>a DEF Unreadable
<1>18. ASSUME NEW u \in Units, JoinSuccess(u) PROVE OnlyCanceledDrains'
  BY <1>18, <1>a DEF JoinSuccess, Joins
<1>19. ASSUME NEW u \in Units, JoinFailure(u) PROVE OnlyCanceledDrains'
  BY <1>19, <1>a DEF JoinFailure, Joins
<1>20. ASSUME NEW u \in Units, JoinSkip(u) PROVE OnlyCanceledDrains'
  BY <1>20, <1>a DEF JoinSkip, Joins
<1>21. ASSUME NEW u \in Units, JoinKilled(u) PROVE OnlyCanceledDrains'
  BY <1>21, <1>a DEF JoinKilled
<1>22. ASSUME NEW u \in Units, DrainJoin(u) PROVE OnlyCanceledDrains'
  BY <1>22, <1>a DEF DrainJoin
<1>e. ASSUME NEW u \in Units, NEW s, u \in InFlight, Goes(u, s), Up,
             UNCHANGED <<at, canceled>>
      PROVE  OnlyCanceledDrains'
  BY <1>a, <1>e
<1>23. ASSUME NEW u \in Units, OpStart(u) PROVE OnlyCanceledDrains'
  BY <1>23, <1>e, <1>c DEF OpStart, Beside, Working
<1>24. ASSUME NEW u \in Units, ChildExits(u) PROVE OnlyCanceledDrains'
  BY <1>24, <1>e, <1>c DEF ChildExits, AttemptFails, Beside, Working
<1>25. ASSUME NEW u \in Units, ChildTold(u) PROVE OnlyCanceledDrains'
  BY <1>25, <1>e, <1>c DEF ChildTold, Beside, Working
<1>26. ASSUME NEW u \in Units, ChildReaped(u) PROVE OnlyCanceledDrains'
  BY <1>26, <1>e, <1>c DEF ChildReaped, AttemptFails, Beside, Working
<1>27. ASSUME NEW u \in Units, BackoffCanceled(u) PROVE OnlyCanceledDrains'
  BY <1>27, <1>e, <1>c DEF BackoffCanceled, Beside, Working
<1>28. ASSUME NEW u \in Units, AbortTakes(u) PROVE OnlyCanceledDrains'
  BY <1>28, <1>e, <1>c DEF AbortTakes, Beside, Working
<1>29. ASSUME NEW u \in Units, BodyFails(u) PROVE OnlyCanceledDrains'
  BY <1>29, <1>e, <1>c DEF BodyFails, AttemptFails, Beside, Working
<1>30. ASSUME NEW u \in Units, SkipsItself(u) PROVE OnlyCanceledDrains'
  BY <1>30, <1>e, <1>c DEF SkipsItself, Beside, Working
<1>31. ASSUME NEW u \in Units, NEW shape \in Shapes(Op(u)),
      Produces(u, shape) PROVE OnlyCanceledDrains'
  BY <1>31, <1>e, <1>c DEF Produces, Beside, Working
<1>32. ASSUME NEW u \in Units, NEW s \in Settled, NEW shape \in Shapes(Op(u)),
      ChildRecords(u, s, shape) PROVE OnlyCanceledDrains'
  BY <1>32, <1>a, <1>c, <1>d DEF ChildRecords, Beside
<1>33. CASE UNCHANGED vars
  BY <1>33, <1>a, <1>c, <1>d
<1>34. ASSUME NEW u \in Units, ChildUnread(u) PROVE OnlyCanceledDrains'
  BY <1>34, <1>e, <1>c DEF ChildUnread, AttemptFails, Beside, Working
<1>. QED  BY <1>1, <1>2, <1>3, <1>4, <1>5, <1>6, <1>7, <1>8, <1>9, <1>10, <1>11, <1>12, <1>13,
      <1>14, <1>15, <1>16, <1>17, <1>18, <1>19, <1>20, <1>21, <1>22, <1>23, <1>24, <1>25, <1>26,
      <1>27, <1>28, <1>29, <1>30, <1>31, <1>32, <1>33, <1>34 DEF Next, RunTask, Body, Attempt

(* The invariant holds at the start,                                       *)
LEMMA InitIInv == Init => IInv
<1>. SUFFICES ASSUME Init PROVE IInv
  OBVIOUS
<1>1. OnlyCanceledDrains
  BY DEF Init, OnlyCanceledDrains, Up
<1>2. ASSUME NEW u \in Units PROVE UnitInv(u)
  <2>1. u \in pending => \E o \in Ops \ Reused : u = Unit(o)
    BY DEF Init
  <2>2. u \in pending => ~IsInstance(u) /\ Op(u) \in Ops \ Reused
    BY <2>1, UnitFacts
  <2>3. u \in pending => u \notin {Unit(o) : o \in Reused}
    BY <2>2, UnitFacts, RunExecutionAssumption
  <2>4. ASSUME IsInstance(u) PROVE u \notin pending /\ u \notin {Unit(o) : o \in Reused}
    BY <2>4, <2>2, UnitFacts, RunExecutionAssumption
  <2>. QED  BY <2>2, <2>3, <2>4 DEF Init, UnitInv, HasItsRow, WaitsBlank, MappedBlank,
        SettledRests, Agrees, Fits, Blank
<1>. QED  BY <1>1, <1>2, InitTypeOK DEF IInv

(* and every step keeps it.                                                *)
LEMMA StepIInv == IInv /\ [Next]_vars => IInv'
BY StepTypeOK, StepDrains, StepUnits DEF IInv

(* Every reachable state is one the invariant describes.                   *)
THEOREM InvariantHolds == Spec => []IInv
<1>1. Init => IInv
  BY InitIInv
<1>2. IInv /\ [Next \/ Done]_vars => IInv'
  BY StepIInv DEF Done
<1>. QED  BY <1>1, <1>2, PTL DEF Spec

(* No flag, status, row or task of an execution leaves its type.           *)
THEOREM TypeCorrect == Spec => []TypeOK
<1>1. IInv => TypeOK
  BY DEF IInv
<1>. QED  BY <1>1, InvariantHolds, PTL

(* What the run's task believes of a unit is what the unit's row says,     *)
(* whoever wrote it, but for the unread and the unheard of.                *)
THEOREM StatusesAreTheRows == Spec => []StatusesAgreeWithRows
<1>1. IInv => StatusesAgreeWithRows
  BY DEF IInv, UnitInv, Agrees, StatusesAgreeWithRows
<1>. QED  BY <1>1, InvariantHolds, PTL

(* What a step may do to the row of a unit whose outcome is recorded: start *)
(* a further attempt of an isolated op, one that failed or was not heard of. *)
Reopens(v) == /\ row'[v] = "running" /\ Op(v) \in Isolated
              /\ attempt'[v] = attempt[v] + 1 /\ attempt[v] <= Retries[Op(v)]
              /\ row[v] = "failed" \/ Op(v) \in Unheard

(* It does nothing else to it.                                             *)
LEMMA StepOutcome ==
    ASSUME IInv, [Next]_vars, NEW v \in Units, row[v] \in Ended, row'[v] # row[v]
    PROVE  Reopens(v)
<1>a. TypeOK /\ OnlyCanceledDrains /\ UnitInv(v)
  BY DEF IInv
<1>b. row[v] \notin {"absent", "pending", "running"}
  BY DEF Ended
(* A move leaves it alone. *)
<1>c. \A S, s : Moves(row, S, s)[v] = row[v] /\ \A T, t : Moves(Moves(row, S, s), T, t)[v] = row[v]
  BY <1>b DEF Moves
<1>1. CASE Open
  BY <1>1, <1>a, <1>b, <1>c DEF Open
<1>2. CASE OpenRefused
  BY <1>2, <1>a, <1>b, <1>c DEF OpenRefused
<1>3. CASE OpenCanceled
  BY <1>3, <1>a, <1>b, <1>c DEF OpenCanceled
<1>4. CASE Pick
  BY <1>4, <1>a, <1>b, <1>c DEF Pick
<1>5. CASE Spawned
  BY <1>5, <1>a, <1>b, <1>c DEF Spawned
<1>6. CASE SeeCancel
  BY <1>6, <1>a, <1>b, <1>c DEF SeeCancel
<1>7. CASE NothingLeft
  BY <1>7, <1>a, <1>b, <1>c DEF NothingLeft
<1>8. CASE DrainEnds
  BY <1>8, <1>a, <1>b, <1>c DEF DrainEnds
<1>9. CASE Finish
  BY <1>9, <1>a, <1>b, <1>c DEF Finish
<1>10. CASE LetGo
  BY <1>10, <1>a, <1>b, <1>c DEF LetGo
<1>11. CASE Cancel
  BY <1>11, <1>a, <1>b, <1>c DEF Cancel
<1>12. ASSUME NEW u \in Units, Decline(u) PROVE Reopens(v)
  BY <1>12, <1>a, <1>b, <1>c DEF Decline
<1>13. ASSUME NEW u \in Units, Admit(u) PROVE Reopens(v)
  BY <1>13, <1>a, <1>b, <1>c DEF Admit
<1>14. ASSUME NEW u \in Units, ExpandRefused(u) PROVE Reopens(v)
  BY <1>14, <1>a, <1>b, <1>c DEF ExpandRefused
<1>15. ASSUME NEW u \in Units, Spawn(u) PROVE Reopens(v)
  BY <1>15, <1>a, <1>b, <1>c DEF Spawn
<1>16. ASSUME NEW u \in Units, Unreadable(u) PROVE Reopens(v)
  BY <1>16, <1>a, <1>b, <1>c DEF Unreadable, StopsHere
<1>17. ASSUME NEW u \in Units, JoinSuccess(u) PROVE Reopens(v)
  BY <1>17, <1>a, <1>b, <1>c DEF JoinSuccess
<1>18. ASSUME NEW u \in Units, JoinFailure(u) PROVE Reopens(v)
  BY <1>18, <1>a, <1>b, <1>c DEF JoinFailure, StopsHere
<1>19. ASSUME NEW u \in Units, JoinSkip(u) PROVE Reopens(v)
  BY <1>19, <1>a, <1>b, <1>c DEF JoinSkip, StopsHere
<1>20. ASSUME NEW u \in Units, JoinKilled(u) PROVE Reopens(v)
  BY <1>20, <1>a, <1>b, <1>c DEF JoinKilled
<1>21. ASSUME NEW u \in Units, DrainJoin(u) PROVE Reopens(v)
  BY <1>21, <1>a, <1>b, <1>c DEF DrainJoin
<1>22. ASSUME NEW u \in Units, ChildExits(u) PROVE Reopens(v)
  BY <1>22, <1>a, <1>b, <1>c DEF ChildExits
<1>23. ASSUME NEW u \in Units, ChildTold(u) PROVE Reopens(v)
  BY <1>23, <1>a, <1>b, <1>c DEF ChildTold
<1>24. ASSUME NEW u \in Units, ChildReaped(u) PROVE Reopens(v)
  BY <1>24, <1>a, <1>b, <1>c DEF ChildReaped
<1>25. ASSUME NEW u \in Units, BackoffCanceled(u) PROVE Reopens(v)
  BY <1>25, <1>a, <1>b, <1>c DEF BackoffCanceled
<1>26. ASSUME NEW u \in Units, AbortTakes(u) PROVE Reopens(v)
  BY <1>26, <1>a, <1>b, <1>c DEF AbortTakes
<1>27. ASSUME NEW u \in Units, BodyFails(u) PROVE Reopens(v)
  BY <1>27, <1>a, <1>b, <1>c DEF BodyFails
<1>28. ASSUME NEW u \in Units, SkipsItself(u) PROVE Reopens(v)
  BY <1>28, <1>a, <1>b, <1>c DEF SkipsItself
<1>29. ASSUME NEW u \in Units, Expand(u) PROVE Reopens(v)
  BY <1>29, <1>a, <1>b, UnitFacts, RowFacts DEF Expand, Ready, Expanded, UnitInv, MappedBlank,
        TypeOK
<1>30. ASSUME NEW u \in Units, OpStart(u) PROVE Reopens(v)
  <2>1. u = v
    BY <1>30, <1>a DEF OpStart, TypeOK
  <2>2. Recording
    BY <1>30, <1>a, <2>1 DEF OpStart, OnlyCanceledDrains, Up, Recording, TypeOK, InFlight,
          Running, Working
  <2>3. task[v] = "backoff" /\ (row[v] = "failed" \/ Op(v) \in Unheard)
    BY <1>30, <1>a, <1>b, <2>1, <2>2 DEF OpStart, UnitInv, Fits
  <2>. QED  BY <1>30, <1>a, <2>1, <2>2, <2>3 DEF OpStart, UnitInv, Fits, TypeOK, Reopens
<1>31. ASSUME NEW u \in Units, NEW shape \in Shapes(Op(u)), Produces(u, shape) PROVE Reopens(v)
  BY <1>31, <1>a, <1>b, <1>c DEF Produces
<1>32. ASSUME NEW u \in Units, NEW s \in Settled, NEW shape \in Shapes(Op(u)),
      ChildRecords(u, s, shape) PROVE Reopens(v)
  BY <1>32, <1>a, <1>b, <1>c DEF ChildRecords
<1>33. CASE UNCHANGED vars
  BY <1>33, <1>a, <1>b, <1>c 
<1>34. ASSUME NEW u \in Units, ChildUnread(u) PROVE Reopens(v)
  BY <1>34, <1>a, <1>b, <1>c DEF ChildUnread
<1>. QED  BY <1>1, <1>2, <1>3, <1>4, <1>5, <1>6, <1>7, <1>8, <1>9, <1>10, <1>11, <1>12, <1>13,
      <1>14, <1>15, <1>16, <1>17, <1>18, <1>19, <1>20, <1>21, <1>22, <1>23, <1>24, <1>25, <1>26,
      <1>27, <1>28, <1>29, <1>30, <1>31, <1>32, <1>33, <1>34 DEF Next, RunTask, Body, Attempt

(* A recorded outcome is kept, but for the failure of a child, and what was *)
(* not heard of one, whose op has another attempt.                         *)
THEOREM OutcomesAreKept == Spec => OutcomeIsKept
<1>1. IInv /\ [Next \/ Done]_vars =>
        [\A u \in Units : (row[u] \in Ended /\ row'[u] # row[u]) =>
             /\ row'[u] = "running" /\ Op(u) \in Isolated
             /\ attempt'[u] = attempt[u] + 1 /\ attempt[u] <= Retries[Op(u)]
             /\ row[u] = "failed" \/ Op(u) \in Unheard]_vars
  BY StepOutcome DEF Done, Reopens
<1>. QED  BY <1>1, InvariantHolds, PTL DEF Spec, OutcomeIsKept

-----------------------------------------------------------------------------
(* The bounds. *)

(* A step that puts nothing more in flight and makes no more instances.    *)
Shrinks == /\ InFlight' \subseteq InFlight /\ Made' \subseteq Made
           /\ ready' \subseteq ready /\ pending' \subseteq pending
           /\ at' = "spawn" => at = "spawn"

(* Only an admission, an expansion, a selection and a spawn set anything   *)
(* on its way; every other step only shrinks.                              *)
LEMMA StepShrinks ==
    ASSUME IInv, [Next]_vars
    PROVE  Shrinks \/ Pick \/ \E u \in Units : Admit(u) \/ Expand(u) \/ Spawn(u)
<1>a. TypeOK /\ \A u \in Units : UnitInv(u)
  BY DEF IInv
<1>b. InFlight = {u \in Units : task[u] \in Working \cup Outcomes}
  BY DEF InFlight, Running, Landed
<1>c. InFlight' = {u \in Units : task'[u] \in Working \cup Outcomes}
  BY DEF InFlight, Running, Landed
<1>d. \A S, s, u : s # "absent" /\ u \in Units
                     => (row[u] = "absent" => Moves(row, S, s)[u] = "absent")
  BY DEF Moves
<1>e. \A S, s, T, t, u : u \in Units =>
         (row[u] = "absent" => Moves(Moves(row, S, s), T, t)[u] = "absent")
  BY DEF Moves
<1>f. "joined" \notin Working \cup Outcomes /\ "idle" \notin Working \cup Outcomes
  BY DEF Working, Outcomes
<1>g. ASSUME task' = task, \A u \in Units : row[u] = "absent" => row'[u] = "absent",
             ready' \subseteq ready, pending' \subseteq pending, at' = "spawn" => at = "spawn"
      PROVE  Shrinks
  BY <1>g, <1>b, <1>c DEF Shrinks, Made
<1>h. ASSUME NEW u \in Units, u \in InFlight, NEW s, Goes(u, s),
             \A w \in Units : row[w] = "absent" => row'[w] = "absent",
             ready' \subseteq ready, pending' \subseteq pending, at' = "spawn" => at = "spawn"
      PROVE  Shrinks
  BY <1>h, <1>a, <1>b, <1>c DEF Shrinks, Made, Goes, TypeOK
<1>1. CASE Open
  BY <1>1, <1>d, <1>g DEF Open
<1>2. CASE OpenRefused
  BY <1>2, <1>d, <1>g DEF OpenRefused
<1>3. CASE OpenCanceled
  BY <1>3, <1>d, <1>g DEF OpenCanceled
<1>4. CASE Spawned
  BY <1>4, <1>d, <1>g DEF Spawned
<1>5. CASE SeeCancel
  BY <1>5, <1>d, <1>g DEF SeeCancel
<1>6. CASE NothingLeft
  BY <1>6, <1>d, <1>g DEF NothingLeft
<1>7. CASE DrainEnds
  BY <1>7, <1>d, <1>g DEF DrainEnds
<1>8. CASE Cancel
  BY <1>8, <1>d, <1>g DEF Cancel
<1>9. CASE Finish
  BY <1>9, <1>b, <1>c, <1>f DEF Finish, Shrinks, Made
<1>10. CASE LetGo
  BY <1>10, <1>b, <1>c, <1>f DEF LetGo, Shrinks, Made
<1>11. ASSUME NEW u \in Units, Decline(u) PROVE Shrinks
  BY <1>11, <1>d, <1>e, <1>g DEF Decline
<1>12. ASSUME NEW u \in Units, ExpandRefused(u) PROVE Shrinks
  BY <1>12, <1>d, <1>e, <1>g DEF ExpandRefused
<1>13. ASSUME NEW u \in Units, Unreadable(u) PROVE Shrinks
  BY <1>13, <1>d, <1>e, <1>g DEF Unreadable, StopsHere
<1>14. ASSUME NEW u \in Units, JoinSuccess(u) PROVE Shrinks
  <2>1. u \in InFlight
    BY <1>14, <1>b DEF JoinSuccess, Joins, Landed, Collects, Landed
  <2>. QED  BY <1>14, <1>a, <2>1, <1>d, <1>e, <1>h DEF JoinSuccess, Joins, Landed, Collects
<1>15. ASSUME NEW u \in Units, JoinFailure(u) PROVE Shrinks
  <2>1. u \in InFlight
    BY <1>15, <1>b DEF JoinFailure, Joins, Landed
  <2>. QED  BY <1>15, <1>a, <2>1, <1>d, <1>e, <1>h DEF JoinFailure, Joins, StopsHere
<1>16. ASSUME NEW u \in Units, JoinSkip(u) PROVE Shrinks
  <2>1. u \in InFlight
    BY <1>16, <1>b DEF JoinSkip, Joins, Landed
  <2>. QED  BY <1>16, <1>a, <2>1, <1>d, <1>e, <1>h DEF JoinSkip, Joins, StopsHere
<1>17. ASSUME NEW u \in Units, JoinKilled(u) PROVE Shrinks
  <2>1. u \in InFlight
    BY <1>17, <1>b DEF JoinKilled, Outcomes, Landed
  <2>. QED  BY <1>17, <1>a, <2>1, <1>d, <1>e, <1>h DEF JoinKilled, Outcomes
<1>18. ASSUME NEW u \in Units, DrainJoin(u) PROVE Shrinks
  <2>1. u \in InFlight
    BY <1>18, <1>b DEF DrainJoin, Landed
  <2>. QED  BY <1>18, <1>a, <2>1, <1>d, <1>e, <1>h DEF DrainJoin, Landed
<1>19. ASSUME NEW u \in Units, OpStart(u) PROVE Shrinks
  <2>1. u \in InFlight
    BY <1>19, <1>b DEF OpStart, Working, Landed
  <2>. QED  BY <1>19, <1>a, <2>1, <1>d, <1>e, <1>h DEF OpStart, Beside, Working, UnitInv,
        HasItsRow, Goes, TypeOK
<1>20. ASSUME NEW u \in Units, ChildExits(u) PROVE Shrinks
  <2>1. u \in InFlight
    BY <1>20, <1>b DEF ChildExits, Working, Landed
  <2>. QED  BY <1>20, <1>a, <2>1, <1>d, <1>e, <1>h DEF ChildExits, AttemptFails, Beside, Working
<1>21. ASSUME NEW u \in Units, ChildTold(u) PROVE Shrinks
  <2>1. u \in InFlight
    BY <1>21, <1>b DEF ChildTold, Working, Landed
  <2>. QED  BY <1>21, <1>a, <2>1, <1>d, <1>e, <1>h DEF ChildTold, Beside, Working
<1>22. ASSUME NEW u \in Units, ChildReaped(u) PROVE Shrinks
  <2>1. u \in InFlight
    BY <1>22, <1>b DEF ChildReaped, Working, Landed
  <2>. QED  BY <1>22, <1>a, <2>1, <1>d, <1>e, <1>h DEF ChildReaped, AttemptFails, Beside, Working
<1>23. ASSUME NEW u \in Units, BackoffCanceled(u) PROVE Shrinks
  <2>1. u \in InFlight
    BY <1>23, <1>b DEF BackoffCanceled, Working, Landed
  <2>. QED  BY <1>23, <1>a, <2>1, <1>d, <1>e, <1>h DEF BackoffCanceled, Beside, Working
<1>24. ASSUME NEW u \in Units, AbortTakes(u) PROVE Shrinks
  <2>1. u \in InFlight
    BY <1>24, <1>b DEF AbortTakes, Working, Landed
  <2>. QED  BY <1>24, <1>a, <2>1, <1>d, <1>e, <1>h DEF AbortTakes, Beside, Working
<1>25. ASSUME NEW u \in Units, BodyFails(u) PROVE Shrinks
  <2>1. u \in InFlight
    BY <1>25, <1>b DEF BodyFails, Working, Landed
  <2>. QED  BY <1>25, <1>a, <2>1, <1>d, <1>e, <1>h DEF BodyFails, AttemptFails, Beside, Working
<1>26. ASSUME NEW u \in Units, SkipsItself(u) PROVE Shrinks
  <2>1. u \in InFlight
    BY <1>26, <1>b DEF SkipsItself, Working, Landed
  <2>. QED  BY <1>26, <1>a, <2>1, <1>d, <1>e, <1>h DEF SkipsItself, Beside, Working
<1>27. ASSUME NEW u \in Units, NEW shape \in Shapes(Op(u)), Produces(u, shape) PROVE Shrinks
  <2>1. u \in InFlight
    BY <1>27, <1>b DEF Produces, Working
  <2>. QED  BY <1>27, <2>1, <1>h DEF Produces, Beside
<1>28. ASSUME NEW u \in Units, NEW s \in Settled, NEW shape \in Shapes(Op(u)),
      ChildRecords(u, s, shape)
      PROVE Shrinks
  BY <1>28, <1>d, <1>g DEF ChildRecords, Beside, Settled
<1>29. CASE UNCHANGED vars
  BY <1>29, <1>g
<1>30. ASSUME NEW u \in Units, ChildUnread(u) PROVE Shrinks
  <2>1. u \in InFlight
    BY <1>30, <1>b DEF ChildUnread, Working, Landed
  <2>. QED  BY <1>30, <1>a, <2>1, <1>d, <1>e, <1>h DEF ChildUnread, AttemptFails, Beside, Working
<1>. QED  BY <1>1, <1>2, <1>3, <1>4, <1>5, <1>6, <1>7, <1>8, <1>9, <1>10, <1>11, <1>12, <1>13,
      <1>14, <1>15, <1>16, <1>17, <1>18, <1>19, <1>20, <1>21, <1>22, <1>23, <1>24, <1>25, <1>26,
      <1>27, <1>28, <1>29, <1>30 DEF Next, RunTask, Body, Attempt

(* What is spawned and about to be spawned keeps within the cap, what is   *)
(* made within the ceiling; and all of it is finite.                       *)
BoundInv == /\ IsFiniteSet(InFlight) /\ IsFiniteSet(ready) /\ IsFiniteSet(Made)
            /\ Cardinality(InFlight) <= Cap
            /\ at = "spawn" => Cardinality(InFlight) + Cardinality(ready) <= Cap
            /\ Cardinality(Made) <= Ceiling

(* A run opens with nothing made, ready or in flight.                      *)
LEMMA InitBounds == Init => BoundInv
<1>. SUFFICES ASSUME Init PROVE BoundInv
  OBVIOUS
<1>1. InFlight = {} /\ ready = {}
  BY DEF Init, InFlight, Running, Landed, Working, Outcomes
<1>2. Made = {}
  <2>1. \A u \in Units : u \in pending => ~IsInstance(u)
    BY UnitFacts DEF Init
  <2>. QED  BY <2>1 DEF Init, Made
<1>. QED  BY <1>1, <1>2, FS_EmptySet, RunExecutionAssumption DEF BoundInv, Init

(* An expansion is finite: every parent is one that was made, or one op.   *)
LEMMA ExpansionFinite ==
    ASSUME TypeOK, IsFiniteSet(Made), NEW m \in Mapped
    PROVE  IsFiniteSet(Expanded(m))
<1>1. IsFiniteSet(Parents(m))
  <2>1. Instances(Over[m]) \subseteq Made
    BY DEF Instances, Made
  <2>2. IsFiniteSet(Instances(Over[m]))
    BY <2>1, FS_Subset
  <2>3. IsFiniteSet({Unit(Over[m])}) /\ IsFiniteSet({})
    BY FS_Singleton, FS_EmptySet
  <2>. QED  BY <2>2, <2>3 DEF Parents
<1> DEFINE from == Parents(m) \X (1..MaxFan)
           f == [x \in from |-> <<m, Append(Path(x[1]), x[2])>>]
           out == {f[x] : x \in from}
<1>2. IsFiniteSet(from)
  <2>1. MaxFan \in Int /\ 1 \in Int
    BY RunExecutionAssumption
  <2>2. IsFiniteSet(1..MaxFan)
    BY <2>1, FS_Interval
  <2>. QED  BY <1>1, <2>2, FS_Product
<1>3. f \in Surjection(from, out)
  BY DEF Surjection
<1>4. IsFiniteSet(out)
  <2>. HIDE DEF f, out, from
  <2>. QED  BY <1>2, <1>3, FS_Surjection
<1>5. Parents(m) \subseteq Units
  <2>1. Over[m] \in Ops
    BY RunExecutionAssumption DEF Mapped
  <2>. QED  BY <2>1, UnitFacts DEF Parents, Instances
<1>6. ASSUME NEW v \in Expanded(m) PROVE v \in out
  <2>1. PICK q \in Parents(m) : \E i \in 1..val[q] : Path(v) = Append(Path(q), i)
    BY DEF Expanded
  <2>5. PICK i \in 1..val[q] : Path(v) = Append(Path(q), i)
    BY <2>1
  <2>2. v = <<Op(v), Path(v)>> /\ Op(v) = m
    BY DEF Expanded, Units, Unit, Op, Path
  <2>3. i \in 1..MaxFan
    <3>1. val[q] \in {Scalar} \cup 0..MaxFan
      BY <1>5 DEF TypeOK
    <3>. QED  BY <3>1, RunExecutionAssumption DEF Scalar
  <2>4. <<q, i>> \in from /\ f[<<q, i>>] = v
    BY <2>5, <2>2, <2>3
  <2>. QED  BY <2>4
<1>. QED  BY <1>4, <1>6, FS_Subset

(* Every step keeps the bounds.                                            *)
LEMMA StepBounds == IInv /\ BoundInv /\ [Next]_vars => BoundInv'
<1>. SUFFICES ASSUME IInv, BoundInv, [Next]_vars PROVE BoundInv'
  OBVIOUS
<1>a. TypeOK /\ \A u \in Units : UnitInv(u)
  BY DEF IInv
<1>b. Cap \in Nat /\ Ceiling \in Nat
  BY RunExecutionAssumption
<1>c. /\ Cardinality(InFlight) \in Nat /\ Cardinality(ready) \in Nat /\ Cardinality(Made) \in Nat
  BY FS_CardinalityType DEF BoundInv
<1>d. \A u \in Units : u \in ready => u \notin InFlight
  BY <1>a DEF UnitInv, WaitsBlank, Blank, InFlight, Running, Landed, Working, Outcomes
<1>1. CASE Shrinks
  <2>1. /\ IsFiniteSet(InFlight') /\ Cardinality(InFlight') <= Cardinality(InFlight)
        /\ IsFiniteSet(ready') /\ Cardinality(ready') <= Cardinality(ready)
        /\ IsFiniteSet(Made') /\ Cardinality(Made') <= Cardinality(Made)
    BY <1>1, FS_Subset DEF Shrinks, BoundInv
  <2>2. Cardinality(InFlight') \in Nat /\ Cardinality(ready') \in Nat /\ Cardinality(Made') \in Nat
    BY <2>1, FS_CardinalityType
  <2>. QED  BY <1>1, <1>b, <1>c, <2>1, <2>2 DEF Shrinks, BoundInv
<1>2. CASE Pick
  <2>1. InFlight' = InFlight /\ Made' = Made /\ at = "settle"
    BY <1>2 DEF Pick, InFlight, Running, Landed, Made
  <2>2. ready' \subseteq ready /\ Cardinality(ready') = Least(Room, Cardinality(ready))
    BY <1>2 DEF Pick
  <2>3. IsFiniteSet(ready')
    BY <2>2, FS_Subset DEF BoundInv
  <2>4. Cardinality(InFlight) + Least(Room, Cardinality(ready)) <= Cap
    BY <1>b, <1>c DEF Least, Room, BoundInv
  <2>. QED  BY <1>b, <1>c, <2>1, <2>2, <2>3, <2>4 DEF BoundInv
<1>3. ASSUME NEW u \in Units, Admit(u) PROVE BoundInv'
  <2>1. InFlight' = InFlight /\ Made' = Made /\ at' = "settle" /\ ready' = ready \cup {u}
    BY <1>3 DEF Admit, InFlight, Running, Landed, Made
  <2>2. IsFiniteSet(ready')
    BY <2>1, FS_AddElement DEF BoundInv
  <2>. QED  BY <2>1, <2>2 DEF BoundInv
<1>4. ASSUME NEW u \in Units, Spawn(u) PROVE BoundInv'
  <2>1. /\ at = "spawn" /\ u \in ready /\ ready' = ready \ {u} /\ Made' = Made
        /\ u \notin InFlight /\ InFlight' = InFlight \cup {u}
    BY <1>4, <1>a, <1>d DEF Spawn, InFlight, Running, Landed, Made, Working, TypeOK
  <2>2. /\ IsFiniteSet(InFlight') /\ Cardinality(InFlight') = Cardinality(InFlight) + 1
        /\ IsFiniteSet(ready') /\ Cardinality(ready') = Cardinality(ready) - 1
    BY <2>1, FS_AddElement, FS_RemoveElement DEF BoundInv
  <2>3. Cardinality(ready') \in Nat
    BY <2>2, FS_CardinalityType
  <2>. QED  BY <1>b, <1>c, <2>1, <2>2, <2>3 DEF BoundInv
<1>5. ASSUME NEW u \in Units, Expand(u) PROVE BoundInv'
  <2>1. InFlight' = InFlight /\ ready' = ready /\ at' = "settle"
    BY <1>5 DEF Expand, InFlight, Running, Landed
  <2>2. Made' \subseteq Made \cup Expanded(Op(u))
    BY <1>5, <1>a DEF Expand, Made, TypeOK
  <2>3. IsFiniteSet(Expanded(Op(u)))
    BY <1>5, <1>a, RowFacts, ExpansionFinite DEF Expand, BoundInv
  <2>4. /\ IsFiniteSet(Made \cup Expanded(Op(u)))
        /\ Cardinality(Made \cup Expanded(Op(u)))
              = Cardinality(Made) + Cardinality(Expanded(Op(u))) - Cardinality(Made \cap Expanded(Op(u)))
    BY <2>3, FS_Union DEF BoundInv
  <2>5. IsFiniteSet(Made \cap Expanded(Op(u)))
    BY <2>3, FS_Subset
  <2>6. /\ Cardinality(Expanded(Op(u))) \in Nat
        /\ Cardinality(Made \cap Expanded(Op(u))) \in Nat
    BY <2>3, <2>5, FS_CardinalityType
  <2>7. Cardinality(Made \cup Expanded(Op(u))) <= Ceiling
    <3>1. Cardinality(Made) + Cardinality(Expanded(Op(u))) <= Ceiling
      BY <1>5 DEF Expand, Expandable
    <3>. QED  BY <3>1, <1>b, <1>c, <2>4, <2>6
  <2>8. IsFiniteSet(Made') /\ Cardinality(Made') <= Cardinality(Made \cup Expanded(Op(u)))
    BY <2>2, <2>4, FS_Subset
  <2>9. Cardinality(Made') \in Nat /\ Cardinality(Made \cup Expanded(Op(u))) \in Nat
    BY <2>8, <2>4, FS_CardinalityType
  <2>10. Cardinality(Made') <= Ceiling
    BY <2>7, <2>8, <2>9, <1>b
  <2>. QED  BY <2>1, <2>8, <2>10 DEF BoundInv
<1>. QED  BY <1>1, <1>2, <1>3, <1>4, <1>5, StepShrinks

(* However the graph grows and whatever is canceled, lost or let go of, no *)
(* more than max_parallel ops are in flight and no more than max_instances *)
(* are made.                                                               *)
THEOREM BoundsAlwaysHold == Spec => []BoundsHold
<1>1. Init => BoundInv
  BY InitBounds
<1>2. IInv /\ BoundInv /\ [Next \/ Done]_vars => BoundInv'
  BY StepBounds DEF Done
<1>3. BoundInv => BoundsHold
  BY DEF BoundInv, BoundsHold
<1>. QED  BY <1>1, <1>2, <1>3, InvariantHolds, PTL DEF Spec

-----------------------------------------------------------------------------
(* Fan-outs are all or nothing. *)

(* What a unit came to, it stays.                                          *)
LEMMA StatStays ==
    ASSUME IInv, [Next]_vars, NEW v \in Units, stat[v] # "none"
    PROVE  stat'[v] = stat[v]
<1>a. TypeOK /\ UnitInv(v) /\ \A u \in Units : UnitInv(u)
  BY DEF IInv
<1>b. v \notin pending \cup ready /\ task[v] \in {"idle", "joined"}
  BY <1>a DEF UnitInv, WaitsBlank, Blank, SettledRests
<1>c. "joined" \notin Outcomes /\ "idle" \notin Outcomes
  BY DEF Outcomes
<1>d. ASSUME NEW u \in Units, NEW s, NEW r, StopsHere(u, s, r), u # v PROVE stat'[v] = stat[v]
  BY <1>d, <1>b, CutFacts, UnitFacts DEF StopsHere
<1>1. CASE Open
  BY <1>1 DEF Open
<1>2. CASE OpenRefused
  BY <1>2 DEF OpenRefused
<1>3. CASE OpenCanceled
  BY <1>3 DEF OpenCanceled
<1>4. CASE Pick
  BY <1>4 DEF Pick
<1>5. CASE Spawned
  BY <1>5 DEF Spawned
<1>6. CASE SeeCancel
  BY <1>6 DEF SeeCancel
<1>7. CASE NothingLeft
  BY <1>7 DEF NothingLeft
<1>8. CASE DrainEnds
  BY <1>8 DEF DrainEnds
<1>9. CASE Finish
  BY <1>9 DEF Finish
<1>10. CASE LetGo
  BY <1>10 DEF LetGo
<1>11. CASE Cancel
  BY <1>11 DEF Cancel
<1>12. ASSUME NEW u \in Units, Decline(u) PROVE stat'[v] = stat[v]
  BY <1>12, <1>b, CutFacts, UnitFacts DEF Decline, Ready
<1>13. ASSUME NEW u \in Units, Admit(u) PROVE stat'[v] = stat[v]
  BY <1>13 DEF Admit
<1>14. ASSUME NEW u \in Units, Expand(u) PROVE stat'[v] = stat[v]
  BY <1>14, <1>a, <1>b DEF Expand, Ready, TypeOK
<1>15. ASSUME NEW u \in Units, ExpandRefused(u) PROVE stat'[v] = stat[v]
  BY <1>15, <1>b, CutFacts, UnitFacts DEF ExpandRefused, Ready
<1>16. ASSUME NEW u \in Units, Spawn(u) PROVE stat'[v] = stat[v]
  BY <1>16 DEF Spawn
<1>17. ASSUME NEW u \in Units, Unreadable(u) PROVE stat'[v] = stat[v]
  BY <1>17, <1>b, <1>d DEF Unreadable
<1>18. ASSUME NEW u \in Units, JoinSuccess(u) PROVE stat'[v] = stat[v]
  BY <1>18, <1>b, <1>c DEF JoinSuccess, Joins, Landed, Collects
<1>19. ASSUME NEW u \in Units, JoinFailure(u) PROVE stat'[v] = stat[v]
  BY <1>19, <1>b, <1>c, <1>d DEF JoinFailure, Joins, Landed
<1>20. ASSUME NEW u \in Units, JoinSkip(u) PROVE stat'[v] = stat[v]
  BY <1>20, <1>b, <1>c, <1>d DEF JoinSkip, Joins, Landed
<1>21. ASSUME NEW u \in Units, JoinKilled(u) PROVE stat'[v] = stat[v]
  BY <1>21 DEF JoinKilled
<1>22. ASSUME NEW u \in Units, DrainJoin(u) PROVE stat'[v] = stat[v]
  BY <1>22 DEF DrainJoin
<1>23. ASSUME NEW u \in Units, OpStart(u) PROVE stat'[v] = stat[v]
  BY <1>23 DEF OpStart, Beside
<1>24. ASSUME NEW u \in Units, ChildExits(u) PROVE stat'[v] = stat[v]
  BY <1>24 DEF ChildExits, Beside
<1>25. ASSUME NEW u \in Units, ChildTold(u) PROVE stat'[v] = stat[v]
  BY <1>25 DEF ChildTold, Beside
<1>26. ASSUME NEW u \in Units, ChildReaped(u) PROVE stat'[v] = stat[v]
  BY <1>26 DEF ChildReaped, Beside
<1>27. ASSUME NEW u \in Units, BackoffCanceled(u) PROVE stat'[v] = stat[v]
  BY <1>27 DEF BackoffCanceled, Beside
<1>28. ASSUME NEW u \in Units, AbortTakes(u) PROVE stat'[v] = stat[v]
  BY <1>28 DEF AbortTakes, Beside
<1>29. ASSUME NEW u \in Units, BodyFails(u) PROVE stat'[v] = stat[v]
  BY <1>29 DEF BodyFails, Beside
<1>30. ASSUME NEW u \in Units, SkipsItself(u) PROVE stat'[v] = stat[v]
  BY <1>30 DEF SkipsItself, Beside
<1>31. ASSUME NEW u \in Units, NEW shape \in Shapes(Op(u)),
      Produces(u, shape) PROVE stat'[v] = stat[v]
  BY <1>31 DEF Produces, Beside
<1>32. ASSUME NEW u \in Units, NEW s \in Settled, NEW shape \in Shapes(Op(u)),
      ChildRecords(u, s, shape)
      PROVE stat'[v] = stat[v]
  BY <1>32 DEF ChildRecords, Beside
<1>33. CASE UNCHANGED vars
  BY <1>33
<1>34. ASSUME NEW u \in Units, ChildUnread(u) PROVE stat'[v] = stat[v]
  BY <1>34 DEF ChildUnread, Beside
<1>. QED  BY <1>1, <1>2, <1>3, <1>4, <1>5, <1>6, <1>7, <1>8, <1>9, <1>10, <1>11, <1>12, <1>13,
      <1>14, <1>15, <1>16, <1>17, <1>18, <1>19, <1>20, <1>21, <1>22, <1>23, <1>24, <1>25, <1>26,
      <1>27, <1>28, <1>29, <1>30, <1>31, <1>32, <1>33, <1>34 DEF Next, RunTask, Body, Attempt

(* A rule that said yes of settled deps goes on saying it.                 *)
LetIn(o) == (\A d \in Deps[o] : stat[Unit(d)] # "none") /\ Admits(o)

(* Nor does any step take that yes back.                                   *)
LEMMA LetInStays ==
    ASSUME IInv, [Next]_vars, NEW o \in Ops, LetIn(o)
    PROVE  LetIn(o)'
<1>1. \A d \in Deps[o] : Unit(d) \in Units
  BY UnitFacts, RunExecutionAssumption
<1>2. \A d \in Deps[o] : stat'[Unit(d)] = stat[Unit(d)]
  BY <1>1, StatStays DEF LetIn
<1>. QED  BY <1>2 DEF LetIn, Admits, AdmitsOf

(* What is on its way was let in by its rule.                              *)
OnItsWay(v) == v \in ready \/ v \in InFlight \/ (v \in pending /\ IsInstance(v))

FanInv ==
    /\ \A v \in Units : OnItsWay(v) => LetIn(Op(v))
    /\ \A m \in Mapped :
         /\ stat[Unit(m)] = "success" => \A v \in Instances(m) : stat[v] = "success"
         /\ (\E v \in Instances(m) : stat[v] \in {"failed", "skipped"})
               => stat[Unit(m)] \in {"failed", "skipped"}

(* Only its rule sets a unit on its way.                                   *)
LEMMA StepLetIn ==
    ASSUME IInv, FanInv, [Next]_vars, NEW v \in Units, OnItsWay(v)'
    PROVE  LetIn(Op(v))'
<1>a. TypeOK /\ \A u \in Units : UnitInv(u)
  BY DEF IInv
<1>b. Op(v) \in Ops
  BY UnitFacts
<1>c. IsInstance(v)' = IsInstance(v)
  BY DEF IsInstance, Path
<1>d. SUFFICES LetIn(Op(v))
  BY <1>b, LetInStays
<1>e. OnItsWay(v) => LetIn(Op(v))
  BY DEF FanInv
<1>1. CASE Shrinks
  BY <1>1, <1>c, <1>e DEF Shrinks, OnItsWay
<1>2. CASE Pick
  <2>1. InFlight' = InFlight
    BY <1>2 DEF Pick, InFlight, Running, Landed
  <2>. QED  BY <1>2, <2>1, <1>c, <1>e DEF Pick, OnItsWay
<1>3. ASSUME NEW u \in Units, Admit(u) PROVE LetIn(Op(v))
  <2>1. InFlight' = InFlight
    BY <1>3 DEF Admit, InFlight, Running, Landed
  <2>. QED  BY <1>3, <2>1, <1>c, <1>e DEF Admit, Ready, OnItsWay, LetIn
<1>4. ASSUME NEW u \in Units, Spawn(u) PROVE LetIn(Op(v))
  <2>1. InFlight' \subseteq InFlight \cup {u}
    BY <1>4, <1>a DEF Spawn, InFlight, Running, Landed, TypeOK
  <2>. QED  BY <1>4, <2>1, <1>c, <1>e DEF Spawn, OnItsWay
<1>5. ASSUME NEW u \in Units, Expand(u) PROVE LetIn(Op(v))
  <2>1. InFlight' = InFlight
    BY <1>5 DEF Expand, InFlight, Running, Landed
  <2>. QED  BY <1>5, <2>1, <1>c, <1>e DEF Expand, Ready, Expanded, OnItsWay, LetIn
<1>. QED  BY <1>1, <1>2, <1>3, <1>4, <1>5, StepShrinks

(* The instances of a mapped op change only when it expands, and then none *)
(* of them has come to anything.                                           *)
LEMMA StepInstances ==
    ASSUME IInv, [Next]_vars, NEW m \in Mapped
    PROVE  \/ Instances(m)' \subseteq Instances(m)
           \/ /\ stat'[Unit(m)] = "none"
              /\ \A v \in Instances(m)' : stat'[v] = "none"
<1>a. TypeOK /\ \A u \in Units : UnitInv(u)
  BY DEF IInv
<1>b. Instances(m) = {u \in Units : Op(u) = m /\ IsInstance(u) /\ row[u] # "absent"}
  BY DEF Instances
<1>c. Instances(m)' = {u \in Units : Op(u) = m /\ IsInstance(u) /\ row'[u] # "absent"}
  BY DEF Instances, Op, IsInstance, Path
<1>1. CASE Made' \subseteq Made
  <2>1. Made' = {u \in Units : IsInstance(u) /\ row'[u] # "absent"}
    BY DEF Made, IsInstance, Path
  <2>. QED  BY <1>1, <1>b, <1>c, <2>1 DEF Made
<1>2. CASE Pick
  BY <1>2, <1>b, <1>c DEF Pick
<1>3. ASSUME NEW u \in Units, Admit(u) \/ Spawn(u) PROVE Instances(m)' \subseteq Instances(m)
  BY <1>3, <1>b, <1>c DEF Admit, Spawn
<1>4. ASSUME NEW u \in Units, Expand(u)
      PROVE  \/ Instances(m)' \subseteq Instances(m)
             \/ /\ stat'[Unit(m)] = "none"
                /\ \A v \in Instances(m)' : stat'[v] = "none"
  <2>1. u = Unit(Op(u)) /\ u \in pending
    BY <1>4, RowFacts DEF Expand, Ready
  <2>2. CASE Op(u) # m
    BY <1>4, <1>a, <1>b, <1>c, <2>2 DEF Expand, Expanded, TypeOK
  <2>3. CASE Op(u) = m
    <3>1. u = Unit(m)
      BY <2>1, <2>3
    <3>2. \A v \in Units : (Op(v) = m /\ IsInstance(v)) => stat[v] = "none" /\ v # Unit(m)
      BY <1>a, <2>1, <3>1, UnitFacts DEF UnitInv, MappedBlank, Blank, Mapped
    <3>3. stat[u] = "none"
      BY <1>a, <2>1 DEF UnitInv, WaitsBlank, Blank
    <3>4. \A v \in Instances(m)' : stat'[v] = "none"
      BY <1>4, <1>a, <1>c, <3>1, <3>2 DEF Expand, TypeOK
    <3>5. ASSUME NEW v \in Instances(m)' PROVE stat'[u] = "none"
      <4>1. row[v] = "absent" /\ row'[v] # "absent" /\ v \in Units
        BY <1>a, <1>c, <2>1, <3>1 DEF UnitInv, MappedBlank, Mapped
      <4>2. v \in Expanded(Op(u))
        BY <1>4, <4>1 DEF Expand
      <4>. QED  BY <1>4, <3>3, <4>2 DEF Expand
    <3>. QED  BY <3>1, <3>4, <3>5
  <2>. QED  BY <2>2, <2>3
<1>. QED  BY <1>1, <1>2, <1>3, <1>4, StepShrinks DEF Shrinks

(* An instance that stops stops its mapped op, unless that has stopped.    *)
LEMMA StepStops ==
    ASSUME IInv, FanInv, [Next]_vars, NEW m \in Mapped, NEW v \in Instances(m),
           stat[v] = "none", stat'[v] \in {"failed", "skipped"}
    PROVE  stat'[Unit(m)] \in {"failed", "skipped"}
<1>a. TypeOK /\ \A u \in Units : UnitInv(u)
  BY DEF IInv
<1>b. v \in Units /\ Op(v) = m /\ IsInstance(v) /\ HasRow(v) /\ Unit(m) \in Units /\ ~IsInstance(Unit(m))
  BY UnitFacts, RowFacts DEF Instances, Mapped
<1>c. stat[Unit(m)] # "success"
  BY DEF FanInv
<1>d. stat[Unit(m)] \in {"none", "failed", "skipped"}
  BY <1>a, <1>b, <1>c DEF TypeOK, Settled
<1>e. ASSUME NEW u \in Units, NEW s \in {"failed", "skipped"}, NEW r, StopsHere(u, s, r)
      PROVE  stat'[Unit(m)] \in {"failed", "skipped"}
  <2>1. u = v
    BY <1>b, <1>e, CutFacts, UnitFacts DEF StopsHere
  <2>. QED  BY <1>b, <1>d, <1>e, <2>1 DEF StopsHere
<1>1. CASE Open
  BY <1>1 DEF Open
<1>2. CASE OpenRefused
  BY <1>2 DEF OpenRefused
<1>3. CASE OpenCanceled
  BY <1>3 DEF OpenCanceled
<1>4. CASE Pick
  BY <1>4 DEF Pick
<1>5. CASE Spawned
  BY <1>5 DEF Spawned
<1>6. CASE SeeCancel
  BY <1>6 DEF SeeCancel
<1>7. CASE NothingLeft
  BY <1>7 DEF NothingLeft
<1>8. CASE DrainEnds
  BY <1>8 DEF DrainEnds
<1>9. CASE Finish
  BY <1>9 DEF Finish
<1>10. CASE LetGo
  BY <1>10 DEF LetGo
<1>11. CASE Cancel
  BY <1>11 DEF Cancel
<1>12. ASSUME NEW u \in Units, Decline(u) PROVE stat'[Unit(m)] \in {"failed", "skipped"}
  <2>1. v \in {u} \cup Cut(Op(u))
    BY <1>12, <1>b DEF Decline
  <2>2. u = v
    BY <1>b, <2>1, CutFacts, UnitFacts
  <2>3. LetIn(Op(v))
    BY <1>12, <1>b, <2>2 DEF Decline, Ready, FanInv, OnItsWay
  <2>. QED  BY <1>12, <2>2, <2>3 DEF Decline, LetIn
<1>13. ASSUME NEW u \in Units, Admit(u)
      PROVE stat'[Unit(m)] \in {"failed", "skipped"}
  BY <1>13 DEF Admit
<1>14. ASSUME NEW u \in Units, Expand(u)
      PROVE stat'[Unit(m)] \in {"failed", "skipped"}
  BY <1>14, <1>a, <1>b DEF Expand, TypeOK
<1>15. ASSUME NEW u \in Units, ExpandRefused(u)
      PROVE stat'[Unit(m)] \in {"failed", "skipped"}
  BY <1>15, <1>b, CutFacts, UnitFacts DEF ExpandRefused
<1>16. ASSUME NEW u \in Units, Spawn(u)
      PROVE stat'[Unit(m)] \in {"failed", "skipped"}
  BY <1>16 DEF Spawn
<1>17. ASSUME NEW u \in Units, Unreadable(u)
      PROVE stat'[Unit(m)] \in {"failed", "skipped"}
  BY <1>17, <1>e DEF Unreadable
<1>18. ASSUME NEW u \in Units, JoinSuccess(u)
      PROVE stat'[Unit(m)] \in {"failed", "skipped"}
  BY <1>18, <1>b DEF JoinSuccess, Collects
<1>19. ASSUME NEW u \in Units, JoinFailure(u)
      PROVE stat'[Unit(m)] \in {"failed", "skipped"}
  BY <1>19, <1>e DEF JoinFailure
<1>20. ASSUME NEW u \in Units, JoinSkip(u)
      PROVE stat'[Unit(m)] \in {"failed", "skipped"}
  BY <1>20, <1>e DEF JoinSkip
<1>21. ASSUME NEW u \in Units, JoinKilled(u)
      PROVE stat'[Unit(m)] \in {"failed", "skipped"}
  BY <1>21 DEF JoinKilled
<1>22. ASSUME NEW u \in Units, DrainJoin(u)
      PROVE stat'[Unit(m)] \in {"failed", "skipped"}
  BY <1>22 DEF DrainJoin
<1>23. ASSUME NEW u \in Units, OpStart(u)
      PROVE stat'[Unit(m)] \in {"failed", "skipped"}
  BY <1>23 DEF OpStart, Beside
<1>24. ASSUME NEW u \in Units, ChildExits(u)
      PROVE stat'[Unit(m)] \in {"failed", "skipped"}
  BY <1>24 DEF ChildExits, Beside
<1>25. ASSUME NEW u \in Units, ChildTold(u)
      PROVE stat'[Unit(m)] \in {"failed", "skipped"}
  BY <1>25 DEF ChildTold, Beside
<1>26. ASSUME NEW u \in Units, ChildReaped(u)
      PROVE stat'[Unit(m)] \in {"failed", "skipped"}
  BY <1>26 DEF ChildReaped, Beside
<1>27. ASSUME NEW u \in Units, BackoffCanceled(u)
      PROVE stat'[Unit(m)] \in {"failed", "skipped"}
  BY <1>27 DEF BackoffCanceled, Beside
<1>28. ASSUME NEW u \in Units, AbortTakes(u)
      PROVE stat'[Unit(m)] \in {"failed", "skipped"}
  BY <1>28 DEF AbortTakes, Beside
<1>29. ASSUME NEW u \in Units, BodyFails(u)
      PROVE stat'[Unit(m)] \in {"failed", "skipped"}
  BY <1>29 DEF BodyFails, Beside
<1>30. ASSUME NEW u \in Units, SkipsItself(u)
      PROVE stat'[Unit(m)] \in {"failed", "skipped"}
  BY <1>30 DEF SkipsItself, Beside
<1>31. ASSUME NEW u \in Units, NEW shape \in Shapes(Op(u)), Produces(u, shape)
      PROVE stat'[Unit(m)] \in {"failed", "skipped"}
  BY <1>31 DEF Produces, Beside
<1>32. ASSUME NEW u \in Units, NEW s \in Settled, NEW shape \in Shapes(Op(u)),
      ChildRecords(u, s, shape)
      PROVE stat'[Unit(m)] \in {"failed", "skipped"}
  BY <1>32 DEF ChildRecords, Beside
<1>33. CASE UNCHANGED vars
  BY <1>33
<1>34. ASSUME NEW u \in Units, ChildUnread(u)
      PROVE stat'[Unit(m)] \in {"failed", "skipped"}
  BY <1>34 DEF ChildUnread, Beside
<1>. QED  BY <1>1, <1>2, <1>3, <1>4, <1>5, <1>6, <1>7, <1>8, <1>9, <1>10, <1>11, <1>12, <1>13,
      <1>14, <1>15, <1>16, <1>17, <1>18, <1>19, <1>20, <1>21, <1>22, <1>23, <1>24, <1>25, <1>26,
      <1>27, <1>28, <1>29, <1>30, <1>31, <1>32, <1>33, <1>34 DEF Next, RunTask, Body, Attempt

(* A mapped op that succeeds has the success of each of its instances.     *)
LEMMA StepCollects ==
    ASSUME IInv, [Next]_vars, NEW m \in Mapped, NEW v \in Instances(m),
           stat[Unit(m)] = "none", stat'[Unit(m)] = "success"
    PROVE  stat'[v] = "success"
<1>a. TypeOK /\ \A u \in Units : UnitInv(u)
  BY DEF IInv
<1>b. /\ v \in Units /\ Op(v) = m /\ IsInstance(v) /\ row[v] # "absent"
      /\ Unit(m) \in Units /\ Op(Unit(m)) = m /\ ~IsInstance(Unit(m)) /\ ~HasRow(Unit(m))
  BY UnitFacts, RowFacts DEF Instances, Mapped
<1>c. ASSUME NEW u \in Units, NEW s \in {"failed", "skipped"}, NEW r, StopsHere(u, s, r)
      PROVE  FALSE
  BY <1>b, <1>c DEF StopsHere
<1>1. CASE Open
  BY <1>1 DEF Open
<1>2. CASE OpenRefused
  BY <1>2 DEF OpenRefused
<1>3. CASE OpenCanceled
  BY <1>3 DEF OpenCanceled
<1>4. CASE Pick
  BY <1>4 DEF Pick
<1>5. CASE Spawned
  BY <1>5 DEF Spawned
<1>6. CASE SeeCancel
  BY <1>6 DEF SeeCancel
<1>7. CASE NothingLeft
  BY <1>7 DEF NothingLeft
<1>8. CASE DrainEnds
  BY <1>8 DEF DrainEnds
<1>9. CASE Finish
  BY <1>9 DEF Finish
<1>10. CASE LetGo
  BY <1>10 DEF LetGo
<1>11. CASE Cancel
  BY <1>11 DEF Cancel
<1>12. ASSUME NEW u \in Units, Decline(u) PROVE stat'[v] = "success"
  BY <1>12, <1>b DEF Decline
<1>13. ASSUME NEW u \in Units, Admit(u) PROVE stat'[v] = "success"
  BY <1>13 DEF Admit
<1>14. ASSUME NEW u \in Units, ExpandRefused(u) PROVE stat'[v] = "success"
  BY <1>14, <1>b DEF ExpandRefused
<1>15. ASSUME NEW u \in Units, Spawn(u) PROVE stat'[v] = "success"
  BY <1>15 DEF Spawn
<1>16. ASSUME NEW u \in Units, Unreadable(u) PROVE stat'[v] = "success"
  BY <1>16, <1>c DEF Unreadable
<1>17. ASSUME NEW u \in Units, JoinFailure(u) PROVE stat'[v] = "success"
  BY <1>17, <1>c DEF JoinFailure
<1>18. ASSUME NEW u \in Units, JoinSkip(u) PROVE stat'[v] = "success"
  BY <1>18, <1>c DEF JoinSkip
<1>19. ASSUME NEW u \in Units, JoinKilled(u) PROVE stat'[v] = "success"
  BY <1>19 DEF JoinKilled
<1>20. ASSUME NEW u \in Units, DrainJoin(u) PROVE stat'[v] = "success"
  BY <1>20 DEF DrainJoin
<1>21. ASSUME NEW u \in Units, OpStart(u) PROVE stat'[v] = "success"
  BY <1>21 DEF OpStart, Beside
<1>22. ASSUME NEW u \in Units, ChildExits(u) PROVE stat'[v] = "success"
  BY <1>22 DEF ChildExits, Beside
<1>23. ASSUME NEW u \in Units, ChildTold(u) PROVE stat'[v] = "success"
  BY <1>23 DEF ChildTold, Beside
<1>24. ASSUME NEW u \in Units, ChildReaped(u) PROVE stat'[v] = "success"
  BY <1>24 DEF ChildReaped, Beside
<1>25. ASSUME NEW u \in Units, BackoffCanceled(u) PROVE stat'[v] = "success"
  BY <1>25 DEF BackoffCanceled, Beside
<1>26. ASSUME NEW u \in Units, AbortTakes(u) PROVE stat'[v] = "success"
  BY <1>26 DEF AbortTakes, Beside
<1>27. ASSUME NEW u \in Units, BodyFails(u) PROVE stat'[v] = "success"
  BY <1>27 DEF BodyFails, Beside
<1>28. ASSUME NEW u \in Units, SkipsItself(u) PROVE stat'[v] = "success"
  BY <1>28 DEF SkipsItself, Beside
<1>29. ASSUME NEW u \in Units, Expand(u) PROVE stat'[v] = "success"
  <2>1. u = Unit(m)
    BY <1>29, <1>a, <1>b DEF Expand, TypeOK
  <2>. QED  BY <1>29, <1>a, <1>b, <2>1 DEF Expand, Ready, UnitInv, MappedBlank
<1>30. ASSUME NEW u \in Units, JoinSuccess(u) PROVE stat'[v] = "success"
  <2>1. u # Unit(m)
    BY <1>30, <1>a, <1>b DEF JoinSuccess, UnitInv, MappedBlank
  <2>2. Op(u) = m /\ \A w \in Instances(m) \ {u} : stat[w] = "success"
    BY <1>30, <1>b, <2>1, UnitFacts DEF JoinSuccess, Collects
  <2>. QED  BY <1>30, <1>b, <2>2 DEF JoinSuccess, Collects
<1>31. ASSUME NEW u \in Units, NEW shape \in Shapes(Op(u)),
      Produces(u, shape) PROVE stat'[v] = "success"
  BY <1>31 DEF Produces, Beside
<1>32. ASSUME NEW u \in Units, NEW s \in Settled, NEW shape \in Shapes(Op(u)),
      ChildRecords(u, s, shape)
      PROVE stat'[v] = "success"
  BY <1>32 DEF ChildRecords, Beside
<1>33. CASE UNCHANGED vars
  BY <1>33
<1>34. ASSUME NEW u \in Units, ChildUnread(u) PROVE stat'[v] = "success"
  BY <1>34 DEF ChildUnread, Beside
<1>. QED  BY <1>1, <1>2, <1>3, <1>4, <1>5, <1>6, <1>7, <1>8, <1>9, <1>10, <1>11, <1>12, <1>13,
      <1>14, <1>15, <1>16, <1>17, <1>18, <1>19, <1>20, <1>21, <1>22, <1>23, <1>24, <1>25, <1>26,
      <1>27, <1>28, <1>29, <1>30, <1>31, <1>32, <1>33, <1>34 DEF Next, RunTask, Body, Attempt

(* A fan-out begins with nothing made and nothing on its way.              *)
LEMMA InitFan == Init => FanInv
<1>. SUFFICES ASSUME Init PROVE FanInv
  OBVIOUS
<1>1. \A v \in Units : v \in pending => ~IsInstance(v)
  BY UnitFacts DEF Init
<1>2. \A v \in Units : ~OnItsWay(v)
  BY <1>1 DEF Init, OnItsWay, InFlight, Running, Landed, Working, Outcomes
<1>3. \A m \in Mapped : Instances(m) = {}
  BY <1>1 DEF Init, Instances
<1>. QED  BY <1>2, <1>3 DEF FanInv

(* Every step keeps the fan-outs whole.                                    *)
LEMMA StepFan == IInv /\ FanInv /\ [Next]_vars => FanInv'
<1>. SUFFICES ASSUME IInv, FanInv, [Next]_vars PROVE FanInv'
  OBVIOUS
<1>1. \A v \in Units : OnItsWay(v)' => LetIn(Op(v))'
  BY StepLetIn
<1>2. ASSUME NEW m \in Mapped
      PROVE  /\ stat'[Unit(m)] = "success" => \A v \in Instances(m)' : stat'[v] = "success"
             /\ (\E v \in Instances(m)' : stat'[v] \in {"failed", "skipped"})
                   => stat'[Unit(m)] \in {"failed", "skipped"}
  <2>1. CASE Instances(m)' \subseteq Instances(m)
    <3>1. Unit(m) \in Units /\ Instances(m) \subseteq Units
      BY UnitFacts DEF Instances, Mapped
    <3>2. ASSUME NEW v \in Instances(m)', stat'[Unit(m)] = "success" PROVE stat'[v] = "success"
      <4>1. v \in Instances(m) /\ v \in Units
        BY <2>1, <3>1
      <4>2. CASE stat[Unit(m)] = "none"
        BY <3>2, <4>1, <4>2, StepCollects
      <4>3. CASE stat[Unit(m)] # "none"
        <5>1. stat[Unit(m)] = "success"
          BY <3>1, <3>2, <4>3, StatStays
        <5>2. stat[v] = "success"
          BY <4>1, <5>1 DEF FanInv
        <5>. QED  BY <4>1, <5>2, StatStays
      <4>. QED  BY <4>2, <4>3
    <3>3. ASSUME NEW v \in Instances(m)', stat'[v] \in {"failed", "skipped"}
          PROVE  stat'[Unit(m)] \in {"failed", "skipped"}
      <4>1. v \in Instances(m) /\ v \in Units
        BY <2>1, <3>1
      <4>2. CASE stat[v] = "none"
        BY <3>3, <4>1, <4>2, StepStops
      <4>3. CASE stat[v] # "none"
        <5>1. stat[v] \in {"failed", "skipped"}
          BY <3>3, <4>1, <4>3, StatStays
        <5>2. stat[Unit(m)] \in {"failed", "skipped"}
          BY <4>1, <5>1 DEF FanInv
        <5>3. stat[Unit(m)] # "none"
          BY <5>2
        <5>. QED  BY <3>1, <5>2, <5>3, StatStays
      <4>. QED  BY <4>2, <4>3
    <3>. QED  BY <3>2, <3>3
  <2>2. CASE stat'[Unit(m)] = "none" /\ \A v \in Instances(m)' : stat'[v] = "none"
    BY <2>2
  <2>. QED  BY <2>1, <2>2, StepInstances
<1>. QED  BY <1>1, <1>2 DEF FanInv

(* A mapped op succeeds with all of its instances, stops with the first    *)
(* that stops, and what needs it to succeed runs on a whole array.         *)
THEOREM FanOutsAreAllOrNothing == Spec => []AllOrNothing
<1>1. Init => FanInv
  BY InitFan
<1>2. IInv /\ FanInv /\ [Next \/ Done]_vars => FanInv'
  BY StepFan DEF Done
<1>3. IInv /\ FanInv => AllOrNothing
  <2>. SUFFICES ASSUME IInv, FanInv, NEW m \in Mapped
                PROVE  /\ stat[Unit(m)] = "success" => \A v \in Instances(m) : row[v] = "success"
                       /\ (\E v \in Instances(m) : stat[v] \in {"failed", "skipped"})
                             => stat[Unit(m)] \in {"failed", "skipped"}
                       /\ \A u \in InFlight : (m \in Deps[Op(u)] /\ Rule[Op(u)] = "all_succeeded")
                             => \A v \in Instances(m) : row[v] = "success"
    BY DEF AllOrNothing
  <2>1. \A v \in Instances(m) : stat[v] = "success" => row[v] = "success"
    BY DEF Instances, IInv, UnitInv, Agrees
  <2>2. stat[Unit(m)] = "success" => \A v \in Instances(m) : row[v] = "success"
    BY <2>1 DEF FanInv
  <2>3. ASSUME NEW u \in InFlight, m \in Deps[Op(u)], Rule[Op(u)] = "all_succeeded"
        PROVE  stat[Unit(m)] = "success"
    <3>1. u \in Units /\ OnItsWay(u)
      BY DEF InFlight, Running, Landed, OnItsWay
    <3>2. Admits(Op(u))
      BY <3>1 DEF FanInv, LetIn
    <3>. QED  BY <2>3, <3>2 DEF Admits, AdmitsOf
  <2>. QED  BY <2>2, <2>3 DEF FanInv
<1>. QED  BY <1>1, <1>2, <1>3, InvariantHolds, PTL DEF Spec

-----------------------------------------------------------------------------
(* The graph. *)

(* Some op of any that are left waits for none of them.                    *)
LEMMA MinimalOp ==
    ASSUME NEW S \in SUBSET Ops, S # {}
    PROVE  \E o \in S : Deps[o] \cap S = {}
BY RunExecutionAssumption DEF Acyclic

(* What is cut off below an op lies in every set the walk stays in,        *)
LEMMA WalkLeast == \A o \in Ops : \A S \in SUBSET Ops : WalkStays(o, S) => CutOff[o] \subseteq S
BY DEF CutOff

(* is one of those sets,                                                   *)
LEMMA WalkCloses == \A o \in Ops : CutOff[o] \subseteq Ops /\ WalkStays(o, CutOff[o])
<1>. SUFFICES ASSUME NEW o \in Ops PROVE CutOff[o] \subseteq Ops /\ WalkStays(o, CutOff[o])
  OBVIOUS
<1>1. CutOff[o] \subseteq Ops
  BY DEF CutOff
<1>2. ASSUME NEW d \in Ops, Rule[d] = "all_succeeded", Deps[d] \cap (CutOff[o] \cup {o}) # {},
             NEW S \in SUBSET Ops, WalkStays(o, S)
      PROVE  d \in S
  <2>1. CutOff[o] \subseteq S
    BY <1>2, WalkLeast
  <2>. QED  BY <1>2, <2>1 DEF WalkStays
<1>. QED  BY <1>1, <1>2 DEF WalkStays, CutOff

(* and holds only ops that need a dep which is cut off too, or is the op.  *)
LEMMA WalkReaches ==
    ASSUME NEW o \in Ops, NEW d \in CutOff[o]
    PROVE  Rule[d] = "all_succeeded" /\ \E e \in Deps[d] : e = o \/ e \in CutOff[o]
<1> DEFINE S == {e \in CutOff[o] : /\ Rule[e] = "all_succeeded"
                                   /\ Deps[e] \cap (CutOff[o] \cup {o}) # {}}
<1>1. S \subseteq CutOff[o] /\ S \in SUBSET Ops
  BY WalkCloses
<1>2. WalkStays(o, S)
  <2>. SUFFICES ASSUME NEW e \in Ops, Rule[e] = "all_succeeded", Deps[e] \cap (S \cup {o}) # {}
                PROVE  e \in S
    BY DEF WalkStays
  <2>1. Deps[e] \cap (CutOff[o] \cup {o}) # {}
    BY <1>1
  <2>2. e \in CutOff[o]
    BY <2>1, WalkCloses DEF WalkStays
  <2>. QED  BY <2>1, <2>2
<1>3. d \in S
  BY <1>1, <1>2, WalkLeast
<1>. QED  BY <1>3

-----------------------------------------------------------------------------
(* Every op is accounted for. *)

Loop == at \in {"opening", "settle", "spawn", "select"}

(* What an op's own task or its child does: nothing the run's task keeps,  *)
(* but for the row of a unit in flight.                                    *)
Inside(u) == /\ UNCHANGED Beside /\ InFlight' = InFlight /\ u \in InFlight
             /\ \A v \in Units \ {u} : row'[v] = row[v]
             /\ row[u] # "absent" /\ row'[u] # "absent"
             /\ row'[u] = "canceled" => row[u] = "canceled"
             /\ row'[u] \in {"pending", "running"}
                   => row[u] \in {"pending", "running"} \/ at # "closing"

LEMMA StepInside ==
    ASSUME IInv, NEW u \in Units, Body(u) \/ Attempt(u)
    PROVE  Inside(u)
<1>a. TypeOK /\ UnitInv(u) /\ OnlyCanceledDrains
  BY DEF IInv
<1>b. InFlight = {v \in Units : task[v] \in Working \cup Outcomes}
  BY DEF InFlight, Running, Landed
<1>c. InFlight' = {v \in Units : task'[v] \in Working \cup Outcomes}
  BY DEF InFlight, Running, Landed
<1>d. ASSUME NEW s \in Working \cup Outcomes, Goes(u, s), task[u] \in Working, UNCHANGED Beside,
             row' = row \/ (row' = [row EXCEPT ![u] = "running"] /\ at # "closing")
      PROVE  Inside(u)
  <2>1. InFlight' = InFlight /\ u \in InFlight
    BY <1>a, <1>b, <1>c, <1>d DEF Goes, TypeOK
  <2>2. row[u] # "absent"
    BY <1>a, <1>d DEF UnitInv, HasItsRow, Working
  <2>. QED  BY <1>a, <1>d, <2>1, <2>2 DEF Inside, TypeOK
<1>e. ASSUME AttemptFails(u), task[u] \in Working, UNCHANGED Beside, UNCHANGED row
      PROVE  Inside(u)
  <2>1. \E s \in Working \cup Outcomes : Goes(u, s)
    BY <1>e DEF AttemptFails, Working, Outcomes
  <2>. QED  BY <1>d, <1>e, <2>1
<1>1. CASE OpStart(u)
  <2>1. at # "closing"
    BY <1>1, <1>a, <1>b DEF OpStart, OnlyCanceledDrains, Working
  <2>. QED  BY <1>1, <1>d, <2>1 DEF OpStart, Working
<1>2. CASE ChildExits(u)
  BY <1>2, <1>d, <1>e DEF ChildExits, Working, Outcomes
<1>3. CASE ChildTold(u)
  BY <1>3, <1>d DEF ChildTold, Working
<1>4. CASE ChildReaped(u)
  BY <1>4, <1>d, <1>e DEF ChildReaped, Working, Outcomes
<1>5. CASE BackoffCanceled(u)
  BY <1>5, <1>d DEF BackoffCanceled, Working, Outcomes
<1>6. CASE AbortTakes(u)
  BY <1>6, <1>d DEF AbortTakes, Outcomes
<1>7. CASE BodyFails(u)
  BY <1>7, <1>e DEF BodyFails, Working
<1>8. CASE SkipsItself(u)
  BY <1>8, <1>d DEF SkipsItself, Working, Outcomes
<1>9. ASSUME NEW shape \in Shapes(Op(u)), Produces(u, shape) PROVE Inside(u)
  BY <1>9, <1>d DEF Produces, Working, Outcomes
<1>10. ASSUME NEW shape \in Shapes(Op(u)), NEW s \in Settled, ChildRecords(u, s, shape)
       PROVE  Inside(u)
  <2>1. InFlight' = InFlight /\ u \in InFlight
    BY <1>10, <1>b, <1>c DEF ChildRecords, Working
  <2>. QED  BY <1>10, <1>a, <2>1 DEF ChildRecords, Moves, Inside, TypeOK, Settled
<1>11. CASE ChildUnread(u)
  BY <1>11, <1>d, <1>e DEF ChildUnread, Working, Outcomes
<1>. QED  BY <1>1, <1>2, <1>3, <1>4, <1>5, <1>6, <1>7, <1>8, <1>9, <1>10, <1>11 DEF Body, Attempt

(* A step that only moves the run's own task on.                           *)
Still == /\ UNCHANGED <<pending, ready, stat, row, task, failed, admitted, verdict>>
         /\ \/ UNCHANGED <<at, canceled>>
            \/ at = "opening" /\ at' = "settle" /\ UNCHANGED canceled
            \/ at = "spawn" /\ ready = {} /\ at' = "select" /\ UNCHANGED canceled
            \/ at \in {"opening", "select"} /\ at' = "drain" /\ canceled'
            \/ at = "select" /\ InFlight = {} /\ at' = "closing" /\ UNCHANGED canceled

(* The steps of an execution: those that stand still, those inside an op,  *)
(* and each of the others.                                                 *)
LEMMA Kinds ==
    ASSUME IInv, [Next]_vars
    PROVE  \/ Still \/ (\E u \in Units : Inside(u))
           \/ OpenRefused \/ Pick \/ DrainEnds \/ Finish \/ LetGo
           \/ \E u \in Units : \/ Decline(u) \/ Admit(u) \/ Expand(u) \/ ExpandRefused(u)
                               \/ Spawn(u) \/ Unreadable(u)
                               \/ JoinSuccess(u) \/ JoinFailure(u) \/ JoinSkip(u) \/ JoinKilled(u)
                               \/ DrainJoin(u)
<1>1. CASE Open \/ OpenCanceled \/ Spawned \/ SeeCancel \/ NothingLeft \/ Cancel \/ UNCHANGED vars
  BY <1>1 DEF Open, OpenCanceled, Spawned, SeeCancel, NothingLeft, Cancel, Still
<1>2. ASSUME NEW u \in Units, Body(u) \/ Attempt(u) PROVE Inside(u)
  BY <1>2, StepInside
<1>. QED  BY <1>1, <1>2 DEF Next, RunTask

(* What a step that is not inside an op does to what is in flight.         *)
LEMMA FlightMoves ==
    ASSUME TypeOK
    PROVE  /\ (OpenRefused \/ Pick \/ DrainEnds) => InFlight' = InFlight
           /\ (Finish \/ LetGo) => InFlight' = {}
           /\ \A u \in Units :
                /\ (Decline(u) \/ Admit(u) \/ Expand(u) \/ ExpandRefused(u) \/ Unreadable(u))
                      => InFlight' = InFlight
                /\ Spawn(u) => InFlight' = InFlight \cup {u}
                /\ (JoinSuccess(u) \/ JoinFailure(u) \/ JoinSkip(u) \/ JoinKilled(u) \/ DrainJoin(u))
                      => u \in InFlight /\ InFlight' = InFlight \ {u}
           /\ Still => InFlight' = InFlight
<1>a. InFlight = {v \in Units : task[v] \in Working \cup Outcomes}
  BY DEF InFlight, Running, Landed
<1>b. InFlight' = {v \in Units : task'[v] \in Working \cup Outcomes}
  BY DEF InFlight, Running, Landed
<1>c. "joined" \notin Working \cup Outcomes /\ "spawned" \in Working /\ "killed" \in Outcomes
  BY DEF Working, Outcomes
<1>1. (OpenRefused \/ Pick \/ DrainEnds \/ Still) => InFlight' = InFlight
  BY <1>a, <1>b DEF OpenRefused, Pick, DrainEnds, Still
<1>2. (Finish \/ LetGo) => InFlight' = {}
  BY <1>a, <1>b, <1>c DEF Finish, LetGo
<1>3. ASSUME NEW u \in Units
      PROVE  (Decline(u) \/ Admit(u) \/ Expand(u) \/ ExpandRefused(u) \/ Unreadable(u))
                => InFlight' = InFlight
  BY <1>a, <1>b DEF Decline, Admit, Expand, ExpandRefused, Unreadable
<1>4. ASSUME NEW u \in Units, Spawn(u) PROVE InFlight' = InFlight \cup {u}
  BY <1>a, <1>b, <1>c, <1>4 DEF Spawn, TypeOK
<1>5. ASSUME NEW u \in Units, task[u] \in Outcomes, Goes(u, "joined")
      PROVE  u \in InFlight /\ InFlight' = InFlight \ {u}
  BY <1>a, <1>b, <1>c, <1>5 DEF Goes, TypeOK
<1>6. ASSUME NEW u \in Units,
             JoinSuccess(u) \/ JoinFailure(u) \/ JoinSkip(u) \/ JoinKilled(u) \/ DrainJoin(u)
      PROVE  task[u] \in Outcomes /\ Goes(u, "joined")
  BY <1>c, <1>6 DEF JoinSuccess, JoinFailure, JoinSkip, JoinKilled, DrainJoin, Joins, Landed
<1>. QED  BY <1>1, <1>2, <1>3, <1>4, <1>5, <1>6

(* Only what waited and its rule let in is ever admitted, and it stays so; *)
(* a failure and a cancel are not taken back.                              *)
LEMMA AdmittedMoves ==
    ASSUME IInv, [Next]_vars
    PROVE  /\ \/ admitted' = admitted
              \/ \E u \in pending : Ready(u) /\ Admits(Op(u)) /\ admitted' = admitted \cup {u}
           /\ failed => failed'
           /\ canceled => canceled'
<1>a. pending \subseteq Units
  BY DEF IInv, TypeOK
<1>1. CASE Still
  BY <1>1 DEF Still
<1>2. ASSUME NEW u \in Units, Inside(u)
      PROVE  UNCHANGED <<admitted, failed, canceled>>
  BY <1>2 DEF Inside, Beside
<1>3. CASE OpenRefused \/ Pick \/ DrainEnds \/ Finish \/ LetGo
  BY <1>3 DEF OpenRefused, Pick, DrainEnds, Finish, LetGo
<1>4. ASSUME NEW u \in Units, Decline(u) \/ Spawn(u) \/ Unreadable(u)
      PROVE  UNCHANGED <<admitted, canceled>> /\ (failed => failed')
  BY <1>4 DEF Decline, Spawn, Unreadable
<1>5. ASSUME NEW u \in Units, JoinSuccess(u) \/ JoinFailure(u) \/ JoinSkip(u) \/ JoinKilled(u) \/ DrainJoin(u)
      PROVE  UNCHANGED admitted /\ (failed => failed') /\ (canceled => canceled')
  BY <1>5 DEF JoinSuccess, JoinFailure, JoinSkip, JoinKilled, DrainJoin
<1>6. ASSUME NEW u \in Units, Admit(u) \/ Expand(u) \/ ExpandRefused(u)
      PROVE  /\ u \in pending /\ Ready(u) /\ Admits(Op(u)) /\ admitted' = admitted \cup {u}
             /\ (failed => failed') /\ UNCHANGED canceled
  BY <1>6 DEF Admit, Expand, ExpandRefused, Ready
<1>. QED  BY <1>1, <1>2, <1>3, <1>4, <1>5, <1>6, Kinds

(* A row that was made is never unmade, and only an expansion makes one.   *)
LEMMA RowsMade ==
    ASSUME IInv, [Next]_vars, NEW v \in Units
    PROVE  /\ row[v] # "absent" => row'[v] # "absent"
           /\ row[v] = "absent" => \/ row'[v] = "absent"
                                   \/ \E u \in Units : Expand(u) /\ v \in Expanded(Op(u))
<1>a. \A S, s, T, t : /\ s # "absent" => (row[v] = "absent" <=> Moves(row, S, s)[v] = "absent")
                      /\ (s # "absent" /\ t # "absent")
                           => (row[v] = "absent" <=> Moves(Moves(row, S, s), T, t)[v] = "absent")
  BY DEF Moves
<1>1. CASE Still
  BY <1>1 DEF Still
<1>2. ASSUME NEW u \in Units, Inside(u) PROVE row[v] = "absent" <=> row'[v] = "absent"
  BY <1>2 DEF Inside
<1>3. CASE OpenRefused \/ Pick \/ DrainEnds \/ Finish \/ LetGo
  BY <1>3, <1>a DEF OpenRefused, Pick, DrainEnds, Finish, LetGo
<1>4. ASSUME NEW u \in Units, Decline(u) \/ Admit(u) \/ ExpandRefused(u) \/ Spawn(u)
      PROVE  row[v] = "absent" <=> row'[v] = "absent"
  <2>1. row' = row \/ \E S : row' = Moves(row, S, "skipped")
    BY <1>4 DEF Decline, Admit, ExpandRefused, Spawn
  <2>. QED  BY <2>1 DEF Moves
<1>5. ASSUME NEW u \in Units, Expand(u)
      PROVE  row'[v] = IF v \in Expanded(Op(u)) THEN "pending" ELSE row[v]
  BY <1>5 DEF Expand
<1>6. ASSUME NEW u \in Units, Unreadable(u) PROVE row[v] = "absent" <=> row'[v] = "absent"
  BY <1>6, <1>a DEF Unreadable, StopsHere
<1>7. ASSUME NEW u \in Units, JoinSuccess(u) \/ JoinKilled(u)
      PROVE  row[v] = "absent" <=> row'[v] = "absent"
  <2>1. row' = row \/ \E S : row' = Moves(row, S, "success") \/ row' = Moves(row, S, "canceled")
    BY <1>7 DEF JoinSuccess, JoinKilled
  <2>. QED  BY <1>a, <2>1
<1>8. ASSUME NEW u \in Units, JoinFailure(u) PROVE row[v] = "absent" <=> row'[v] = "absent"
  BY <1>8, <1>a DEF JoinFailure, StopsHere
<1>9. ASSUME NEW u \in Units, JoinSkip(u) PROVE row[v] = "absent" <=> row'[v] = "absent"
  BY <1>9, <1>a DEF JoinSkip, StopsHere
<1>10. ASSUME NEW u \in Units, DrainJoin(u) PROVE row[v] = "absent" <=> row'[v] = "absent"
  <2>1. row' = row \/ \E s \in Ended : row' = Moves(row, {u}, s)
    BY <1>10 DEF DrainJoin, Ended
  <2>. QED  BY <1>a, <2>1 DEF Ended
<1>. QED  BY <1>1, <1>2, <1>3, <1>4, <1>5, <1>6, <1>7, <1>8, <1>9, <1>10, Kinds

(* No op could be let run: a resource or a secret was not there.           *)
NothingRan == /\ "open" \in Faults /\ failed /\ pending = {} /\ admitted = {}
              /\ \A u \in Units : row[u] \notin {"pending", "running"}

Here(u) == u \in pending \cup ready \cup InFlight

(* Units are made ready only between a sweep and its spawns.               *)
OnlySpawnReady == /\ at \in {"opening", "select", "drain", "closing", "ended"} => ready = {}
                  /\ at = "opening" => admitted = {}

(* What is on its way, its op was admitted.                                *)
RootsAdmitted == \A v \in Units : OnItsWay(v) => Unit(Op(v)) \in admitted

(* What was admitted, its rule let in, and only that succeeds; what a      *)
(* resume seeded is not run again.                                         *)
RuledIn == /\ \A o \in Reused : stat[Unit(o)] = "success" /\ Unit(o) \notin admitted
           /\ \A o \in Ops : Unit(o) \in admitted => LetIn(o)
           /\ \A o \in Ops \ Reused : stat[Unit(o)] = "success" => Unit(o) \in admitted

(* While the run's task is in its loop every op has settled, waits or was  *)
(* admitted, and what was admitted and has not settled is somewhere.       *)
Accounted == Loop =>
    /\ \A o \in Ops \ Reused : stat[Unit(o)] # "none" \/ Unit(o) \in pending \cup admitted \/ NothingRan
    /\ \A o \in Ops : (Unit(o) \in admitted /\ stat[Unit(o)] = "none")
          => Here(Unit(o)) \/ (o \in Mapped /\ \E v \in Instances(o) : stat[v] = "none")

(* A settled unit's row is closed; another's is open only where the run    *)
(* still holds the unit, or could not read back what one needed.           *)
RowsClosed ==
    /\ \A u \in Units : stat[u] # "none" => row[u] \notin {"pending", "running"}
    /\ Loop => \A u \in Units : (row[u] # "absent" /\ stat[u] = "none") => Here(u) \/ NothingRan
    /\ at = "drain" => \A u \in Units : row[u] \in {"pending", "running"} => u \in pending \cup InFlight
    /\ at \in {"closing", "ended"} =>
          \A u \in Units : row[u] \in {"pending", "running"} => "get" \in Faults /\ failed /\ u \in pending

(* Something is spawned as long as anything waits.                         *)
Progresses ==
    /\ (at \in {"spawn", "select"} /\ pending # {}) => ready \cup InFlight # {} \/ ("get" \in Faults /\ failed)
    /\ at \in {"closing", "ended"} => pending = {} \/ ("get" \in Faults /\ failed)

Account == /\ OnlySpawnReady /\ RootsAdmitted /\ RuledIn /\ Accounted /\ RowsClosed /\ Progresses

(* Nothing is ready but between a sweep and its spawns.                    *)
LEMMA StepReady == IInv /\ OnlySpawnReady /\ [Next]_vars => OnlySpawnReady'
<1>. SUFFICES ASSUME IInv, OnlySpawnReady, [Next]_vars PROVE OnlySpawnReady'
  OBVIOUS
<1>. USE DEF OnlySpawnReady
<1>1. CASE Still
  BY <1>1 DEF Still
<1>2. ASSUME NEW u \in Units, Inside(u) PROVE OnlySpawnReady'
  BY <1>2 DEF Inside, Beside
<1>3. CASE OpenRefused \/ Pick \/ DrainEnds \/ Finish \/ LetGo
  BY <1>3 DEF OpenRefused, Pick, DrainEnds, Finish, LetGo
<1>4. ASSUME NEW u \in Units, Decline(u) \/ Admit(u) \/ Expand(u) \/ ExpandRefused(u) \/ Spawn(u) \/ Unreadable(u)
      PROVE  OnlySpawnReady'
  BY <1>4 DEF Decline, Admit, Expand, ExpandRefused, Spawn, Unreadable
<1>5. ASSUME NEW u \in Units, JoinSuccess(u) \/ JoinFailure(u) \/ JoinSkip(u) \/ JoinKilled(u) \/ DrainJoin(u)
      PROVE  OnlySpawnReady'
  BY <1>5 DEF JoinSuccess, JoinFailure, JoinSkip, JoinKilled, DrainJoin, Joins
<1>. QED  BY <1>1, <1>2, <1>3, <1>4, <1>5, Kinds

(* An op that is admitted has not settled, and is not one a resume seeded. *)
LEMMA AdmittedFresh ==
    ASSUME IInv, RuledIn, NEW o \in Ops, Unit(o) \in pending
    PROVE  stat[Unit(o)] = "none" /\ o \notin Reused
<1>1. Unit(o) \in Units /\ UnitInv(Unit(o))
  BY UnitFacts DEF IInv
<1>2. stat[Unit(o)] = "none"
  BY <1>1 DEF UnitInv, WaitsBlank, Blank
<1>. QED  BY <1>2 DEF RuledIn

(* What was on its way before a step was admitted after it too.            *)
LEMMA StepRoots == IInv /\ RootsAdmitted /\ [Next]_vars => RootsAdmitted'
<1>. SUFFICES ASSUME IInv, RootsAdmitted, [Next]_vars, NEW v \in Units, OnItsWay(v)'
              PROVE  Unit(Op(v)) \in admitted'
  BY DEF RootsAdmitted, Unit, Op
<1>a. TypeOK /\ IsInstance(v)' = IsInstance(v)
  BY DEF IInv, IsInstance, Path
<1>b. admitted \subseteq admitted'
  BY AdmittedMoves
<1>c. OnItsWay(v) => Unit(Op(v)) \in admitted
  BY DEF RootsAdmitted
<1>1. CASE Shrinks
  BY <1>1, <1>a, <1>b, <1>c DEF Shrinks, OnItsWay
<1>2. CASE Pick
  BY <1>2, <1>a, <1>b, <1>c, FlightMoves DEF Pick, OnItsWay
<1>3. ASSUME NEW u \in Units, Admit(u) PROVE Unit(Op(v)) \in admitted'
  <2>1. OnItsWay(v) \/ v = u
    BY <1>3, <1>a, FlightMoves DEF Admit, OnItsWay
  <2>2. CASE v = u /\ ~OnItsWay(v)
    <3>1. ~IsInstance(v)
      BY <1>3, <2>2 DEF Admit, Ready, OnItsWay
    <3>2. v = Unit(Op(v))
      BY <3>1, UnitFacts
    <3>. QED  BY <1>3, <2>2, <3>2 DEF Admit
  <2>. QED  BY <2>1, <2>2, <1>b, <1>c
<1>4. ASSUME NEW u \in Units, Spawn(u) PROVE Unit(Op(v)) \in admitted'
  BY <1>4, <1>a, <1>b, <1>c, FlightMoves DEF Spawn, OnItsWay
<1>5. ASSUME NEW u \in Units, Expand(u) PROVE Unit(Op(v)) \in admitted'
  <2>1. OnItsWay(v) \/ Op(v) = Op(u)
    BY <1>5, <1>a, FlightMoves DEF Expand, Expanded, OnItsWay
  <2>2. u = Unit(Op(u)) /\ u \in admitted'
    BY <1>5, RowFacts DEF Expand
  <2>. QED  BY <2>1, <2>2, <1>b, <1>c
<1>. QED  BY <1>1, <1>2, <1>3, <1>4, <1>5, StepShrinks

(* A run in which nothing could run stays one.                             *)
LEMMA NothingRanStays ==
    ASSUME IInv, RootsAdmitted, [Next]_vars, NothingRan
    PROVE  NothingRan'
<1>a. TypeOK /\ pending = {} /\ admitted = {}
  BY DEF IInv, NothingRan
<1>b. ready = {} /\ InFlight = {}
  BY <1>a DEF RootsAdmitted, OnItsWay, TypeOK, InFlight, Running, Landed
<1>1. CASE Still
  BY <1>1, <1>b DEF Still, NothingRan
<1>2. ASSUME NEW u \in Units, Inside(u) PROVE FALSE
  BY <1>2, <1>b DEF Inside
<1>3. CASE OpenRefused \/ DrainEnds
  BY <1>3, <1>a DEF OpenRefused, DrainEnds, Moves, NothingRan
<1>4. CASE Pick
  BY <1>4, <1>a, <1>b DEF Pick, NothingRan
<1>5. CASE Finish \/ LetGo
  BY <1>5, <1>a DEF Finish, LetGo, NothingRan
<1>6. ASSUME NEW u \in Units, Decline(u) \/ Admit(u) \/ Expand(u) \/ ExpandRefused(u) \/ Spawn(u) \/ Unreadable(u)
      PROVE  FALSE
  BY <1>6, <1>a, <1>b DEF Decline, Admit, Expand, ExpandRefused, Spawn, Unreadable, Ready
<1>7. ASSUME NEW u \in Units, JoinSuccess(u) \/ JoinFailure(u) \/ JoinSkip(u) \/ JoinKilled(u) \/ DrainJoin(u)
      PROVE  FALSE
  BY <1>7, <1>a, <1>b, FlightMoves
<1>. QED  BY <1>1, <1>2, <1>3, <1>4, <1>5, <1>6, <1>7, Kinds

(* A success is new only for what was admitted.                            *)
LEMMA SuccessAdmitted ==
    ASSUME IInv, RootsAdmitted, [Next]_vars, NEW o \in Ops,
           stat[Unit(o)] = "none", stat'[Unit(o)] = "success"
    PROVE  Unit(o) \in admitted'
<1>a. TypeOK /\ Unit(o) \in Units
  BY UnitFacts DEF IInv
<1>1. CASE Still
  BY <1>1 DEF Still
<1>2. ASSUME NEW u \in Units, Inside(u) PROVE FALSE
  BY <1>2 DEF Inside, Beside
<1>3. CASE OpenRefused \/ Pick \/ DrainEnds \/ Finish \/ LetGo
  BY <1>3 DEF OpenRefused, Pick, DrainEnds, Finish, LetGo
<1>4. ASSUME NEW u \in Units, Decline(u) PROVE FALSE
  BY <1>4, <1>a DEF Decline
<1>5. ASSUME NEW u \in Units, ExpandRefused(u) PROVE FALSE
  BY <1>5, <1>a DEF ExpandRefused
<1>6. ASSUME NEW u \in Units, Admit(u) \/ Spawn(u) PROVE FALSE
  BY <1>6 DEF Admit, Spawn
<1>7. ASSUME NEW u \in Units, Expand(u) PROVE Unit(o) \in admitted'
  BY <1>7, <1>a DEF Expand, TypeOK
<1>8. ASSUME NEW u, NEW s \in {"failed", "skipped"}, NEW r, StopsHere(u, s, r) PROVE FALSE
  BY <1>8, <1>a DEF StopsHere
<1>9. ASSUME NEW u \in Units, Unreadable(u) \/ JoinFailure(u) \/ JoinSkip(u) PROVE FALSE
  BY <1>9, <1>8 DEF Unreadable, JoinFailure, JoinSkip
<1>10. ASSUME NEW u \in Units, JoinKilled(u) \/ DrainJoin(u) PROVE FALSE
  BY <1>10 DEF JoinKilled, DrainJoin
<1>11. ASSUME NEW u \in Units, JoinSuccess(u) PROVE Unit(o) \in admitted'
  <2>1. u \in InFlight /\ admitted' = admitted
    BY <1>11, <1>a, FlightMoves DEF JoinSuccess
  <2>2. Unit(Op(u)) \in admitted
    BY <2>1 DEF RootsAdmitted, OnItsWay
  <2>3. Unit(o) = u \/ Unit(o) = Unit(Op(u))
    BY <1>11, <1>a DEF JoinSuccess, Collects
  <2>4. Unit(o) = Unit(Op(u))
    BY <2>3, UnitFacts
  <2>. QED  BY <2>1, <2>2, <2>4
<1>. QED  BY <1>1, <1>2, <1>3, <1>4, <1>5, <1>6, <1>7, <1>9, <1>10, <1>11, Kinds

(* Every step keeps the rules.                                             *)
LEMMA StepRuledIn == IInv /\ RootsAdmitted /\ RuledIn /\ [Next]_vars => RuledIn'
<1>. SUFFICES ASSUME IInv, RootsAdmitted, RuledIn, [Next]_vars PROVE RuledIn'
  OBVIOUS
<1>1. ASSUME NEW o \in Reused PROVE stat'[Unit(o)] = "success" /\ Unit(o) \notin admitted'
  <2>1. o \in Ops /\ Unit(o) \in Units
    BY UnitFacts, RunExecutionAssumption
  <2>2. stat[Unit(o)] = "success" /\ Unit(o) \notin admitted
    BY DEF RuledIn
  <2>3. Unit(o) \notin pending
    BY <2>1, AdmittedFresh
  <2>. QED  BY <2>1, <2>2, <2>3, StatStays, AdmittedMoves
<1>2. ASSUME NEW o \in Ops, Unit(o) \in admitted' PROVE LetIn(o)'
  <2>1. CASE Unit(o) \in admitted
    BY <2>1, LetInStays DEF RuledIn
  <2>2. CASE Unit(o) \notin admitted
    <3>1. Ready(Unit(o)) /\ Admits(Op(Unit(o)))
      BY <1>2, <2>2, AdmittedMoves
    <3>2. LetIn(o)
      BY <3>1, UnitFacts DEF Ready, LetIn
    <3>. QED  BY <3>2, LetInStays
  <2>. QED  BY <2>1, <2>2
<1>3. ASSUME NEW o \in Ops \ Reused, stat'[Unit(o)] = "success" PROVE Unit(o) \in admitted'
  <2>1. CASE stat[Unit(o)] = "none"
    BY <1>3, <2>1, SuccessAdmitted
  <2>2. CASE stat[Unit(o)] # "none"
    <3>1. stat[Unit(o)] = "success"
      BY <1>3, <2>2, StatStays, UnitFacts
    <3>. QED  BY <3>1, AdmittedMoves DEF RuledIn
  <2>. QED  BY <2>1, <2>2
<1>. QED  BY <1>1, <1>2, <1>3 DEF RuledIn, Unit

(* The loop is entered once, and left for good.                            *)
LEMMA LoopBefore == IInv /\ [Next]_vars /\ Loop' => Loop
<1>. SUFFICES ASSUME IInv, [Next]_vars, Loop' PROVE Loop
  OBVIOUS
<1>. USE DEF Loop
<1>1. CASE Still
  BY <1>1 DEF Still
<1>2. ASSUME NEW u \in Units, Inside(u) PROVE Loop
  BY <1>2 DEF Inside, Beside
<1>3. CASE OpenRefused \/ Pick \/ DrainEnds \/ Finish \/ LetGo
  BY <1>3 DEF OpenRefused, Pick, DrainEnds, Finish, LetGo
<1>4. ASSUME NEW u \in Units, Decline(u) \/ Admit(u) \/ Expand(u) \/ ExpandRefused(u) \/ Spawn(u) \/ Unreadable(u)
      PROVE  Loop
  BY <1>4 DEF Decline, Admit, Expand, ExpandRefused, Spawn, Unreadable
<1>5. ASSUME NEW u \in Units, JoinSuccess(u) \/ JoinFailure(u) \/ JoinSkip(u) \/ JoinKilled(u) \/ DrainJoin(u)
      PROVE  Loop
  BY <1>5 DEF JoinSuccess, JoinFailure, JoinSkip, JoinKilled, DrainJoin, Joins
<1>. QED  BY <1>1, <1>2, <1>3, <1>4, <1>5, Kinds

(* Before its loop begins a run holds only what waits: a run refused its   *)
(* resources runs nothing, and leaves no row open.                         *)
LEMMA RefusedRanNothing ==
    ASSUME IInv, OnlySpawnReady, RootsAdmitted, RowsClosed, OpenRefused
    PROVE  NothingRan'
<1>a. at = "opening" /\ TypeOK
  BY DEF OpenRefused, IInv
<1>b. admitted = {} /\ ready = {}
  BY <1>a DEF OnlySpawnReady
<1>c. InFlight = {}
  BY <1>b DEF RootsAdmitted, OnItsWay, InFlight, Running, Landed
<1>1. ASSUME NEW v \in Units, row[v] \in {"pending", "running"}
      PROVE  v \in pending
  <2>1. stat[v] = "none" /\ Loop
    BY <1>1, <1>a DEF RowsClosed, Loop
  <2>2. Here(v)
    BY <1>1, <2>1 DEF RowsClosed, NothingRan
  <2>. QED  BY <1>b, <1>c, <2>2 DEF Here
<1>. QED  BY <1>1, <1>b DEF OpenRefused, NothingRan, Moves

(* What is somewhere stays somewhere until it settles, or expands.         *)
LEMMA HereMoves ==
    ASSUME IInv, OnlySpawnReady, RootsAdmitted, RowsClosed, [Next]_vars, Loop',
           NEW v \in Units, Here(v), stat'[v] = "none"
    PROVE  Here(v)' \/ NothingRan' \/ Expand(v)
<1>. USE DEF Here
<1>a. TypeOK
  BY DEF IInv
<1>b. ASSUME NEW u \in Units, NEW s \in {"failed", "skipped"}, NEW r, StopsHere(u, s, r), v # u
      PROVE  v \in pending' <=> v \in pending
  BY <1>b DEF StopsHere
<1>c. ASSUME NEW u \in Units, NEW s \in {"failed", "skipped"}, NEW r, StopsHere(u, s, r)
      PROVE  v # u
  BY <1>c DEF StopsHere
<1>1. CASE Still
  BY <1>1, <1>a, FlightMoves DEF Still
<1>2. ASSUME NEW u \in Units, Inside(u) PROVE Here(v)'
  BY <1>2 DEF Inside, Beside
<1>3. CASE OpenRefused
  BY <1>3, RefusedRanNothing
<1>4. CASE Pick
  BY <1>4, <1>a, FlightMoves DEF Pick
<1>5. CASE DrainEnds \/ Finish \/ LetGo
  BY <1>5 DEF DrainEnds, Finish, LetGo, Loop
<1>6. ASSUME NEW u \in Units, Decline(u) PROVE Here(v)'
  BY <1>6, <1>a, FlightMoves DEF Decline
<1>7. ASSUME NEW u \in Units, Admit(u) PROVE Here(v)'
  BY <1>7, <1>a, FlightMoves DEF Admit
<1>8. ASSUME NEW u \in Units, Expand(u) PROVE Here(v)' \/ Expand(v)
  BY <1>8, <1>a, FlightMoves DEF Expand
<1>9. ASSUME NEW u \in Units, ExpandRefused(u) PROVE Here(v)'
  BY <1>9, <1>a, FlightMoves DEF ExpandRefused
<1>10. ASSUME NEW u \in Units, Spawn(u) PROVE Here(v)'
  <2>1. pending' = pending /\ ready' = ready \ {u} /\ task' = [task EXCEPT ![u] = "spawned"]
    BY <1>10 DEF Spawn
  <2>2. InFlight' = InFlight \cup {u}
    BY <1>10, <1>a, FlightMoves
  <2>. QED  BY <2>1, <2>2
<1>11. ASSUME NEW u \in Units, Unreadable(u) PROVE Here(v)'
  <2>1. v # u
    BY <1>11, <1>c DEF Unreadable
  <2>. QED  BY <1>11, <1>a, <1>b, <2>1, FlightMoves DEF Unreadable
<1>12. ASSUME NEW u \in Units, JoinSuccess(u) PROVE Here(v)'
  BY <1>12, <1>a, FlightMoves DEF JoinSuccess, Collects
<1>13. ASSUME NEW u \in Units, JoinFailure(u) PROVE Here(v)'
  <2>1. v # u
    BY <1>13, <1>c DEF JoinFailure
  <2>2. v \in pending' <=> v \in pending
    BY <1>13, <1>b, <2>1 DEF JoinFailure
  <2>. QED  BY <1>13, <1>a, <2>1, <2>2, FlightMoves DEF JoinFailure
<1>14. ASSUME NEW u \in Units, JoinSkip(u) PROVE Here(v)'
  <2>1. v # u
    BY <1>14, <1>c DEF JoinSkip
  <2>. QED  BY <1>14, <1>a, <1>b, <2>1, FlightMoves DEF JoinSkip
<1>15. ASSUME NEW u \in Units, JoinKilled(u) \/ DrainJoin(u) PROVE FALSE
  BY <1>15 DEF JoinKilled, DrainJoin, Loop
<1>. QED  BY <1>1, <1>2, <1>3, <1>4, <1>5, <1>6, <1>7, <1>8, <1>9, <1>10, <1>11, <1>12, <1>13, <1>14,
             <1>15, Kinds

(* An instance that settles is not the last of a fan-out that has not.     *)
LEMMA SiblingLeft ==
    ASSUME IInv, FanInv, [Next]_vars, NEW m \in Mapped, NEW v \in Instances(m),
           stat[v] = "none", stat'[Unit(m)] = "none"
    PROVE  \E w \in Instances(m) : stat'[w] = "none"
<1>a. TypeOK /\ Instances(m) \subseteq Units /\ Unit(m) \in Units /\ Unit(m) \notin Instances(m)
  BY UnitFacts DEF IInv, Mapped, Instances
<1>b. stat[Unit(m)] = "none"
  BY <1>a, StatStays
<1>c. stat'[v] \notin {"failed", "skipped"}
  BY StepStops
<1>d. \A w \in Instances(m) : stat[w] \in {"none", "success"}
  BY <1>a, <1>b DEF FanInv, TypeOK, Settled
<1>1. CASE stat'[v] = "none"
  BY <1>1
<1>2. CASE stat'[v] # "none"
  <2>0. ASSUME NEW u \in Units, NEW s \in {"failed", "skipped"}, NEW r, StopsHere(u, s, r)
        PROVE  stat'[v] \in {"none", "failed", "skipped"}
    BY <2>0, <1>a DEF StopsHere
  <2>1. CASE Still
    BY <1>2, <2>1 DEF Still
  <2>2. ASSUME NEW u \in Units, Inside(u) PROVE FALSE
    BY <1>2, <2>2 DEF Inside, Beside
  <2>3. CASE OpenRefused \/ Pick \/ DrainEnds \/ Finish \/ LetGo
    BY <1>2, <2>3 DEF OpenRefused, Pick, DrainEnds, Finish, LetGo
  <2>4. ASSUME NEW u \in Units, Decline(u) PROVE FALSE
    BY <1>a, <1>c, <1>2, <2>4 DEF Decline
  <2>5. ASSUME NEW u \in Units, ExpandRefused(u) PROVE FALSE
    BY <1>a, <1>c, <1>2, <2>5 DEF ExpandRefused
  <2>6. ASSUME NEW u \in Units, Admit(u) \/ Spawn(u) \/ JoinKilled(u) \/ DrainJoin(u) PROVE FALSE
    BY <1>2, <2>6 DEF Admit, Spawn, JoinKilled, DrainJoin
  <2>7. ASSUME NEW u \in Units, Expand(u) PROVE FALSE
    <3>1. v # u
      BY <2>7, UnitFacts, RowFacts DEF Expand, Instances
    <3>. QED  BY <1>a, <1>2, <2>7, <3>1 DEF Expand, TypeOK
  <2>8. ASSUME NEW u \in Units, Unreadable(u) \/ JoinFailure(u) \/ JoinSkip(u) PROVE FALSE
    BY <1>c, <1>2, <2>0, <2>8 DEF Unreadable, JoinFailure, JoinSkip
  <2>9. ASSUME NEW u \in Units, JoinSuccess(u) PROVE \E w \in Instances(m) : stat'[w] = "none"
    <3>1. v = u
      BY <1>a, <1>2, <2>9, UnitFacts DEF JoinSuccess, Collects, Instances
    <3>2. Op(u) = m /\ IsInstance(u)
      BY <3>1 DEF Instances
    <3>3. PICK w \in Instances(m) \ {u} : stat[w] # "success"
      BY <1>a, <1>b, <2>9, <3>2 DEF JoinSuccess, Collects
    <3>4. stat'[w] = "none"
      BY <1>a, <1>d, <2>9, <3>2, <3>3 DEF JoinSuccess, Collects
    <3>. QED  BY <3>4
  <2>. QED  BY <2>1, <2>2, <2>3, <2>4, <2>5, <2>6, <2>7, <2>8, <2>9, Kinds
<1>. QED  BY <1>1, <1>2

(* No step loses an op.                                                    *)
LEMMA StepAccounted == IInv /\ FanInv /\ Account /\ [Next]_vars => Accounted'
<1>. SUFFICES ASSUME IInv, FanInv, Account, [Next]_vars, Loop' PROVE Accounted'
  BY DEF Accounted
<1>. USE DEF Account
<1>a. Loop /\ TypeOK /\ RootsAdmitted'
  BY LoopBefore, StepRoots DEF IInv
<1>1. ASSUME NEW o \in Ops \ Reused
      PROVE  stat'[Unit(o)] # "none" \/ Unit(o) \in pending' \cup admitted' \/ NothingRan'
  <2>1. Unit(o) \in Units /\ Op(Unit(o)) = o
    BY UnitFacts
  <2>2. CASE stat[Unit(o)] # "none"
    BY <2>1, <2>2, StatStays
  <2>3. CASE Unit(o) \in admitted
    BY <2>3, AdmittedMoves
  <2>4. CASE NothingRan
    BY <2>4, NothingRanStays
  <2>5. CASE Unit(o) \in pending /\ stat'[Unit(o)] = "none"
    <3>1. Here(Unit(o))' \/ NothingRan' \/ Expand(Unit(o))
      BY <2>1, <2>5, HereMoves DEF Here
    <3>2. Here(Unit(o))' => Unit(o) \in pending' \/ OnItsWay(Unit(o))'
      BY DEF Here, OnItsWay, Unit
    <3>3. OnItsWay(Unit(o))' => Unit(o) \in admitted'
      BY <1>a, <2>1 DEF RootsAdmitted, Unit, Op
    <3>4. Expand(Unit(o)) => Unit(o) \in admitted'
      BY DEF Expand
    <3>. QED  BY <3>1, <3>2, <3>3, <3>4
  <2>. QED  BY <1>a, <2>2, <2>3, <2>4, <2>5 DEF Accounted
<1>2. ASSUME NEW o \in Ops, Unit(o) \in admitted', stat'[Unit(o)] = "none"
      PROVE  Here(Unit(o))' \/ (o \in Mapped /\ \E v \in Instances(o)' : stat'[v] = "none")
  <2>1. Unit(o) \in Units /\ Op(Unit(o)) = o /\ stat[Unit(o)] = "none"
    BY <1>2, UnitFacts, StatStays
  <2>2. ~NothingRan'
    BY <1>2 DEF NothingRan
  <2>3. CASE Here(Unit(o))
    <3>1. SUFFICES ASSUME Expand(Unit(o)) PROVE o \in Mapped /\ \E v \in Instances(o)' : stat'[v] = "none"
      BY <1>2, <2>1, <2>2, <2>3, HereMoves
    <3>2. Expanded(o) # {} /\ stat' = stat /\ Unit(o) \in pending /\ o \in Mapped
      BY <1>a, <1>2, <2>1, <3>1, RowFacts DEF Expand, Ready, TypeOK
    <3>3. PICK v \in Expanded(o) : TRUE
      BY <3>2
    <3>4. v \in Units /\ Op(v) = o /\ IsInstance(v) /\ row'[v] = "pending"
      BY <2>1, <3>1, <3>3 DEF Expand, Expanded
    <3>5. stat[v] = "none"
      BY <3>2, <3>4 DEF IInv, UnitInv, MappedBlank, Blank
    <3>6. v \in Instances(o)'
      BY <3>4 DEF Instances, Op, IsInstance, Path
    <3>. QED  BY <3>2, <3>5, <3>6
  <2>4. CASE o \in Mapped /\ \E v \in Instances(o) : stat[v] = "none"
    <3>1. PICK w \in Instances(o) : stat'[w] = "none"
      BY <1>2, <2>4, SiblingLeft
    <3>2. w \in Units /\ row'[w] # "absent" /\ Op(w) = o /\ IsInstance(w)
      BY RowsMade DEF Instances
    <3>3. w \in Instances(o)'
      BY <3>2 DEF Instances, Op, IsInstance, Path
    <3>. QED  BY <2>4, <3>1, <3>3
  <2>5. CASE Unit(o) \notin admitted
    BY <1>2, <2>3, <2>5, AdmittedMoves DEF Here
  <2>. QED  BY <1>a, <2>1, <2>3, <2>4, <2>5 DEF Accounted
<1>. QED  BY <1>1, <1>2 DEF Accounted, Unit

-----------------------------------------------------------------------------
(* No row is left open. *)

Opened(v) == row[v] \in {"pending", "running"}

(* Only an attempt of what is in flight, and an expansion, open a row.     *)
LEMMA RowOpens ==
    ASSUME IInv, [Next]_vars, NEW v \in Units, ~Opened(v), Opened(v)'
    PROVE  (v \in InFlight /\ at # "closing") \/ \E u \in Units : Expand(u) /\ v \in Expanded(Op(u))
<1>. USE DEF Opened
<1>1. CASE Still
  BY <1>1 DEF Still
<1>2. ASSUME NEW u \in Units, Inside(u) PROVE v \in InFlight /\ at # "closing"
  BY <1>2 DEF Inside
<1>3. CASE OpenRefused \/ Pick \/ DrainEnds \/ Finish \/ LetGo
  BY <1>3 DEF OpenRefused, Pick, DrainEnds, Finish, LetGo, Moves
<1>4. ASSUME NEW u \in Units, Decline(u) \/ ExpandRefused(u) PROVE FALSE
  BY <1>4 DEF Decline, ExpandRefused, Moves
<1>5. ASSUME NEW u \in Units, Admit(u) \/ Spawn(u) PROVE FALSE
  BY <1>5 DEF Admit, Spawn
<1>6. ASSUME NEW u \in Units, Expand(u) PROVE v \in Expanded(Op(u))
  BY <1>6 DEF Expand
<1>7. ASSUME NEW u \in Units, Unreadable(u) PROVE FALSE
  BY <1>7 DEF Unreadable, StopsHere, Moves
<1>8. ASSUME NEW u \in Units, JoinSuccess(u) \/ JoinKilled(u) PROVE FALSE
  BY <1>8 DEF JoinSuccess, JoinKilled, Moves
<1>9. ASSUME NEW u \in Units, JoinFailure(u) PROVE FALSE
  BY <1>9 DEF JoinFailure, StopsHere, Moves
<1>10. ASSUME NEW u \in Units, JoinSkip(u) PROVE FALSE
  BY <1>10 DEF JoinSkip, StopsHere, Moves
<1>11. ASSUME NEW u \in Units, DrainJoin(u) PROVE FALSE
  <2>1. row' = row \/ \E s \in Ended : row' = Moves(row, {u}, s)
    BY <1>11 DEF DrainJoin, Ended
  <2>. QED  BY <2>1 DEF Moves, Ended
<1>. QED  BY <1>1, <1>2, <1>3, <1>4, <1>5, <1>6, <1>7, <1>8, <1>9, <1>10, <1>11, Kinds

(* What settles leaves its row closed.                                     *)
LEMMA SettlingCloses ==
    ASSUME IInv, [Next]_vars, NEW v \in Units, stat[v] = "none", stat'[v] # "none"
    PROVE  ~Opened(v)'
<1>. USE DEF Opened
<1>a. TypeOK /\ \A u \in Units : UnitInv(u)
  BY DEF IInv
<1>b. \A u \in Units : ~HasRow(u) => row[u] = "absent"
  BY <1>a DEF UnitInv, MappedBlank
<1>c. ASSUME NEW u \in Units, NEW s \in {"failed", "skipped"}, NEW r, StopsHere(u, s, r),
             r[u] \notin {"pending", "running"},
             \A w \in Units : row[w] = "absent" => r[w] = "absent"
      PROVE  ~Opened(v)'
  <2>1. CASE v = u
    BY <1>c, <2>1 DEF StopsHere, Moves
  <2>2. CASE v # u /\ v = Unit(Op(u))
    <3>1. CASE IsInstance(u)
      <4>1. row[v] = "absent"
        BY <1>b, <2>2, <3>1, UnitFacts, RowFacts
      <4>. QED  BY <1>c, <4>1 DEF StopsHere, Moves
    <3>2. CASE ~IsInstance(u)
      BY <2>2, <3>2, UnitFacts
    <3>. QED  BY <3>1, <3>2
  <2>3. CASE v # u /\ v # Unit(Op(u))
    BY <1>c, <2>3 DEF StopsHere, Moves
  <2>. QED  BY <2>1, <2>2, <2>3
<1>d. \A u \in Units : \A s \in Ended : /\ Moves(row, {u}, s)[u] \notin {"pending", "running"}
                                        /\ \A w \in Units : row[w] = "absent" => Moves(row, {u}, s)[w] = "absent"
  BY DEF Moves, Ended
<1>e. at = "select" => \A u \in Units : Fits(u)
  BY <1>a DEF UnitInv, Recording
<1>1. CASE Still
  BY <1>1 DEF Still
<1>2. ASSUME NEW u \in Units, Inside(u) PROVE FALSE
  BY <1>2 DEF Inside, Beside
<1>3. CASE OpenRefused \/ Pick \/ DrainEnds \/ Finish \/ LetGo
  BY <1>3 DEF OpenRefused, Pick, DrainEnds, Finish, LetGo
<1>4. ASSUME NEW u \in Units, Decline(u) PROVE ~Opened(v)'
  BY <1>4 DEF Decline, Moves
<1>5. ASSUME NEW u \in Units, ExpandRefused(u) PROVE ~Opened(v)'
  BY <1>5, <1>b DEF ExpandRefused, Moves
<1>6. ASSUME NEW u \in Units, Admit(u) \/ Spawn(u) \/ JoinKilled(u) \/ DrainJoin(u) PROVE FALSE
  BY <1>6 DEF Admit, Spawn, JoinKilled, DrainJoin
<1>7. ASSUME NEW u \in Units, Expand(u) PROVE ~Opened(v)'
  <2>1. v = u /\ row[v] = "absent" /\ ~IsInstance(v)
    BY <1>7, <1>a, <1>b, RowFacts, UnitFacts DEF Expand, TypeOK
  <2>. QED  BY <1>7, <2>1 DEF Expand, Expanded
<1>8. ASSUME NEW u \in Units, Unreadable(u) PROVE ~Opened(v)'
  <2>1. StopsHere(u, "failed", Moves(row, {u}, "failed")) /\ "failed" \in Ended
    BY <1>8 DEF Unreadable, Ended
  <2>. QED  BY <1>c, <1>d, <2>1
<1>9. ASSUME NEW u \in Units, JoinFailure(u) PROVE ~Opened(v)'
  <2>1. \E s \in Ended : StopsHere(u, "failed", Moves(row, {u}, s))
    BY <1>9 DEF JoinFailure, Ended
  <2>. QED  BY <1>c, <1>d, <2>1
<1>10. ASSUME NEW u \in Units, JoinSkip(u) PROVE ~Opened(v)'
  <2>1. CASE StopsHere(u, "skipped", Moves(row, {u}, "skipped"))
    BY <1>c, <1>d, <2>1 DEF Ended
  <2>2. CASE task[u] = "skipped_in_child" /\ StopsHere(u, "skipped", row)
    <3>1. row[u] = "skipped"
      BY <1>10, <1>e, <2>2 DEF JoinSkip, Joins, Fits
    <3>. QED  BY <1>c, <2>2, <3>1
  <2>. QED  BY <1>10, <2>1, <2>2 DEF JoinSkip
<1>11. ASSUME NEW u \in Units, JoinSuccess(u) PROVE ~Opened(v)'
  <2>1. v = u \/ (IsInstance(u) /\ v = Unit(Op(u)))
    BY <1>11 DEF JoinSuccess, Collects
  <2>2. CASE v = u
    <3>1. task[u] = "recorded" => row[u] = "success"
      BY <1>11, <1>e DEF JoinSuccess, Joins, Fits
    <3>. QED  BY <1>11, <2>2, <3>1 DEF JoinSuccess, Moves
  <2>3. CASE IsInstance(u) /\ v = Unit(Op(u))
    <3>1. row[v] = "absent"
      BY <1>b, <2>3, UnitFacts, RowFacts
    <3>. QED  BY <1>11, <3>1 DEF JoinSuccess, Moves
  <2>. QED  BY <2>1, <2>2, <2>3
<1>. QED  BY <1>1, <1>2, <1>3, <1>4, <1>5, <1>6, <1>7, <1>8, <1>9, <1>10, <1>11, Kinds

(* In the loop, a row that is open is that of a unit the run holds.        *)
LEMMA OpenHere ==
    ASSUME RowsClosed, Loop, NEW v \in Units, Opened(v)
    PROVE  Here(v)
<1>1. stat[v] = "none" /\ row[v] # "absent"
  BY DEF RowsClosed, Opened
<1>2. ~NothingRan
  BY DEF NothingRan, Opened
<1>. QED  BY <1>1, <1>2 DEF RowsClosed

(* What a settled unit did is on its row, and its row stays closed.        *)
LEMMA StepSettledRows ==
    ASSUME IInv, RowsClosed, [Next]_vars, NEW v \in Units, stat'[v] # "none"
    PROVE  ~Opened(v)'
<1>1. CASE stat[v] = "none"
  BY <1>1, SettlingCloses
<1>2. CASE stat[v] # "none"
  <2>a. UnitInv(v)
    BY DEF IInv
  <2>1. ~Opened(v)
    BY <1>2 DEF RowsClosed, Opened
  <2>2. v \notin InFlight
    BY <1>2, <2>a DEF UnitInv, SettledRests, InFlight, Running, Landed, Working, Outcomes
  <2>3. ASSUME NEW u \in Units, Expand(u), v \in Expanded(Op(u)) PROVE FALSE
    <3>1. Unit(Op(v)) \in pending /\ IsInstance(v)
      BY <2>3, RowFacts DEF Expand, Ready, Expanded
    <3>. QED  BY <1>2, <2>a, <3>1 DEF UnitInv, MappedBlank, Blank
  <2>. QED  BY <2>1, <2>2, <2>3, RowOpens
<1>. QED  BY <1>1, <1>2

(* In the loop every unit that was made and has not settled is somewhere.  *)
LEMMA StepHeld ==
    ASSUME IInv, OnlySpawnReady, RootsAdmitted, RowsClosed, [Next]_vars, Loop',
           NEW v \in Units, row'[v] # "absent", stat'[v] = "none"
    PROVE  Here(v)' \/ NothingRan'
<1>a. Loop /\ UnitInv(v)
  BY LoopBefore DEF IInv
<1>1. CASE row[v] = "absent"
  BY <1>1, RowsMade DEF Expand, Here
<1>2. CASE row[v] # "absent"
  <2>1. stat[v] = "none"
    BY StatStays
  <2>2. Here(v) \/ NothingRan
    BY <1>a, <1>2, <2>1 DEF RowsClosed
  <2>3. ~Expand(v)
    BY <1>2, <1>a DEF Expand, UnitInv, MappedBlank
  <2>. QED  BY <2>2, <2>3, HereMoves, NothingRanStays
<1>. QED  BY <1>1, <1>2

(* A drain holds all that is open.                                         *)
LEMMA StepDrained ==
    ASSUME IInv, OnlySpawnReady, RowsClosed, [Next]_vars, at' = "drain", NEW v \in Units, Opened(v)'
    PROVE  v \in pending' \cup InFlight'
<1>a. TypeOK /\ UnitInv(v)
  BY DEF IInv
<1>b. ASSUME at \in {"opening", "select", "drain"}, Opened(v) PROVE v \in pending \cup InFlight
  <2>1. at = "drain" \/ Here(v)
    BY <1>b, OpenHere DEF Loop
  <2>. QED  BY <1>b, <2>1 DEF RowsClosed, Opened, OnlySpawnReady, Here
<1>1. CASE Still
  <2>1. at \in {"opening", "select", "drain"} /\ Opened(v)
    BY <1>1 DEF Still, Opened
  <2>. QED  BY <1>1, <1>a, <1>b, <2>1, FlightMoves DEF Still
<1>2. ASSUME NEW u \in Units, Inside(u) PROVE v \in pending' \cup InFlight'
  <2>1. at = "drain" /\ (v = u \/ Opened(v))
    BY <1>2 DEF Inside, Beside, Opened
  <2>. QED  BY <1>2, <1>b, <2>1 DEF Inside, Beside
<1>3. CASE OpenRefused \/ Pick \/ DrainEnds \/ Finish \/ LetGo
  BY <1>3 DEF OpenRefused, Pick, DrainEnds, Finish, LetGo
<1>4. ASSUME NEW u \in Units, Decline(u) \/ Admit(u) \/ Expand(u) \/ ExpandRefused(u) \/ Spawn(u) \/ Unreadable(u)
      PROVE  FALSE
  BY <1>4 DEF Decline, Admit, Expand, ExpandRefused, Spawn, Unreadable
<1>5. ASSUME NEW u \in Units, JoinSuccess(u) \/ JoinFailure(u) \/ JoinSkip(u) PROVE FALSE
  BY <1>5 DEF JoinSuccess, JoinFailure, JoinSkip, Joins
<1>6. ASSUME NEW u \in Units, JoinKilled(u) \/ DrainJoin(u) PROVE v \in pending' \cup InFlight'
  <2>1. at \in {"select", "drain"} /\ UNCHANGED pending /\ InFlight' = InFlight \ {u}
    BY <1>6, <1>a, FlightMoves DEF JoinKilled, DrainJoin
  <2>2. Fits(u)
    BY <2>1 DEF IInv, UnitInv, Recording
  <2>3. v # u /\ Opened(v)
    <3>1. CASE JoinKilled(u)
      BY <3>1 DEF JoinKilled, Moves, Opened
    <3>2. CASE DrainJoin(u)
      <4>1. \/ \E s \in Ended : row' = Moves(row, {u}, s)
            \/ row' = row /\ task[u] \in {"recorded", "skipped_in_child"}
        BY <3>2 DEF DrainJoin, Landed, Outcomes, Ended
      <4>. QED  BY <2>2, <4>1 DEF Moves, Opened, Ended, Fits
    <3>. QED  BY <1>6, <3>1, <3>2
  <2>. QED  BY <1>b, <2>1, <2>3
<1>. QED  BY <1>1, <1>2, <1>3, <1>4, <1>5, <1>6, Kinds

(* A run that closes leaves open only what a value that could not be read  *)
(* back kept waiting.                                                      *)
LEMMA StepClosed ==
    ASSUME IInv, OnlySpawnReady, RowsClosed, Progresses, [Next]_vars, at' \in {"closing", "ended"},
           NEW v \in Units, Opened(v)'
    PROVE  "get" \in Faults /\ failed' /\ v \in pending'
<1>a. TypeOK /\ UnitInv(v)
  BY DEF IInv
<1>b. ASSUME at \in {"closing", "ended"}, Opened(v) PROVE "get" \in Faults /\ failed /\ v \in pending
  BY <1>b DEF RowsClosed, Opened
<1>1. CASE Still
  <2>1. Opened(v) /\ UNCHANGED <<failed, pending>>
    BY <1>1 DEF Still, Opened
  <2>2. CASE at \in {"closing", "ended"}
    BY <1>b, <2>1, <2>2
  <2>3. CASE at = "select" /\ InFlight = {}
    <3>1. v \in pending
      BY <2>1, <2>3, OpenHere DEF Loop, Here, OnlySpawnReady
    <3>. QED  BY <2>1, <2>3, <3>1 DEF Progresses, OnlySpawnReady
  <2>. QED  BY <1>1, <2>2, <2>3 DEF Still
<1>2. ASSUME NEW u \in Units, Inside(u) PROVE "get" \in Faults /\ failed' /\ v \in pending'
  <2>1. at = "closing" /\ UNCHANGED <<failed, pending>>
    <3>1. at \in {"closing", "ended"} /\ u \in InFlight /\ UNCHANGED <<failed, pending>>
      BY <1>2 DEF Inside, Beside
    <3>. QED  BY <3>1 DEF IInv, OnlyCanceledDrains, Up
  <2>2. Opened(v)
    BY <1>2, <2>1 DEF Inside, Opened
  <2>. QED  BY <1>b, <2>1, <2>2
<1>3. CASE OpenRefused \/ Pick \/ LetGo
  BY <1>3 DEF OpenRefused, Pick, LetGo
<1>4. CASE Finish
  <2>1. at = "closing" /\ Opened(v) /\ UNCHANGED <<failed, pending>>
    BY <1>4 DEF Finish, Opened
  <2>. QED  BY <1>b, <2>1
<1>5. CASE DrainEnds
  <2>1. v \in pending \cup InFlight /\ Opened(v)
    BY <1>5 DEF DrainEnds, Moves, Opened, RowsClosed
  <2>2. v \in Running \cup pending
    BY <1>5, <2>1 DEF DrainEnds, InFlight
  <2>. QED  BY <1>5, <2>2 DEF DrainEnds, Moves, Opened
<1>6. ASSUME NEW u \in Units, Decline(u) \/ Admit(u) \/ Expand(u) \/ ExpandRefused(u) \/ Spawn(u) \/ Unreadable(u)
      PROVE  FALSE
  BY <1>6 DEF Decline, Admit, Expand, ExpandRefused, Spawn, Unreadable
<1>7. ASSUME NEW u \in Units, JoinSuccess(u) \/ JoinFailure(u) \/ JoinSkip(u) \/ JoinKilled(u) \/ DrainJoin(u)
      PROVE  FALSE
  BY <1>7 DEF JoinSuccess, JoinFailure, JoinSkip, JoinKilled, DrainJoin, Joins
<1>. QED  BY <1>1, <1>2, <1>3, <1>4, <1>5, <1>6, <1>7, Kinds

(* Every step leaves open only the rows it may.                            *)
LEMMA StepRows == IInv /\ Account /\ [Next]_vars => RowsClosed'
<1>. SUFFICES ASSUME IInv, Account, [Next]_vars PROVE RowsClosed'
  OBVIOUS
<1>. USE DEF Account
<1>1. \A v \in Units : stat'[v] # "none" => row'[v] \notin {"pending", "running"}
  BY StepSettledRows DEF Opened
<1>2. Loop' => \A v \in Units : (row'[v] # "absent" /\ stat'[v] = "none") => Here(v)' \/ NothingRan'
  BY StepHeld
<1>3. at' = "drain" => \A v \in Units : row'[v] \in {"pending", "running"} => v \in pending' \cup InFlight'
  BY StepDrained DEF Opened
<1>4. at' \in {"closing", "ended"} =>
        \A v \in Units : row'[v] \in {"pending", "running"} => "get" \in Faults /\ failed' /\ v \in pending'
  BY StepClosed DEF Opened
<1>. QED  BY <1>1, <1>2, <1>3, <1>4 DEF RowsClosed, Here

-----------------------------------------------------------------------------
(* Something is spawned as long as anything waits. *)

(* A sweep that is over leaves no unit waiting for nothing: among the ops  *)
(* that wait is one that waits for none of the others, and what it waits   *)
(* for is in flight.                                                       *)
LEMMA SweepFindsWork ==
    ASSUME IInv, Account, at = "settle", \A u \in pending : ~Ready(u), pending # {}, ready = {}
    PROVE  InFlight # {}
<1>. USE DEF Account
<1>a. pending \subseteq Units /\ Loop /\ ~NothingRan
  BY DEF IInv, TypeOK, Loop, NothingRan
<1> DEFINE S == {Op(u) : u \in pending}
<1>1. S \in SUBSET Ops /\ S # {}
  BY <1>a, UnitFacts
<1>2. PICK o \in S : Deps[o] \cap S = {}
  BY <1>1, MinimalOp
<1>3. PICK u \in pending : Op(u) = o
  BY <1>2
<1>4. PICK d \in Deps[o] : stat[Unit(d)] = "none"
  BY <1>3 DEF Ready
<1>5. d \in Ops /\ d \notin S /\ Op(Unit(d)) = d /\ Unit(d) \in Units
  BY <1>1, <1>2, <1>4, RunExecutionAssumption, UnitFacts
<1>6. \A v \in Units : Op(v) = d => v \notin pending
  BY <1>5
<1>7. Unit(d) \in admitted
  BY <1>a, <1>4, <1>5, <1>6 DEF Accounted, RuledIn
<1>8. PICK v \in Units : v \in pending \cup ready \cup InFlight /\ Op(v) = d
  <2>1. CASE Here(Unit(d))
    BY <1>5, <2>1 DEF Here
  <2>2. CASE \E v \in Instances(d) : stat[v] = "none"
    BY <1>a, <2>2 DEF RowsClosed, Instances, Here
  <2>. QED  BY <1>a, <1>4, <1>5, <1>7, <2>1, <2>2 DEF Accounted
<1>. QED  BY <1>6, <1>8

(* What is picked is something, unless something is in flight already.     *)
LEMMA PickPicks ==
    ASSUME IInv, BoundInv, Account, Pick, pending' # {}
    PROVE  ready' \cup InFlight' # {}
<1>1. InFlight' = InFlight /\ at = "settle" /\ \A u \in pending : ~Ready(u)
  BY FlightMoves DEF Pick, IInv
<1>2. CASE InFlight # {}
  BY <1>1, <1>2
<1>3. CASE InFlight = {}
  <2>1. ready # {}
    <3>1. ready = {} => pending # {}
      BY DEF Pick
    <3>. QED  BY <1>1, <1>3, <3>1, SweepFindsWork
  <2>2. Cardinality(ready) \in Nat \ {0} /\ IsFiniteSet(ready)
    BY <2>1, FS_EmptySet, FS_CardinalityType DEF BoundInv
  <2>3. Room = Cap /\ Cap \in Nat \ {0}
    BY <1>3, FS_EmptySet, RunExecutionAssumption DEF Room
  <2>4. Cardinality(ready') # 0
    BY <2>2, <2>3 DEF Pick, Least
  <2>. QED  BY <2>4, FS_EmptySet
<1>. QED  BY <1>2, <1>3

(* No step leaves the run waiting for nothing while something waits.       *)
LEMMA StepProgresses == IInv /\ BoundInv /\ Account /\ [Next]_vars => Progresses'
<1>. SUFFICES ASSUME IInv, BoundInv, Account, [Next]_vars PROVE Progresses'
  OBVIOUS
<1>. USE DEF Progresses
<1>a. TypeOK /\ Progresses /\ OnlySpawnReady
  BY DEF IInv, Account
<1>1. CASE Still
  BY <1>1, <1>a, FlightMoves DEF Still, OnlySpawnReady
<1>2. ASSUME NEW u \in Units, Inside(u) PROVE Progresses'
  BY <1>2, <1>a DEF Inside, Beside
<1>3. CASE OpenRefused \/ DrainEnds \/ LetGo
  BY <1>3 DEF OpenRefused, DrainEnds, LetGo
<1>4. CASE Finish
  BY <1>4, <1>a DEF Finish
<1>5. CASE Pick
  BY <1>5, PickPicks DEF Pick
<1>6. ASSUME NEW u \in Units, Decline(u) \/ Admit(u) \/ Expand(u) \/ ExpandRefused(u) PROVE Progresses'
  BY <1>6 DEF Decline, Admit, Expand, ExpandRefused
<1>7. ASSUME NEW u \in Units, Spawn(u) PROVE Progresses'
  BY <1>7, <1>a, FlightMoves DEF Spawn
<1>8. ASSUME NEW u \in Units, Unreadable(u) PROVE Progresses'
  BY <1>8 DEF Unreadable
<1>9. ASSUME NEW u \in Units, JoinSuccess(u) \/ JoinFailure(u) \/ JoinSkip(u) \/ JoinKilled(u) \/ DrainJoin(u)
      PROVE  Progresses'
  BY <1>9 DEF JoinSuccess, JoinFailure, JoinSkip, JoinKilled, DrainJoin, Joins
<1>. QED  BY <1>1, <1>2, <1>3, <1>4, <1>5, <1>6, <1>7, <1>8, <1>9, Kinds

(* A run begins with every op accounted for.                               *)
LEMMA InitAccount == Init => Account
<1>. SUFFICES ASSUME Init PROVE Account
  OBVIOUS
<1>a. TypeOK /\ at = "opening" /\ ready = {} /\ admitted = {}
  BY InitTypeOK DEF Init
<1>b. InFlight = {}
  BY DEF Init, InFlight, Running, Landed, Working, Outcomes
<1>c. \A o \in Ops \ Reused : Unit(o) \in pending
  BY DEF Init
<1>d. \A u \in pending : Op(u) \in Ops \ Reused /\ ~IsInstance(u)
  BY UnitFacts DEF Init
<1>1. OnlySpawnReady /\ Progresses
  BY <1>a DEF OnlySpawnReady, Progresses
<1>2. RootsAdmitted
  BY <1>a, <1>b, <1>d DEF RootsAdmitted, OnItsWay
<1>3. RuledIn
  <2>1. \A o \in Reused : stat[Unit(o)] = "success"
    BY UnitFacts, RunExecutionAssumption DEF Init
  <2>2. \A o \in Ops \ Reused : stat[Unit(o)] = "none"
    BY UnitFacts, RunExecutionAssumption DEF Init
  <2>. QED  BY <1>a, <2>1, <2>2 DEF RuledIn
<1>4. Accounted
  BY <1>a, <1>c DEF Accounted
<1>5. RowsClosed
  <2>1. \A u \in Units : row[u] # "absent" => u \in pending
    BY DEF Init
  <2>2. \A u \in pending : stat[u] = "none"
    BY <1>a, <1>d, UnitFacts, RunExecutionAssumption DEF Init, TypeOK
  <2>. QED  BY <1>a, <2>1, <2>2 DEF RowsClosed, Here
<1>. QED  BY <1>1, <1>2, <1>3, <1>4, <1>5 DEF Account

(* Every step accounts for every op.                                       *)
LEMMA StepAccount == IInv /\ BoundInv /\ FanInv /\ Account /\ [Next]_vars => Account'
<1>. SUFFICES ASSUME IInv, BoundInv, FanInv, Account, [Next]_vars PROVE Account'
  OBVIOUS
<1>1. OnlySpawnReady /\ RootsAdmitted /\ RuledIn
  BY DEF Account
<1>. QED  BY <1>1, StepReady, StepRoots, StepRuledIn, StepAccounted, StepRows, StepProgresses DEF Account

(* Whatever the graph and whatever goes wrong, every op of a run is        *)
(* accounted for, and every fan-out is whole.                              *)
THEOREM EveryOpAccounted == Spec => [](Account /\ FanInv /\ BoundInv)
<1>1. Init => Account /\ FanInv /\ BoundInv
  BY InitAccount, InitFan, InitBounds
<1>2. IInv /\ (Account /\ FanInv /\ BoundInv) /\ [Next \/ Done]_vars => (Account /\ FanInv /\ BoundInv)'
  BY StepAccount, StepFan, StepBounds DEF Done
<1>. QED  BY <1>1, <1>2, InvariantHolds, PTL DEF Spec

(* If stored outputs can be read back, a finished run leaves no op behind: *)
(* nothing waits to be spawned and no row is pending or running.           *)
THEOREM NoOpIsLeft == "get" \notin Faults /\ Spec => []NoOpLeft
<1>1. "get" \notin Faults /\ Account => NoOpLeft
  BY DEF Account, RowsClosed, Progresses, NoOpLeft
<1>2. CASE "get" \notin Faults
  <2>1. Account => NoOpLeft
    BY <1>1, <1>2
  <2>. QED  BY <2>1, EveryOpAccounted, PTL
<1>3. CASE "get" \in Faults
  BY <1>3
<1>. QED  BY <1>2, <1>3

(* Where no op waits for a fan-out under a rule that a failure satisfies,  *)
(* an op starts only once no row of a dep is still moving.                 *)
THEOREM DepsAreDone ==
    (\A o \in Ops : Rule[o] = "all_succeeded" \/ Deps[o] \cap Mapped = {}) /\ Spec => []DepsDone
<1> DEFINE Whole == \A o \in Ops : Rule[o] = "all_succeeded" \/ Deps[o] \cap Mapped = {}
<1>1. ASSUME Whole, Account, FanInv, AllOrNothing PROVE DepsDone
  <2>. SUFFICES ASSUME NEW u \in InFlight, NEW v \in Units, Op(v) \in Deps[Op(u)]
                PROVE  row[v] \notin {"pending", "running"}
    BY DEF DepsDone
  <2>1. u \in Units /\ Op(u) \in Ops /\ Op(v) \in Ops
    BY UnitFacts DEF InFlight, Running, Landed
  <2>2. LetIn(Op(u))
    BY <1>1, <2>1 DEF FanInv, OnItsWay
  <2>3. CASE v = Unit(Op(v))
    BY <1>1, <2>2, <2>3 DEF LetIn, Account, RowsClosed
  <2>4. CASE IsInstance(v)
    <3>1. Op(v) \in Mapped /\ Rule[Op(u)] = "all_succeeded"
      BY <1>1, <2>1, <2>4, UnitFacts
    <3>2. row[v] # "absent" => v \in Instances(Op(v))
      BY <2>4 DEF Instances
    <3>. QED  BY <1>1, <3>1, <3>2 DEF AllOrNothing
  <2>. QED  BY <2>3, <2>4, UnitFacts
<1>2. CASE Whole
  <2>1. Account /\ FanInv /\ AllOrNothing => DepsDone
    BY <1>1, <1>2
  <2>. HIDE DEF Whole
  <2>. QED  BY <2>1, EveryOpAccounted, FanOutsAreAllOrNothing, PTL
<1>3. CASE ~Whole
  BY <1>3
<1>. QED  BY <1>2, <1>3

-----------------------------------------------------------------------------
(* What the verdict says. *)

(* A failure the run knows of is one of its ops', or kept all of them from *)
(* running; only a cancel cancels a row; and while the run knows of no     *)
(* failure, the only failed row is that of a child with an attempt left.   *)
Verdicts ==
    /\ failed => NothingRan \/ \E u \in Units : stat[u] = "failed"
    /\ \A u \in Units : row[u] = "canceled" => canceled
    /\ (at # "abandoned" /\ ~failed /\ ~canceled) => \A u \in Units : row[u] = "failed" => u \in InFlight
    /\ at = "ended" => verdict = IF canceled THEN "canceled" ELSE IF failed THEN "failed" ELSE "success"

(* A failure is known by the op that failed.                               *)
LEMMA StepFailed ==
    ASSUME IInv, Account, [Next]_vars, failed => NothingRan \/ \E u \in Units : stat[u] = "failed", failed'
    PROVE  NothingRan' \/ \E u \in Units : stat'[u] = "failed"
<1>. USE DEF Account
<1>a. CASE failed
  BY <1>a, NothingRanStays, StatStays
<1>b. CASE ~failed
  <2>1. CASE Still
    BY <1>b, <2>1 DEF Still
  <2>2. ASSUME NEW u \in Units, Inside(u) PROVE FALSE
    BY <1>b, <2>2 DEF Inside, Beside
  <2>3. CASE OpenRefused
    BY <2>3, RefusedRanNothing
  <2>4. CASE Pick \/ DrainEnds \/ Finish \/ LetGo
    BY <1>b, <2>4 DEF Pick, DrainEnds, Finish, LetGo
  <2>5. ASSUME NEW u \in Units, Decline(u) \/ Admit(u) \/ Expand(u) \/ Spawn(u) PROVE FALSE
    BY <1>b, <2>5 DEF Decline, Admit, Expand, Spawn
  <2>6. ASSUME NEW u \in Units, ExpandRefused(u) PROVE stat'[u] = "failed"
    BY <2>6 DEF ExpandRefused
  <2>7. ASSUME NEW u \in Units, Unreadable(u) \/ JoinFailure(u) PROVE stat'[u] = "failed"
    BY <2>7 DEF Unreadable, JoinFailure, StopsHere
  <2>8. ASSUME NEW u \in Units, JoinSuccess(u) \/ JoinSkip(u) \/ JoinKilled(u) \/ DrainJoin(u) PROVE FALSE
    BY <1>b, <2>8 DEF JoinSuccess, JoinSkip, JoinKilled, DrainJoin
  <2>. QED  BY <2>1, <2>2, <2>3, <2>4, <2>5, <2>6, <2>7, <2>8, Kinds
<1>. QED  BY <1>a, <1>b

(* A row says canceled or failed of a run that was, or of what is still in *)
(* flight.                                                                 *)
LEMMA StepBadRows ==
    ASSUME IInv, Verdicts, [Next]_vars, NEW v \in Units
    PROVE  /\ row'[v] = "canceled" => canceled'
           /\ (at' # "abandoned" /\ ~failed' /\ ~canceled' /\ row'[v] = "failed") => v \in InFlight'
<1> DEFINE Goal == /\ row'[v] = "canceled" => canceled'
                   /\ (at' # "abandoned" /\ ~failed' /\ ~canceled' /\ row'[v] = "failed") => v \in InFlight'
<1>a. TypeOK /\ OnlyCanceledDrains /\ (failed => failed') /\ (canceled => canceled')
  BY AdmittedMoves DEF IInv
<1>b. /\ row[v] = "canceled" => canceled
      /\ (at # "abandoned" /\ ~failed /\ ~canceled /\ row[v] = "failed") => v \in InFlight
  BY DEF Verdicts
<1>c. at = "select" => \A u \in Units : Fits(u)
  BY DEF IInv, UnitInv, Recording
<1>1. CASE Still
  <2>1. at = "abandoned" => at' = "abandoned"
    BY <1>1 DEF Still
  <2>. QED  BY <1>1, <1>a, <1>b, <2>1, FlightMoves DEF Still
<1>2. ASSUME NEW u \in Units, Inside(u) PROVE Goal
  BY <1>2, <1>b DEF Inside, Beside
<1>3. CASE OpenRefused
  BY <1>3, <1>a, <1>b DEF OpenRefused, Moves
<1>4. CASE Pick
  BY <1>4, <1>a, <1>b, FlightMoves DEF Pick
<1>5. CASE DrainEnds
  BY <1>5, <1>a DEF DrainEnds, OnlyCanceledDrains
<1>6. CASE Finish
  BY <1>6, <1>a, <1>b DEF Finish, OnlyCanceledDrains
<1>7. CASE LetGo
  BY <1>7, <1>a, <1>b DEF LetGo
<1>8. ASSUME NEW u \in Units, Decline(u) PROVE Goal
  BY <1>8, <1>a, <1>b, FlightMoves DEF Decline, Moves
<1>9. ASSUME NEW u \in Units, Admit(u) \/ Spawn(u) PROVE Goal
  BY <1>9, <1>a, <1>b, FlightMoves DEF Admit, Spawn
<1>10. ASSUME NEW u \in Units, Expand(u) PROVE Goal
  BY <1>10, <1>a, <1>b, FlightMoves DEF Expand
<1>11. ASSUME NEW u \in Units, ExpandRefused(u) PROVE Goal
  BY <1>11, <1>a, <1>b DEF ExpandRefused, Moves
<1>12. ASSUME NEW u \in Units, Unreadable(u) PROVE Goal
  BY <1>12, <1>a, <1>b DEF Unreadable, StopsHere, Moves
<1>13. ASSUME NEW u \in Units, JoinSuccess(u) PROVE Goal
  <2>1. task[u] = "recorded" => row[u] = "success"
    BY <1>13, <1>c DEF JoinSuccess, Joins, Fits
  <2>2. task[u] = "produced" => row[u] = "running"
    BY <1>13, <1>c DEF JoinSuccess, Joins, Fits
  <2>3. InFlight' = InFlight \ {u} /\ at = "select"
    BY <1>13, <1>a, FlightMoves DEF JoinSuccess, Joins
  <2>4. CASE v = u
    BY <1>13, <2>1, <2>2, <2>4 DEF JoinSuccess, Moves
  <2>5. CASE v # u
    BY <1>13, <1>a, <1>b, <2>3, <2>5 DEF JoinSuccess, Moves
  <2>. QED  BY <2>4, <2>5
<1>14. ASSUME NEW u \in Units, JoinFailure(u) PROVE Goal
  BY <1>14, <1>a, <1>b DEF JoinFailure, StopsHere, Moves
<1>15. ASSUME NEW u \in Units, JoinSkip(u) PROVE Goal
  <2>1. task[u] = "skipped" => row[u] = "running"
    BY <1>15, <1>c DEF JoinSkip, Joins, Fits
  <2>2. task[u] = "skipped_in_child" => row[u] = "skipped"
    BY <1>15, <1>c DEF JoinSkip, Joins, Fits
  <2>3. InFlight' = InFlight \ {u} /\ at = "select"
    BY <1>15, <1>a, FlightMoves DEF JoinSkip, Joins
  <2>4. CASE v = u
    BY <1>15, <2>1, <2>2, <2>4 DEF JoinSkip, StopsHere, Moves
  <2>5. CASE v # u
    BY <1>15, <1>a, <1>b, <2>3, <2>5 DEF JoinSkip, StopsHere, Moves
  <2>. QED  BY <2>4, <2>5
<1>16. ASSUME NEW u \in Units, JoinKilled(u) PROVE Goal
  BY <1>16 DEF JoinKilled
<1>17. ASSUME NEW u \in Units, DrainJoin(u) PROVE Goal
  BY <1>17, <1>a DEF DrainJoin, OnlyCanceledDrains
<1>. QED  BY <1>1, <1>2, <1>3, <1>4, <1>5, <1>6, <1>7, <1>8, <1>9, <1>10, <1>11, <1>12, <1>13,
             <1>14, <1>15, <1>16, <1>17, Kinds

(* Once the run ended its verdict is its flags'.                           *)
LEMMA StepVerdict ==
    ASSUME IInv, Verdicts, [Next]_vars, at' = "ended"
    PROVE  verdict' = IF canceled' THEN "canceled" ELSE IF failed' THEN "failed" ELSE "success"
<1>. USE DEF Verdicts
<1>1. CASE Still
  BY <1>1 DEF Still
<1>2. ASSUME NEW u \in Units, Inside(u) PROVE at = "ended" /\ UNCHANGED <<verdict, canceled, failed>>
  BY <1>2 DEF Inside, Beside
<1>3. CASE Finish
  BY <1>3 DEF Finish
<1>4. CASE OpenRefused \/ Pick \/ DrainEnds \/ LetGo
  BY <1>4 DEF OpenRefused, Pick, DrainEnds, LetGo
<1>5. ASSUME NEW u \in Units, Decline(u) \/ Admit(u) \/ Expand(u) \/ ExpandRefused(u) \/ Spawn(u) \/ Unreadable(u)
      PROVE  FALSE
  BY <1>5 DEF Decline, Admit, Expand, ExpandRefused, Spawn, Unreadable
<1>6. ASSUME NEW u \in Units, JoinSuccess(u) \/ JoinFailure(u) \/ JoinSkip(u) \/ JoinKilled(u) \/ DrainJoin(u)
      PROVE  FALSE
  BY <1>6 DEF JoinSuccess, JoinFailure, JoinSkip, JoinKilled, DrainJoin, Joins
<1>. QED  BY <1>1, <1>2, <1>3, <1>4, <1>5, <1>6, Kinds

(* What every state of a run says of its verdict to come.                  *)
THEOREM VerdictsHold == Spec => []Verdicts
<1>1. Init => Verdicts
  BY DEF Init, Verdicts
<1>2. IInv /\ Account /\ Verdicts /\ [Next \/ Done]_vars => Verdicts'
  <2>. SUFFICES ASSUME IInv, Account, Verdicts, [Next]_vars PROVE Verdicts'
    BY DEF Done
  <2>1. failed' => NothingRan' \/ \E u \in Units : stat'[u] = "failed"
    BY StepFailed DEF Verdicts
  <2>. QED  BY <2>1, StepBadRows, StepVerdict DEF Verdicts
<1>. QED  BY <1>1, <1>2, InvariantHolds, EveryOpAccounted, PTL DEF Spec

(* The verdict of a run: success only over ops that succeeded or skipped,  *)
(* failed only when one failed or none could run.                          *)
THEOREM VerdictsTell == Spec => []VerdictTells
<1>1. IInv /\ Account /\ Verdicts => VerdictTells
  <2>. SUFFICES ASSUME IInv, Account, Verdicts, at = "ended" PROVE VerdictTells
    BY DEF VerdictTells
  <2>1. ASSUME verdict = "success", NEW u \in Units PROVE row[u] \in {"absent", "success", "skipped"}
    <3>1. ~canceled /\ ~failed
      BY <2>1 DEF Verdicts
    <3>2. row[u] # "canceled" /\ row[u] # "failed"
      BY <3>1 DEF Verdicts, IInv, OnlyCanceledDrains, Up
    <3>3. row[u] \notin {"pending", "running"}
      BY <3>1 DEF Account, RowsClosed
    <3>. QED  BY <3>2, <3>3 DEF IInv, TypeOK, Ended
  <2>2. ASSUME verdict = "failed" PROVE admitted = {} \/ \E u \in Units : stat[u] = "failed"
    <3>1. failed
      BY <2>2 DEF Verdicts
    <3>. QED  BY <3>1 DEF Verdicts, NothingRan
  <2>. QED  BY <2>1, <2>2 DEF VerdictTells
<1>. QED  BY <1>1, InvariantHolds, EveryOpAccounted, VerdictsHold, PTL

-----------------------------------------------------------------------------
(* The rules are obeyed. *)

(* What is seeded was worked out of what is seeded too, as in a resume.    *)
SeedsClosed == \A o \in Reused : Deps[o] \subseteq Reused

(* The rule of an op said no of settled deps, or needs one that is known   *)
(* to have stopped.                                                        *)
TurnedDown(o) ==
    \/ (\A d \in Deps[o] : stat[Unit(d)] # "none") /\ ~Admits(o)
    \/ Rule[o] = "all_succeeded" /\ \E d \in Deps[o] : stat[Unit(d)] \in {"failed", "skipped"}

(* What settled without being admitted was turned down,                    *)
RuledOut == \A o \in Ops \ Reused :
    (stat[Unit(o)] # "none" /\ Unit(o) \notin admitted) => TurnedDown(o)

(* and a run that closes, not canceled, has settled every op it could run. *)
AllSettled == (at \in {"closing", "ended"} /\ ~canceled) =>
    \A o \in Ops \ Reused : stat[Unit(o)] # "none" \/ NothingRan \/ ("get" \in Faults /\ failed)

(* No step takes a no back.                                                *)
LEMMA TurnedDownStays ==
    ASSUME IInv, [Next]_vars, NEW o \in Ops, TurnedDown(o)
    PROVE  TurnedDown(o)'
<1>1. \A d \in Deps[o] : Unit(d) \in Units
  BY UnitFacts, RunExecutionAssumption
<1>2. \A d \in Deps[o] : stat[Unit(d)] # "none" => stat'[Unit(d)] = stat[Unit(d)]
  BY <1>1, StatStays
<1>3. CASE (\A d \in Deps[o] : stat[Unit(d)] # "none") /\ ~Admits(o)
  <2>1. \A d \in Deps[o] : stat'[Unit(d)] = stat[Unit(d)]
    BY <1>2, <1>3
  <2>. QED  BY <1>3, <2>1 DEF TurnedDown, Admits, AdmitsOf
<1>4. CASE Rule[o] = "all_succeeded" /\ \E d \in Deps[o] : stat[Unit(d)] \in {"failed", "skipped"}
  BY <1>2, <1>4 DEF TurnedDown
<1>. QED  BY <1>3, <1>4 DEF TurnedDown

(* The skips that are propagated early, past ops that still run, skip only *)
(* what its own rule would have turned down.                               *)
LEMMA CutTurnsDown ==
    ASSUME SeedsClosed, IInv, Account, [Next]_vars, Loop, ~NothingRan,
           NEW o \in Ops, stat[Unit(o)] = "none", stat'[Unit(o)] \in {"failed", "skipped"},
           \A w \in Cut(o) : stat'[w] \in {"failed", "skipped"}, NEW d \in CutOff[o]
    PROVE  TurnedDown(d)'
<1>. USE DEF Account
<1> DEFINE S == {e \in Ops \ Reused : Unit(e) \notin admitted /\ stat[Unit(e)] # "success"}
<1>1. WalkStays(o, S)
  <2>. SUFFICES ASSUME NEW e \in Ops, Rule[e] = "all_succeeded", Deps[e] \cap (S \cup {o}) # {}
                PROVE  e \in S
    BY DEF WalkStays
  <2>1. PICK c \in Deps[e] : c \in S \cup {o}
    OBVIOUS
  <2>2. stat[Unit(c)] # "success" /\ c \notin Reused
    BY <2>1 DEF RuledIn
  <2>3. e \notin Reused
    BY <2>1, <2>2 DEF SeedsClosed
  <2>4. Unit(e) \notin admitted
    BY <2>1, <2>2 DEF RuledIn, LetIn, Admits, AdmitsOf
  <2>. QED  BY <2>3, <2>4 DEF RuledIn
<1>2. CutOff[o] \subseteq S
  BY <1>1, WalkLeast
<1>3. d \in Ops /\ Rule[d] = "all_succeeded"
  BY WalkCloses, WalkReaches
<1>4. PICK e \in Deps[d] : e = o \/ e \in CutOff[o]
  BY WalkReaches
<1>5. stat'[Unit(e)] \in {"failed", "skipped"}
  <2>1. CASE e = o
    BY <2>1
  <2>2. CASE e \in CutOff[o]
    <3>1. e \in S /\ Unit(e) \in Units /\ TypeOK
      BY <1>2, <2>2, UnitFacts DEF IInv
    <3>2. CASE stat[Unit(e)] = "none"
      <4>1. Unit(e) \in pending
        BY <3>1, <3>2 DEF Accounted
      <4>2. Unit(e) \in Cut(o)
        BY <2>2, <4>1 DEF Cut
      <4>. QED  BY <4>2
    <3>3. CASE stat[Unit(e)] # "none"
      BY <3>1, <3>3, StatStays DEF TypeOK, Settled
    <3>. QED  BY <3>2, <3>3
  <2>. QED  BY <1>4, <2>1, <2>2
<1>. QED  BY <1>3, <1>4, <1>5 DEF TurnedDown

(* Every step turns down only what the rules do.                           *)
LEMMA StepRuledOut ==
    ASSUME SeedsClosed, IInv, FanInv, Account, RuledOut, [Next]_vars, NEW o \in Ops \ Reused,
           stat'[Unit(o)] # "none", Unit(o) \notin admitted'
    PROVE  TurnedDown(o)'
<1>. USE DEF Account
<1>a. TypeOK /\ Unit(o) \in Units /\ Op(Unit(o)) = o /\ ~IsInstance(Unit(o)) /\ Unit(o) \notin admitted
  BY UnitFacts, AdmittedMoves DEF IInv
<1>b. CASE stat[Unit(o)] # "none"
  BY <1>a, <1>b, TurnedDownStays DEF RuledOut
<1>c. CASE stat[Unit(o)] = "none"
  <2>a. ASSUME Loop, ~NothingRan, NEW c \in Ops, stat[Unit(c)] = "none",
               stat'[Unit(c)] \in {"failed", "skipped"},
               \A w \in Cut(c) : stat'[w] \in {"failed", "skipped"}, Unit(o) \in Cut(c)
        PROVE  TurnedDown(o)'
    <3>1. o \in CutOff[c]
      BY <2>a, WalkCloses DEF Cut, Unit
    <3>. QED  BY <2>a, <3>1, CutTurnsDown
  <2>b. ASSUME NEW u \in Units, OnItsWay(u) PROVE Unit(o) # u /\ Unit(o) # Unit(Op(u)) /\ ~NothingRan
    BY <1>a, <2>b, UnitFacts DEF RootsAdmitted, NothingRan
  <2>c. ASSUME Loop, NEW u \in Units, OnItsWay(u), NEW s \in {"failed", "skipped"}, NEW r, StopsHere(u, s, r)
        PROVE  TurnedDown(o)'
    <3>1. Op(u) \in Ops /\ Unit(Op(u)) \in Units /\ (~IsInstance(u) => u = Unit(Op(u)))
      BY UnitFacts
    <3>2. stat[Unit(Op(u))] = "none" /\ Unit(o) \in Cut(Op(u))
      BY <1>a, <1>c, <2>b, <2>c, <3>1 DEF StopsHere
    <3>3. Cut(Op(u)) \subseteq Units
      BY <1>a, <3>1, CutFacts DEF TypeOK
    <3>4. stat'[Unit(Op(u))] = s /\ \A w \in Cut(Op(u)) : stat'[w] \in {"failed", "skipped"}
      BY <2>c, <3>1, <3>2, <3>3 DEF StopsHere
    <3>. QED  BY <2>a, <2>b, <2>c, <3>1, <3>2, <3>4
  <2>1. CASE Still
    BY <1>c, <2>1 DEF Still
  <2>2. ASSUME NEW u \in Units, Inside(u) PROVE FALSE
    BY <1>c, <2>2 DEF Inside, Beside
  <2>3. CASE OpenRefused \/ Pick \/ DrainEnds \/ Finish \/ LetGo
    BY <1>c, <2>3 DEF OpenRefused, Pick, DrainEnds, Finish, LetGo
  <2>4. ASSUME NEW u \in Units, Admit(u) \/ Spawn(u) \/ JoinKilled(u) \/ DrainJoin(u) PROVE FALSE
    BY <1>c, <2>4 DEF Admit, Spawn, JoinKilled, DrainJoin
  <2>5. ASSUME NEW u \in Units, Expand(u) PROVE FALSE
    BY <1>a, <1>c, <2>5 DEF Expand, TypeOK
  <2>6. ASSUME NEW u \in Units, Decline(u) PROVE TurnedDown(o)'
    <3>1. u \in pending /\ Loop /\ ~NothingRan
      BY <2>6 DEF Decline, Ready, Loop, NothingRan
    <3>2. u = Unit(Op(u)) /\ Op(u) \in Ops
      <4>1. ~OnItsWay(u)
        BY <2>6 DEF FanInv, LetIn, Decline
      <4>. QED  BY <3>1, <4>1, UnitFacts DEF OnItsWay
    <3>3. CASE Unit(o) = u
      <4>1. TurnedDown(o)
        BY <1>a, <2>6, <3>3 DEF Decline, Ready, TurnedDown
      <4>. QED  BY <4>1, TurnedDownStays
    <3>4. CASE Unit(o) \in Cut(Op(u))
      <4>1. stat[u] = "none"
        BY <3>1 DEF IInv, UnitInv, WaitsBlank, Blank
      <4>2. stat'[u] = "skipped" /\ \A w \in Cut(Op(u)) : stat'[w] \in {"failed", "skipped"}
        BY <1>a, <2>6, CutFacts, <3>2 DEF Decline, TypeOK
      <4>. QED  BY <2>a, <3>1, <3>2, <3>4, <4>1, <4>2
    <3>. QED  BY <1>a, <1>c, <2>6, <3>3, <3>4 DEF Decline
  <2>7. ASSUME NEW u \in Units, ExpandRefused(u) PROVE TurnedDown(o)'
    <3>1. u \in pending /\ Loop /\ ~NothingRan /\ u = Unit(Op(u)) /\ Op(u) \in Ops
      BY <2>7, RowFacts, UnitFacts DEF ExpandRefused, Ready, Loop, NothingRan
    <3>2. Unit(o) # u
      BY <2>7 DEF ExpandRefused
    <3>3. Unit(o) \in Cut(Op(u))
      BY <1>a, <1>c, <2>7, <3>2 DEF ExpandRefused
    <3>4. stat[u] = "none"
      BY <3>1 DEF IInv, UnitInv, WaitsBlank, Blank
    <3>5. stat'[u] = "failed"
      BY <2>7 DEF ExpandRefused
    <3>6. \A w \in Cut(Op(u)) : stat'[w] \in {"failed", "skipped"}
      BY <1>a, <2>7, CutFacts, <3>1 DEF ExpandRefused, TypeOK
    <3>. QED  BY <2>a, <3>1, <3>3, <3>4, <3>5, <3>6
  <2>8. ASSUME NEW u \in Units, Unreadable(u) PROVE TurnedDown(o)'
    BY <2>8, <2>c DEF Unreadable, OnItsWay, Loop
  <2>9. ASSUME NEW u \in Units, JoinFailure(u) \/ JoinSkip(u) PROVE TurnedDown(o)'
    <3>1. u \in InFlight /\ Loop
      BY <1>a, <2>9, FlightMoves DEF JoinFailure, JoinSkip, Joins, Loop
    <3>. QED  BY <2>9, <3>1, <2>c DEF JoinFailure, JoinSkip, OnItsWay
  <2>10. ASSUME NEW u \in Units, JoinSuccess(u) PROVE FALSE
    <3>1. stat'[Unit(o)] = "success"
      BY <1>a, <1>c, <2>10 DEF JoinSuccess, Collects
    <3>. QED  BY <1>c, <3>1, SuccessAdmitted
  <2>. QED  BY <2>1, <2>2, <2>3, <2>4, <2>5, <2>6, <2>7, <2>8, <2>9, <2>10, Kinds
<1>. QED  BY <1>b, <1>c

(* A run closes when it has nothing in flight and nothing left to spawn.   *)
LEMMA StepAllSettled ==
    ASSUME IInv, Account, AllSettled, [Next]_vars
    PROVE  AllSettled'
<1>. SUFFICES ASSUME at' \in {"closing", "ended"}, ~canceled', NEW o \in Ops \ Reused
              PROVE  stat'[Unit(o)] # "none" \/ NothingRan' \/ ("get" \in Faults /\ failed')
  BY DEF AllSettled, Unit
<1>. USE DEF Account
<1>a. TypeOK /\ OnlyCanceledDrains /\ ~canceled /\ (failed => failed')
  BY AdmittedMoves DEF IInv
<1>b. ASSUME at \in {"closing", "ended"}
      PROVE  stat'[Unit(o)] # "none" \/ NothingRan' \/ ("get" \in Faults /\ failed')
  <2>1. stat[Unit(o)] # "none" \/ NothingRan \/ ("get" \in Faults /\ failed)
    BY <1>a, <1>b DEF AllSettled
  <2>. QED  BY <1>a, <2>1, StatStays, NothingRanStays, UnitFacts
<1>1. CASE Still
  <2>1. CASE at = "select" /\ InFlight = {}
    <3>1. SUFFICES ASSUME stat[Unit(o)] = "none", ~NothingRan, ~("get" \in Faults /\ failed)
                   PROVE  FALSE
      BY <1>1, <1>a, NothingRanStays DEF Still
    <3>2. ready = {} /\ pending = {} /\ Loop
      BY <2>1, <3>1 DEF Progresses, OnlySpawnReady, Loop
    <3>3. \A v \in Units : ~Here(v)
      BY <2>1, <3>2 DEF Here
    <3>4. Unit(o) \in admitted
      BY <3>1, <3>2 DEF Accounted
    <3>5. PICK v \in Instances(o) : stat[v] = "none"
      BY <3>1, <3>2, <3>3, <3>4, UnitFacts DEF Accounted
    <3>. QED  BY <3>1, <3>2, <3>3, <3>5 DEF RowsClosed, Instances
  <2>2. CASE at \in {"closing", "ended"}
    BY <1>b, <2>2
  <2>. QED  BY <1>1, <2>1, <2>2 DEF Still
<1>2. ASSUME NEW u \in Units, Inside(u) PROVE at \in {"closing", "ended"}
  BY <1>2 DEF Inside, Beside
<1>3. CASE Finish
  BY <1>3, <1>b DEF Finish
<1>4. CASE OpenRefused \/ Pick \/ LetGo
  BY <1>4 DEF OpenRefused, Pick, LetGo
<1>5. CASE DrainEnds
  BY <1>5, <1>a DEF DrainEnds, OnlyCanceledDrains
<1>6. ASSUME NEW u \in Units, Decline(u) \/ Admit(u) \/ Expand(u) \/ ExpandRefused(u) \/ Spawn(u) \/ Unreadable(u)
      PROVE  FALSE
  BY <1>6 DEF Decline, Admit, Expand, ExpandRefused, Spawn, Unreadable
<1>7. ASSUME NEW u \in Units, JoinSuccess(u) \/ JoinFailure(u) \/ JoinSkip(u) \/ JoinKilled(u) \/ DrainJoin(u)
      PROVE  FALSE
  BY <1>7 DEF JoinSuccess, JoinFailure, JoinSkip, JoinKilled, DrainJoin, Joins
<1>. QED  BY <1>1, <1>2, <1>3, <1>4, <1>5, <1>6, <1>7, <1>b, Kinds

(* Where what is seeded rests only on what is seeded, every resource is    *)
(* there and every stored output can be read back, an op runs exactly when *)
(* its trigger rule says so of what its deps came to in the end: the skips *)
(* that were propagated early agree with the rules.                        *)
THEOREM RulesAreObeyed ==
    SeedsClosed /\ Faults \cap {"get", "open"} = {} /\ Spec => []RulesObeyed
<1>1. Init => AllSettled
  BY DEF Init, AllSettled
<1>2. IInv /\ Account /\ AllSettled /\ [Next \/ Done]_vars => AllSettled'
  BY StepAllSettled DEF Done
<1>3. Init => RuledOut
  <2>. SUFFICES ASSUME Init PROVE RuledOut
    OBVIOUS
  <2>1. \A o \in Ops \ Reused : stat[Unit(o)] = "none"
    BY UnitFacts, RunExecutionAssumption DEF Init
  <2>. QED  BY <2>1 DEF RuledOut
<1>4. ASSUME SeedsClosed, IInv, FanInv, Account, RuledOut, [Next \/ Done]_vars PROVE RuledOut'
  BY <1>4, StepRuledOut DEF RuledOut, Done, Unit
<1>5. ASSUME Faults \cap {"get", "open"} = {}, IInv, Account, Verdicts, RuledOut, AllSettled
      PROVE  RulesObeyed
  <2>. SUFFICES ASSUME at = "ended", verdict # "canceled", NEW o \in Ops \ Reused
                PROVE  stat[Unit(o)] # "none" /\ (Unit(o) \in admitted <=> Admits(o))
    BY DEF RulesObeyed
  <2>1. ~canceled
    BY <1>5 DEF Verdicts
  <2>2. stat[Unit(o)] # "none"
    BY <1>5, <2>1 DEF AllSettled, NothingRan
  <2>3. Unit(o) \in admitted => Admits(o)
    BY <1>5 DEF Account, RuledIn, LetIn
  <2>4. TurnedDown(o) => ~Admits(o)
    BY DEF TurnedDown, Admits, AdmitsOf
  <2>. QED  BY <1>5, <2>2, <2>3, <2>4 DEF RuledOut
<1>6. CASE SeedsClosed /\ Faults \cap {"get", "open"} = {}
  <2>1. IInv /\ FanInv /\ Account /\ RuledOut /\ [Next \/ Done]_vars => RuledOut'
    BY <1>4, <1>6
  <2>2. IInv /\ Account /\ Verdicts /\ RuledOut /\ AllSettled => RulesObeyed
    BY <1>5, <1>6
  <2>. QED  BY <1>1, <1>2, <1>3, <2>1, <2>2, InvariantHolds, EveryOpAccounted, VerdictsHold, PTL DEF Spec
<1>7. CASE ~(SeedsClosed /\ Faults \cap {"get", "open"} = {})
  BY <1>7
<1>. QED  BY <1>6, <1>7
=============================================================================
