---------------------------- MODULE RunnerProofs ----------------------------
(***************************************************************************)
(* What the processes of RunQueue remember agrees with the rows, and what  *)
(* follows: no cancel nobody asked for, no claim renewed that nobody       *)
(* executes, no run past the slots, no lease that lapses under its run.    *)
(* And what the rows alone show: ops and runs agree.                       *)
(***************************************************************************)
EXTENDS RunQueueProofs

USE DEF rowVars, procVars, taskVars, histVars, vars

-----------------------------------------------------------------------------
(* The op row. *)

Unfinished == {"pending", "running"}
Open       == {"queued", "running"}

(* What a step may do to an op: whatever it likes while it is unfinished,  *)
(* and start it.                                                           *)
OpMoves(r) == op'[r] = op[r] \/ op[r] \in Unfinished \/ op'[r] = "running"

(* Marking ops moves unfinished ones only.                                 *)
LEMMA MarkingOps ==
    \A o : /\ Interrupted(o) = o \/ (o \in Unfinished /\ Interrupted(o) \in {"failed", "skipped"})
           /\ o \in Unfinished => Interrupted(o) \notin Unfinished
BY DEF Interrupted, Unfinished

(* Every step leaves an op that ended where it ended, but a fresh start.   *)
LEMMA StepMovesOps == IInv /\ [Next]_vars => \A r \in Runs : OpMoves(r)
<1> SUFFICES ASSUME TypeOK, [Next]_vars, NEW r \in Runs PROVE OpMoves(r)
  BY DEF IInv
<1>a. op' = op => OpMoves(r)
  BY DEF OpMoves
<1>1. CASE Outside
  <2>1. ASSUME NEW s \in Runs, NEW p \in Procs, CancelQueued(p, s) PROVE OpMoves(r)
    BY <2>1 DEF CancelQueued, OpMoves, Unfinished, TypeOK
  <2> QED
    BY <1>1, <1>a, <2>1 DEF Outside, Submit, SetPriority, CancelSignal
<1>2. CASE Tick
  BY <1>2, <1>a DEF Tick
<1>3. ASSUME NEW p \in Procs, Dispatch(p) PROVE OpMoves(r)
  BY <1>3, <1>a DEF Dispatch, PassBegin, PassEnd, Start, ClaimNext, ClaimUnheard, ClaimRow
<1>4. ASSUME NEW S, op' = [s \in Runs |-> IF s \in S THEN Interrupted(op[s]) ELSE op[s]]
      PROVE  OpMoves(r)
  BY <1>4, MarkingOps DEF OpMoves
<1>5. ASSUME NEW p \in Procs, Heartbeat(p) PROVE OpMoves(r)
  <2>1. ASSUME NEW renewed \in BOOLEAN, Beat(p, renewed) PROVE OpMoves(r)
    <3> DEFINE lease == IF renewed THEN Renewed(p) ELSE left
    <3>1. Reclaim(Lapses(p, lease), lease) \/ op' = op
      BY <2>1 DEF Beat
    <3> HIDE DEF lease
    <3> QED
      BY <1>a, <1>4, <3>1 DEF Reclaim
  <2>2. CASE BeatEnd(p)
    BY <1>4, <2>2 DEF BeatEnd, Reclaim
  <2> QED
    BY <1>5, <2>1, <2>2 DEF Heartbeat
<1>6. ASSUME NEW p \in Procs, Process(p) PROVE OpMoves(r)
  <2>1. CASE Boot(p)
    BY <1>4, <2>1 DEF Boot
  <2>2. CASE ReleaseClaims(p)
    BY <2>2 DEF ReleaseClaims, OpMoves, Unfinished
  <2> QED
    BY <1>6, <1>a, <2>1, <2>2 DEF Process, BootEnd, BeginStop, DrainActive, ReleaseRefused, Exit
<1>7. ASSUME NEW t \in Tokens, Execute(t) \/ WriteRefused(t) PROVE OpMoves(r)
  <2>1. ASSUME NEW s, Records(task[t].run, s) PROVE OpMoves(r)
    BY <2>1 DEF Records, OpMoves, Unfinished, TypeOK
  <2>2. CASE OpStart(t)
    BY <2>2 DEF OpStart, OpMoves, TypeOK
  <2> QED
    BY <1>7, <1>a, <2>1, <2>2 DEF Execute, Begin, SkipAll, Notice, OpEnd, Drain, Finish, FinishUnheard,
                                  FinishRow, ClaimLost, AbortTakes, WriteRefused
<1>8. CASE UNCHANGED vars
  BY <1>8, <1>a
<1> QED
  BY <1>1, <1>2, <1>3, <1>5, <1>6, <1>7, <1>8 DEF Next

(* Nothing, whoever writes it and however late, moves an op off a terminal *)
(* status except the start of another attempt at it.                       *)
THEOREM OpsLeaveTerminalByStart == Spec => OpLeavesTerminalByStart
<1>1. IInv /\ [Next]_vars => \A r \in Runs :
          (op[r] \notin {"pending", "running"} /\ op'[r] # op[r]) => op'[r] = "running"
  BY StepMovesOps DEF OpMoves, Unfinished
<1> QED
  BY <1>1, InvariantHolds, PTL DEF Spec, OpLeavesTerminalByStart

-----------------------------------------------------------------------------
(* The run row and the op row. *)

(* What the row of a run lets the row of its op be.                        *)
OpFits(r) ==
    /\ status[r] \in Terminal => op[r] \notin Unfinished
    /\ status[r] = "success" => op[r] \in {"success", "skipped"}
    /\ status[r] = "queued" => op[r] # "running"
    /\ status[r] = "absent" => op[r] = "pending"

(* What an execution that holds its run knows of the op.                   *)
KnowsOp(t) ==
    LET r == task[t].run
    IN  (claim[r] = t /\ Active(r)) =>
            /\ task[t].phase = "op" => op[r] = "running"
            /\ task[t].phase = "closing" =>
                 /\ op[r] \notin Unfinished
                 /\ task[t].result = "success" => op[r] \in {"success", "skipped"}

RowInv == /\ \A p \in Procs : doomed[p] = {}
          /\ \A r \in Runs : OpFits(r)
          /\ \A t \in Tokens : KnowsOp(t)

(* An execution knows what it knew while nobody takes the run or writes    *)
(* the op under it.                                                        *)
LEMMA KnowsStill ==
    ASSUME NEW t \in Tokens, KnowsOp(t),
           task'[t] = task[t] \/ task'[t].phase \notin {"op", "closing"},
           LET r == task[t].run
           IN  task[t].phase \in {"op", "closing"} /\ claim'[r] = t /\ status'[r] \in Open =>
                   claim[r] = t /\ status[r] \in Open /\ op'[r] = op[r]
    PROVE  KnowsOp(t)'
BY DEF KnowsOp, Active, Open

(* A row that is left alone fits as it did.                                *)
LEMMA FitsStill ==
    ASSUME NEW r, OpFits(r), status'[r] = status[r], op'[r] = op[r] PROVE OpFits(r)'
BY DEF OpFits

(* One write of an execution: no other execution holds the run.            *)
LEMMA KnowsElsewhere ==
    ASSUME TypeOK, NEW t \in Tokens, task[t].run \in Runs, claim[task[t].run] = t,
           claim' = claim, status' = status, NEW o, op' = [op EXCEPT ![task[t].run] = o],
           NEW u \in Tokens, u # t, task'[u] = task[u], KnowsOp(u)
    PROVE  KnowsOp(u)'
<1>1. claim[task[u].run] = u => op'[task[u].run] = op[task[u].run]
  BY DEF TypeOK
<1> QED
  BY <1>1, KnowsStill

(* Every step keeps them: an op is marked by what ends its run, and an     *)
(* execution ends a run after its op.                                      *)
LEMMA StepRowInv == TwoStep = FALSE /\ IInv /\ RowInv /\ [Next]_vars => RowInv'
<1> SUFFICES ASSUME TwoStep = FALSE, TypeOK, ClaimsAgree, RowInv, [Next]_vars PROVE RowInv'
  BY DEF IInv
<1> DEFINE Fits  == \A r \in Runs : OpFits(r)'
           Knows == \A t \in Tokens : KnowsOp(t)'
           None  == \A p \in Procs : doomed'[p] = {}
<1> SUFFICES None /\ Fits /\ Knows
  BY DEF RowInv
<1>a. /\ \A p \in Procs : doomed[p] = {}
      /\ \A r \in Runs : OpFits(r)
      /\ \A t \in Tokens : KnowsOp(t)
  BY DEF RowInv
<1>b. doomed' = doomed => None
  BY <1>a
<1>c. status' = status /\ op' = op => Fits
  BY <1>a, FitsStill
<1>d. status' = status /\ op' = op /\ claim' = claim
      /\ (\A t \in Tokens : task'[t] = task[t] \/ task'[t].phase \notin {"op", "closing"})
      => Knows
  BY <1>a, KnowsStill
<1>1. CASE Outside
  <2>1. ASSUME NEW s \in Runs, NEW n \in Priorities, Submit(s, n) PROVE Fits /\ Knows
    <3>1. /\ status[s] = "absent" /\ status' = [status EXCEPT ![s] = "queued"]
          /\ UNCHANGED <<op, claim, task>>
      BY <2>1 DEF Submit
    <3>2. claim[s] = NoToken
      BY <3>1 DEF ClaimsAgree
    <3>3. Fits
      BY <1>a, <3>1 DEF OpFits, TypeOK, Terminal
    <3>4. ASSUME NEW t \in Tokens PROVE KnowsOp(t)'
      <4>1. claim[task[t].run] = t /\ task[t].run \in Runs => status'[task[t].run] = status[task[t].run]
        BY <3>1, <3>2, NotNull DEF TypeOK
      <4>2. task[t].run \notin Runs => task[t].phase \notin {"op", "closing"}
        BY LiveTask DEF Phases
      <4> QED
        BY <1>a, <3>1, <4>1, <4>2, KnowsStill
    <3> QED
      BY <3>3, <3>4
  <2>2. ASSUME NEW s \in Runs, NEW p \in Procs, CancelQueued(p, s) PROVE Fits /\ Knows
    <3>1. /\ status[s] = "queued" /\ owner[s] = NoProc
          /\ status' = [status EXCEPT ![s] = "canceled"]
          /\ op' = [op EXCEPT ![s] = IF @ = "pending" THEN "canceled" ELSE @]
          /\ UNCHANGED <<claim, task>>
      BY <2>2 DEF CancelQueued, Waiting, Claimed
    <3>2. claim[s] = NoToken
      BY <3>1 DEF ClaimsAgree
    <3>3. Fits
      BY <1>a, <3>1 DEF OpFits, TypeOK, Terminal, Unfinished
    <3>4. ASSUME NEW t \in Tokens PROVE KnowsOp(t)'
      <4>1. claim[task[t].run] = t /\ task[t].run \in Runs =>
                status'[task[t].run] = status[task[t].run] /\ op'[task[t].run] = op[task[t].run]
        BY <3>1, <3>2, NotNull DEF TypeOK
      <4>2. task[t].run \notin Runs => task[t].phase \notin {"op", "closing"}
        BY LiveTask DEF Phases
      <4> QED
        BY <1>a, <3>1, <4>1, <4>2, KnowsStill
    <3> QED
      BY <3>3, <3>4
  <2>3. ASSUME NEW s \in Runs, NEW n \in Priorities, SetPriority(s, n) PROVE Fits /\ Knows
    BY <1>c, <1>d, <2>3 DEF SetPriority
  <2>4. ASSUME NEW s \in Runs, NEW p \in Procs, CancelSignal(p, s) PROVE Fits /\ Knows
    BY <1>c, <1>d, <2>4 DEF CancelSignal
  <2>5. None
    BY <1>1, <1>b DEF Outside, Submit, SetPriority, CancelQueued, CancelSignal
  <2> QED
    BY <1>1, <2>1, <2>2, <2>3, <2>4, <2>5 DEF Outside
<1>2. CASE Tick
  BY <1>2, <1>b, <1>c, <1>d DEF Tick
<1>3. ASSUME NEW p \in Procs, Dispatch(p) PROVE None /\ Fits /\ Knows
  <2>1. CASE PassBegin(p) \/ PassEnd(p)
    BY <1>b, <1>c, <1>d, <2>1 DEF PassBegin, PassEnd
  <2>2. ASSUME NEW t \in Tokens, Start(p, t) PROVE None /\ Fits /\ Knows
    <3>1. \A u \in Tokens : task'[u] = task[u] \/ task'[u].phase \notin {"op", "closing"}
      <4>1. task[t] \in Tasks
        BY <2>2, LiveTask DEF Start, Phases
      <4>2. task'[t].phase = "new" /\ \A u \in Tokens \ {t} : task'[u] = task[u]
        BY <2>2, <4>1 DEF Start, TypeOK, Tasks
      <4> QED
        BY <4>2
    <3> QED
      BY <1>b, <1>c, <1>d, <2>2, <3>1 DEF Start
  <2>3. ASSUME NEW t \in Tokens, NEW s \in Runs, ClaimNext(p, s, t) \/ ClaimUnheard(p, s, t)
        PROVE  None /\ Fits /\ Knows
    <3>1. /\ FreeToken(t) /\ claim' = [claim EXCEPT ![s] = t] /\ UNCHANGED <<status, op, doomed>>
          /\ task' = task \/ task' = [task EXCEPT ![t] = NewTask(p, s)]
      BY <2>3 DEF ClaimNext, ClaimUnheard, ClaimRow
    <3>2. ASSUME NEW u \in Tokens PROVE KnowsOp(u)'
      <4>1. CASE u = t
        <5>1. task'[t].phase \notin {"op", "closing"}
          <6>1. task'[t] = NoTask \/ task'[t] = NewTask(p, s)
            BY <3>1 DEF FreeToken, TypeOK
          <6>2. NewTask(p, s).phase = "picked"
            BY DEF NewTask
          <6> QED
            BY <6>1, <6>2, TaskTypes
        <5> QED
          BY <4>1, <5>1 DEF KnowsOp
      <4>2. CASE u # t
        BY <1>a, <3>1, <4>2, KnowsStill DEF TypeOK
      <4> QED
        BY <4>1, <4>2
    <3> QED
      BY <1>b, <1>c, <3>1, <3>2
  <2> QED
    BY <1>3, <2>1, <2>2, <2>3 DEF Dispatch
<1>4. ASSUME NEW S, NEW U, U \in SUBSET S,
             op' = [r \in Runs |-> IF r \in S THEN Interrupted(op[r]) ELSE op[r]],
             \A r \in Runs : status'[r] = IF r \notin S THEN status[r]
                                          ELSE IF r \in U THEN "queued" ELSE "failed",
             \A r \in Runs : claim'[r] = IF r \in U THEN NoToken ELSE claim[r],
             task' = task
      PROVE  Fits /\ Knows
  <2>1. ASSUME NEW r \in Runs PROVE OpFits(r)'
    <3>1. CASE r \notin S
      BY <1>4, <1>a, <3>1, FitsStill
    <3>2. CASE r \in S
      <4>1. Interrupted(op[r]) \notin Unfinished
        BY MarkingOps
      <4> QED
        BY <1>4, <3>2, <4>1 DEF OpFits, Unfinished, Terminal
    <3> QED
      BY <3>1, <3>2
  <2>2. ASSUME NEW t \in Tokens PROVE KnowsOp(t)'
    <3> DEFINE r == task[t].run
    <3>1. r \in Runs /\ claim'[r] = t /\ status'[r] \in Open =>
              claim[r] = t /\ status[r] \in Open /\ op'[r] = op[r]
      BY <1>4, NotNull DEF Open
    <3>2. r \notin Runs => task[t].phase \notin {"op", "closing"}
      BY LiveTask DEF Phases
    <3> QED
      BY <1>4, <1>a, <3>1, <3>2, KnowsStill
  <2> QED
    BY <2>1, <2>2
<1>5. ASSUME NEW p \in Procs, Heartbeat(p) PROVE None /\ Fits /\ Knows
  <2>1. ASSUME NEW S, NEW lease, Reclaim(S, lease), task' = task PROVE Fits /\ Knows
    <3> DEFINE U == IF Policy = "Requeue" THEN S ELSE {}
    <3>1. Unclaims(U) /\ U \in SUBSET S
      BY <2>1 DEF Reclaim
    <3>2. \A r \in Runs : status'[r] = IF r \notin S THEN status[r]
                                       ELSE IF r \in U THEN "queued" ELSE "failed"
      BY <2>1, RunQueueAssumption DEF Reclaim
    <3>3. op' = [r \in Runs |-> IF r \in S THEN Interrupted(op[r]) ELSE op[r]]
      BY <2>1 DEF Reclaim
    <3> HIDE DEF U
    <3> QED
      BY <1>4, <2>1, <3>1, <3>2, <3>3 DEF Unclaims
  <2>2. ASSUME NEW renewed \in BOOLEAN, Beat(p, renewed) PROVE None /\ Fits /\ Knows
    <3> DEFINE lease == IF renewed THEN Renewed(p) ELSE left
    <3>1. Reclaim(Lapses(p, lease), lease) \/ UNCHANGED <<status, op, claim>>
      BY <2>2 DEF Beat
    <3>2. task' = task /\ doomed' = doomed
      BY <2>2 DEF Beat
    <3> HIDE DEF lease
    <3> QED
      BY <1>b, <1>c, <1>d, <2>1, <3>1, <3>2
  <2>3. CASE BeatEnd(p)
    BY <1>b, <2>1, <2>3 DEF BeatEnd
  <2> QED
    BY <1>5, <2>2, <2>3 DEF Heartbeat
<1>6. ASSUME NEW p \in Procs, Process(p) PROVE None /\ Fits /\ Knows
  <2>1. CASE Boot(p)
    <3>1. Fits /\ Knows
      <4>1. /\ op' = [r \in Runs |-> IF r \in Expired(p) THEN Interrupted(op[r]) ELSE op[r]]
            /\ status' = [r \in Runs |-> IF r \in Expired(p) THEN "failed" ELSE status[r]]
            /\ claim' = claim /\ task' = task
        BY <2>1 DEF Boot
      <4>2. \A r \in Runs : status'[r] = IF r \notin Expired(p) THEN status[r]
                                         ELSE IF r \in {} THEN "queued" ELSE "failed"
        BY <4>1
      <4>3. \A r \in Runs : claim'[r] = IF r \in {} THEN NoToken ELSE claim[r]
        BY <4>1
      <4> DEFINE S == Expired(p)
                 U == {}
      <4>4. /\ U \in SUBSET S
            /\ \A r \in Runs : status'[r] = IF r \notin S THEN status[r]
                                         ELSE IF r \in U THEN "queued" ELSE "failed"
            /\ \A r \in Runs : claim'[r] = IF r \in U THEN NoToken ELSE claim[r]
            /\ op' = [r \in Runs |-> IF r \in S THEN Interrupted(op[r]) ELSE op[r]]
        BY <4>1, <4>2, <4>3
      <4> HIDE DEF S, U
      <4> QED
        BY <1>4, <4>1, <4>4
    <3>2. doomed' = doomed
      BY <2>1 DEF Boot
    <3> QED
      BY <1>b, <3>1, <3>2
  <2>2. ~BootEnd(p)
    BY <1>a DEF BootEnd
  <2>3. CASE ReleaseClaims(p)
    <3> DEFINE S == Released(p)
    <3>1. /\ op' = [r \in Runs |-> IF r \in S /\ op[r] = "running" THEN "pending" ELSE op[r]]
          /\ status' = [r \in Runs |-> IF r \in S THEN "queued" ELSE status[r]]
          /\ claim' = [r \in Runs |-> IF r \in S THEN NoToken ELSE claim[r]]
          /\ task' = task /\ doomed' = doomed
      BY <2>3 DEF ReleaseClaims, Unclaims
    <3> HIDE DEF S
    <3>2. ASSUME NEW r \in Runs PROVE OpFits(r)'
      BY <1>a, <3>1 DEF OpFits, Unfinished, Terminal
    <3>3. ASSUME NEW t \in Tokens PROVE KnowsOp(t)'
      <4> DEFINE r == task[t].run
      <4>1. r \in Runs /\ claim'[r] = t /\ status'[r] \in Open =>
                claim[r] = t /\ status[r] \in Open /\ op'[r] = op[r]
        BY <3>1, NotNull
      <4>2. r \notin Runs => task[t].phase \notin {"op", "closing"}
        BY LiveTask DEF Phases
      <4> QED
        BY <1>a, <3>1, <4>1, <4>2, KnowsStill
    <3> QED
      BY <1>b, <3>1, <3>2, <3>3
  <2>4. CASE Exit(p)
    <3>1. \A t \in Tokens : task'[t] = task[t] \/ task'[t].phase \notin {"op", "closing"}
      BY <2>4, TaskTypes DEF Exit
    <3> QED
      BY <1>b, <1>c, <1>d, <2>4, <3>1 DEF Exit
  <2> QED
    BY <1>6, <1>b, <1>c, <1>d, <2>1, <2>2, <2>3, <2>4 DEF Process, BeginStop, DrainActive, ReleaseRefused
<1>7. ASSUME NEW t \in Tokens, Execute(t) \/ WriteRefused(t) PROVE None /\ Fits /\ Knows
  <2> DEFINE R == task[t].run
  <2>0. None
    BY <1>7, <1>b DEF Execute, Begin, OpStart, SkipAll, Notice, OpEnd, Drain, Finish, FinishUnheard,
                      Abandon, ClaimLost, AbortTakes, WriteRefused
  <2>1. ASSUME NEW ph \in Phases, NEW res \in {"none"} \cup Terminal, Goes(t, ph, res),
               task[t].phase \in Phases
        PROVE  /\ task'[t].phase = ph /\ task'[t].result = res /\ task'[t].run = R
               /\ \A u \in Tokens \ {t} : task'[u] = task[u]
    <3>1. task[t] \in Tasks
      BY <2>1, LiveTask
    <3> QED
      BY <2>1, <3>1 DEF Goes, TypeOK, Tasks
  <2>2. ASSUME Ends(t) PROVE \A u \in Tokens : task'[u] = task[u] \/ task'[u].phase \notin {"op", "closing"}
    BY <2>2, TaskTypes DEF Ends, TypeOK
  <2>3. ASSUME NEW ph \in Phases, Writes(t, ph)
        PROVE  R \in Runs /\ claim[R] = t /\ status[R] \in Open
    BY <2>3, LiveTask DEF Writes, Held, Active, Open
  <2>4. CASE Begin(t)
    <3>1. R \in Runs /\ claim[R] = t /\ status[R] \in Open
      BY <2>3, <2>4 DEF Begin, Phases
    <3>2. /\ status' = [status EXCEPT ![R] = "running"] /\ UNCHANGED <<op, claim>>
          /\ task[t].phase = "new" /\ Goes(t, "open", "none")
      BY <2>4 DEF Begin, Writes
    <3>3. task'[t].phase = "open" /\ \A u \in Tokens \ {t} : task'[u] = task[u]
      BY <2>1, <3>2 DEF Phases
    <3>4. ASSUME NEW u \in Tokens PROVE KnowsOp(u)'
      <4>1. CASE u = t
        BY <3>3, <4>1 DEF KnowsOp
      <4>2. CASE u # t
        <5>1. claim[task[u].run] = u => status'[task[u].run] = status[task[u].run]
          BY <3>1, <3>2, <4>2 DEF TypeOK
        <5> QED
          BY <1>a, <3>2, <3>3, <4>2, <5>1, KnowsStill
      <4> QED
        BY <4>1, <4>2
    <3>5. Fits
      <4> SUFFICES ASSUME NEW r \in Runs PROVE OpFits(r)'
        OBVIOUS
      <4>1. CASE r = R
        BY <3>1, <3>2, <4>1 DEF OpFits, TypeOK, Terminal
      <4>2. CASE r # R
        BY <1>a, <3>1, <3>2, <4>2, FitsStill DEF TypeOK
      <4> QED
        BY <4>1, <4>2
    <3> QED
      BY <2>0, <3>4, <3>5
  <2>5. ASSUME NEW ph \in {"open", "op", "draining"}, Writes(t, ph),
               NEW o \in OpStatuses, op' = [op EXCEPT ![R] = o], UNCHANGED <<status, claim>>,
               NEW nx \in Phases, NEW res \in {"none"} \cup Terminal, Goes(t, nx, res),
               nx = "op" => o = "running",
               nx = "closing" => /\ o \notin Unfinished
                                 /\ res = "success" => o \in {"success", "skipped"}
        PROVE  Fits /\ Knows
    <3>1. R \in Runs /\ claim[R] = t /\ status[R] \in Open /\ task[t].phase = ph
      BY <2>3, <2>5 DEF Phases, Writes
    <3>2. status[R] = "running"
      BY <3>1 DEF ClaimsAgree, Open
    <3>3. /\ task'[t].phase = nx /\ task'[t].result = res /\ task'[t].run = R
          /\ \A u \in Tokens \ {t} : task'[u] = task[u]
      BY <2>1, <2>5, <3>1 DEF Phases
    <3>4. op'[R] = o /\ \A r \in Runs \ {R} : op'[r] = op[r]
      BY <2>5, <3>1 DEF TypeOK
    <3>5. ASSUME NEW u \in Tokens PROVE KnowsOp(u)'
      <4>1. CASE u = t
        BY <2>5, <3>3, <3>4, <4>1 DEF KnowsOp
      <4>2. CASE u # t
        BY <1>a, <2>5, <3>1, <3>3, <4>2, KnowsElsewhere
      <4> QED
        BY <4>1, <4>2
    <3>6. ASSUME NEW r \in Runs PROVE OpFits(r)'
      <4>1. CASE r = R
        BY <2>5, <3>2, <4>1 DEF OpFits, Terminal
      <4>2. CASE r # R
        BY <1>a, <2>5, <3>4, <4>2, FitsStill
      <4> QED
        BY <4>1, <4>2
    <3> QED
      BY <3>5, <3>6
  <2>6. ASSUME NEW s \in OpStatuses \ Unfinished, Records(R, s)
        PROVE  \E o \in OpStatuses : /\ op' = [op EXCEPT ![R] = o] /\ o \notin Unfinished
                                     /\ op[R] \in Unfinished => o = s
    <3> DEFINE o == IF op[R] \in {"pending", "running"} THEN s ELSE op[R]
    <3>1. op' = [op EXCEPT ![R] = o]
      BY <2>6 DEF Records
    <3>2. CASE R \in Runs
      <4>1. o \in OpStatuses /\ o \notin Unfinished /\ (op[R] \in Unfinished => o = s)
        BY <2>6, <3>2 DEF TypeOK, Unfinished
      <4> QED
        BY <3>1, <4>1
    <3>3. CASE R \notin Runs
      <4>1. op' = [op EXCEPT ![R] = s]
        BY <3>1, <3>3 DEF TypeOK
      <4> QED
        BY <2>6, <4>1
    <3> QED
      BY <3>2, <3>3
  <2>7. CASE OpStart(t)
    <3>1. /\ Writes(t, "open") /\ op' = [op EXCEPT ![R] = "running"] /\ UNCHANGED <<status, claim>>
          /\ Goes(t, "op", "none")
      BY <2>7 DEF OpStart
    <3>2. Fits /\ Knows
      BY <2>5, <3>1 DEF OpStatuses, Phases
    <3> QED
      BY <2>0, <3>2
  <2>8. ASSUME NEW s \in OpStatuses, OpEnd(t, s) PROVE Fits /\ Knows
    <3>1. /\ Writes(t, "op") /\ Records(R, s) /\ s \in {"success", "failed", "skipped"}
          /\ UNCHANGED <<status, claim>>
          /\ Goes(t, "closing", IF s = "failed" THEN "failed" ELSE "success")
      BY <2>8 DEF OpEnd
    <3>2. op[R] \in Unfinished
      BY <1>a, <2>3, <3>1 DEF KnowsOp, Writes, Unfinished, Phases, Active, Open
    <3>3. op' = [op EXCEPT ![R] = s]
      BY <2>6, <3>1, <3>2 DEF Unfinished
    <3> DEFINE res == IF s = "failed" THEN "failed" ELSE "success"
    <3>4. res \in {"none"} \cup Terminal /\ (res = "success" => s \in {"success", "skipped"})
      BY <3>1 DEF Terminal
    <3>5. Goes(t, "closing", res)
      BY <3>1
    <3>6. s \notin Unfinished
      BY <3>1 DEF Unfinished
    <3> HIDE DEF res
    <3> QED
      BY <2>5, <3>1, <3>3, <3>4, <3>5, <3>6 DEF Phases
  <2>9. CASE SkipAll(t)
    <3>1. /\ Writes(t, "open") /\ Records(R, "skipped") /\ UNCHANGED <<status, claim>>
          /\ Goes(t, "closing", "failed")
      BY <2>9 DEF SkipAll
    <3>2. PICK o \in OpStatuses : op' = [op EXCEPT ![R] = o] /\ o \notin Unfinished
      BY <2>6, <3>1 DEF OpStatuses, Unfinished
    <3>3. Fits /\ Knows
      BY <2>5, <3>1, <3>2 DEF Phases, Terminal
    <3> QED
      BY <2>0, <3>3
  <2>10. ASSUME NEW s \in OpStatuses, Drain(t, s) PROVE Fits /\ Knows
    <3>1. /\ Writes(t, "draining") /\ Records(R, s) /\ UNCHANGED <<status, claim>>
          /\ Goes(t, "closing", "canceled")
          /\ s \notin Unfinished
      BY <2>10 DEF Drain, Unfinished
    <3>2. PICK o \in OpStatuses : op' = [op EXCEPT ![R] = o] /\ o \notin Unfinished
      BY <2>6, <3>1
    <3> QED
      BY <2>5, <3>1, <3>2 DEF Phases, Terminal
  <2>11. CASE Notice(t)
    <3> DEFINE res == IF task[t].phase = "op" THEN "success" ELSE "none"
    <3>1. /\ UNCHANGED <<status, claim, op>> /\ Goes(t, "draining", res)
          /\ task[t].phase \in Phases
      BY <2>11 DEF Notice, Phases
    <3>2. res \in {"none"} \cup Terminal
      BY DEF Terminal
    <3> HIDE DEF res
    <3>3. task'[t].phase = "draining" /\ \A u \in Tokens \ {t} : task'[u] = task[u]
      BY <2>1, <3>1, <3>2 DEF Phases
    <3> QED
      BY <1>c, <1>d, <2>0, <3>1, <3>3
  <2>12. CASE Finish(t) \/ FinishUnheard(t)
    <3>1. FinishRow(t) /\ Ends(t)
      BY <2>12 DEF Finish, FinishUnheard, Abandon
    <3>2. R \in Runs /\ claim[R] = t /\ status[R] \in Open /\ task[t].phase = "closing"
      BY <2>3, <3>1 DEF FinishRow, Phases, Writes
    <3>3. status' = [status EXCEPT ![R] = task[t].result] /\ UNCHANGED <<op, claim>>
      BY <3>1 DEF FinishRow
    <3>4. /\ task[t].result \in Terminal /\ op[R] \notin Unfinished
          /\ task[t].result = "success" => op[R] \in {"success", "skipped"}
      BY <1>a, <3>2 DEF ClaimsAgree, KnowsOp, Active, Open
    <3>5. ASSUME NEW r \in Runs PROVE OpFits(r)'
      <4>1. CASE r = R
        BY <3>2, <3>3, <3>4, <4>1 DEF OpFits, TypeOK, Terminal
      <4>2. CASE r # R
        BY <1>a, <3>3, <4>2, FitsStill DEF TypeOK
      <4> QED
        BY <4>1, <4>2
    <3>6. ASSUME NEW u \in Tokens PROVE KnowsOp(u)'
      <4>1. CASE u = t
        BY <2>2, <3>1, <4>1, TaskTypes DEF Ends, TypeOK, KnowsOp
      <4>2. CASE u # t
        <5>1. claim[task[u].run] = u => status'[task[u].run] = status[task[u].run]
          BY <3>2, <3>3, <4>2 DEF TypeOK
        <5> QED
          BY <1>a, <2>2, <3>1, <3>3, <5>1, KnowsStill
      <4> QED
        BY <4>1, <4>2
    <3> QED
      BY <2>0, <3>5, <3>6
  <2>13. CASE ClaimLost(t) \/ WriteRefused(t) \/ AbortTakes(t)
    <3>1. Ends(t) /\ UNCHANGED <<status, op, claim>>
      BY <2>13 DEF ClaimLost, WriteRefused, AbortTakes, Abandon
    <3> QED
      BY <1>c, <1>d, <2>0, <2>2, <3>1
  <2> QED
    BY <1>7, <2>0, <2>4, <2>7, <2>8, <2>9, <2>10, <2>11, <2>12, <2>13 DEF Execute
<1>8. CASE UNCHANGED vars
  BY <1>8, <1>b, <1>c, <1>d
<1> HIDE DEF None, Fits, Knows
<1> QED
  BY <1>1, <1>2, <1>3, <1>5, <1>6, <1>7, <1>8 DEF Next

(* No run exists, no op has begun and nobody knows anything.               *)
LEMMA InitRowInv == Init => RowInv
<1> SUFFICES ASSUME Init PROVE RowInv
  OBVIOUS
<1>1. \A t \in Tokens : KnowsOp(t)
  BY TaskTypes DEF Init, KnowsOp
<1>2. \A r \in Runs : OpFits(r)
  BY DEF Init, OpFits, Terminal
<1> QED
  BY <1>1, <1>2 DEF Init, RowInv

(* Where a boot sweep is one transaction, a run that is over has no op     *)
(* left and a successful one none that failed, whoever wrote the two: an   *)
(* execution, a cancel, a reclaim, a boot sweep or a stop.                 *)
THEOREM RowsAlwaysAgree == ASSUME TwoStep = FALSE PROVE Spec => []RowsAgree
<1>1. IInv /\ RowInv /\ [Next]_vars => RowInv'
  BY StepRowInv
<1>2. RowInv => RowsAgree
  BY DEF RowInv, OpFits, RowsAgree, Unfinished
<1> QED
  BY <1>1, <1>2, InitRowInv, InvariantHolds, PTL DEF Spec

-----------------------------------------------------------------------------
(* The memory of the processes.  From here on a run whose lease lapses is  *)
(* failed, and a stop begins between two dispatch passes; a process then   *)
(* owns what it executes until it is killed or hands it back.              *)

Regular   == Policy = "Fail" /\ SlowPass = FALSE
Serving   == {"up", "stopping", "draining"}
Writing   == {"new", "open", "op", "draining", "closing"}
Exists(t) == task[t] # NoTask

(* A process that has not booted has nothing, and nothing is in its name.  *)
BootClean == \A p \in Procs : mode[p] = "off" =>
    lost[p] = {} /\ abandoned[p] = {} /\ \A r \in Runs : owner[r] # p

(* Only a process that serves dispatches.                                  *)
Dispatching == \A p \in Procs : disp[p] # "idle" => mode[p] = "up"

(* No hand-back is refused.                                                *)
GivesBack == "release" \notin Faults

(* The run of a task is its process's until that hands it back.            *)
TasksLive == \A t \in Tokens : Exists(t) =>
    LET p == task[t].proc
        r == task[t].run
    IN  /\ mode[p] \in Live
        /\ mode[p] \in Serving => owner[r] = p
        /\ mode[p] = "released" /\ GivesBack => ~(owner[r] = p /\ status[r] \in Open)
        /\ r \notin abandoned[p]
        /\ task[t].phase = "picked" => disp[p] = "starting"

(* A process has one task for a run, and starts one at a time.             *)
Unique == \A t, u \in Tokens :
    /\ Exists(t) /\ Exists(u) /\ task[t].proc = task[u].proc
    /\ task[t].run = task[u].run \/ (task[t].phase = "picked" /\ task[u].phase = "picked")
    => t = u

(* An entry is of a task of that process for that run, not told to abort,  *)
(* and every task that was started has its entry or was told.              *)
EntriesOk == \A p \in Procs, r \in Runs : active[p][r] # NoToken =>
    LET t == active[p][r]
    IN  /\ mode[p] \in {"up", "stopping"}
        /\ task[t].phase \in Writing /\ task[t].proc = p /\ task[t].run = r
        /\ t \notin aborted
Entered == \A t \in Tokens : task[t].phase \in Writing =>
    t \in aborted \/ active[task[t].proc][task[t].run] = t

(* Who was told to abort by a process that still serves holds no claim.    *)
AbortedOk == \A t \in aborted :
    /\ task[t].phase \in Writing
    /\ mode[task[t].proc] \in {"up", "stopping"} => ~Held(t)

(* Who was told to cancel was told because somebody asked.                 *)
SignalledOk == \A t \in signalled : task[t].phase \in Writing /\ task[t].run \in asked

(* What the lease loop found lost has lapsed or ended, and it and what was *)
(* given up is in the name of nobody else.                                 *)
LostOk == \A p \in Procs : mode[p] \in Serving =>
    \A r \in lost[p] : owner[r] = p /\ (status[r] \in Open => left[r] < Skew[p])
AbandonedOk == \A p \in Procs : mode[p] \in Serving => \A r \in abandoned[p] : owner[r] = p

(* A claim's token names its execution.                                    *)
Names == \A t \in Tokens, r \in Runs :
    Exists(t) /\ claim[r] = t => task[t].run = r /\ task[t].proc = owner[r]

(* An execution that still holds its claim drains because somebody asked,  *)
(* or because its process dropped the sender when it could not hand back.  *)
CancelsAsked == \A t \in Tokens :
    /\ task[t].phase = "draining" \/ (task[t].phase = "closing" /\ task[t].result = "canceled")
    /\ Held(t)
    => task[t].run \in asked \/ mode[task[t].proc] = "released"

MemoryInv == /\ BootClean /\ Dispatching /\ TasksLive /\ Unique /\ EntriesOk /\ Entered
             /\ AbortedOk /\ SignalledOk /\ LostOk /\ AbandonedOk /\ Names /\ CancelsAsked

-----------------------------------------------------------------------------
(* What one step does to a row, as its owner sees it. *)

Kept(r) ==
    /\ owner'[r] = owner[r] /\ claim'[r] = claim[r]
    /\ owner[r] \in Procs => /\ status'[r] \in Open => status[r] \in Open
                             /\ left[r] < Skew[owner[r]] => left'[r] < Skew[owner[r]]
NewlyClaimed(r) ==
    /\ owner[r] = NoProc
    /\ owner'[r] \in Procs /\ claim'[r] \in Tokens
    /\ FreeToken(claim'[r]) /\ disp[owner'[r]] = "pass" /\ mode' = mode
HandedBack(r) ==
    /\ owner[r] \in Procs /\ mode[owner[r]] = "draining" /\ mode'[owner[r]] = "released"
    /\ owner'[r] = NoProc /\ claim'[r] = NoToken

(* A row changes hands when it is claimed off the queue and when a stopped *)
(* process hands it back, and neither revives a lapsed lease or a finished *)
(* run.                                                                    *)
LEMMA StepHands ==
    Regular /\ IInv /\ [Next]_vars => \A r \in Runs : Kept(r) \/ NewlyClaimed(r) \/ HandedBack(r)
<1> SUFFICES ASSUME Regular, IInv, TypeOK, ClaimsAgree, [Next]_vars, NEW r \in Runs
             PROVE  Kept(r) \/ NewlyClaimed(r) \/ HandedBack(r)
  BY DEF IInv
<1> USE DEF Open
<1>a. status' = status /\ owner' = owner /\ claim' = claim /\ left' = left => Kept(r)
  BY DEF Kept
<1>b. /\ Skew \in [Procs -> Nat] /\ left \in [Runs -> Int]
      /\ \A p \in Procs : Skew[p] \in Nat /\ Skew[p] \in Int
      /\ left[r] \in Int
  BY RunQueueAssumption DEF TypeOK
<1>1. CASE Outside
  <2>1. ASSUME NEW s \in Runs, NEW n \in Priorities, Submit(s, n) PROVE Kept(r)
    <3>1. /\ status[s] = "absent" /\ status' = [status EXCEPT ![s] = "queued"]
          /\ UNCHANGED <<owner, claim, left>>
      BY <2>1 DEF Submit
    <3>2. owner[s] = NoProc
      BY <3>1 DEF ClaimsAgree
    <3> QED
      BY <3>1, <3>2, NotNull DEF Kept, TypeOK
  <2>2. ASSUME NEW s \in Runs, NEW p \in Procs, CancelQueued(p, s) PROVE Kept(r)
    BY <2>2 DEF CancelQueued, Kept, TypeOK
  <2> QED
    BY <1>1, <1>a, <2>1, <2>2 DEF Outside, SetPriority, CancelSignal
<1>2. CASE Tick
  <2>1. left'[r] = (IF left[r] > -1 THEN left[r] - 1 ELSE -1)
    BY <1>2 DEF Tick
  <2>2. \A n \in Nat : left[r] < n => left'[r] < n
    BY <1>b, <2>1
  <2> QED
    BY <1>2, <1>b, <2>2 DEF Tick, Kept
<1>3. ASSUME NEW p \in Procs, Dispatch(p) PROVE Kept(r) \/ NewlyClaimed(r)
  <2>1. ASSUME NEW t \in Tokens, NEW s \in Runs, ClaimNext(p, s, t) \/ ClaimUnheard(p, s, t)
        PROVE  Kept(r) \/ NewlyClaimed(r)
    <3>1. ClaimRow(p, s, t) /\ disp[p] = "pass" /\ mode' = mode
      BY <2>1 DEF ClaimNext, ClaimUnheard
    <3>2. /\ owner[s] = NoProc /\ FreeToken(t) /\ UNCHANGED status
          /\ owner' = [owner EXCEPT ![s] = p] /\ claim' = [claim EXCEPT ![s] = t]
          /\ left' = [left EXCEPT ![s] = Skew[p] + Lease]
      BY <3>1 DEF ClaimRow, Head, Eligible, Waiting, Claimed
    <3>3. CASE r = s
      BY <3>1, <3>2, <3>3 DEF NewlyClaimed, TypeOK
    <3>4. CASE r # s
      BY <3>2, <3>4 DEF Kept, TypeOK
    <3> QED
      BY <3>3, <3>4
  <2> QED
    BY <1>3, <1>a, <2>1 DEF Dispatch, PassBegin, PassEnd, Start
<1>4. ASSUME NEW S, NEW lease \in [Runs -> Int], Reclaim(S, lease),
             owner[r] \in Procs => (left[r] < Skew[owner[r]] => lease[r] < Skew[owner[r]])
      PROVE  Kept(r)
  <2>1. /\ status'[r] = IF r \notin S THEN status[r] ELSE "failed"
        /\ left'[r] = IF r \in S THEN -1 ELSE lease[r]
        /\ owner'[r] = owner[r] /\ claim'[r] = claim[r]
    BY <1>4 DEF Reclaim, Unclaims, Regular
  <2>2. \A n \in Nat : -1 < n
    OBVIOUS
  <2> QED
    BY <1>4, <1>b, <2>1, <2>2 DEF Kept
<1>5. ASSUME NEW p \in Procs, Heartbeat(p) PROVE Kept(r)
  <2>1. ASSUME NEW renewed \in BOOLEAN, Beat(p, renewed) PROVE Kept(r)
    <3> DEFINE lease == IF renewed THEN Renewed(p) ELSE left
    <3>1. lease \in [Runs -> Int]
      BY RunQueueAssumption DEF Renewed, TypeOK
    <3>2. owner[r] \in Procs => (left[r] < Skew[owner[r]] => lease[r] < Skew[owner[r]])
      BY DEF Renewed, Owns, Lapsed
    <3>3. \/ Reclaim(Lapses(p, lease), lease)
          \/ left' = lease /\ UNCHANGED <<status, owner, claim>>
      BY <2>1 DEF Beat
    <3> HIDE DEF lease
    <3>4. CASE Reclaim(Lapses(p, lease), lease)
      BY <1>4, <3>1, <3>2, <3>4
    <3>5. CASE left' = lease /\ UNCHANGED <<status, owner, claim>>
      BY <3>2, <3>5 DEF Kept
    <3> QED
      BY <3>3, <3>4, <3>5
  <2>2. CASE BeatEnd(p)
    BY <1>4, <1>b, <2>2 DEF BeatEnd
  <2> QED
    BY <1>5, <2>1, <2>2 DEF Heartbeat
<1>6. ASSUME NEW p \in Procs, Process(p) PROVE Kept(r) \/ HandedBack(r)
  <2>1. CASE Boot(p) \/ BootEnd(p)
    <3>1. /\ status'[r] = status[r] \/ status'[r] = "failed"
          /\ left'[r] = left[r] \/ left'[r] = -1
          /\ UNCHANGED <<owner, claim>>
      BY <2>1 DEF Boot, BootEnd, TypeOK
    <3>2. \A n \in Nat : -1 < n
      OBVIOUS
    <3> QED
      BY <1>b, <3>1, <3>2 DEF Kept
  <2>2. CASE ReleaseClaims(p)
    <3>1. /\ owner'[r] = IF r \in Released(p) THEN NoProc ELSE owner[r]
          /\ claim'[r] = IF r \in Released(p) THEN NoToken ELSE claim[r]
          /\ status'[r] = IF r \in Released(p) THEN "queued" ELSE status[r]
          /\ left'[r] = IF r \in Released(p) THEN -1 ELSE left[r]
          /\ mode[p] = "draining" /\ mode'[p] = "released"
      BY <2>2 DEF ReleaseClaims, Unclaims, TypeOK
    <3>2. r \in Released(p) => owner[r] = p
      BY DEF Released, Owns
    <3>3. CASE r \in Released(p)
      BY <3>1, <3>2, <3>3 DEF HandedBack
    <3>4. CASE r \notin Released(p)
      BY <3>1, <3>4 DEF Kept
    <3> QED
      BY <3>3, <3>4
  <2> QED
    BY <1>6, <1>a, <2>1, <2>2 DEF Process, BeginStop, DrainActive, ReleaseRefused, Exit
<1>7. ASSUME NEW t \in Tokens, Execute(t) \/ WriteRefused(t) PROVE Kept(r)
  <2>1. CASE Begin(t)
    <3>1. /\ status[task[t].run] \in Open /\ status' = [status EXCEPT ![task[t].run] = "running"]
          /\ UNCHANGED <<owner, claim, left>>
      BY <2>1 DEF Begin, Writes, Held, Active
    <3> QED
      BY <3>1 DEF Kept, TypeOK
  <2>2. CASE Finish(t) \/ FinishUnheard(t)
    <3>1. FinishRow(t)
      BY <2>2 DEF Finish, FinishUnheard
    <3>2. /\ status[task[t].run] \in Open /\ UNCHANGED <<owner, claim>>
          /\ status' = [status EXCEPT ![task[t].run] = task[t].result]
          /\ left' = [left EXCEPT ![task[t].run] = -1]
      BY <3>1 DEF FinishRow, Writes, Held, Active
    <3>3. \A n \in Nat : -1 < n
      OBVIOUS
    <3> QED
      BY <1>b, <3>2, <3>3 DEF Kept, TypeOK
  <2> QED
    BY <1>7, <1>a, <2>1, <2>2 DEF Execute, OpStart, SkipAll, Notice, OpEnd, Drain, ClaimLost,
                                  AbortTakes, WriteRefused
<1>8. CASE UNCHANGED vars
  BY <1>a, <1>8
<1> QED
  BY <1>1, <1>2, <1>3, <1>5, <1>6, <1>7, <1>8 DEF Next

-----------------------------------------------------------------------------
(* What one step does to the memory of a process. *)

(* Its life.  What it stops by, it lets go of its entries by.              *)
NoEntries(p) == \A r \in Runs : active'[p][r] = NoToken
ModeMoves(p) ==
    \/ mode'[p] = mode[p]
    \/ mode[p] = "off" /\ mode'[p] = "up"
    \/ mode[p] = "up" /\ mode'[p] = "stopping" /\ disp[p] = "idle"
    \/ mode[p] = "stopping" /\ mode'[p] = "draining" /\ NoEntries(p)
    \/ /\ mode[p] = "draining" /\ mode'[p] = "released"
       /\ GivesBack => \A r \in Released(p) : owner'[r] = NoProc
    \/ /\ mode[p] \in Live /\ mode'[p] = "gone" /\ NoEntries(p)
       /\ \A t \in Tokens : Exists(t)' => task'[t].proc # p

(* A process that served after the step served before it, or just booted.  *)
LEMMA StepModes == Regular /\ IInv /\ [Next]_vars => \A p \in Procs : ModeMoves(p)
<1> SUFFICES ASSUME Regular, TypeOK, [Next]_vars, NEW q \in Procs PROVE ModeMoves(q)
  BY DEF IInv
<1>a. mode' = mode => ModeMoves(q)
  BY DEF ModeMoves
<1>1. CASE Outside
  BY <1>1, <1>a DEF Outside, Submit, SetPriority, CancelQueued, CancelSignal
<1>2. CASE Tick
  BY <1>2, <1>a DEF Tick
<1>3. ASSUME NEW p \in Procs, Dispatch(p) PROVE ModeMoves(q)
  BY <1>3, <1>a DEF Dispatch, PassBegin, PassEnd, Start, ClaimNext, ClaimUnheard
<1>4. ASSUME NEW p \in Procs, Heartbeat(p) PROVE ModeMoves(q)
  BY <1>4, <1>a DEF Heartbeat, Beat, BeatEnd
<1>5. ASSUME NEW p \in Procs, Process(p) PROVE ModeMoves(q)
  <2>1. CASE Boot(p) \/ BootEnd(p)
    BY <2>1 DEF Boot, BootEnd, ModeMoves, TypeOK
  <2>2. CASE BeginStop(p)
    BY <2>2 DEF BeginStop, ModeMoves, TypeOK, Regular
  <2>3. CASE DrainActive(p)
    BY <2>3 DEF DrainActive, ModeMoves, TypeOK, NoEntries
  <2>4. CASE ReleaseClaims(p)
    <3>1. \A r \in Released(p) : owner'[r] = NoProc
      BY <2>4 DEF ReleaseClaims, Unclaims, Released
    <3> QED
      BY <2>4, <3>1 DEF ReleaseClaims, ModeMoves, TypeOK
  <2>5. CASE ReleaseRefused(p)
    BY <2>5 DEF ReleaseRefused, ModeMoves, TypeOK, GivesBack
  <2>6. CASE Exit(p)
    <3>1. \A t \in Tokens : task'[t] = IF task[t].proc = p THEN NoTask ELSE task[t]
      BY <2>6 DEF Exit, TasksOf
    <3>2. \A t \in Tokens : Exists(t)' => task'[t].proc # p
      BY <3>1 DEF Exists
    <3>3. /\ active' = [active EXCEPT ![p] = [r \in Runs |-> NoToken]]
          /\ mode' = [mode EXCEPT ![p] = "gone"]
          /\ mode[p] \in Live
      BY <2>6 DEF Exit, Live
    <3>4. NoEntries(p)
      BY <3>3 DEF NoEntries, TypeOK
    <3> QED
      BY <3>2, <3>3, <3>4 DEF ModeMoves, TypeOK
  <2> QED
    BY <1>5, <2>1, <2>2, <2>3, <2>4, <2>5, <2>6 DEF Process
<1>6. ASSUME NEW t \in Tokens, Execute(t) \/ WriteRefused(t) PROVE ModeMoves(q)
  BY <1>6, <1>a DEF Execute, Begin, OpStart, SkipAll, Notice, OpEnd, Drain, Finish, FinishUnheard,
                    ClaimLost, AbortTakes, WriteRefused
<1>7. CASE UNCHANGED vars
  BY <1>7, <1>a
<1> QED
  BY <1>1, <1>2, <1>3, <1>4, <1>5, <1>6, <1>7 DEF Next

(* Where it is in a dispatch pass.                                         *)
DispMoves(p) ==
    /\ disp'[p] # "idle" => disp[p] # "idle" \/ mode[p] = "up"
    /\ disp'[p] # "idle" => mode'[p] = mode[p] \/ disp[p] # "idle"
    /\ mode'[p] = "gone" /\ mode[p] # "gone" => disp'[p] = "idle"
    /\ disp[p] = "starting" =>
           disp'[p] = "starting" \/ mode'[p] = "gone" \/ \E t \in Tokens : Start(p, t)

(* A pass begins in a process that is up, and a claim is started at once.  *)
LEMMA StepDisp == IInv /\ [Next]_vars => \A p \in Procs : DispMoves(p)
<1> SUFFICES ASSUME TypeOK, [Next]_vars, NEW q \in Procs PROVE DispMoves(q)
  BY DEF IInv
<1>a. disp' = disp /\ mode' = mode => DispMoves(q)
  BY DEF DispMoves
<1>1. CASE Outside
  BY <1>1, <1>a DEF Outside, Submit, SetPriority, CancelQueued, CancelSignal
<1>2. CASE Tick
  BY <1>2, <1>a DEF Tick
<1>3. ASSUME NEW p \in Procs, Dispatch(p) PROVE DispMoves(q)
  <2>1. CASE PassBegin(p)
    BY <2>1 DEF PassBegin, DispMoves, TypeOK
  <2>2. CASE PassEnd(p)
    BY <2>2 DEF PassEnd, DispMoves, TypeOK
  <2>3. ASSUME NEW t \in Tokens, Start(p, t) PROVE DispMoves(q)
    <3>1. disp[p] = "starting" /\ disp' = [disp EXCEPT ![p] = "pass"] /\ mode' = mode
      BY <2>3 DEF Start
    <3> QED
      BY <2>3, <3>1 DEF DispMoves, TypeOK
  <2>4. ASSUME NEW t \in Tokens, NEW r \in Runs, ClaimNext(p, r, t) \/ ClaimUnheard(p, r, t)
        PROVE  DispMoves(q)
    <3>1. /\ disp[p] = "pass" /\ mode' = mode
          /\ disp' = [disp EXCEPT ![p] = "starting"] \/ disp' = [disp EXCEPT ![p] = "idle"]
      BY <2>4 DEF ClaimNext, ClaimUnheard
    <3> QED
      BY <3>1 DEF DispMoves, TypeOK
  <2> QED
    BY <1>3, <2>1, <2>2, <2>3, <2>4 DEF Dispatch
<1>4. ASSUME NEW p \in Procs, Heartbeat(p) PROVE DispMoves(q)
  BY <1>4, <1>a DEF Heartbeat, Beat, BeatEnd
<1>5. ASSUME NEW p \in Procs, Process(p) PROVE DispMoves(q)
  <2>1. CASE Boot(p) \/ BootEnd(p)
    <3>1. disp' = disp /\ (mode' = mode \/ (mode[p] = "off" /\ mode' = [mode EXCEPT ![p] = "up"]))
      BY <2>1 DEF Boot, BootEnd
    <3> QED
      BY <3>1, <1>a DEF DispMoves, TypeOK
  <2>2. CASE BeginStop(p) \/ DrainActive(p) \/ ReleaseClaims(p) \/ ReleaseRefused(p)
    BY <2>2 DEF BeginStop, DrainActive, ReleaseClaims, ReleaseRefused, DispMoves, TypeOK
  <2>3. CASE Exit(p)
    BY <2>3 DEF Exit, DispMoves, TypeOK
  <2> QED
    BY <1>5, <2>1, <2>2, <2>3 DEF Process
<1>6. ASSUME NEW t \in Tokens, Execute(t) \/ WriteRefused(t) PROVE DispMoves(q)
  BY <1>6, <1>a DEF Execute, Begin, OpStart, SkipAll, Notice, OpEnd, Drain, Finish, FinishUnheard,
                    ClaimLost, AbortTakes, WriteRefused
<1>7. CASE UNCHANGED vars
  BY <1>7, <1>a
<1> QED
  BY <1>1, <1>2, <1>3, <1>4, <1>5, <1>6, <1>7 DEF Next

(* Its tasks.  One that ends takes its entry along, or was told to abort.  *)
ByCancel(k) == k.phase = "draining" \/ (k.phase = "closing" /\ k.result = "canceled")
Drops(t) == LET p == task[t].proc
                r == task[t].run
            IN  /\ task'[t] = NoTask /\ t \notin signalled' /\ t \notin aborted'
                /\ \/ t \in aborted
                   \/ /\ active'[p][r] = NoToken
                      /\ mode'[p] = "gone" \/ status'[r] \in Terminal \/ r \in abandoned'[p]
WritesOn(t) == /\ task[t].phase \in Writing /\ task'[t].phase \in Writing
               /\ task'[t].proc = task[t].proc /\ task'[t].run = task[t].run
               /\ ByCancel(task'[t]) => ByCancel(task[t]) \/ CancelSeen(t)
TaskMoves(t) == \/ task'[t] = task[t] \/ Drops(t) \/ WritesOn(t)
                \/ \E p \in Procs : Start(p, t)
                \/ \E p \in Procs, r \in Runs : ClaimNext(p, r, t)

(* A write of an execution moves its own task and no other.                *)
LEMMA GoesFrom ==
    ASSUME TypeOK, NEW t \in Tokens, NEW ph \in Writing, NEW res \in {"none"} \cup Terminal,
           Goes(t, ph, res), task[t].phase \in Writing,
           ph = "draining" \/ (ph = "closing" /\ res = "canceled") => ByCancel(task[t]) \/ CancelSeen(t),
           NEW u \in Tokens
    PROVE  TaskMoves(u)
<1>1. task[t] \in Tasks
  BY LiveTask DEF Writing, Phases
<1>2. /\ task'[t].phase = ph /\ task'[t].result = res
      /\ task'[t].run = task[t].run /\ task'[t].proc = task[t].proc
      /\ \A v \in Tokens \ {t} : task'[v] = task[v]
  BY <1>1 DEF Goes, TypeOK, Tasks
<1>3. WritesOn(t)
  BY <1>2 DEF WritesOn, ByCancel
<1> QED
  BY <1>2, <1>3 DEF TaskMoves

(* Every step of anybody does one of these to a task.                      *)
LEMMA StepTasks == IInv /\ MemoryInv /\ [Next]_vars => \A t \in Tokens : TaskMoves(t)
<1> SUFFICES ASSUME TypeOK, ClaimsAgree, [Next]_vars, NEW t \in Tokens PROVE TaskMoves(t)
  BY DEF IInv
<1>a. task' = task => TaskMoves(t)
  BY DEF TaskMoves
<1>1. CASE Outside
  BY <1>1, <1>a DEF Outside, Submit, SetPriority, CancelQueued, CancelSignal
<1>2. CASE Tick
  BY <1>2, <1>a DEF Tick
<1>3. ASSUME NEW p \in Procs, Dispatch(p) PROVE TaskMoves(t)
  <2>1. ASSUME NEW u \in Tokens, Start(p, u) PROVE TaskMoves(t)
    <3>1. u # t => task'[t] = task[t]
      BY <2>1 DEF Start, TypeOK
    <3> QED
      BY <2>1, <3>1 DEF TaskMoves
  <2>2. ASSUME NEW u \in Tokens, NEW r \in Runs, ClaimNext(p, r, u) PROVE TaskMoves(t)
    <3>1. u # t => task'[t] = task[t]
      BY <2>2 DEF ClaimNext, TypeOK
    <3> QED
      BY <2>2, <3>1 DEF TaskMoves
  <2> QED
    BY <1>3, <1>a, <2>1, <2>2 DEF Dispatch, PassBegin, PassEnd, ClaimUnheard
<1>4. ASSUME NEW p \in Procs, Heartbeat(p) PROVE TaskMoves(t)
  BY <1>4, <1>a DEF Heartbeat, Beat, BeatEnd
<1>5. ASSUME NEW p \in Procs, Process(p) PROVE TaskMoves(t)
  <2>1. CASE Exit(p)
    <3>1. /\ task'[t] = IF task[t].proc = p THEN NoTask ELSE task[t]
          /\ signalled' = signalled \ TasksOf(p) /\ aborted' = aborted \ TasksOf(p)
          /\ active' = [active EXCEPT ![p] = [r \in Runs |-> NoToken]]
          /\ mode' = [mode EXCEPT ![p] = "gone"]
      BY <2>1 DEF Exit, TasksOf
    <3>2. CASE task[t].proc # p
      BY <3>1, <3>2 DEF TaskMoves
    <3>3. CASE task[t].proc = p
      <4>1. task[t] \in Tasks
        BY <3>3, TaskTypes, NotNull DEF TypeOK
      <4>2. task[t].run \in Runs
        BY <4>1, TaskTypes
      <4>3. t \in TasksOf(p)
        BY <3>3 DEF TasksOf
      <4>4. active'[p][task[t].run] = NoToken /\ mode'[p] = "gone"
        BY <3>1, <4>2 DEF TypeOK
      <4> QED
        BY <3>1, <3>3, <4>3, <4>4 DEF TaskMoves, Drops
    <3> QED
      BY <3>2, <3>3
  <2> QED
    BY <1>5, <1>a, <2>1 DEF Process, Boot, BootEnd, BeginStop, DrainActive, ReleaseClaims, ReleaseRefused
<1>6. ASSUME NEW u \in Tokens, Execute(u) \/ WriteRefused(u) PROVE TaskMoves(t)
  <2>1. CASE Begin(u)
    BY <2>1, GoesFrom DEF Begin, Writes, Writing
  <2>2. CASE OpStart(u)
    BY <2>2, GoesFrom DEF OpStart, Writes, Writing
  <2>3. CASE SkipAll(u)
    BY <2>3, GoesFrom DEF SkipAll, Writes, Writing, Terminal
  <2>4. CASE Notice(u)
    <3> DEFINE res == IF task[u].phase = "op" THEN "success" ELSE "none"
    <3>1. res \in {"none"} \cup Terminal /\ Goes(u, "draining", res) /\ CancelSeen(u)
          /\ task[u].phase \in Writing
      BY <2>4 DEF Notice, Writing, Terminal
    <3> HIDE DEF res
    <3> QED
      BY <3>1, GoesFrom DEF Writing
  <2>5. ASSUME NEW s \in OpStatuses, OpEnd(u, s) PROVE TaskMoves(t)
    <3> DEFINE res == IF s = "failed" THEN "failed" ELSE "success"
    <3>1. res \in {"none"} \cup Terminal /\ Goes(u, "closing", res) /\ res # "canceled"
          /\ task[u].phase \in Writing
      BY <2>5 DEF OpEnd, Writes, Writing, Terminal
    <3> HIDE DEF res
    <3> QED
      BY <3>1, GoesFrom DEF Writing
  <2>6. ASSUME NEW s \in OpStatuses, Drain(u, s) PROVE TaskMoves(t)
    BY <2>6, GoesFrom DEF Drain, Writes, Writing, Terminal, ByCancel
  <2>7. ASSUME Ends(u), u # t PROVE TaskMoves(t)
    BY <2>7 DEF Ends, TypeOK, TaskMoves
  <2>8. ASSUME task[u].phase \in Writing PROVE task[u].proc \in Procs /\ task[u].run \in Runs
    BY <2>8, LiveTask DEF Writing, Phases
  <2>9. ASSUME Ends(u), task[u].phase \in Writing,
               active' = [active EXCEPT ![task[u].proc][task[u].run] = NoToken],
               status'[task[u].run] \in Terminal \/ task[u].run \in abandoned'[task[u].proc]
        PROVE  TaskMoves(t)
    <3>1. active'[task[u].proc][task[u].run] = NoToken
      BY <2>8, <2>9 DEF TypeOK
    <3>2. task'[u] = NoTask /\ u \notin signalled' /\ u \notin aborted'
      BY <2>9 DEF Ends, TypeOK
    <3>3. Drops(u)
      BY <2>9, <3>1, <3>2 DEF Drops
    <3> QED
      BY <2>7, <2>9, <3>3 DEF TaskMoves
  <2>10. CASE Finish(u)
    <3>1. /\ FinishRow(u) /\ Ends(u)
          /\ active' = [active EXCEPT ![task[u].proc][task[u].run] = NoToken]
      BY <2>10 DEF Finish
    <3>2. task[u].phase = "closing" /\ task[u].result \in Terminal
      BY <3>1 DEF FinishRow, Writes, ClaimsAgree
    <3>3. status'[task[u].run] \in Terminal
      BY <2>8, <3>1, <3>2 DEF FinishRow, TypeOK, Writing
    <3> QED
      BY <2>9, <3>1, <3>2, <3>3 DEF Writing
  <2>11. CASE FinishUnheard(u) \/ ClaimLost(u) \/ WriteRefused(u)
    <3>1. Abandon(u) /\ task[u].phase \in Writing
      BY <2>11 DEF FinishUnheard, FinishRow, Writes, ClaimLost, WriteRefused, InWrite, Writing
    <3>2. task[u].run \in abandoned'[task[u].proc]
      BY <2>8, <3>1 DEF Abandon, TypeOK
    <3> QED
      BY <2>9, <3>1, <3>2 DEF Abandon
  <2>12. CASE AbortTakes(u)
    <3>1. u \in aborted /\ Ends(u)
      BY <2>12 DEF AbortTakes
    <3>2. task'[u] = NoTask /\ u \notin signalled' /\ u \notin aborted'
      BY <3>1 DEF Ends, TypeOK
    <3>3. Drops(u)
      BY <3>1, <3>2 DEF Drops
    <3> QED
      BY <2>7, <3>1, <3>3 DEF TaskMoves
  <2> QED
    BY <1>6, <2>1, <2>2, <2>3, <2>4, <2>5, <2>6, <2>10, <2>11, <2>12 DEF Execute
<1>7. CASE UNCHANGED vars
  BY <1>7, <1>a
<1> QED
  BY <1>1, <1>2, <1>3, <1>4, <1>5, <1>6, <1>7 DEF Next

(* Its entries.  One that goes leaves no task behind that was not told.    *)
EntryMoves(p, r) ==
    \/ active'[p][r] = active[p][r]
    \/ /\ active'[p][r] = NoToken
       /\ active[p][r] = NoToken \/ active[p][r] \in aborted' \/ task'[active[p][r]] = NoTask
    \/ \E t \in Tokens : /\ Start(p, t) /\ task[t].run = r
                         /\ active'[p][r] = t /\ active[p][r] = NoToken

(* No entry is written over another's, or taken out of another's hands.    *)
LEMMA StepEntries == IInv /\ MemoryInv /\ [Next]_vars => \A p \in Procs, r \in Runs : EntryMoves(p, r)
<1> SUFFICES ASSUME TypeOK, MemoryInv, [Next]_vars, NEW q \in Procs, NEW k \in Runs
             PROVE  EntryMoves(q, k)
  BY DEF IInv
<1>a. active' = active => EntryMoves(q, k)
  BY DEF EntryMoves
<1>b. ASSUME active[q][k] # NoToken
      PROVE  LET t == active[q][k]
             IN  /\ t \in Tokens /\ Exists(t) /\ task[t].phase \in Writing
                 /\ task[t].proc = q /\ task[t].run = k /\ owner[k] = q
  <2> DEFINE t == active[q][k]
  <2>1. t \in Tokens
    BY <1>b DEF TypeOK
  <2>2. /\ task[t].phase \in Writing /\ task[t].proc = q /\ task[t].run = k
        /\ mode[q] \in {"up", "stopping"}
    BY <1>b DEF MemoryInv, EntriesOk
  <2>3. Exists(t)
    BY <2>2, TaskTypes DEF Exists, Writing
  <2>4. owner[k] = q
    BY <2>1, <2>2, <2>3 DEF MemoryInv, TasksLive, Serving
  <2> QED
    BY <2>1, <2>2, <2>3, <2>4
<1>1. CASE Outside
  <2>1. ASSUME NEW s \in Runs, NEW p \in Procs, CancelQueued(p, s) PROVE EntryMoves(q, k)
    <3>1. owner[s] = NoProc /\ active' = [active EXCEPT ![p][s] = NoToken]
      BY <2>1 DEF CancelQueued, Waiting, Claimed
    <3>2. p = q /\ s = k => active[q][k] = NoToken
      BY <1>b, <3>1, NotNull
    <3>3. active'[q][k] = IF p = q /\ s = k THEN NoToken ELSE active[q][k]
      BY <3>1 DEF TypeOK
    <3> QED
      BY <3>2, <3>3 DEF EntryMoves
  <2> QED
    BY <1>1, <1>a, <2>1 DEF Outside, Submit, SetPriority, CancelSignal
<1>2. CASE Tick
  BY <1>2, <1>a DEF Tick
<1>3. ASSUME NEW p \in Procs, Dispatch(p) PROVE EntryMoves(q, k)
  <2>1. ASSUME NEW u \in Tokens, Start(p, u) PROVE EntryMoves(q, k)
    <3>1. /\ task[u].proc = p /\ task[u].phase = "picked"
          /\ active' = [active EXCEPT ![p][task[u].run] = u]
      BY <2>1 DEF Start
    <3>2. CASE p = q /\ task[u].run = k
      <4>1. Exists(u)
        BY <3>1, TaskTypes DEF Exists
      <4>2. active[q][k] = NoToken
        <5> SUFFICES ASSUME active[q][k] # NoToken PROVE FALSE
          OBVIOUS
        <5> DEFINE t == active[q][k]
        <5>1. t \in Tokens /\ Exists(t) /\ task[t].proc = q /\ task[t].run = k /\ task[t].phase \in Writing
          BY <1>b
        <5>2. t = u
          BY <3>1, <3>2, <4>1, <5>1 DEF MemoryInv, Unique
        <5> QED
          BY <3>1, <5>1, <5>2 DEF Writing
      <4>3. active'[q][k] = u
        BY <3>1, <3>2 DEF TypeOK
      <4> QED
        BY <2>1, <3>2, <4>2, <4>3 DEF EntryMoves
    <3>3. CASE ~(p = q /\ task[u].run = k)
      <4>1. active'[q][k] = active[q][k]
        BY <3>1, <3>3 DEF TypeOK
      <4> QED
        BY <4>1 DEF EntryMoves
    <3> QED
      BY <3>2, <3>3
  <2> QED
    BY <1>3, <1>a, <2>1 DEF Dispatch, PassBegin, PassEnd, ClaimNext, ClaimUnheard
<1>4. ASSUME NEW p \in Procs, Heartbeat(p) PROVE EntryMoves(q, k)
  <2>1. CASE BeatEnd(p)
    <3>1. /\ active' = [active EXCEPT ![p] = [r \in Runs |-> IF r \in lost[p] THEN NoToken
                                                             ELSE active[p][r]]]
          /\ aborted' = aborted \cup {active[p][r] : r \in lost[p] \cap Entries(p)}
      BY <2>1 DEF BeatEnd
    <3>2. active'[q][k] = IF p = q /\ k \in lost[p] THEN NoToken ELSE active[q][k]
      BY <3>1 DEF TypeOK
    <3>3. p = q /\ k \in lost[p] /\ active[q][k] # NoToken => active[q][k] \in aborted'
      BY <3>1 DEF Entries
    <3> QED
      BY <3>2, <3>3 DEF EntryMoves
  <2> QED
    BY <1>4, <1>a, <2>1 DEF Heartbeat, Beat
<1>5. ASSUME NEW p \in Procs, Process(p) PROVE EntryMoves(q, k)
  <2>1. CASE DrainActive(p)
    <3>1. /\ active' = [active EXCEPT ![p] = [r \in Runs |-> NoToken]]
          /\ aborted' = aborted \cup {active[p][r] : r \in Entries(p)}
      BY <2>1 DEF DrainActive
    <3>2. active'[q][k] = IF p = q THEN NoToken ELSE active[q][k]
      BY <3>1 DEF TypeOK
    <3>3. p = q /\ active[q][k] # NoToken => active[q][k] \in aborted'
      BY <3>1 DEF Entries
    <3> QED
      BY <3>2, <3>3 DEF EntryMoves
  <2>2. CASE Exit(p)
    <3>1. /\ active' = [active EXCEPT ![p] = [r \in Runs |-> NoToken]]
          /\ \A t \in Tokens : task'[t] = IF task[t].proc = p THEN NoTask ELSE task[t]
      BY <2>2 DEF Exit, TasksOf
    <3>2. active'[q][k] = IF p = q THEN NoToken ELSE active[q][k]
      BY <3>1 DEF TypeOK
    <3>3. p = q /\ active[q][k] # NoToken => task'[active[q][k]] = NoTask
      BY <1>b, <3>1
    <3> QED
      BY <3>2, <3>3 DEF EntryMoves
  <2> QED
    BY <1>5, <1>a, <2>1, <2>2 DEF Process, Boot, BootEnd, BeginStop, ReleaseClaims, ReleaseRefused
<1>6. ASSUME NEW u \in Tokens, Execute(u) \/ WriteRefused(u) PROVE EntryMoves(q, k)
  <2>1. ASSUME Ends(u), task[u].phase \in Writing,
               active' = [active EXCEPT ![task[u].proc][task[u].run] = NoToken]
        PROVE  EntryMoves(q, k)
    <3>1. active'[q][k] = IF task[u].proc = q /\ task[u].run = k THEN NoToken ELSE active[q][k]
      BY <2>1 DEF TypeOK
    <3>2. Exists(u)
      BY <2>1, TaskTypes DEF Exists, Writing
    <3>3. task[u].proc = q /\ task[u].run = k /\ active[q][k] # NoToken => active[q][k] = u
      BY <1>b, <3>2 DEF MemoryInv, Unique
    <3>4. task'[u] = NoTask
      BY <2>1 DEF Ends, TypeOK
    <3> QED
      BY <3>1, <3>3, <3>4 DEF EntryMoves
  <2>2. CASE Finish(u)
    BY <2>1, <2>2 DEF Finish, FinishRow, Writes, Writing
  <2>3. CASE FinishUnheard(u) \/ ClaimLost(u) \/ WriteRefused(u)
    BY <2>1, <2>3 DEF FinishUnheard, FinishRow, Writes, ClaimLost, WriteRefused, InWrite, Abandon, Writing
  <2> QED
    BY <1>6, <1>a, <2>2, <2>3 DEF Execute, Begin, OpStart, SkipAll, Notice, OpEnd, Drain, AbortTakes
<1>7. CASE UNCHANGED vars
  BY <1>7, <1>a
<1> QED
  BY <1>1, <1>2, <1>3, <1>4, <1>5, <1>6, <1>7 DEF Next

(* Who was told to abort: who had an entry that was taken out, by a stop   *)
(* or because its run was found lost.                                      *)
AbortMoves(t) ==
    /\ t \in aborted' =>
         \/ t \in aborted
         \/ /\ task'[t] = task[t]
            /\ \E p \in Procs, r \in Runs :
                 /\ active[p][r] = t /\ active'[p][r] = NoToken
                 /\ mode'[p] = "draining" \/ r \in lost[p]
    /\ t \in aborted /\ Exists(t)' => t \in aborted'

(* And it stays told until its task ends.                                  *)
LEMMA StepAborted == IInv /\ [Next]_vars => \A t \in Tokens : AbortMoves(t)
<1> SUFFICES ASSUME TypeOK, [Next]_vars, NEW t \in Tokens PROVE AbortMoves(t)
  BY DEF IInv
<1>a. aborted' = aborted => AbortMoves(t)
  BY DEF AbortMoves
<1>1. CASE Outside
  BY <1>1, <1>a DEF Outside, Submit, SetPriority, CancelQueued, CancelSignal
<1>2. CASE Tick
  BY <1>2, <1>a DEF Tick
<1>3. ASSUME NEW p \in Procs, Dispatch(p) PROVE AbortMoves(t)
  BY <1>3, <1>a DEF Dispatch, PassBegin, PassEnd, Start, ClaimNext, ClaimUnheard
<1>4. ASSUME NEW p \in Procs, Heartbeat(p) PROVE AbortMoves(t)
  <2>1. CASE BeatEnd(p)
    <3>1. /\ active' = [active EXCEPT ![p] = [r \in Runs |-> IF r \in lost[p] THEN NoToken
                                                             ELSE active[p][r]]]
          /\ aborted' = aborted \cup {active[p][r] : r \in lost[p] \cap Entries(p)}
          /\ task' = task
      BY <2>1 DEF BeatEnd
    <3>2. \A r \in lost[p] \cap Entries(p) : r \in Runs /\ active'[p][r] = NoToken
      BY <3>1 DEF TypeOK
    <3> QED
      BY <3>1, <3>2 DEF AbortMoves
  <2> QED
    BY <1>4, <1>a, <2>1 DEF Heartbeat, Beat
<1>5. ASSUME NEW p \in Procs, Process(p) PROVE AbortMoves(t)
  <2>1. CASE DrainActive(p)
    <3>1. /\ active' = [active EXCEPT ![p] = [r \in Runs |-> NoToken]]
          /\ aborted' = aborted \cup {active[p][r] : r \in Entries(p)}
          /\ task' = task /\ mode' = [mode EXCEPT ![p] = "draining"]
      BY <2>1 DEF DrainActive
    <3>2. mode'[p] = "draining" /\ \A r \in Entries(p) : r \in Runs /\ active'[p][r] = NoToken
      BY <3>1 DEF TypeOK, Entries
    <3> QED
      BY <3>1, <3>2 DEF AbortMoves
  <2>2. CASE Exit(p)
    <3>1. /\ aborted' = aborted \ TasksOf(p)
          /\ \A u \in Tokens : task'[u] = IF u \in TasksOf(p) THEN NoTask ELSE task[u]
      BY <2>2 DEF Exit
    <3> QED
      BY <3>1 DEF AbortMoves, Exists
  <2> QED
    BY <1>5, <1>a, <2>1, <2>2 DEF Process, Boot, BootEnd, BeginStop, ReleaseClaims, ReleaseRefused
<1>6. ASSUME NEW u \in Tokens, Execute(u) \/ WriteRefused(u) PROVE AbortMoves(t)
  <2>1. ASSUME Ends(u) PROVE AbortMoves(t)
    BY <2>1 DEF Ends, AbortMoves, Exists, TypeOK
  <2> QED
    BY <1>6, <1>a, <2>1 DEF Execute, Begin, OpStart, SkipAll, Notice, OpEnd, Drain, Finish,
                            FinishUnheard, ClaimLost, WriteRefused, Abandon, AbortTakes
<1>7. CASE UNCHANGED vars
  BY <1>7, <1>a
<1> QED
  BY <1>1, <1>2, <1>3, <1>4, <1>5, <1>6, <1>7 DEF Next

(* What its lease loop holds lost: what it found so, or what it finds.     *)
LostMoves(p) == \A r \in lost'[p] :
    \/ r \in lost[p]
    \/ /\ active[p][r] # NoToken /\ mode'[p] = mode[p]
       /\ (owner'[r] = p /\ status'[r] \in Open) => left'[r] < Skew[p]

(* It finds lost what it has an entry for and could not keep.              *)
LEMMA StepLost == IInv /\ [Next]_vars => \A p \in Procs : LostMoves(p)
<1> SUFFICES ASSUME TypeOK, [Next]_vars, NEW q \in Procs PROVE LostMoves(q)
  BY DEF IInv
<1>a. lost' = lost => LostMoves(q)
  BY DEF LostMoves
<1>1. CASE Outside
  BY <1>1, <1>a DEF Outside, Submit, SetPriority, CancelQueued, CancelSignal
<1>2. CASE Tick
  BY <1>2, <1>a DEF Tick
<1>3. ASSUME NEW p \in Procs, Dispatch(p) PROVE LostMoves(q)
  BY <1>3, <1>a DEF Dispatch, PassBegin, PassEnd, Start, ClaimNext, ClaimUnheard
<1>4. ASSUME NEW p \in Procs, Heartbeat(p) PROVE LostMoves(q)
  <2>1. ASSUME NEW renewed \in BOOLEAN, Beat(p, renewed) PROVE LostMoves(q)
    <3> DEFINE lease == IF renewed THEN Renewed(p) ELSE left
    <3>1. lost' = [lost EXCEPT ![p] = Losses(p, lease)] /\ mode' = mode
      BY <2>1 DEF Beat
    <3>2. lease \in [Runs -> Int]
      BY RunQueueAssumption DEF Renewed, TypeOK
    <3>3. Losses(p, lease) # {} => left' = lease /\ UNCHANGED <<status, owner>>
      BY <2>1 DEF Beat
    <3> HIDE DEF lease
    <3>4. CASE q # p \/ Losses(p, lease) = {}
      BY <3>1, <3>4 DEF TypeOK, LostMoves
    <3>5. CASE q = p /\ Losses(p, lease) # {}
      <4> SUFFICES ASSUME NEW r \in lost'[q]
                   PROVE  /\ active[q][r] # NoToken /\ mode'[q] = mode[q]
                          /\ (owner'[r] = q /\ status'[r] \in Open) => left'[r] < Skew[q]
        BY DEF LostMoves
      <4>1. r \in Losses(p, lease)
        BY <3>1, <3>5 DEF TypeOK
      <4>2. r \in Runs /\ active[p][r] # NoToken
        BY <4>1 DEF Losses, Entries
      <4>3. ~(owner[r] = p /\ status[r] \in Open /\ lease[r] >= Skew[p])
        BY <4>1 DEF Losses, Owns, Active, Open
      <4>4. Skew[p] \in Int /\ lease[r] \in Int
        BY <3>2, <4>2, RunQueueAssumption
      <4> QED
        BY <3>1, <3>3, <3>5, <4>2, <4>3, <4>4
    <3> QED
      BY <3>4, <3>5
  <2>2. CASE BeatEnd(p)
    BY <2>2 DEF BeatEnd, LostMoves, TypeOK
  <2> QED
    BY <1>4, <2>1, <2>2 DEF Heartbeat
<1>5. ASSUME NEW p \in Procs, Process(p) PROVE LostMoves(q)
  <2>1. CASE Exit(p)
    BY <2>1 DEF Exit, LostMoves, TypeOK
  <2> QED
    BY <1>5, <1>a, <2>1 DEF Process, Boot, BootEnd, BeginStop, DrainActive, ReleaseClaims, ReleaseRefused
<1>6. ASSUME NEW t \in Tokens, Execute(t) \/ WriteRefused(t) PROVE LostMoves(q)
  BY <1>6, <1>a DEF Execute, Begin, OpStart, SkipAll, Notice, OpEnd, Drain, Finish, FinishUnheard,
                    ClaimLost, AbortTakes, WriteRefused
<1>7. CASE UNCHANGED vars
  BY <1>7, <1>a
<1> QED
  BY <1>1, <1>2, <1>3, <1>4, <1>5, <1>6, <1>7 DEF Next

(* What it gave up: it forgets that by dying only, and gives up the run of *)
(* a task that ends with it.                                               *)
GivesUpMore(p) ==
    /\ mode'[p] # "gone" \/ mode[p] = "gone" => abandoned[p] \subseteq abandoned'[p]
    /\ \A r \in abandoned'[p] : \/ r \in abandoned[p]
                                \/ \E t \in Tokens : /\ task[t].proc = p /\ task[t].run = r
                                                     /\ Exists(t) /\ task'[t] = NoTask

(* An execution gives its run up as it ends.                               *)
LEMMA StepGivesUp == IInv /\ [Next]_vars => \A p \in Procs : GivesUpMore(p)
<1> SUFFICES ASSUME TypeOK, [Next]_vars, NEW q \in Procs PROVE GivesUpMore(q)
  BY DEF IInv
<1>a. abandoned' = abandoned => GivesUpMore(q)
  BY DEF GivesUpMore
<1>1. CASE Outside
  BY <1>1, <1>a DEF Outside, Submit, SetPriority, CancelQueued, CancelSignal
<1>2. CASE Tick
  BY <1>2, <1>a DEF Tick
<1>3. ASSUME NEW p \in Procs, Dispatch(p) PROVE GivesUpMore(q)
  BY <1>3, <1>a DEF Dispatch, PassBegin, PassEnd, Start, ClaimNext, ClaimUnheard
<1>4. ASSUME NEW p \in Procs, Heartbeat(p) PROVE GivesUpMore(q)
  BY <1>4, <1>a DEF Heartbeat, Beat, BeatEnd
<1>5. ASSUME NEW p \in Procs, Process(p) PROVE GivesUpMore(q)
  <2>1. CASE Exit(p)
    <3>1. /\ abandoned' = [abandoned EXCEPT ![p] = {}] /\ mode' = [mode EXCEPT ![p] = "gone"]
          /\ mode[p] # "gone"
      BY <2>1 DEF Exit, Live
    <3> QED
      BY <3>1 DEF GivesUpMore, TypeOK
  <2> QED
    BY <1>5, <1>a, <2>1 DEF Process, Boot, BootEnd, BeginStop, DrainActive, ReleaseClaims, ReleaseRefused
<1>6. ASSUME NEW u \in Tokens, Execute(u) \/ WriteRefused(u) PROVE GivesUpMore(q)
  <2>1. ASSUME Abandon(u), task[u].phase \in Writing PROVE GivesUpMore(q)
    <3>1. /\ abandoned' = [abandoned EXCEPT ![task[u].proc] = @ \cup {task[u].run}]
          /\ task'[u] = NoTask
      BY <2>1 DEF Abandon, Ends, TypeOK
    <3>2. Exists(u)
      BY <2>1, TaskTypes DEF Exists, Writing
    <3> QED
      BY <3>1, <3>2 DEF GivesUpMore, TypeOK
  <2>2. CASE FinishUnheard(u) \/ ClaimLost(u) \/ WriteRefused(u)
    BY <2>1, <2>2 DEF FinishUnheard, FinishRow, Writes, ClaimLost, WriteRefused, InWrite, Writing
  <2> QED
    BY <1>6, <1>a, <2>2 DEF Execute, Begin, OpStart, SkipAll, Notice, OpEnd, Drain, Finish, AbortTakes
<1>7. CASE UNCHANGED vars
  BY <1>7, <1>a
<1> QED
  BY <1>1, <1>2, <1>3, <1>4, <1>5, <1>6, <1>7 DEF Next

(* Who was told to cancel: the task of an entry for a run somebody asked   *)
(* to cancel, and nobody takes an asking back.                             *)
SignalMoves(t) == t \in signalled' =>
    \/ t \in signalled
    \/ \E p \in Procs, r \in Runs : active[p][r] = t /\ r \in asked' /\ task'[t] = task[t]
Asks == asked \subseteq asked' /\ \A t \in Tokens : SignalMoves(t)

(* Only a cancel signals.                                                  *)
LEMMA StepSignals == IInv /\ [Next]_vars => Asks
<1> SUFFICES ASSUME TypeOK, [Next]_vars PROVE Asks
  BY DEF IInv
<1>a. asked \subseteq asked' /\ signalled' \subseteq signalled => Asks
  BY DEF Asks, SignalMoves
<1>1. CASE Outside
  <2>1. ASSUME NEW r \in Runs, NEW p \in Procs, CancelSignal(p, r) PROVE Asks
    <3>1. /\ signalled' = signalled \cup {active[p][r]} /\ asked' = asked \cup {r} /\ task' = task
      BY <2>1 DEF CancelSignal
    <3> QED
      BY <3>1 DEF Asks, SignalMoves
  <2> QED
    BY <1>1, <1>a, <2>1 DEF Outside, Submit, SetPriority, CancelQueued
<1>2. CASE Tick
  BY <1>2, <1>a DEF Tick
<1>3. ASSUME NEW p \in Procs, Dispatch(p) PROVE Asks
  BY <1>3, <1>a DEF Dispatch, PassBegin, PassEnd, Start, ClaimNext, ClaimUnheard
<1>4. ASSUME NEW p \in Procs, Heartbeat(p) PROVE Asks
  BY <1>4, <1>a DEF Heartbeat, Beat, BeatEnd
<1>5. ASSUME NEW p \in Procs, Process(p) PROVE Asks
  BY <1>5, <1>a DEF Process, Boot, BootEnd, BeginStop, DrainActive, ReleaseClaims, ReleaseRefused, Exit
<1>6. ASSUME NEW u \in Tokens, Execute(u) \/ WriteRefused(u) PROVE Asks
  BY <1>6, <1>a DEF Execute, Begin, OpStart, SkipAll, Notice, OpEnd, Drain, Finish, FinishUnheard,
                    ClaimLost, AbortTakes, WriteRefused, Abandon, Ends
<1>7. CASE UNCHANGED vars
  BY <1>7, <1>a
<1> QED
  BY <1>1, <1>2, <1>3, <1>4, <1>5, <1>6, <1>7 DEF Next

-----------------------------------------------------------------------------
(* Every step keeps what the processes remember in agreement with the rows. *)

Stepping == Regular /\ IInv /\ IInv' /\ MemoryInv /\ [Next]_vars

(* What a task is.                                                         *)
LEMMA TaskIs == Stepping => \A t \in Tokens :
    /\ Exists(t) => task[t] \in Tasks /\ task[t].proc \in Procs /\ task[t].run \in Runs
    /\ Exists(t)' => task'[t].proc \in Procs /\ task'[t].run \in Runs
    /\ task[t].phase \in Writing => Exists(t)
    /\ (task'[t].phase \in Writing) => Exists(t)'
BY TaskTypes DEF Stepping, IInv, TypeOK, Exists, Writing

(* A token that has a task after the step had it before, or was just       *)
(* claimed with.                                                           *)
Born(t)    == \E p \in Procs, r \in Runs : ClaimNext(p, r, t)
Remains(t) == /\ Exists(t) /\ task'[t].proc = task[t].proc /\ task'[t].run = task[t].run
              /\ task[t].phase \in Writing => task'[t].phase \in Writing
              /\ task'[t].phase = "picked" => task[t].phase = "picked"
              /\ task'[t].phase \in Writing /\ task[t].phase \notin Writing =>
                    Start(task[t].proc, t)

(* No task appears otherwise, and one past its start was started.          *)
LEMMA TaskBefore == Stepping => \A t \in Tokens : Exists(t)' => Remains(t) \/ Born(t)
<1> SUFFICES ASSUME Stepping, NEW t \in Tokens, Exists(t)' PROVE Remains(t) \/ Born(t)
  OBVIOUS
<1>1. TaskMoves(t)
  BY StepTasks DEF Stepping
<1>2. CASE task'[t] = task[t]
  BY <1>2 DEF Remains, Exists
<1>3. CASE WritesOn(t)
  <2>1. "picked" \notin Writing
    BY DEF Writing
  <2>2. Exists(t)
    BY <1>3, TaskIs DEF WritesOn
  <2> QED
    BY <1>3, <2>1, <2>2 DEF WritesOn, Remains
<1>4. ASSUME NEW p \in Procs, Start(p, t) PROVE Remains(t)
  <2>1. task[t].phase = "picked" /\ task[t].proc = p
    BY <1>4 DEF Start
  <2>2. task[t] \in Tasks
    BY <2>1, LiveTask DEF Stepping, IInv, Phases
  <2>3. task'[t].proc = task[t].proc /\ task'[t].run = task[t].run /\ task'[t].phase = "new"
    BY <1>4, <2>2 DEF Start, Stepping, IInv, TypeOK, Tasks
  <2>4. Exists(t)
    BY <2>1, TaskTypes DEF Exists
  <2> QED
    BY <1>4, <2>1, <2>3, <2>4 DEF Remains, Writing
<1> QED
  BY <1>1, <1>2, <1>3, <1>4 DEF TaskMoves, Drops, Exists, Born

(* What a claim makes of its token.                                        *)
LEMMA Birth ==
    ASSUME Stepping, NEW p \in Procs, NEW r \in Runs, NEW t \in Tokens, ClaimNext(p, r, t)
    PROVE  /\ task'[t].proc = p /\ task'[t].run = r /\ task'[t].phase = "picked" /\ Exists(t)'
           /\ ~Exists(t) /\ \A u \in Tokens \ {t} : task'[u] = task[u]
           /\ owner[r] = NoProc /\ owner'[r] = p /\ claim'[r] = t
           /\ \A s \in Runs : claim[s] # t /\ (claim'[s] = t => s = r)
           /\ mode[p] = "up" /\ mode' = mode /\ disp[p] = "pass" /\ disp'[p] = "starting"
           /\ abandoned' = abandoned /\ aborted' = aborted
<1>1. ClaimRow(p, r, t) /\ task' = [task EXCEPT ![t] = NewTask(p, r)] /\ disp[p] = "pass"
      /\ disp' = [disp EXCEPT ![p] = "starting"]
      /\ UNCHANGED <<mode, abandoned, aborted>>
  BY DEF ClaimNext
<1>2. /\ owner[r] = NoProc /\ FreeToken(t)
      /\ owner' = [owner EXCEPT ![r] = p] /\ claim' = [claim EXCEPT ![r] = t]
  BY <1>1 DEF ClaimRow, Head, Eligible, Waiting, Claimed
<1>3. task'[t] = NewTask(p, r) /\ \A u \in Tokens \ {t} : task'[u] = task[u]
  BY <1>1 DEF Stepping, IInv, TypeOK
<1>4. NewTask(p, r).proc = p /\ NewTask(p, r).run = r /\ NewTask(p, r).phase = "picked"
  BY DEF NewTask
<1>5. mode[p] = "up"
  BY <1>1 DEF Stepping, MemoryInv, Dispatching
<1>6. Exists(t)' /\ ~Exists(t) /\ \A s \in Runs : claim[s] # t
  BY <1>2, <1>3, <1>4, TaskTypes DEF Exists, FreeToken
<1>7. \A s \in Runs : claim'[s] = t => s = r
  BY <1>2, <1>6 DEF Stepping, IInv, TypeOK
<1> QED
  BY <1>1, <1>2, <1>3, <1>4, <1>5, <1>6, <1>7 DEF Stepping, IInv, TypeOK

(* A process that still serves owns what it owned, under the same claim.   *)
LEMMA StillOwns ==
    ASSUME Stepping, NEW p \in Procs, NEW r \in Runs, owner[r] = p, mode'[p] # "released" \/ mode[p] = "released"
    PROVE  owner'[r] = p /\ Kept(r)
BY StepHands, NotNull DEF Stepping, Kept, NewlyClaimed, HandedBack

(* A task holds its claim only if it held it before the step.              *)
LEMMA HeldBefore ==
    ASSUME Stepping, NEW t \in Tokens, Exists(t),
           task'[t].proc = task[t].proc, task'[t].run = task[t].run, Held(t)'
    PROVE  Held(t) /\ Kept(task[t].run)
<1> DEFINE p == task[t].proc
           r == task[t].run
<1>1. p \in Procs /\ r \in Runs
  BY TaskIs
<1>2. owner'[r] = p /\ claim'[r] = t /\ status'[r] \in Open /\ ~(left'[r] < Skew[p])
  BY DEF Held, Owns, Active, Lapsed, Open
<1>3. Kept(r)
  <2>1. Kept(r) \/ NewlyClaimed(r) \/ HandedBack(r)
    BY <1>1, StepHands DEF Stepping
  <2> QED
    BY <1>1, <1>2, <2>1, NotNull DEF NewlyClaimed, FreeToken, HandedBack, Exists
<1> QED
  BY <1>1, <1>2, <1>3 DEF Kept, Held, Owns, Active, Lapsed, Open

(* A process serves after the step if it served before it or just booted.  *)
LEMMA ServedBefore ==
    ASSUME Stepping, NEW p \in Procs
    PROVE  /\ mode'[p] \in Serving => mode[p] \in Serving \/ (mode[p] = "off" /\ mode'[p] = "up")
           /\ mode'[p] = "off" => mode[p] = "off"
           /\ mode[p] \in Serving => mode'[p] \in Serving \cup {"released", "gone"}
<1>1. ModeMoves(p)
  BY StepModes DEF Stepping
<1> QED
  BY <1>1 DEF ModeMoves, Serving, Live

(* The task of an entry, and of the process that has the entry.            *)
LEMMA EntryIs ==
    ASSUME Stepping, NEW p \in Procs, NEW r \in Runs, active[p][r] # NoToken
    PROVE  LET t == active[p][r]
           IN  /\ t \in Tokens /\ Exists(t) /\ task[t].phase \in Writing
               /\ task[t].proc = p /\ task[t].run = r /\ owner[r] = p
               /\ mode[p] \in {"up", "stopping"} /\ t \notin aborted
<1> DEFINE t == active[p][r]
<1>1. t \in Tokens
  BY DEF Stepping, IInv, TypeOK
<1>2. /\ task[t].phase \in Writing /\ task[t].proc = p /\ task[t].run = r
      /\ mode[p] \in {"up", "stopping"} /\ t \notin aborted
  BY DEF Stepping, MemoryInv, EntriesOk
<1>3. Exists(t)
  BY <1>1, <1>2, TaskIs
<1>4. owner[r] = p
  BY <1>1, <1>2, <1>3 DEF Stepping, MemoryInv, TasksLive, Serving
<1> QED
  BY <1>1, <1>2, <1>3, <1>4

-----------------------------------------------------------------------------
(* Part by part. *)

(* Nothing comes into the name of a process before it boots.              *)
LEMMA KeepsBoot == Stepping => BootClean'
<1> SUFFICES ASSUME Stepping, NEW p \in Procs, mode'[p] = "off"
             PROVE  lost'[p] = {} /\ abandoned'[p] = {} /\ \A r \in Runs : owner'[r] # p
  BY DEF BootClean
<1>1. mode[p] = "off"
  BY ServedBefore
<1>2. /\ lost[p] = {} /\ abandoned[p] = {} /\ \A r \in Runs : owner[r] # p
      /\ lost' \in [Procs -> SUBSET Runs] /\ abandoned' \in [Procs -> SUBSET Runs]
  BY <1>1 DEF Stepping, MemoryInv, BootClean, IInv, TypeOK
<1>3. lost'[p] = {}
  <2> SUFFICES ASSUME NEW r \in lost'[p] PROVE FALSE
    OBVIOUS
  <2>1. r \in Runs /\ active[p][r] # NoToken
    BY <1>2, StepLost DEF Stepping, LostMoves
  <2> QED
    BY <1>1, <2>1, EntryIs
<1>4. abandoned'[p] = {}
  <2> SUFFICES ASSUME NEW r \in abandoned'[p] PROVE FALSE
    OBVIOUS
  <2>1. PICK t \in Tokens : task[t].proc = p /\ Exists(t)
    BY <1>2, StepGivesUp DEF Stepping, GivesUpMore
  <2> QED
    BY <1>1, <2>1 DEF Stepping, MemoryInv, TasksLive, Live
<1>5. ASSUME NEW r \in Runs, owner'[r] = p PROVE FALSE
  <2>1. NewlyClaimed(r)
    BY <1>2, <1>5, StepHands, NotNull DEF Stepping, Kept, HandedBack
  <2> QED
    BY <1>1, <1>5, <2>1 DEF NewlyClaimed, Stepping, MemoryInv, Dispatching
<1> QED
  BY <1>3, <1>4, <1>5

(* A process stops or dies outside a pass, or takes the pass along.        *)
LEMMA KeepsDispatching == Stepping => Dispatching'
<1> SUFFICES ASSUME Stepping, NEW p \in Procs, disp'[p] # "idle" PROVE mode'[p] = "up"
  BY DEF Dispatching
<1>1. DispMoves(p) /\ ModeMoves(p)
  BY StepDisp, StepModes DEF Stepping
<1>2. mode[p] = "up"
  BY <1>1 DEF DispMoves, Stepping, MemoryInv, Dispatching
<1> QED
  BY <1>1, <1>2 DEF DispMoves, ModeMoves

(* A claim is of a run its process has no task for.                        *)
LEMMA KeepsUnique == Stepping => Unique'
<1> SUFFICES ASSUME Stepping, NEW t \in Tokens, NEW u \in Tokens, Exists(t)', Exists(u)',
                    task'[t].proc = task'[u].proc,
                    task'[t].run = task'[u].run \/ (task'[t].phase = "picked" /\ task'[u].phase = "picked")
             PROVE  t = u
  BY DEF Unique
<1>1. ASSUME NEW a \in Tokens, NEW b \in Tokens, Born(a), Remains(b),
             task'[a].proc = task'[b].proc,
             task'[a].run = task'[b].run \/ task'[b].phase = "picked"
      PROVE  FALSE
  <2>1. PICK p \in Procs, r \in Runs : ClaimNext(p, r, a)
    BY <1>1 DEF Born
  <2>2. /\ task'[a].proc = p /\ task'[a].run = r /\ owner[r] = NoProc
        /\ mode[p] = "up" /\ disp[p] = "pass"
    BY <2>1, Birth
  <2>3. Exists(b) /\ task[b].proc = p /\ (task[b].run = r \/ task[b].phase = "picked")
    BY <1>1, <2>2 DEF Remains
  <2> QED
    BY <2>2, <2>3, NotNull DEF Stepping, MemoryInv, TasksLive, Serving
<1>2. CASE Remains(t) /\ Remains(u)
  BY <1>2 DEF Remains, Stepping, MemoryInv, Unique
<1>3. CASE Born(t) /\ Born(u)
  <2>1. PICK p \in Procs, r \in Runs : ClaimNext(p, r, t)
    BY <1>3 DEF Born
  <2>2. u # t => Exists(u)
    BY <2>1, Birth DEF Exists
  <2> QED
    BY <1>3, <2>2, Birth DEF Born
<1> QED
  BY <1>1, <1>2, <1>3, TaskBefore

(* The run of a task is in its process's name until that hands it back.    *)
LEMMA KeepsTasks == Stepping => TasksLive'
<1> SUFFICES ASSUME Stepping, NEW t \in Tokens, Exists(t)'
             PROVE  LET p == task'[t].proc
                        r == task'[t].run
                    IN  /\ mode'[p] \in Live
                        /\ mode'[p] \in Serving => owner'[r] = p
                        /\ mode'[p] = "released" /\ GivesBack
                               => ~(owner'[r] = p /\ status'[r] \in Open)
                        /\ r \notin abandoned'[p]
                        /\ task'[t].phase = "picked" => disp'[p] = "starting"
  BY DEF TasksLive
<1> DEFINE p == task'[t].proc
           r == task'[t].run
<1>0. p \in Procs /\ r \in Runs
  BY TaskIs
<1>1. CASE Born(t)
  <2>1. PICK q \in Procs, s \in Runs : ClaimNext(q, s, t)
    BY <1>1 DEF Born
  <2>2. /\ p = q /\ r = s /\ owner[s] = NoProc /\ owner'[s] = q
        /\ mode[q] = "up" /\ mode' = mode /\ disp'[q] = "starting" /\ abandoned' = abandoned
    BY <2>1, Birth
  <2>3. s \notin abandoned[q]
    BY <2>2, NotNull DEF Stepping, MemoryInv, AbandonedOk, Serving
  <2> QED
    BY <2>2, <2>3 DEF Live
<1>2. CASE Remains(t)
  <2>1. Exists(t) /\ task[t].proc = p /\ task[t].run = r
    BY <1>2 DEF Remains
  <2>2. /\ mode[p] \in Live
        /\ mode[p] \in Serving => owner[r] = p
        /\ mode[p] = "released" /\ GivesBack => ~(owner[r] = p /\ status[r] \in Open)
        /\ r \notin abandoned[p]
        /\ task[t].phase = "picked" => disp[p] = "starting"
    BY <2>1 DEF Stepping, MemoryInv, TasksLive
  <2>3. ModeMoves(p)
    BY <1>0, StepModes DEF Stepping
  <2>4. mode'[p] \in Live
    <3>1. ~\A u \in Tokens : Exists(u)' => task'[u].proc # p
      OBVIOUS
    <3>2. mode'[p] \in {mode[p], "up", "stopping", "draining", "released"}
      BY <2>3, <3>1 DEF ModeMoves
    <3> QED
      BY <2>2, <3>2 DEF Live
  <2>5. mode'[p] \in Serving => owner'[r] = p
    <3> SUFFICES ASSUME mode'[p] \in Serving PROVE owner'[r] = p
      OBVIOUS
    <3>1. mode[p] \in Serving
      <4>1. "off" \notin Live
        BY DEF Live
      <4> QED
        BY <1>0, <2>2, <4>1, ServedBefore
    <3>2. mode'[p] # "released" /\ owner[r] = p
      BY <2>2, <3>1 DEF Serving
    <3> QED
      BY <1>0, <3>2, StillOwns
  <2>6. ASSUME mode'[p] = "released", GivesBack, owner'[r] = p, status'[r] \in Open PROVE FALSE
    <3>1. Kept(r)
      <4>1. Kept(r) \/ NewlyClaimed(r)
        BY <1>0, <2>6, StepHands, NotNull DEF Stepping, HandedBack
      <4>2. disp[p] = "pass" => mode[p] = "up"
        BY <1>0 DEF Stepping, MemoryInv, Dispatching
      <4> QED
        BY <2>3, <2>6, <4>1, <4>2 DEF NewlyClaimed
    <3>2. owner[r] = p /\ status[r] \in Open
      BY <1>0, <2>6, <3>1 DEF Kept
    <3>3. mode[p] = "draining" /\ r \notin Released(p)
      BY <1>0, <2>2, <2>3, <2>6, <3>2, NotNull DEF ModeMoves
    <3> QED
      BY <1>0, <2>2, <3>2, <3>3 DEF Released, Owns, Active, Open
  <2>7. r \notin abandoned'[p]
    <3> SUFFICES ASSUME r \in abandoned'[p] PROVE FALSE
      OBVIOUS
    <3>1. PICK u \in Tokens : task[u].proc = p /\ task[u].run = r /\ Exists(u) /\ task'[u] = NoTask
      BY <1>0, <2>2, StepGivesUp DEF Stepping, GivesUpMore
    <3>2. u = t
      BY <2>1, <3>1 DEF Stepping, MemoryInv, Unique
    <3> QED
      BY <3>1, <3>2 DEF Exists
  <2>8. task'[t].phase = "picked" => disp'[p] = "starting"
    <3> SUFFICES ASSUME task'[t].phase = "picked", disp'[p] # "starting" PROVE FALSE
      OBVIOUS
    <3>1. task[t].phase = "picked" /\ disp[p] = "starting"
      BY <1>2, <2>2 DEF Remains
    <3>2. PICK u \in Tokens : Start(p, u)
      BY <1>0, <2>4, <3>1, StepDisp DEF Stepping, DispMoves, Live
    <3>3. task[u].proc = p /\ task[u].phase = "picked" /\ task' = [task EXCEPT ![u].phase = "new"]
      BY <3>2 DEF Start
    <3>4. Exists(u)
      BY <3>3, TaskTypes DEF Exists
    <3>5. u = t
      BY <2>1, <3>1, <3>3, <3>4 DEF Stepping, MemoryInv, Unique
    <3>6. task[t] \in Tasks /\ task \in [Tokens -> Tasks \cup {NoTask}]
      BY <2>1, TaskIs DEF Stepping, IInv, TypeOK
    <3>7. task'[t].phase = "new"
      BY <3>3, <3>5, <3>6 DEF Tasks
    <3> QED
      BY <3>7
  <2> QED
    BY <2>4, <2>5, <2>6, <2>7, <2>8
<1> QED
  BY <1>1, <1>2, TaskBefore

(* A task that is started gets an entry, and keeps it until it ends or is  *)
(* told to abort.                                                          *)
LEMMA KeepsEntries == Stepping => EntriesOk'
<1> SUFFICES ASSUME Stepping, NEW p \in Procs, NEW r \in Runs, active'[p][r] # NoToken
             PROVE  LET t == active'[p][r]
                    IN  /\ mode'[p] \in {"up", "stopping"}
                        /\ task'[t].phase \in Writing /\ task'[t].proc = p /\ task'[t].run = r
                        /\ t \notin aborted'
  BY DEF EntriesOk
<1> DEFINE t == active'[p][r]
<1>1. EntryMoves(p, r) /\ ModeMoves(p)
  BY StepEntries, StepModes DEF Stepping
<1>2. CASE active'[p][r] = active[p][r]
  <2>1. /\ t \in Tokens /\ Exists(t) /\ task[t].phase \in Writing
        /\ task[t].proc = p /\ task[t].run = r
        /\ mode[p] \in {"up", "stopping"} /\ t \notin aborted /\ active[p][r] = t
    BY <1>2, EntryIs
  <2>2. mode'[p] \in {"up", "stopping"}
    BY <1>1, <2>1 DEF ModeMoves, NoEntries
  <2>3. t \notin aborted'
    <3> SUFFICES ASSUME t \in aborted' PROVE FALSE
      OBVIOUS
    <3>1. PICK q \in Procs, s \in Runs : active[q][s] = t /\ active'[q][s] = NoToken
      BY <2>1, StepAborted DEF Stepping, AbortMoves
    <3>2. t # NoToken
      BY <2>1, NotNull
    <3>3. q = p /\ s = r
      BY <2>1, <3>1, <3>2, EntryIs
    <3> QED
      BY <3>1, <3>2, <3>3
  <2>4. task'[t].phase \in Writing /\ task'[t].proc = p /\ task'[t].run = r
    <3>1. ~Drops(t)
      BY <1>2, <2>1, NotNull DEF Drops
    <3>2. "picked" \notin Writing
      BY DEF Writing
    <3>3. \A q \in Procs : ~Start(q, t)
      BY <2>1, <3>2 DEF Start
    <3>4. \A q \in Procs, s \in Runs : ~ClaimNext(q, s, t)
      BY <2>1, Birth
    <3> QED
      BY <2>1, <3>1, <3>3, <3>4, StepTasks DEF Stepping, TaskMoves, WritesOn
  <2> QED
    BY <2>2, <2>3, <2>4
<1>3. ASSUME NEW u \in Tokens, Start(p, u), task[u].run = r, active'[p][r] = u
      PROVE  /\ mode'[p] \in {"up", "stopping"}
             /\ task'[t].phase \in Writing /\ task'[t].proc = p /\ task'[t].run = r
             /\ t \notin aborted'
  <2>1. /\ disp[p] = "starting" /\ mode' = mode /\ aborted' = aborted
        /\ task[u].proc = p /\ task[u].phase = "picked" /\ task' = [task EXCEPT ![u].phase = "new"]
    BY <1>3 DEF Start
  <2>2. mode'[p] = "up"
    BY <2>1 DEF Stepping, MemoryInv, Dispatching
  <2>3. Exists(u) /\ u \notin aborted
    BY <2>1, TaskTypes DEF Exists, Stepping, MemoryInv, AbortedOk, Writing
  <2>4. task[u] \in Tasks /\ task \in [Tokens -> Tasks \cup {NoTask}]
    BY <2>3, TaskIs DEF Stepping, IInv, TypeOK
  <2>5. task'[u].phase = "new" /\ task'[u].proc = p /\ task'[u].run = r
    BY <1>3, <2>1, <2>4 DEF Tasks
  <2> QED
    BY <1>3, <2>1, <2>2, <2>3, <2>5 DEF Writing
<1> QED
  BY <1>1, <1>2, <1>3 DEF EntryMoves

(* A started task that has no entry any more was told to abort.            *)
LEMMA KeepsEntered == Stepping => Entered'
<1> SUFFICES ASSUME Stepping, NEW t \in Tokens, task'[t].phase \in Writing, t \notin aborted'
             PROVE  active'[task'[t].proc][task'[t].run] = t
  BY DEF Entered
<1> DEFINE p == task'[t].proc
           r == task'[t].run
<1>1. Exists(t)' /\ p \in Procs /\ r \in Runs
  BY TaskIs
<1>2. ~Born(t)
  <2> SUFFICES ASSUME Born(t) PROVE FALSE
    OBVIOUS
  <2>1. task'[t].phase = "picked"
    BY Birth DEF Born
  <2> QED
    BY <2>1 DEF Writing
<1>3. Remains(t)
  BY <1>1, <1>2, TaskBefore
<1>4. Exists(t) /\ task[t].proc = p /\ task[t].run = r
  BY <1>3 DEF Remains
<1>5. CASE task[t].phase \notin Writing
  <2>1. Start(p, t)
    BY <1>3, <1>5 DEF Remains
  <2> QED
    BY <1>1, <1>4, <2>1 DEF Start, Stepping, IInv, TypeOK
<1>6. CASE task[t].phase \in Writing
  <2>1. t \notin aborted
    BY <1>1, StepAborted DEF Stepping, AbortMoves
  <2>2. active[p][r] = t
    BY <1>4, <1>6, <2>1 DEF Stepping, MemoryInv, Entered
  <2>3. EntryMoves(p, r)
    BY <1>1, StepEntries DEF Stepping
  <2>4. active'[p][r] # NoToken
    BY <1>1, <2>2, <2>3, NotNull DEF EntryMoves, Exists
  <2>5. active[p][r] # NoToken
    BY <2>2, NotNull
  <2> QED
    BY <2>2, <2>3, <2>4, <2>5 DEF EntryMoves
<1> QED
  BY <1>5, <1>6

(* A started task writes on, or ends.                                      *)
LEMMA WriterMoves ==
    ASSUME Stepping, NEW t \in Tokens, task[t].phase \in Writing
    PROVE  /\ Exists(t) /\ task[t].proc \in Procs /\ task[t].run \in Runs
           /\ \/ Drops(t)
              \/ /\ task'[t].phase \in Writing
                 /\ task'[t].proc = task[t].proc /\ task'[t].run = task[t].run
                 /\ ByCancel(task'[t]) => ByCancel(task[t]) \/ CancelSeen(t)
<1>1. Exists(t) /\ task[t].proc \in Procs /\ task[t].run \in Runs
  BY TaskIs
<1>2. \A q \in Procs : ~Start(q, t)
  BY DEF Start, Writing
<1>3. \A q \in Procs, s \in Runs : ~ClaimNext(q, s, t)
  BY <1>1, Birth
<1>4. TaskMoves(t)
  BY StepTasks DEF Stepping
<1> QED
  BY <1>1, <1>2, <1>3, <1>4 DEF TaskMoves, WritesOn

(* Who is told to abort lost its claim, or its process is stopping.        *)
LEMMA KeepsAborted == Stepping => AbortedOk'
<1> SUFFICES ASSUME Stepping, NEW t \in aborted'
             PROVE  /\ task'[t].phase \in Writing
                    /\ ~(mode'[task'[t].proc] \in {"up", "stopping"} /\ Held(t)')
  BY DEF AbortedOk
<1>0. t \in Tokens /\ AbortMoves(t)
  BY StepAborted DEF Stepping, IInv, TypeOK
<1>1. CASE t \in aborted
  <2>1. task[t].phase \in Writing /\ (mode[task[t].proc] \in {"up", "stopping"} => ~Held(t))
    BY <1>1 DEF Stepping, MemoryInv, AbortedOk
  <2>2. /\ Exists(t) /\ task[t].proc \in Procs
        /\ task'[t].phase \in Writing /\ task'[t].proc = task[t].proc /\ task'[t].run = task[t].run
    BY <1>0, <2>1, WriterMoves DEF Drops
  <2> DEFINE p == task[t].proc
  <2>3. mode'[p] \in {"up", "stopping"} => mode[p] \in {"up", "stopping"}
    <3>1. ModeMoves(p)
      BY <2>2, StepModes DEF Stepping
    <3>2. mode[p] # "off"
      BY <1>0, <2>2 DEF Stepping, MemoryInv, TasksLive, Live
    <3> QED
      BY <3>1, <3>2 DEF ModeMoves
  <2> QED
    BY <1>0, <2>1, <2>2, <2>3, HeldBefore
<1>2. ASSUME NEW p \in Procs, NEW r \in Runs, active[p][r] = t, task'[t] = task[t],
             mode'[p] = "draining" \/ r \in lost[p]
      PROVE  /\ task'[t].phase \in Writing
             /\ ~(mode'[task'[t].proc] \in {"up", "stopping"} /\ Held(t)')
  <2>1. active[p][r] # NoToken
    BY <1>0, <1>2, NotNull
  <2>2. /\ Exists(t) /\ task[t].phase \in Writing /\ task[t].proc = p /\ task[t].run = r
        /\ mode[p] \in {"up", "stopping"}
    BY <1>2, <2>1, EntryIs
  <2>3. r \in lost[p] => ~Held(t)
    <3>1. r \in lost[p] => (status[r] \in Open => left[r] < Skew[p])
      BY <2>2 DEF Stepping, MemoryInv, LostOk, Serving
    <3> QED
      BY <2>2, <3>1 DEF Held, Active, Lapsed, Open
  <2> QED
    BY <1>0, <1>2, <2>2, <2>3, HeldBefore
<1> QED
  BY <1>0, <1>1, <1>2 DEF AbortMoves

(* Who is told to cancel runs what somebody asked to cancel.               *)
LEMMA KeepsSignalled == Stepping => SignalledOk'
<1> SUFFICES ASSUME Stepping, NEW t \in signalled'
             PROVE  task'[t].phase \in Writing /\ task'[t].run \in asked'
  BY DEF SignalledOk
<1>0. t \in Tokens /\ SignalMoves(t) /\ asked \subseteq asked'
  BY StepSignals DEF Stepping, IInv, TypeOK, Asks
<1>1. CASE t \in signalled
  <2>1. task[t].phase \in Writing /\ task[t].run \in asked
    BY <1>1 DEF Stepping, MemoryInv, SignalledOk
  <2> QED
    BY <1>0, <2>1, WriterMoves DEF Drops
<1>2. ASSUME NEW p \in Procs, NEW r \in Runs, active[p][r] = t, r \in asked', task'[t] = task[t]
      PROVE  task'[t].phase \in Writing /\ task'[t].run \in asked'
  <2>1. active[p][r] # NoToken
    BY <1>0, <1>2, NotNull
  <2> QED
    BY <1>2, <2>1, EntryIs
<1> QED
  BY <1>0, <1>1, <1>2 DEF SignalMoves

(* What is found lost stays lost: its own process never renews it again.   *)
LEMMA KeepsLost == Stepping => LostOk'
<1> SUFFICES ASSUME Stepping, NEW p \in Procs, mode'[p] \in Serving, NEW r \in lost'[p]
             PROVE  owner'[r] = p /\ (status'[r] \in Open => left'[r] < Skew[p])
  BY DEF LostOk
<1>0. r \in Runs /\ LostMoves(p) /\ mode'[p] # "released"
  BY StepLost DEF Stepping, IInv, TypeOK, Serving
<1>1. CASE r \in lost[p]
  <2>1. mode[p] \in Serving
    BY <1>1, ServedBefore DEF Stepping, MemoryInv, BootClean
  <2>2. owner[r] = p /\ (status[r] \in Open => left[r] < Skew[p])
    BY <1>1, <2>1 DEF Stepping, MemoryInv, LostOk
  <2>3. owner'[r] = p /\ Kept(r)
    BY <1>0, <2>2, StillOwns
  <2> QED
    BY <2>2, <2>3 DEF Kept
<1>2. CASE r \notin lost[p]
  <2>1. active[p][r] # NoToken /\ ((owner'[r] = p /\ status'[r] \in Open) => left'[r] < Skew[p])
    BY <1>0, <1>2 DEF LostMoves
  <2>2. owner[r] = p
    BY <1>0, <2>1, EntryIs
  <2>3. owner'[r] = p
    BY <1>0, <2>2, StillOwns
  <2> QED
    BY <2>1, <2>3
<1> QED
  BY <1>1, <1>2

(* What a process gave up stays in its name.                               *)
LEMMA KeepsAbandoned == Stepping => AbandonedOk'
<1> SUFFICES ASSUME Stepping, NEW p \in Procs, mode'[p] \in Serving, NEW r \in abandoned'[p]
             PROVE  owner'[r] = p
  BY DEF AbandonedOk
<1>0. r \in Runs /\ mode'[p] # "released" /\ GivesUpMore(p)
  BY StepGivesUp DEF Stepping, IInv, TypeOK, Serving
<1>1. owner[r] = p
  <2>1. CASE r \in abandoned[p]
    <3>1. mode[p] \in Serving
      BY <2>1, ServedBefore DEF Stepping, MemoryInv, BootClean
    <3> QED
      BY <2>1, <3>1 DEF Stepping, MemoryInv, AbandonedOk
  <2>2. CASE r \notin abandoned[p]
    <3>1. PICK t \in Tokens : task[t].proc = p /\ task[t].run = r /\ Exists(t)
      BY <1>0, <2>2 DEF GivesUpMore
    <3>2. mode[p] \in Live /\ (mode[p] \in Serving => owner[r] = p)
      BY <3>1 DEF Stepping, MemoryInv, TasksLive
    <3>3. mode[p] \in Serving
      BY <3>2, ServedBefore DEF Live
    <3> QED
      BY <3>2, <3>3
  <2> QED
    BY <2>1, <2>2
<1> QED
  BY <1>0, <1>1, StillOwns

(* A claim is under the token of its own execution.                        *)
LEMMA KeepsNames == Stepping => Names'
<1> SUFFICES ASSUME Stepping, NEW t \in Tokens, NEW r \in Runs, Exists(t)', claim'[r] = t
             PROVE  task'[t].run = r /\ task'[t].proc = owner'[r]
  BY DEF Names
<1>1. CASE Born(t)
  BY <1>1, Birth DEF Born
<1>2. CASE Remains(t)
  <2>1. Exists(t) /\ task'[t].proc = task[t].proc /\ task'[t].run = task[t].run
    BY <1>2 DEF Remains
  <2>2. Kept(r)
    BY <2>1, StepHands, NotNull DEF Stepping, NewlyClaimed, HandedBack, FreeToken, Exists
  <2> QED
    BY <2>1, <2>2 DEF Kept, Stepping, MemoryInv, Names
<1> QED
  BY <1>1, <1>2, TaskBefore

(* An execution told to let go, or that lost its entry otherwise, no       *)
(* longer holds its claim: one that does and still drains was asked to, or *)
(* its process could not hand it back.                                     *)
LEMMA KeepsCancels == Stepping => CancelsAsked'
<1> SUFFICES ASSUME Stepping, NEW t \in Tokens, Held(t)', ByCancel(task'[t])
             PROVE  task'[t].run \in asked' \/ mode'[task'[t].proc] = "released"
  BY DEF CancelsAsked, ByCancel
<1>1. Exists(t)' /\ task'[t].phase \in {"draining", "closing"}
  BY TaskIs DEF ByCancel, Writing
<1>2. Remains(t)
  <2>1. Born(t) => task'[t].phase = "picked"
    BY Birth DEF Born
  <2> QED
    BY <1>1, <2>1, TaskBefore
<1>3. /\ Exists(t) /\ task'[t].proc = task[t].proc /\ task'[t].run = task[t].run
  BY <1>2 DEF Remains
<1>4. Held(t)
  BY <1>3, HeldBefore
<1>5. task[t].phase \in Writing
  <2> SUFFICES ASSUME task[t].phase \notin Writing PROVE FALSE
    OBVIOUS
  <2>1. Start(task[t].proc, t)
    BY <1>1, <1>2 DEF Remains, Writing
  <2>2. task[t] \in Tasks /\ task \in [Tokens -> Tasks \cup {NoTask}]
    BY <1>3, TaskIs DEF Stepping, IInv, TypeOK
  <2>3. task'[t].phase = "new"
    BY <2>1, <2>2 DEF Start, Tasks
  <2> QED
    BY <1>1, <2>3
<1>6. ByCancel(task[t]) \/ CancelSeen(t)
  BY <1>1, <1>5, WriterMoves DEF Drops, Exists
<1> DEFINE p == task[t].proc
           r == task[t].run
<1>7. r \in asked \/ mode[p] = "released"
  <2>1. CASE ByCancel(task[t])
    BY <1>4, <2>1 DEF Stepping, MemoryInv, CancelsAsked, ByCancel
  <2>2. CASE t \in signalled
    BY <2>2 DEF Stepping, MemoryInv, SignalledOk
  <2>3. CASE active[p][r] # t /\ mode[p] # "draining"
    <3>1. t \in aborted
      BY <1>5, <2>3 DEF Stepping, MemoryInv, Entered
    <3>2. mode[p] \notin {"up", "stopping"}
      BY <1>4, <3>1 DEF Stepping, MemoryInv, AbortedOk
    <3>3. mode[p] \in Live
      BY <1>3 DEF Stepping, MemoryInv, TasksLive
    <3> QED
      BY <2>3, <3>2, <3>3 DEF Live
  <2> QED
    BY <1>6, <2>1, <2>2, <2>3 DEF CancelSeen
<1>8. asked \subseteq asked'
  BY StepSignals DEF Stepping, Asks
<1>9. mode[p] = "released" => mode'[p] = "released"
  <2>1. p \in Procs
    BY <1>3, TaskIs
  <2>2. ModeMoves(p)
    BY <2>1, StepModes DEF Stepping
  <2> QED
    BY <1>1, <1>3, <2>2 DEF ModeMoves
<1> QED
  BY <1>3, <1>7, <1>8, <1>9

(* Before anything booted there is nothing to agree on.                    *)
LEMMA InitMemory == Init => MemoryInv
<1> SUFFICES ASSUME Init PROVE MemoryInv
  OBVIOUS
<1>1. \A t \in Tokens : task[t] = NoTask /\ ~Exists(t)
  BY DEF Init, Exists
<1>2. \A t \in Tokens : task[t].phase \notin Writing
  BY <1>1, TaskTypes DEF Writing
<1>3. BootClean
  BY NotNull DEF Init, BootClean
<1>4. Dispatching /\ AbortedOk /\ SignalledOk
  BY DEF Init, Dispatching, AbortedOk, SignalledOk
<1>5. TasksLive /\ Unique /\ Names
  BY <1>1 DEF TasksLive, Unique, Names
<1>6. EntriesOk
  BY DEF Init, EntriesOk
<1>7. Entered
  BY <1>2 DEF Entered
<1>8. LostOk /\ AbandonedOk
  BY DEF Init, LostOk, AbandonedOk, Serving
<1>9. \A t \in Tokens : ~ByCancel(task[t])
  BY <1>2 DEF ByCancel, Writing
<1>10. CancelsAsked
  BY <1>9 DEF CancelsAsked, ByCancel
<1> QED
  BY <1>3, <1>4, <1>5, <1>6, <1>7, <1>8, <1>10 DEF MemoryInv

(* Each part follows from all of them before the step.                     *)
LEMMA StepMemory == Regular /\ IInv /\ MemoryInv /\ [Next]_vars => MemoryInv'
<1> SUFFICES ASSUME Regular, IInv, MemoryInv, [Next]_vars PROVE MemoryInv'
  OBVIOUS
<1>1. Stepping
  BY StepIInv DEF Stepping
<1> QED
  BY <1>1, KeepsBoot, KeepsDispatching, KeepsTasks, KeepsUnique, KeepsEntries, KeepsEntered,
     KeepsAborted, KeepsSignalled, KeepsLost, KeepsAbandoned, KeepsNames, KeepsCancels DEF MemoryInv

(* What the processes remember and what the rows say agree, whatever is    *)
(* refused, lost, cancelled, killed or stopped.                            *)
THEOREM MemoryAgrees == ASSUME Regular PROVE Spec => []MemoryInv
<1>1. IInv /\ MemoryInv /\ [Next]_vars => MemoryInv'
  BY StepMemory
<1> QED
  BY <1>1, InitMemory, InvariantHolds, PTL DEF Spec

-----------------------------------------------------------------------------
(* What follows for the runs. *)

(* A row becomes canceled by a cancel of a queued run, which asks, or by   *)
(* the last write of an execution that holds its claim.                    *)
BecomesCanceled(r) == status[r] # "canceled" /\ status'[r] = "canceled"
Unreturned(r) == \E t \in Tokens :
    Exists(t) /\ Held(t) /\ task[t].run = r /\ mode[task[t].proc] = "released"

LEMMA StepCanceled ==
    ASSUME Stepping, NEW r \in Runs, BecomesCanceled(r)
    PROVE  r \in asked' \/ Unreturned(r)
<1> USE DEF Stepping, IInv, BecomesCanceled
<1>0. asked \subseteq asked'
  BY StepSignals DEF Asks
<1>1. CASE Outside
  <2>1. ASSUME NEW s \in Runs, NEW p \in Procs, CancelQueued(p, s) PROVE r \in asked'
    BY <2>1 DEF CancelQueued, TypeOK
  <2>2. ASSUME NEW s \in Runs, NEW n \in Priorities, Submit(s, n) PROVE FALSE
    BY <2>2 DEF Submit, TypeOK
  <2> QED
    BY <1>1, <2>1, <2>2 DEF Outside, SetPriority, CancelSignal
<1>2. CASE Tick
  BY <1>2 DEF Tick
<1>3. ASSUME NEW p \in Procs, Dispatch(p) PROVE FALSE
  BY <1>3 DEF Dispatch, PassBegin, PassEnd, Start, ClaimNext, ClaimUnheard, ClaimRow
<1>4. ASSUME NEW p \in Procs, Heartbeat(p) PROVE FALSE
  <2>1. ASSUME NEW S, NEW lease, Reclaim(S, lease) PROVE FALSE
    BY <2>1 DEF Reclaim
  <2> QED
    BY <1>4, <2>1 DEF Heartbeat, Beat, BeatEnd
<1>5. ASSUME NEW p \in Procs, Process(p) PROVE FALSE
  <2>1. CASE Boot(p) \/ BootEnd(p)
    BY <2>1 DEF Boot, BootEnd
  <2>2. CASE ReleaseClaims(p)
    BY <2>2 DEF ReleaseClaims
  <2> QED
    BY <1>5, <2>1, <2>2 DEF Process, BeginStop, DrainActive, ReleaseRefused, Exit
<1>6. ASSUME NEW t \in Tokens, Execute(t) \/ WriteRefused(t) PROVE r \in asked' \/ Unreturned(r)
  <2>1. CASE Begin(t)
    BY <2>1 DEF Begin, TypeOK
  <2>2. CASE FinishRow(t)
    <3>1. /\ Held(t) /\ task[t].phase = "closing"
          /\ status' = [status EXCEPT ![task[t].run] = task[t].result]
      BY <2>2 DEF FinishRow, Writes
    <3>2. r = task[t].run /\ task[t].result = "canceled"
      BY <3>1 DEF TypeOK
    <3> QED
      BY <1>0, <3>1, <3>2, TaskTypes DEF MemoryInv, CancelsAsked, Unreturned, Exists
  <2> QED
    BY <1>6, <2>1, <2>2 DEF Execute, OpStart, SkipAll, Notice, OpEnd, Drain, Finish,
                            FinishUnheard, ClaimLost, AbortTakes, WriteRefused
<1>7. CASE UNCHANGED vars
  BY <1>7
<1> QED
  BY <1>1, <1>2, <1>3, <1>4, <1>5, <1>6, <1>7 DEF Next

(* With lapsed runs failed and stops between passes, a run becomes         *)
(* canceled because somebody asked, or in the hands of a process past its  *)
(* stop that could not give it back (executor.rs, release_claims).  Being  *)
(* let go of, handed back or overtaken is no cancel, whatever is refused.  *)
THEOREM CancelsWereAsked == ASSUME Regular PROVE Spec => CancelsAreAsked
<1>1. ASSUME Stepping, NEW r \in Runs, BecomesCanceled(r)
      PROVE  r \in asked' \/ \E p \in Procs : Owns(p, r) /\ mode[p] = "released"
  BY <1>1, StepCanceled, TaskIs DEF Unreturned, Held
<1>2. /\ IInv /\ IInv' /\ MemoryInv /\ [Next]_vars
      => \A r \in Runs : BecomesCanceled(r) =>
             r \in asked' \/ \E p \in Procs : Owns(p, r) /\ mode[p] = "released"
  BY <1>1 DEF Stepping
<1> QED
  BY <1>2, InvariantHolds, MemoryAgrees, PTL DEF Spec, CancelsAreAsked, BecomesCanceled

(* And where no hand-back is refused, only because somebody asked.         *)
THEOREM CanceledMeansAsked == ASSUME Regular, GivesBack PROVE Spec => []CanceledOnlyIfAsked
<1>1. ASSUME Stepping, CanceledOnlyIfAsked, NEW r \in Runs, status'[r] = "canceled"
      PROVE  r \in asked'
  <2>1. CASE status[r] = "canceled"
    BY <1>1, <2>1, StepSignals DEF Stepping, Asks, CanceledOnlyIfAsked
  <2>2. ~Unreturned(r)
    <3> SUFFICES ASSUME NEW t \in Tokens, Exists(t), Held(t), mode[task[t].proc] = "released"
                 PROVE  FALSE
      BY DEF Unreturned
    <3> QED
      BY <1>1 DEF Stepping, MemoryInv, TasksLive, Held, Owns, Active, Open
  <2> QED
    BY <1>1, <2>1, <2>2, StepCanceled DEF BecomesCanceled
<1>2. IInv /\ IInv' /\ MemoryInv /\ CanceledOnlyIfAsked /\ [Next]_vars => CanceledOnlyIfAsked'
  BY <1>1 DEF Stepping, CanceledOnlyIfAsked
<1>3. Init => CanceledOnlyIfAsked
  BY DEF Init, CanceledOnlyIfAsked
<1> QED
  BY <1>2, <1>3, InvariantHolds, MemoryAgrees, PTL DEF Spec

(* Whoever claims a row starts its execution; without lost answers, every  *)
(* claim is heard of.                                                      *)
LEMMA ClaimIsHeard ==
    ASSUME Stepping, "ack" \notin Faults, NEW r \in Runs, NewlyClaimed(r)
    PROVE  task'[claim'[r]] # NoTask
<1> USE DEF Stepping, IInv
<1>0. owner'[r] # owner[r]
  BY NotNull DEF NewlyClaimed
<1>1. ~(Outside \/ Tick \/ UNCHANGED vars)
  BY <1>0 DEF Outside, Submit, SetPriority, CancelQueued, CancelSignal, Tick, vars, rowVars
<1>2. \A p \in Procs : ~Heartbeat(p)
  <2>1. \A S, lease : Reclaim(S, lease) => owner'[r] = owner[r]
    BY DEF Reclaim, Unclaims, Regular
  <2> QED
    BY <1>0, <2>1 DEF Heartbeat, Beat, BeatEnd
<1>3. \A p \in Procs : ~Process(p)
  <2>1. \A p \in Procs : ReleaseClaims(p) => mode'[p] # mode[p]
    BY DEF ReleaseClaims, TypeOK
  <2> QED
    BY <1>0, <2>1 DEF Process, Boot, BootEnd, BeginStop, DrainActive, ReleaseRefused, Exit,
                              rowVars, NewlyClaimed
<1>4. \A t \in Tokens : ~(Execute(t) \/ WriteRefused(t))
  BY <1>0 DEF Execute, Begin, OpStart, SkipAll, Notice, OpEnd, Drain, Finish, FinishUnheard, FinishRow,
              ClaimLost, AbortTakes, WriteRefused, rowVars
<1>5. PICK p \in Procs : Dispatch(p)
  BY <1>1, <1>2, <1>3, <1>4 DEF Next
<1>6. PICK t \in Tokens, s \in Runs : ClaimNext(p, s, t)
  BY <1>0, <1>5 DEF Dispatch, PassBegin, PassEnd, Start, ClaimUnheard, rowVars
<1>7. owner' = [owner EXCEPT ![s] = p]
  BY <1>6 DEF ClaimNext, ClaimRow
<1>8. r = s
  BY <1>0, <1>7 DEF TypeOK
<1> QED
  BY <1>6, <1>8, Birth DEF Exists

(* A serving process that drops a task gave its run up, finished it or     *)
(* let go of a claim it no longer held.                                    *)
LEMMA StepRenews ==
    ASSUME "ack" \notin Faults
    PROVE  Stepping /\ RenewsOnlyWhatItExecutes => RenewsOnlyWhatItExecutes'
<1> SUFFICES ASSUME Stepping, RenewsOnlyWhatItExecutes, NEW p \in Procs, NEW r \in Runs,
                    mode'[p] = "up", owner'[r] = p, status'[r] \in Open, ~(left'[r] < Skew[p]),
                    r \notin abandoned'[p]
             PROVE  task'[claim'[r]] # NoTask
  BY DEF RenewsOnlyWhatItExecutes, Owns, Active, Lapsed, Open
<1>1. CASE NewlyClaimed(r)
  BY <1>1, ClaimIsHeard
<1>2. CASE Kept(r)
  <2> DEFINE t == claim[r]
  <2>1. /\ owner[r] = p /\ claim'[r] = t /\ status[r] \in Open /\ ~(left[r] < Skew[p])
    BY <1>2 DEF Kept
  <2>2. t \in Tokens
    BY <2>1, NotNull DEF Stepping, IInv, TypeOK, ClaimsAgree
  <2>3. mode[p] = "up"
    <3>1. mode[p] # "off"
      BY <2>1 DEF Stepping, MemoryInv, BootClean
    <3> QED
      BY <3>1, StepModes DEF Stepping, ModeMoves
  <2>4. r \notin abandoned[p]
    BY <2>3, StepGivesUp DEF Stepping, GivesUpMore
  <2>5. Exists(t)
    BY <2>1, <2>3, <2>4 DEF RenewsOnlyWhatItExecutes, Owns, Active, Lapsed, Open, Exists
  <2>6. task[t].run = r /\ task[t].proc = p
    BY <2>1, <2>2, <2>5 DEF Stepping, MemoryInv, Names
  <2>7. Held(t)
    BY <2>1, <2>6 DEF Held, Owns, Active, Lapsed, Open
  <2>8. t \notin aborted
    BY <2>3, <2>6, <2>7 DEF Stepping, MemoryInv, AbortedOk
  <2>9. ~Drops(t)
    BY <2>6, <2>8 DEF Drops, Open, Terminal
  <2>10. TaskMoves(t)
    BY <2>2, StepTasks DEF Stepping
  <2>11. task'[t] # NoTask
    <3>1. CASE task'[t] = task[t]
      BY <2>5, <3>1 DEF Exists
    <3>2. CASE WritesOn(t)
      BY <2>2, <3>2, TaskIs DEF WritesOn, Exists
    <3>3. ASSUME NEW q \in Procs, Start(q, t) PROVE task'[t] # NoTask
      <4>1. task[t] \in Tasks /\ task \in [Tokens -> Tasks \cup {NoTask}]
        BY <2>2, <2>5, TaskIs DEF Stepping, IInv, TypeOK
      <4>2. task'[t].phase = "new"
        BY <2>2, <3>3, <4>1 DEF Start, Tasks
      <4> QED
        BY <4>2, TaskTypes
    <3>4. ASSUME NEW q \in Procs, NEW s \in Runs, ClaimNext(q, s, t) PROVE task'[t] # NoTask
      BY <2>2, <3>4, Birth DEF Exists
    <3> QED
      BY <2>9, <2>10, <3>1, <3>2, <3>3, <3>4 DEF TaskMoves
  <2> QED
    BY <2>1, <2>11
<1> QED
  BY <1>1, <1>2, StepHands, NotNull DEF Stepping, HandedBack

(* Where no answer of the store is lost, no process keeps renewing a claim *)
(* nobody executes: nothing strands a run under a lease that never lapses. *)
THEOREM RenewsWhatItExecutes ==
    ASSUME Regular, "ack" \notin Faults PROVE Spec => []RenewsOnlyWhatItExecutes
<1>1. IInv /\ IInv' /\ MemoryInv /\ RenewsOnlyWhatItExecutes /\ [Next]_vars
          => RenewsOnlyWhatItExecutes'
  BY StepRenews DEF Stepping
<1>2. Init => RenewsOnlyWhatItExecutes
  BY DEF Init, RenewsOnlyWhatItExecutes
<1> QED
  BY <1>1, <1>2, InvariantHolds, MemoryAgrees, PTL DEF Spec

-----------------------------------------------------------------------------
(* The slots. *)

(* What a process executes and has not been told to let go of.             *)
Executing(p) == TasksOf(p) \ aborted
SlotInv == \A p \in Procs : IsFiniteSet(Executing(p)) /\ Cardinality(Executing(p)) <= Slots

(* Between two starts, a process has exactly one entry per such task: what *)
(* it counts to see whether a slot is free is what it executes.            *)
LEMMA EntriesCount ==
    ASSUME Stepping, NEW p \in Procs, disp[p] # "starting", IsFiniteSet(Executing(p))
    PROVE  Cardinality(Entries(p)) = Cardinality(Executing(p))
<1> DEFINE f == [t \in Executing(p) |-> task[t].run]
<1>1. ASSUME NEW t \in Executing(p)
      PROVE  task[t].run \in Runs /\ t \in Tokens /\ t # NoToken /\ active[p][task[t].run] = t
  <2>1. t \in Tokens /\ task[t].proc = p /\ t \notin aborted
    BY DEF Executing, TasksOf
  <2>2. Exists(t)
    BY <2>1, TaskTypes, NotNull DEF Exists
  <2>3. task[t] \in Tasks
    BY <2>1, <2>2, TaskIs
  <2>4. task[t].phase # "picked"
    BY <2>1, <2>2 DEF Stepping, MemoryInv, TasksLive
  <2>5. task[t].phase \in Writing /\ task[t].run \in Runs
    BY <2>3, <2>4 DEF Tasks, Phases, Writing
  <2> QED
    BY <2>1, <2>5, NotNull DEF Stepping, MemoryInv, Entered
<1>2. f \in [Executing(p) -> Entries(p)]
  BY <1>1 DEF Entries
<1>3. \A s, t \in Executing(p) : f[s] = f[t] => s = t
  BY <1>1
<1>4. ASSUME NEW r \in Entries(p) PROVE \E t \in Executing(p) : f[t] = r
  <2>1. r \in Runs /\ active[p][r] # NoToken
    BY DEF Entries
  <2>2. active[p][r] \in Executing(p) /\ task[active[p][r]].run = r
    BY <2>1, EntryIs DEF Executing, TasksOf
  <2> QED
    BY <2>2
<1> HIDE DEF f
<1>5. f \in Bijection(Executing(p), Entries(p))
  BY <1>2, <1>3, <1>4 DEF Bijection, Injection, IsInjective, Surjection
<1>6. ExistsBijection(Executing(p), Entries(p))
  BY <1>5 DEF ExistsBijection
<1> QED
  BY <1>6, FS_Bijection

(* A process executes more after a step only by a claim, made with a slot  *)
(* to spare.                                                               *)
LEMMA StepSlots == Stepping /\ SlotInv => SlotInv'
<1> SUFFICES ASSUME Stepping, SlotInv, NEW p \in Procs
             PROVE  IsFiniteSet(Executing(p)') /\ Cardinality(Executing(p)') <= Slots
  BY DEF SlotInv
<1> DEFINE S == Executing(p)
           T == {u \in Tokens : task'[u].proc = p} \ aborted'
<1>0. Executing(p)' = T
  BY DEF Executing, TasksOf
<1>a. IsFiniteSet(S) /\ Cardinality(S) \in Nat /\ Cardinality(S) <= Slots /\ Slots \in Nat
  BY FS_CardinalityType, RunQueueAssumption DEF SlotInv
<1>1. ASSUME NEW u \in T PROVE u \in S \/ \E r \in Runs : ClaimNext(p, r, u)
  <2>1. u \in Tokens /\ task'[u].proc = p /\ u \notin aborted' /\ Exists(u)'
    BY TaskTypes, NotNull DEF Exists
  <2>2. CASE Remains(u)
    <3>1. u \notin aborted
      BY <2>1, StepAborted DEF Stepping, AbortMoves
    <3> QED
      BY <2>1, <2>2, <3>1 DEF Remains, Executing, TasksOf
  <2>3. CASE Born(u)
    <3>1. PICK q \in Procs, r \in Runs : ClaimNext(q, r, u)
      BY <2>3 DEF Born
    <3>2. q = p
      BY <2>1, <3>1, Birth
    <3> QED
      BY <3>1, <3>2
  <2> QED
    BY <2>1, <2>2, <2>3, TaskBefore
<1>2. CASE T \subseteq S
  <2> HIDE DEF S, T
  <2>1. IsFiniteSet(T) /\ Cardinality(T) <= Cardinality(S)
    BY <1>2, <1>a, FS_Subset
  <2>2. Cardinality(T) \in Nat
    BY <2>1, FS_CardinalityType
  <2> QED
    BY <1>0, <1>a, <2>1, <2>2
<1>3. CASE ~(T \subseteq S)
  <2>1. PICK t \in T, r \in Runs : ClaimNext(p, r, t)
    BY <1>1, <1>3
  <2>2. t \in Tokens
    OBVIOUS
  <2>3. T \subseteq S \cup {t}
    <3> SUFFICES ASSUME NEW u \in T, u # t, u \notin S PROVE FALSE
      OBVIOUS
    <3>1. PICK s \in Runs : ClaimNext(p, s, u)
      BY <1>1
    <3>2. Exists(u)' /\ ~Exists(u) /\ u \in Tokens
      BY <3>1, Birth
    <3>3. task'[u] = task[u]
      BY <2>1, <2>2, <3>2, Birth
    <3> QED
      BY <3>2, <3>3 DEF Exists
  <2>4. Cardinality(Entries(p)) < Slots
    BY <2>1 DEF ClaimNext, ClaimRow
  <2>5. Cardinality(Entries(p)) = Cardinality(S)
    <3>1. disp[p] # "starting"
      BY <2>1 DEF ClaimNext
    <3> QED
      BY <1>a, <3>1, EntriesCount
  <2> HIDE DEF S, T
  <2>6. /\ IsFiniteSet(S \cup {t})
        /\ Cardinality(S \cup {t}) = IF t \in S THEN Cardinality(S) ELSE Cardinality(S) + 1
    BY <1>a, FS_AddElement
  <2>7. IsFiniteSet(T) /\ Cardinality(T) <= Cardinality(S \cup {t})
    BY <2>3, <2>6, FS_Subset
  <2>8. Cardinality(T) \in Nat
    BY <2>7, FS_CardinalityType
  <2> QED
    BY <1>0, <1>a, <2>4, <2>5, <2>6, <2>7, <2>8
<1> QED
  BY <1>2, <1>3

(* A process never executes more runs at once than its slots: the entries  *)
(* it counts are neither fewer than its tasks, nor any of another's.       *)
THEOREM SlotsAlwaysHold == ASSUME Regular PROVE Spec => []SlotsHold
<1>1. IInv /\ IInv' /\ MemoryInv /\ SlotInv /\ [Next]_vars => SlotInv'
  BY StepSlots DEF Stepping
<1>2. Init => SlotInv
  <2> SUFFICES ASSUME Init, NEW p \in Procs
               PROVE  IsFiniteSet(Executing(p)) /\ Cardinality(Executing(p)) <= Slots
    BY DEF SlotInv
  <2>1. Executing(p) = {}
    BY TaskTypes, NotNull DEF Init, Executing, TasksOf
  <2> QED
    BY <2>1, FS_EmptySet, RunQueueAssumption
<1>3. SlotInv => SlotsHold
  BY DEF SlotInv, SlotsHold, Executing
<1> QED
  BY <1>1, <1>2, <1>3, InvariantHolds, MemoryAgrees, PTL DEF Spec

-----------------------------------------------------------------------------
(* The lease. *)

(* The heartbeat is on time and its renewals are taken, and a lease is     *)
(* longer than any two clocks are apart.                                   *)
OnTime == /\ Regular /\ Timely /\ "beat" \notin Faults
          /\ \A p, q \in Procs : Skew[q] < Skew[p] + Lease

(* No clock finds a lease lapsed under a task, nor will at the next tick   *)
(* if the process has beaten since the last one.                           *)
Margin(p) == IF p \in beaten THEN 1 ELSE 0
Safe(t) ==
    LET p == task[t].proc
        r == task[t].run
    IN  mode[p] \in {"up", "stopping"} =>
            status[r] \in Open /\ \A o \in Procs : left[r] >= Skew[o] + Margin(p)
LeaseInv == /\ \A p \in Procs : lost[p] = {}
            /\ \A t \in Tokens : Exists(t) => Safe(t)

(* Clocks, leases and margins are numbers.                                 *)
LEMMA Numbers ==
    ASSUME Stepping
    PROVE  /\ Lease \in Nat /\ \A o \in Procs : Skew[o] \in Nat
           /\ \A r \in Runs : left[r] \in Int /\ left'[r] \in Int
           /\ \A p \in Procs : Margin(p) \in {0, 1}
BY RunQueueAssumption DEF Stepping, IInv, TypeOK, Margin

(* Right after its renewal a process finds none of its entries lost.       *)
LEMMA RenewalKeeps ==
    ASSUME OnTime, Stepping, LeaseInv, NEW p \in Procs
    PROVE  Losses(p, Renewed(p)) = {}
<1> SUFFICES ASSUME NEW r \in Losses(p, Renewed(p)) PROVE FALSE
  OBVIOUS
<1>1. /\ r \in Runs /\ active[p][r] # NoToken
      /\ ~(owner[r] = p /\ status[r] \in Open /\ Renewed(p)[r] >= Skew[p])
  BY DEF Losses, Entries, Owns, Active, Open
<1> DEFINE t == active[p][r]
<1>2. /\ t \in Tokens /\ Exists(t) /\ task[t].proc = p /\ task[t].run = r
      /\ owner[r] = p /\ mode[p] \in {"up", "stopping"}
  BY <1>1, EntryIs
<1>3. status[r] \in Open /\ left[r] >= Skew[p] + Margin(p)
  BY <1>2 DEF LeaseInv, Safe
<1>4. Renewed(p)[r] = Skew[p] + Lease \/ Renewed(p)[r] = left[r]
  BY <1>1 DEF Renewed
<1> QED
  BY <1>1, <1>2, <1>3, <1>4, Numbers

(* A step leaves the lease of a run that is executed as long as it must be. *)
LEMMA LeaseStep ==
    ASSUME OnTime, Stepping, LeaseInv, NEW t \in Tokens, NEW p \in Procs, NEW r \in Runs,
           Exists(t), Exists(t)', task[t].proc = p, task[t].run = r,
           mode[p] \in {"up", "stopping"}, NEW o \in Procs
    PROVE  status'[r] \in Open /\ left'[r] >= Skew[o] + Margin(p)'
<1> DEFINE Good == status'[r] \in Open /\ left'[r] >= Skew[o] + Margin(p)'
<1>a. /\ status[r] \in Open /\ \A q \in Procs : left[r] >= Skew[q] + Margin(p)
  BY DEF LeaseInv, Safe
<1>b. owner[r] = p /\ r \notin abandoned[p]
  BY DEF Stepping, MemoryInv, TasksLive, Serving
<1>c. \A q \in Procs : ~(left[r] < Skew[q])
  BY <1>a, Numbers
<1>d. status'[r] = status[r] /\ left'[r] = left[r] /\ (p \in beaten' => p \in beaten) => Good
  <2> SUFFICES ASSUME status'[r] = status[r], left'[r] = left[r], p \in beaten' => p \in beaten
               PROVE  Good
    OBVIOUS
  <2>1. Margin(p)' \in {0, 1} /\ Margin(p)' <= Margin(p)
    BY DEF Margin
  <2> QED
    BY <1>a, <2>1, Numbers
<1>e. task[t] \in Tasks /\ task \in [Tokens -> Tasks \cup {NoTask}]
      /\ status \in [Runs -> Statuses] /\ left \in [Runs -> Int]
  BY TaskIs DEF Stepping, IInv, TypeOK
<1>1. ASSUME Outside PROVE Good
  <2>1. ASSUME NEW s \in Runs, NEW n \in Priorities, Submit(s, n) PROVE Good
    <3>1. status[s] = "absent" /\ status' = [status EXCEPT ![s] = "queued"] /\ UNCHANGED <<left, beaten>>
      BY <2>1 DEF Submit
    <3>2. status'[r] = status[r]
      BY <1>a, <1>e, <3>1 DEF Open
    <3> QED
      BY <1>d, <3>1, <3>2
  <2>2. ASSUME NEW s \in Runs, NEW q \in Procs, CancelQueued(q, s) PROVE Good
    <3>1. owner[s] = NoProc /\ status' = [status EXCEPT ![s] = "canceled"] /\ UNCHANGED <<left, beaten>>
      BY <2>2 DEF CancelQueued, Waiting, Claimed
    <3>2. status'[r] = status[r]
      BY <1>b, <1>e, <3>1, NotNull
    <3> QED
      BY <1>d, <3>1, <3>2
  <2> HIDE DEF Good
  <2> QED
    BY <1>1, <1>d, <2>1, <2>2 DEF Outside, SetPriority, CancelSignal
<1>2. ASSUME Tick PROVE Good
  <2>1. /\ left'[r] = IF left[r] > -1 THEN left[r] - 1 ELSE -1
        /\ p \in beaten /\ beaten' = {} /\ status' = status
    BY <1>2 DEF Tick, OnTime
  <2>2. Margin(p) = 1 /\ Margin(p)' = 0
    BY <2>1 DEF Margin
  <2>3. left[r] >= Skew[o] + 1 /\ Skew[o] \in Nat /\ left[r] \in Int
    BY <1>a, <2>2, Numbers
  <2> QED
    BY <1>a, <2>1, <2>2, <2>3
<1>3. ASSUME NEW q \in Procs, Dispatch(q) PROVE Good
  <2>1. ASSUME NEW u \in Tokens, NEW s \in Runs, ClaimNext(q, s, u) \/ ClaimUnheard(q, s, u)
        PROVE  Good
    <3>1. ClaimRow(q, s, u) /\ beaten' = beaten
      BY <2>1 DEF ClaimNext, ClaimUnheard
    <3>2. owner[s] = NoProc /\ left' = [left EXCEPT ![s] = Skew[q] + Lease] /\ UNCHANGED status
      BY <3>1 DEF ClaimRow, Head, Eligible, Waiting, Claimed
    <3>3. left'[r] = left[r]
      BY <1>b, <1>e, <3>2, NotNull
    <3> HIDE DEF Good
    <3> QED
      BY <1>d, <3>1, <3>2, <3>3
  <2> HIDE DEF Good
  <2> QED
    BY <1>3, <1>d, <2>1 DEF Dispatch, PassBegin, PassEnd, Start
<1>4. ASSUME NEW q \in Procs, Heartbeat(q) PROVE Good
  <2>1. PICK renewed \in BOOLEAN : Beat(q, renewed)
    BY <1>4 DEF Heartbeat, BeatEnd, LeaseInv
  <2>2. renewed = TRUE
    BY <2>1 DEF Beat, OnTime
  <2> DEFINE lease == Renewed(q)
  <2>3. Losses(q, lease) = {}
    BY RenewalKeeps
  <2>4. Reclaim(Lapses(q, lease), lease) /\ beaten' = beaten \cup {q}
    BY <2>1, <2>2, <2>3 DEF Beat, OnTime
  <2>5. lease[r] = IF q = p THEN Skew[p] + Lease ELSE left[r]
    BY <1>a, <1>b, <1>c DEF Renewed, Owns, Active, Lapsed, Open
  <2>6. Skew[o] < Skew[p] + Lease /\ Skew[q] < Skew[p] + Lease
    BY DEF OnTime
  <2>7. r \notin Lapses(q, lease)
    <3>1. ~(lease[r] < Skew[q])
      BY <1>c, <2>5, <2>6, Numbers
    <3> QED
      BY <3>1 DEF Lapses
  <2> HIDE DEF lease
  <2>8. status'[r] = status[r] /\ left'[r] = lease[r]
    BY <2>4, <2>7 DEF Reclaim
  <2>9. CASE q # p
    <3>1. p \in beaten' => p \in beaten
      BY <2>4, <2>9
    <3> HIDE DEF Good
    <3> QED
      BY <1>d, <2>5, <2>8, <2>9, <3>1
  <2>10. CASE q = p
    <3>1. Margin(p)' = 1
      BY <2>4, <2>10 DEF Margin
    <3>2. left'[r] = Skew[p] + Lease
      BY <2>5, <2>8, <2>10
    <3>3. Skew[o] \in Nat /\ Skew[p] \in Nat /\ Lease \in Nat
      BY Numbers
    <3>4. left'[r] >= Skew[o] + 1
      BY <2>6, <3>2, <3>3
    <3> QED
      BY <1>a, <2>8, <3>1, <3>4
  <2> QED
    BY <2>9, <2>10
<1>5. ASSUME NEW q \in Procs, Process(q) PROVE Good
  <2>1. CASE Boot(q) \/ BootEnd(q)
    <3>1. r \notin Expired(q)
      BY <1>c DEF Expired, Lapses
    <3>2. status'[r] = status[r] /\ left'[r] = left[r] /\ beaten' = beaten
      BY <2>1, <3>1 DEF Boot, BootEnd
    <3> HIDE DEF Good
    <3> QED
      BY <1>d, <3>2
  <2>2. CASE ReleaseClaims(q)
    <3>1. r \notin Released(q)
      BY <1>b, <2>2 DEF Released, Owns, ReleaseClaims
    <3>2. status'[r] = status[r] /\ left'[r] = left[r] /\ beaten' = beaten
      BY <2>2, <3>1 DEF ReleaseClaims
    <3> HIDE DEF Good
    <3> QED
      BY <1>d, <3>2
  <2>3. CASE Exit(q)
    <3>1. beaten' = beaten \ {q} /\ UNCHANGED <<status, left>>
      BY <2>3 DEF Exit
    <3> HIDE DEF Good
    <3> QED
      BY <1>d, <3>1
  <2> HIDE DEF Good
  <2> QED
    BY <1>5, <1>d, <2>1, <2>2, <2>3 DEF Process, BeginStop, DrainActive, ReleaseRefused
<1>6. ASSUME NEW u \in Tokens, Execute(u) \/ WriteRefused(u) PROVE Good
  <2>1. CASE Begin(u)
    <3>1. status' = [status EXCEPT ![task[u].run] = "running"] /\ UNCHANGED <<left, beaten>>
      BY <2>1 DEF Begin
    <3>2. status'[r] \in Open
      BY <1>a, <1>e, <3>1 DEF Open
    <3>3. Margin(p)' = Margin(p)
      BY <3>1 DEF Margin
    <3> QED
      BY <1>a, <3>1, <3>2, <3>3
  <2>2. CASE Finish(u) \/ FinishUnheard(u)
    <3>1. FinishRow(u) /\ Ends(u) /\ beaten' = beaten
      BY <2>2 DEF Finish, FinishUnheard, Abandon
    <3>2. /\ owner[task[u].run] = task[u].proc /\ task[u].phase = "closing"
          /\ status' = [status EXCEPT ![task[u].run] = task[u].result]
          /\ left' = [left EXCEPT ![task[u].run] = -1]
      BY <3>1 DEF FinishRow, Writes, Held, Owns
    <3>3. task[u].run # r
      <4> SUFFICES ASSUME task[u].run = r PROVE FALSE
        OBVIOUS
      <4>1. Exists(u)
        BY <3>2, TaskIs DEF Writing
      <4>2. u = t
        BY <1>b, <3>2, <4>1 DEF Stepping, MemoryInv, Unique
      <4> QED
        BY <1>e, <3>1, <4>2 DEF Ends, Exists
    <3>4. status'[r] = status[r] /\ left'[r] = left[r]
      BY <1>e, <3>2, <3>3
    <3> HIDE DEF Good
    <3> QED
      BY <1>d, <3>1, <3>4
  <2> HIDE DEF Good
  <2> QED
    BY <1>6, <1>d, <2>1, <2>2 DEF Execute, OpStart, SkipAll, Notice, OpEnd, Drain, ClaimLost,
                                  AbortTakes, WriteRefused
<1>7. ASSUME UNCHANGED vars PROVE Good
  <2>1. status'[r] = status[r] /\ left'[r] = left[r] /\ beaten' = beaten
    BY <1>7
  <2> HIDE DEF Good
  <2> QED
    BY <1>d, <2>1
<1> HIDE DEF Good
<1>8. Good
  BY <1>1, <1>2, <1>3, <1>4, <1>5, <1>6, <1>7 DEF Stepping, Next
<1> QED
  BY <1>8 DEF Good

(* The lease loop never finds anything lost.                               *)
LEMMA StepLosesNone == OnTime /\ Stepping /\ LeaseInv => \A p \in Procs : lost'[p] = {}
<1> SUFFICES ASSUME OnTime, Stepping, LeaseInv, NEW q \in Procs PROVE lost'[q] = {}
  OBVIOUS
<1> USE DEF Stepping
<1>a. lost[q] = {} /\ lost \in [Procs -> SUBSET Runs]
  BY DEF LeaseInv, IInv, TypeOK
<1>1. CASE Outside \/ Tick \/ UNCHANGED vars
  BY <1>1, <1>a DEF Outside, Submit, SetPriority, CancelQueued, CancelSignal, Tick
<1>2. ASSUME NEW p \in Procs, Dispatch(p) PROVE lost'[q] = {}
  BY <1>2, <1>a DEF Dispatch, PassBegin, PassEnd, Start, ClaimNext, ClaimUnheard
<1>3. ASSUME NEW p \in Procs, Heartbeat(p) PROVE lost'[q] = {}
  <2>1. PICK renewed \in BOOLEAN : Beat(p, renewed)
    BY <1>3 DEF Heartbeat, BeatEnd, LeaseInv
  <2>2. renewed = TRUE
    BY <2>1 DEF Beat, OnTime
  <2>3. lost' = [lost EXCEPT ![p] = Losses(p, Renewed(p))]
    BY <2>1, <2>2 DEF Beat
  <2>4. Losses(p, Renewed(p)) = {}
    BY RenewalKeeps
  <2> QED
    BY <1>a, <2>3, <2>4
<1>4. ASSUME NEW p \in Procs, Process(p) PROVE lost'[q] = {}
  BY <1>4, <1>a DEF Process, Boot, BootEnd, BeginStop, DrainActive, ReleaseClaims, ReleaseRefused, Exit
<1>5. ASSUME NEW t \in Tokens, Execute(t) \/ WriteRefused(t) PROVE lost'[q] = {}
  BY <1>5, <1>a DEF Execute, Begin, OpStart, SkipAll, Notice, OpEnd, Drain, Finish, FinishUnheard,
                    ClaimLost, AbortTakes, WriteRefused
<1> QED
  BY <1>1, <1>2, <1>3, <1>4, <1>5 DEF Next

(* A task is safe as it is claimed, and every step keeps it so.            *)
LEMMA StepLease == OnTime /\ Stepping /\ LeaseInv => LeaseInv'
<1> SUFFICES ASSUME OnTime, Stepping, LeaseInv PROVE LeaseInv'
  OBVIOUS
<1>1. ASSUME NEW t \in Tokens, Exists(t)',
             mode'[task'[t].proc] \in {"up", "stopping"}, NEW o \in Procs
      PROVE  /\ status'[task'[t].run] \in Open
             /\ left'[task'[t].run] >= Skew[o] + IF task'[t].proc \in beaten' THEN 1 ELSE 0
  <2>1. CASE Remains(t)
    <3> DEFINE p == task[t].proc
               r == task[t].run
    <3>1. Exists(t) /\ task'[t].proc = p /\ task'[t].run = r /\ p \in Procs /\ r \in Runs
      BY <2>1, TaskIs DEF Remains
    <3>2. mode[p] \in {"up", "stopping"}
      <4>1. ModeMoves(p)
        BY <3>1, StepModes DEF Stepping
      <4>2. mode[p] # "off"
        BY <3>1 DEF Stepping, MemoryInv, TasksLive, Live
      <4> QED
        BY <1>1, <3>1, <4>1, <4>2 DEF ModeMoves
    <3>3. ASSUME NEW q \in Procs, task[t].proc = q, mode[q] \in {"up", "stopping"}
          PROVE  status'[r] \in Open /\ left'[r] >= Skew[o] + IF q \in beaten' THEN 1 ELSE 0
      BY <1>1, <3>1, <3>3, LeaseStep DEF Margin
    <3> QED
      BY <3>1, <3>2, <3>3
  <2>2. CASE Born(t)
    <3>1. PICK p \in Procs, r \in Runs : ClaimNext(p, r, t)
      BY <2>2 DEF Born
    <3>2. task'[t].proc = p /\ task'[t].run = r
      BY <3>1, Birth
    <3>3. /\ status[r] = "queued" /\ UNCHANGED status
          /\ left' = [left EXCEPT ![r] = Skew[p] + Lease]
      BY <3>1 DEF ClaimNext, ClaimRow, Head, Eligible, Waiting
    <3>4. left'[r] = Skew[p] + Lease
      BY <3>3 DEF Stepping, IInv, TypeOK
    <3>5. Skew[o] < Skew[p] + Lease /\ Skew[o] \in Nat /\ Skew[p] \in Nat /\ Lease \in Nat
      BY Numbers DEF OnTime
    <3> DEFINE m == IF p \in beaten' THEN 1 ELSE 0
    <3>6. m \in {0, 1}
      OBVIOUS
    <3> HIDE DEF m
    <3>7. left'[r] >= Skew[o] + m
      BY <3>4, <3>5, <3>6
    <3> QED
      BY <3>2, <3>3, <3>7 DEF Open, m
  <2> QED
    BY <1>1, <2>1, <2>2, TaskBefore
<1>2. ASSUME NEW t \in Tokens, Exists(t)' PROVE Safe(t)'
  <2>1. task'[t].proc \in Procs
    BY <1>2, TaskIs
  <2> QED
    BY <1>1, <1>2, <2>1 DEF Safe, Margin
<1> QED
  BY <1>2, StepLosesNone DEF LeaseInv

(* What a serving process executes is unfinished, and unlapsed by every    *)
(* clock there is.                                                         *)
NobodysToTake == \A t \in Tokens :
    Exists(t) /\ mode[task[t].proc] \in {"up", "stopping"} =>
        /\ Owns(task[t].proc, task[t].run) /\ Active(task[t].run)
        /\ \A q \in Procs : ~Lapsed(q, task[t].run)

(* With a heartbeat that is on time and renewals that are taken, a lease   *)
(* longer than any two clocks are apart never lapses under its run, by     *)
(* anybody's clock: no reclaim and no boot sweep of another process takes  *)
(* back a run that is being executed.                                      *)
THEOREM NobodyTakesWhatRuns == ASSUME OnTime PROVE Spec => []NobodysToTake
<1>1. IInv /\ IInv' /\ MemoryInv /\ LeaseInv /\ [Next]_vars => LeaseInv'
  BY StepLease DEF Stepping, OnTime
<1>2. Init => LeaseInv
  BY DEF Init, LeaseInv, Exists
<1>3. IInv /\ MemoryInv /\ LeaseInv => NobodysToTake
  <2> SUFFICES ASSUME IInv, MemoryInv, LeaseInv, NEW t \in Tokens, Exists(t),
                      mode[task[t].proc] \in {"up", "stopping"}
               PROVE  /\ owner[task[t].run] = task[t].proc /\ status[task[t].run] \in Open
                      /\ \A q \in Procs : ~(left[task[t].run] < Skew[q])
    BY DEF NobodysToTake, Owns, Active, Lapsed, Open
  <2> DEFINE p == task[t].proc
             r == task[t].run
  <2>1. p \in Procs /\ r \in Runs
    BY TaskTypes DEF IInv, TypeOK, Exists
  <2>2. owner[r] = p
    BY DEF MemoryInv, TasksLive, Serving
  <2>3. status[r] \in Open /\ \A q \in Procs : left[r] >= Skew[q] + Margin(p)
    BY DEF LeaseInv, Safe
  <2>4. left[r] \in Int /\ \A q \in Procs : Skew[q] \in Nat
    BY <2>1, RunQueueAssumption DEF IInv, TypeOK
  <2>5. Margin(p) \in {0, 1}
    BY DEF Margin
  <2>6. \A q \in Procs : ~(left[r] < Skew[q])
    BY <2>3, <2>4, <2>5
  <2> QED
    BY <2>2, <2>3, <2>6
<1>4. Spec => []MemoryInv
  BY MemoryAgrees DEF OnTime
<1> QED
  BY <1>1, <1>2, <1>3, <1>4, InvariantHolds, PTL DEF Spec

(* In particular not by the clock of the process that holds it, which is   *)
(* the one that would make its own writes fail.                            *)
THEOREM LeasesAreKept == ASSUME OnTime PROVE Spec => []LeaseKeptWhileExecuting
<1>1. IInv /\ NobodysToTake => LeaseKeptWhileExecuting
  <2> SUFFICES ASSUME IInv, NobodysToTake, NEW t \in Tokens, InWrite(t), mode[task[t].proc] = "up"
               PROVE  ~Lapsed(task[t].proc, task[t].run)
    BY DEF LeaseKeptWhileExecuting
  <2>1. Exists(t) /\ task[t].proc \in Procs
    BY LiveTask, TaskTypes DEF InWrite, Exists, IInv, Phases
  <2> QED
    BY <2>1 DEF NobodysToTake
<1> QED
  BY <1>1, InvariantHolds, NobodyTakesWhatRuns, PTL
=============================================================================
