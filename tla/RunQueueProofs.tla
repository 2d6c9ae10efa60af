--------------------------- MODULE RunQueueProofs ---------------------------
(***************************************************************************)
(* What holds of RunQueue for any number of processes, runs and tokens,    *)
(* any limits, any clocks, either reclaim policy and any faults.           *)
(***************************************************************************)
EXTENDS RunQueue, FiniteSetTheorems, TLAPS

(* The tuples of variables, to be expanded wherever a step is.             *)
USE DEF rowVars, procVars, taskVars, histVars, vars

-----------------------------------------------------------------------------
(* Type correctness. *)

(* NULL is no process, no run and no acquisition.                          *)
LEMMA NotNull == NoProc \notin Procs /\ NoRun \notin Runs /\ NoToken \notin Tokens
BY RunQueueAssumption

(* What the fields of a task are.                                          *)
LEMMA TaskTypes ==
    /\ \A p \in Procs, r \in Runs : NewTask(p, r) \in Tasks
    /\ NoTask.phase = "ended" /\ NoTask.proc = NoProc /\ NoTask.run = NoRun
    /\ \A k \in Tasks : /\ k.proc \in Procs /\ k.run \in Runs
                        /\ k.phase \in Phases /\ k.result \in {"none"} \cup Terminal
    /\ \A k \in Tasks, ph \in Phases, res \in {"none"} \cup Terminal :
         [k EXCEPT !.phase = ph, !.result = res] \in Tasks
BY DEF Tasks, NoTask, NewTask, Phases, Terminal

(* A token whose phase is one of an execution is the token of a task.      *)
LEMMA LiveTask ==
    ASSUME TypeOK, NEW t \in Tokens, task[t].phase \in Phases
    PROVE  task[t] \in Tasks /\ task[t].proc \in Procs /\ task[t].run \in Runs
BY TaskTypes DEF TypeOK, Phases

(* Dropping an entry keeps the process's memory what it is.                *)
LEMMA DropsEntry ==
    ASSUME TypeOK, NEW p \in Procs, NEW r \in Runs,
           active' = [active EXCEPT ![p][r] = NoToken]
    PROVE  active' \in [Procs -> [Runs -> Tokens \cup {NoToken}]]
<1> DEFINE f == [active[p] EXCEPT ![r] = NoToken]
<1>1. active \in [Procs -> [Runs -> Tokens \cup {NoToken}]]
  BY DEF TypeOK
<1>2. f \in [Runs -> Tokens \cup {NoToken}]
  BY <1>1
<1>3. active' = [active EXCEPT ![p] = f]
  OBVIOUS
<1> HIDE DEF f
<1> QED
  BY <1>1, <1>2, <1>3

(* Runner::abandon keeps the process's memory what it is.                  *)
LEMMA GivesUp ==
    ASSUME TypeOK, NEW t \in Tokens, task[t].proc \in Procs, task[t].run \in Runs, Abandon(t)
    PROVE  /\ task' \in [Tokens -> Tasks \cup {NoTask}]
           /\ active' \in [Procs -> [Runs -> Tokens \cup {NoToken}]]
           /\ abandoned' \in [Procs -> SUBSET Runs]
           /\ signalled' \subseteq Tokens /\ aborted' \subseteq Tokens
<1>1. active' \in [Procs -> [Runs -> Tokens \cup {NoToken}]]
  BY DropsEntry DEF Abandon
<1>2. abandoned' \in [Procs -> SUBSET Runs]
  BY DEF Abandon, TypeOK
<1>3. task' \in [Tokens -> Tasks \cup {NoTask}] /\ signalled' \subseteq Tokens /\ aborted' \subseteq Tokens
  BY DEF Abandon, Ends, TypeOK
<1> QED
  BY <1>1, <1>2, <1>3

(* The empty store and the processes not yet booted are well typed.        *)
LEMMA InitTypeOK == Init => TypeOK
BY RunQueueAssumption DEF Init, TypeOK, Statuses, OpStatuses, Modes, NoTask

(* Every step keeps the types; Finish writes a status because it knows one. *)
LEMMA StepTypeOK == TypeOK /\ ClaimsAgree /\ [Next]_vars => TypeOK'
<1> SUFFICES ASSUME TypeOK, ClaimsAgree, [Next]_vars PROVE TypeOK'
  OBVIOUS
<1>1. CASE Outside
  <2>1. ASSUME NEW r \in Runs, NEW n \in Priorities, Submit(r, n) \/ SetPriority(r, n)
        PROVE  TypeOK'
    <3>1. n \in Int
      BY RunQueueAssumption
    <3> QED
      BY <2>1, <3>1 DEF Submit, SetPriority, TypeOK, Statuses
  <2>2. ASSUME NEW r \in Runs, NEW p \in Procs, CancelQueued(p, r) PROVE TypeOK'
    <3>1. status' \in [Runs -> Statuses] /\ op' \in [Runs -> OpStatuses]
      BY <2>2 DEF CancelQueued, TypeOK, Statuses, OpStatuses, Terminal
    <3>2. active' \in [Procs -> [Runs -> Tokens \cup {NoToken}]] /\ asked' \subseteq Runs
      BY <2>2, DropsEntry DEF CancelQueued, TypeOK
    <3> QED
      BY <2>2, <3>1, <3>2 DEF CancelQueued, TypeOK
  <2>3. ASSUME NEW r \in Runs, NEW p \in Procs, CancelSignal(p, r) PROVE TypeOK'
    BY <2>3 DEF CancelSignal, TypeOK
  <2> QED
    BY <1>1, <2>1, <2>2, <2>3 DEF Outside
<1>2. CASE Tick
  BY <1>2 DEF Tick, TypeOK
<1>3. ASSUME NEW p \in Procs, Dispatch(p) PROVE TypeOK'
  <2>1. CASE PassBegin(p) \/ PassEnd(p)
    BY <2>1 DEF PassBegin, PassEnd, TypeOK
  <2>2. ASSUME NEW t \in Tokens, Start(p, t) PROVE TypeOK'
    <3>1. task[t] \in Tasks
      BY <2>2, LiveTask DEF Start, Phases
    <3>2. [task[t] EXCEPT !.phase = "new"] \in Tasks
      BY <3>1 DEF Tasks, Phases
    <3> QED
      BY <2>2, <3>1, <3>2, TaskTypes DEF Start, TypeOK
  <2>3. ASSUME NEW t \in Tokens, NEW r \in Runs, ClaimNext(p, r, t) \/ ClaimUnheard(p, r, t)
        PROVE TypeOK'
    <3>0. Skew[p] + Lease \in Int
      BY RunQueueAssumption
    <3>1. /\ owner' \in [Runs -> Procs \cup {NoProc}]
          /\ claim' \in [Runs -> Tokens \cup {NoToken}]
          /\ left' \in [Runs -> Int]
      <4>1. ClaimRow(p, r, t)
        BY <2>3 DEF ClaimNext, ClaimUnheard
      <4> QED
        BY <3>0, <4>1 DEF ClaimRow, TypeOK
    <3>2. task' \in [Tokens -> Tasks \cup {NoTask}]
      <4>1. NewTask(p, r) \in Tasks
        BY TaskTypes
      <4>2. task' \in {task, [task EXCEPT ![t] = NewTask(p, r)]}
        BY <2>3 DEF ClaimNext, ClaimUnheard
      <4> QED
        BY <4>1, <4>2 DEF TypeOK
    <3>3. disp' \in [Procs -> {"idle", "pass", "starting"}]
      BY <2>3 DEF ClaimNext, ClaimUnheard, TypeOK
    <3> QED
      BY <2>3, <3>1, <3>2, <3>3 DEF ClaimNext, ClaimUnheard, ClaimRow, TypeOK
  <2> QED
    BY <1>3, <2>1, <2>2, <2>3 DEF Dispatch
<1>4. ASSUME NEW p \in Procs, Heartbeat(p) PROVE TypeOK'
  <2>1. ASSUME NEW S, NEW lease \in [Runs -> Int], Reclaim(S, lease)
        PROVE /\ op' \in [Runs -> OpStatuses] /\ status' \in [Runs -> Statuses]
              /\ left' \in [Runs -> Int] /\ owner' \in [Runs -> Procs \cup {NoProc}]
              /\ claim' \in [Runs -> Tokens \cup {NoToken}]
              /\ starter' \in [Runs -> Tokens \cup {NoToken}]
    BY <2>1 DEF Reclaim, Unclaims, Interrupted, TypeOK, OpStatuses, Statuses, Terminal
  <2>2. ASSUME NEW renewed \in BOOLEAN, Beat(p, renewed) PROVE TypeOK'
    <3> DEFINE lease == IF renewed THEN Renewed(p) ELSE left
    <3>1. lease \in [Runs -> Int]
      BY RunQueueAssumption DEF Renewed, TypeOK
    <3>2. Losses(p, lease) \subseteq Runs
      BY DEF Losses, Entries
    <3>3. CASE Losses(p, lease) = {}
      <4>1. Reclaim(Lapses(p, lease), lease) /\ beaten' \in {beaten, beaten \cup {p}}
        BY <2>2, <3>3 DEF Beat
      <4> HIDE DEF lease
      <4>2. /\ op' \in [Runs -> OpStatuses] /\ status' \in [Runs -> Statuses]
            /\ left' \in [Runs -> Int] /\ owner' \in [Runs -> Procs \cup {NoProc}]
            /\ claim' \in [Runs -> Tokens \cup {NoToken}]
            /\ starter' \in [Runs -> Tokens \cup {NoToken}]
        BY <2>1, <3>1, <4>1
      <4> QED
        BY <2>2, <4>1, <4>2, <3>2 DEF Beat, TypeOK, lease
    <3>4. CASE Losses(p, lease) # {}
      BY <2>2, <3>1, <3>2, <3>4 DEF Beat, TypeOK
    <3> QED
      BY <3>3, <3>4
  <2>3. CASE BeatEnd(p)
    <3>1. /\ op' \in [Runs -> OpStatuses] /\ status' \in [Runs -> Statuses]
          /\ left' \in [Runs -> Int] /\ owner' \in [Runs -> Procs \cup {NoProc}]
          /\ claim' \in [Runs -> Tokens \cup {NoToken}]
          /\ starter' \in [Runs -> Tokens \cup {NoToken}]
      BY <2>1, <2>3 DEF BeatEnd, TypeOK
    <3>2. {active[p][r] : r \in lost[p] \cap Entries(p)} \subseteq Tokens
      BY DEF TypeOK, Entries
    <3> QED
      BY <2>3, <3>1, <3>2 DEF BeatEnd, TypeOK
  <2> QED
    BY <1>4, <2>2, <2>3 DEF Heartbeat
<1>5. ASSUME NEW p \in Procs, Process(p) PROVE TypeOK'
  <2>1. CASE Boot(p) \/ BootEnd(p)
    <3>1. Expired(p) \subseteq Runs
      BY DEF Expired, Lapses
    <3>2. op' \in [Runs -> OpStatuses]
      BY <2>1 DEF Boot, BootEnd, Interrupted, TypeOK, OpStatuses
    <3>3. status' \in [Runs -> Statuses] /\ left' \in [Runs -> Int]
      BY <2>1 DEF Boot, BootEnd, TypeOK, Statuses, Terminal
    <3>4. mode' \in [Procs -> Modes] /\ doomed' \in [Procs -> SUBSET Runs]
      BY ZenonT(60), <2>1, <3>1 DEF Boot, BootEnd, TypeOK, Modes
    <3> QED
      BY <2>1, <3>2, <3>3, <3>4 DEF Boot, BootEnd, TypeOK
  <2>2. CASE BeginStop(p)
    BY <2>2 DEF BeginStop, TypeOK, Modes
  <2>3. CASE DrainActive(p)
    BY <2>3 DEF DrainActive, TypeOK, Modes, Entries
  <2>4. CASE ReleaseClaims(p)
    BY <2>4 DEF ReleaseClaims, Unclaims, TypeOK, Modes, Statuses, OpStatuses
  <2>5. CASE ReleaseRefused(p)
    BY <2>5 DEF ReleaseRefused, TypeOK, Modes
  <2>6. CASE Exit(p)
    BY <2>6 DEF Exit, TypeOK, Modes
  <2> QED
    BY <1>5, <2>1, <2>2, <2>3, <2>4, <2>5, <2>6 DEF Process
<1>6. ASSUME NEW t \in Tokens, Execute(t) \/ WriteRefused(t) PROVE TypeOK'
  <2>1. CASE task[t].phase \notin Phases
    BY <2>1, <1>6 DEF Execute, Begin, OpStart, SkipAll, Notice, OpEnd, Drain, Finish, FinishUnheard,
          FinishRow, ClaimLost, AbortTakes, WriteRefused, Writes, InWrite, Phases, Ends, TypeOK
  <2>2. CASE task[t].phase \in Phases
    <3>1. task[t] \in Tasks /\ task[t].proc \in Procs /\ task[t].run \in Runs
      BY <2>2, LiveTask
    <3>2. \A ph \in Phases, res \in {"none"} \cup Terminal :
            Goes(t, ph, res) => task' \in [Tokens -> Tasks \cup {NoTask}]
      <4> SUFFICES ASSUME NEW ph \in Phases, NEW res \in {"none"} \cup Terminal, Goes(t, ph, res)
                   PROVE  task' \in [Tokens -> Tasks \cup {NoTask}]
        OBVIOUS
      <4> DEFINE k == [task[t] EXCEPT !.phase = ph, !.result = res]
      <4>1. k \in Tasks
        BY <3>1 DEF Tasks
      <4>2. task' = [task EXCEPT ![t] = k]
        BY DEF Goes
      <4> QED
        BY <4>1, <4>2 DEF TypeOK
    <3>3. CASE Begin(t) \/ OpStart(t) \/ SkipAll(t) \/ Notice(t)
      <4>1. task' \in [Tokens -> Tasks \cup {NoTask}]
        BY <3>2, <3>3 DEF Begin, OpStart, SkipAll, Notice, Phases, Terminal
      <4>2. status' \in [Runs -> Statuses] /\ op' \in [Runs -> OpStatuses]
        BY <3>3 DEF Begin, OpStart, SkipAll, Notice, Records, TypeOK, Statuses, OpStatuses
      <4>3. starter' \in [Runs -> Tokens \cup {NoToken}]
        BY <3>3 DEF Begin, OpStart, SkipAll, Notice, TypeOK
      <4> QED
        BY <3>3, <4>1, <4>2, <4>3 DEF Begin, OpStart, SkipAll, Notice, TypeOK
    <3>4. ASSUME NEW s, OpEnd(t, s) \/ Drain(t, s) PROVE TypeOK'
      <4>1. task' \in [Tokens -> Tasks \cup {NoTask}]
        BY <3>2, <3>4 DEF OpEnd, Drain, Phases, Terminal
      <4>2. op' \in [Runs -> OpStatuses]
        BY <3>4 DEF OpEnd, Drain, Records, TypeOK, OpStatuses
      <4> QED
        BY <3>4, <4>1, <4>2 DEF OpEnd, Drain, TypeOK
    <3>5. CASE Finish(t) \/ FinishUnheard(t)
      <4>1. task[t].result \in Terminal
        BY <3>5 DEF Finish, FinishUnheard, FinishRow, Writes, ClaimsAgree
      <4>2. status' \in [Runs -> Statuses] /\ left' \in [Runs -> Int]
        <5>1. FinishRow(t)
          BY <3>5 DEF Finish, FinishUnheard
        <5> QED
          BY <3>1, <4>1, <5>1 DEF FinishRow, TypeOK, Statuses
      <4>3. task' \in [Tokens -> Tasks \cup {NoTask}]
        BY <3>5 DEF Finish, FinishUnheard, Abandon, Ends, TypeOK
      <4>4. /\ active' \in [Procs -> [Runs -> Tokens \cup {NoToken}]]
            /\ abandoned' \in [Procs -> SUBSET Runs]
        <5>1. CASE Finish(t)
          BY <3>1, <5>1, DropsEntry DEF Finish, TypeOK
        <5>2. CASE FinishUnheard(t)
          BY <3>1, <5>2, GivesUp DEF FinishUnheard
        <5> QED
          BY <3>5, <5>1, <5>2
      <4>5. signalled' \subseteq Tokens /\ aborted' \subseteq Tokens
        BY <3>5 DEF Finish, FinishUnheard, Abandon, Ends, TypeOK
      <4> QED
        BY <3>5, <4>2, <4>3, <4>4, <4>5 DEF Finish, FinishUnheard, FinishRow, TypeOK
    <3>6. CASE ClaimLost(t) \/ WriteRefused(t) \/ AbortTakes(t)
      <4>1. CASE Abandon(t)
        BY <3>1, <3>6, <4>1, GivesUp DEF ClaimLost, WriteRefused, AbortTakes, TypeOK
      <4>2. CASE AbortTakes(t)
        BY <4>2 DEF AbortTakes, Ends, TypeOK
      <4> QED
        BY <3>6, <4>1, <4>2 DEF ClaimLost, WriteRefused
    <3> QED
      BY <1>6, <3>3, <3>4, <3>5, <3>6 DEF Execute
  <2> QED
    BY <2>1, <2>2
<1>7. CASE UNCHANGED vars
  BY <1>7 DEF TypeOK
<1> QED
  BY <1>1, <1>2, <1>3, <1>4, <1>5, <1>6, <1>7 DEF Next

-----------------------------------------------------------------------------
(* Rows, claims and tasks. *)

(* Taking claims back in one statement, in a reclaim or a release: of the  *)
(* runs of S, all of them claimed, the claim is cleared or the row ends.   *)
LEMMA TakingBack ==
    ASSUME TypeOK, ClaimsAgree, NEW S, NEW U,
           \A r \in S : Claimed(r),
           Unclaims(U), U \in SUBSET S,
           \A r \in Runs : r \notin S => status'[r] = status[r],
           \A r \in Runs : r \in S => status'[r] = IF r \in U THEN "queued" ELSE "failed",
           task' = task
    PROVE  ClaimsAgree'
<1>1. ASSUME NEW r \in Runs
      PROVE /\ owner'[r] = NoProc <=> claim'[r] = NoToken
            /\ status'[r] = "absent" => owner'[r] = NoProc
            /\ starter'[r] # NoToken => starter'[r] = claim'[r]
  BY <1>1 DEF ClaimsAgree, Unclaims, TypeOK, Claimed
<1>2. ASSUME NEW t \in Tokens
      PROVE /\ task[t].phase = "closing" => task[t].result \in Terminal
            /\ (task[t].phase \in {"open", "op", "draining", "closing"} /\ claim'[task[t].run] = t)
                  => status'[task[t].run] # "queued" /\ starter'[task[t].run] = t
  <2>1. task[t].phase = "closing" => task[t].result \in Terminal
    BY DEF ClaimsAgree
  <2>2. ASSUME task[t].phase \in {"open", "op", "draining", "closing"}, claim'[task[t].run] = t
        PROVE  status'[task[t].run] # "queued" /\ starter'[task[t].run] = t
    <3>1. task[t].run \in Runs
      BY <2>2, LiveTask DEF Phases
    <3>2. task[t].run \notin U
      BY <2>2, <3>1, RunQueueAssumption DEF Unclaims
    <3>3. /\ claim[task[t].run] = t
          /\ starter'[task[t].run] = starter[task[t].run]
      BY <2>2, <3>1, <3>2 DEF Unclaims
    <3> QED
      BY <2>2, <3>1, <3>2, <3>3 DEF ClaimsAgree
  <2> QED
    BY <2>1, <2>2
<1> QED
  BY <1>1, <1>2 DEF ClaimsAgree

(* No run goes onto the queue unless nobody claims it; tasks only end.      *)
OffTheQueue == \A r \in Runs :
    \/ status'[r] = status[r]
    \/ status'[r] \notin {"absent", "queued"}
    \/ status'[r] = "queued" /\ ~Claimed(r)

OnlyDrops == \A t \in Tokens : task'[t] \in {task[t], NoTask}

(* A step that leaves the claims and the starters alone, keeps every run   *)
(* that is off the queue off it, and only drops tasks.                     *)
LEMMA LeftAlone ==
    ASSUME TypeOK, ClaimsAgree, owner' = owner, claim' = claim, starter' = starter,
           OffTheQueue, OnlyDrops
    PROVE  ClaimsAgree'
<1>1. ASSUME NEW r \in Runs
      PROVE /\ owner'[r] = NoProc <=> claim'[r] = NoToken
            /\ status'[r] = "absent" => owner'[r] = NoProc
            /\ starter'[r] # NoToken => starter'[r] = claim'[r]
  BY <1>1 DEF ClaimsAgree, OffTheQueue, Claimed
<1>2. ASSUME NEW t \in Tokens
      PROVE /\ task'[t].phase = "closing" => task'[t].result \in Terminal
            /\ (task'[t].phase \in {"open", "op", "draining", "closing"} /\ claim'[task'[t].run] = t)
                  => status'[task'[t].run] # "queued" /\ starter'[task'[t].run] = t
  <2>1. CASE task'[t] = NoTask
    BY <2>1, TaskTypes
  <2>2. CASE task'[t] = task[t]
    <3>1. ASSUME task[t].phase \in {"open", "op", "draining", "closing"}, claim[task[t].run] = t
          PROVE  status'[task[t].run] # "queued" /\ starter[task[t].run] = t
      <4>1. task[t].run \in Runs
        BY <3>1, LiveTask DEF Phases
      <4>2. Claimed(task[t].run)
        <5>1. claim[task[t].run] # NoToken
          BY <3>1, NotNull
        <5> QED
          BY <4>1, <5>1 DEF ClaimsAgree, Claimed
      <4> QED
        BY <3>1, <4>1, <4>2 DEF ClaimsAgree, OffTheQueue
    <3> QED
      BY <2>2, <3>1 DEF ClaimsAgree
  <2> QED
    BY <2>1, <2>2 DEF OnlyDrops
<1> QED
  BY <1>1, <1>2 DEF ClaimsAgree

(* A step of something else. *)
LEMMA Elsewhere ==
    ASSUME ClaimsAgree,
           status' = status, owner' = owner, claim' = claim, starter' = starter, task' = task
    PROVE  ClaimsAgree'
BY DEF ClaimsAgree

(* Nothing is claimed and no task exists.                                  *)
LEMMA InitClaimsAgree == Init => ClaimsAgree
<1>1. ASSUME Init, NEW r \in Runs
      PROVE /\ owner[r] = NoProc /\ claim[r] = NoToken /\ starter[r] = NoToken
  BY <1>1 DEF Init
<1>2. ASSUME Init, NEW t \in Tokens PROVE task[t].phase = "ended"
  BY <1>2, TaskTypes DEF Init
<1> QED
  BY <1>1, <1>2 DEF ClaimsAgree

(* The write of one step of an execution that goes on: it leaves claims    *)
(* alone, and a task on its way to the end keeps its run started.          *)
LEMMA GoesOn ==
    ASSUME TypeOK, ClaimsAgree,
           status' = status, owner' = owner, claim' = claim, starter' = starter,
           NEW t \in Tokens, NEW ph \in Phases, NEW res \in {"none"} \cup Terminal,
           task[t].phase \in {"open", "op", "draining"},
           ph = "closing" => res \in Terminal,
           Goes(t, ph, res)
    PROVE  ClaimsAgree'
<1>1. task[t] \in Tasks
  BY LiveTask DEF Phases
<1>2. /\ task'[t].phase = ph /\ task'[t].result = res /\ task'[t].run = task[t].run
      /\ \A u \in Tokens \ {t} : task'[u] = task[u]
  BY <1>1 DEF Goes, TypeOK, Tasks
<1>3. ASSUME NEW u \in Tokens
      PROVE /\ task'[u].phase = "closing" => task'[u].result \in Terminal
            /\ (task'[u].phase \in {"open", "op", "draining", "closing"} /\ claim'[task'[u].run] = u)
                  => status'[task'[u].run] # "queued" /\ starter'[task'[u].run] = u
  <2>1. CASE u = t
    BY <1>2, <2>1 DEF ClaimsAgree
  <2>2. CASE u # t
    BY <1>2, <2>2 DEF ClaimsAgree
  <2> QED
    BY <2>1, <2>2
<1> QED
  BY <1>3 DEF ClaimsAgree

(* Every step keeps rows, claims and tasks in agreement.                   *)
LEMMA StepClaimsAgree == TypeOK /\ ClaimsAgree /\ [Next]_vars => ClaimsAgree'
<1> SUFFICES ASSUME TypeOK, ClaimsAgree, [Next]_vars PROVE ClaimsAgree'
  OBVIOUS
<1>1. CASE Outside
  <2>1. ASSUME NEW r \in Runs, NEW n \in Priorities, Submit(r, n) \/ SetPriority(r, n)
        PROVE  ClaimsAgree'
    <3>1. UNCHANGED <<owner, claim, starter, task>>
      BY <2>1 DEF Submit, SetPriority
    <3>2. OffTheQueue
      BY <2>1 DEF Submit, SetPriority, TypeOK, ClaimsAgree, Claimed, OffTheQueue
    <3>3. OnlyDrops
      BY <3>1 DEF OnlyDrops
    <3> QED
      BY <3>1, <3>2, <3>3, LeftAlone
  <2>2. ASSUME NEW r \in Runs, NEW p \in Procs, CancelQueued(p, r) PROVE ClaimsAgree'
    <3>1. UNCHANGED <<owner, claim, starter, task>>
      BY <2>2 DEF CancelQueued
    <3>2. OffTheQueue
      BY <2>2 DEF CancelQueued, TypeOK, OffTheQueue
    <3>3. OnlyDrops
      BY <3>1 DEF OnlyDrops
    <3> QED
      BY <3>1, <3>2, <3>3, LeftAlone
  <2>3. ASSUME NEW r \in Runs, NEW p \in Procs, CancelSignal(p, r) PROVE ClaimsAgree'
    BY <2>3, Elsewhere DEF CancelSignal
  <2> QED
    BY <1>1, <2>1, <2>2, <2>3 DEF Outside
<1>2. CASE Tick
  BY <1>2, Elsewhere DEF Tick
<1>3. ASSUME NEW p \in Procs, Dispatch(p) PROVE ClaimsAgree'
  <2>1. CASE PassBegin(p) \/ PassEnd(p)
    BY <2>1, Elsewhere DEF PassBegin, PassEnd
  <2>2. ASSUME NEW t \in Tokens, Start(p, t) PROVE ClaimsAgree'
    <3>1. task' = [task EXCEPT ![t] = [@ EXCEPT !.phase = "new"]]
      BY <2>2 DEF Start
    <3>2. task[t] \in Tasks
      BY <2>2, LiveTask DEF Start, Phases
    <3>3. /\ task'[t].phase = "new"
          /\ \A u \in Tokens \ {t} : task'[u] = task[u]
      BY <3>1, <3>2 DEF TypeOK, Tasks
    <3>4. UNCHANGED <<status, owner, claim, starter>>
      BY <2>2 DEF Start
    <3>5. ASSUME NEW u \in Tokens
          PROVE /\ task'[u].phase = "closing" => task'[u].result \in Terminal
                /\ (task'[u].phase \in {"open", "op", "draining", "closing"} /\ claim'[task'[u].run] = u)
                      => status'[task'[u].run] # "queued" /\ starter'[task'[u].run] = u
      BY <3>3, <3>4 DEF ClaimsAgree
    <3> QED
      BY <3>4, <3>5 DEF ClaimsAgree
  <2>3. ASSUME NEW t \in Tokens, NEW r \in Runs, ClaimNext(p, r, t) \/ ClaimUnheard(p, r, t)
        PROVE  ClaimsAgree'
    <3>1. ClaimRow(p, r, t) /\ UNCHANGED starter
      BY <2>3 DEF ClaimNext, ClaimUnheard
    <3>2. status[r] = "queued" /\ owner[r] = NoProc
      BY <3>1 DEF ClaimRow, Head, Eligible, Waiting, Claimed
    <3>3. claim[r] = NoToken /\ starter[r] = NoToken
      BY <3>2 DEF ClaimsAgree
    <3>4. /\ owner'[r] = p /\ claim'[r] = t /\ UNCHANGED status
          /\ \A s \in Runs \ {r} : owner'[s] = owner[s] /\ claim'[s] = claim[s]
      BY <3>1 DEF ClaimRow, TypeOK
    <3>5. ASSUME NEW s \in Runs
          PROVE /\ owner'[s] = NoProc <=> claim'[s] = NoToken
                /\ status'[s] = "absent" => owner'[s] = NoProc
                /\ starter'[s] # NoToken => starter'[s] = claim'[s]
      BY <3>1, <3>2, <3>3, <3>4, NotNull DEF ClaimsAgree
    <3>6. /\ task'[t].phase \in {"ended", "picked"}
          /\ \A u \in Tokens \ {t} : task'[u] = task[u]
      <4>1. FreeToken(t) /\ (task' = task \/ task' = [task EXCEPT ![t] = NewTask(p, r)])
        BY <2>3 DEF ClaimNext, ClaimUnheard, ClaimRow
      <4>2. task[t].phase = "ended"
        BY <4>1, TaskTypes DEF FreeToken
      <4>3. NewTask(p, r).phase = "picked"
        BY DEF NewTask
      <4> QED
        BY <4>1, <4>2, <4>3 DEF TypeOK
    <3>7. ASSUME NEW u \in Tokens
          PROVE /\ task'[u].phase = "closing" => task'[u].result \in Terminal
                /\ (task'[u].phase \in {"open", "op", "draining", "closing"} /\ claim'[task'[u].run] = u)
                      => status'[task'[u].run] # "queued" /\ starter'[task'[u].run] = u
      <4>1. CASE u = t
        BY <3>6, <4>1
      <4>2. ASSUME u # t, task[u].phase \in {"open", "op", "draining", "closing"}, claim'[task[u].run] = u
            PROVE  status'[task[u].run] # "queued" /\ starter'[task[u].run] = u
        <5>1. task[u].run \in Runs
          BY <4>2, LiveTask DEF Phases
        <5>2. claim[task[u].run] = u
          BY <3>4, <4>2, <5>1
        <5> QED
          BY <3>1, <3>4, <4>2, <5>2 DEF ClaimsAgree
      <4> QED
        BY <3>6, <4>1, <4>2 DEF ClaimsAgree
    <3> QED
      BY <3>5, <3>7 DEF ClaimsAgree
  <2> QED
    BY <1>3, <2>1, <2>2, <2>3 DEF Dispatch
<1>4. ASSUME NEW p \in Procs, Heartbeat(p) PROVE ClaimsAgree'
  <2>1. ASSUME NEW S, NEW lease, Reclaim(S, lease), S \subseteq Runs,
               \A r \in S : Claimed(r), UNCHANGED task
        PROVE  ClaimsAgree'
    <3> DEFINE U == IF Policy = "Requeue" THEN S ELSE {}
    <3>1. Unclaims(U) /\ U \in SUBSET S
      BY <2>1 DEF Reclaim
    <3>2. /\ \A r \in Runs : r \notin S => status'[r] = status[r]
          /\ \A r \in Runs : r \in S => status'[r] = IF r \in U THEN "queued" ELSE "failed"
      BY <2>1, RunQueueAssumption DEF Reclaim
    <3> HIDE DEF U
    <3> QED
      BY <2>1, <3>1, <3>2, TakingBack
  <2>2. ASSUME NEW renewed \in BOOLEAN, Beat(p, renewed) PROVE ClaimsAgree'
    <3> DEFINE lease == IF renewed THEN Renewed(p) ELSE left
    <3>1. UNCHANGED task
      BY <2>2 DEF Beat
    <3>2. CASE Losses(p, lease) = {}
      <4>1. Reclaim(Lapses(p, lease), lease)
        BY <2>2, <3>2 DEF Beat
      <4> HIDE DEF lease
      <4> QED
        BY <2>1, <3>1, <4>1 DEF Lapses
    <3>3. CASE Losses(p, lease) # {}
      BY <2>2, <3>1, <3>3, Elsewhere DEF Beat
    <3> QED
      BY <3>2, <3>3
  <2>3. CASE BeatEnd(p)
    <3>1. Reclaim(Expired(p), left) /\ UNCHANGED task
      BY <2>3 DEF BeatEnd
    <3> QED
      BY <2>1, <3>1 DEF Expired, Lapses
  <2> QED
    BY <1>4, <2>2, <2>3 DEF Heartbeat
<1>5. ASSUME NEW p \in Procs, Process(p) PROVE ClaimsAgree'
  <2>1. CASE Boot(p) \/ BootEnd(p)
    <3>1. UNCHANGED <<owner, claim, starter, task>>
      BY <2>1 DEF Boot, BootEnd
    <3>2. OffTheQueue
      BY <2>1 DEF Boot, BootEnd, OffTheQueue
    <3>3. OnlyDrops
      BY <3>1 DEF OnlyDrops
    <3> QED
      BY <3>1, <3>2, <3>3, LeftAlone
  <2>2. CASE BeginStop(p) \/ DrainActive(p) \/ ReleaseRefused(p)
    BY <2>2, Elsewhere DEF BeginStop, DrainActive, ReleaseRefused
  <2>3. CASE ReleaseClaims(p)
    <3>1. Unclaims(Released(p)) /\ UNCHANGED task
      BY <2>3 DEF ReleaseClaims
    <3>2. \A r \in Released(p) : Claimed(r)
      BY NotNull DEF Released, Owns, Claimed
    <3>3. \A r \in Runs : status'[r] = IF r \in Released(p) THEN "queued" ELSE status[r]
      BY <2>3 DEF ReleaseClaims
    <3> QED
      BY <3>1, <3>2, <3>3, TakingBack
  <2>4. CASE Exit(p)
    <3>1. UNCHANGED <<status, owner, claim, starter>>
      BY <2>4 DEF Exit
    <3>2. OnlyDrops
      BY <2>4 DEF Exit, OnlyDrops
    <3>3. OffTheQueue
      BY <3>1 DEF OffTheQueue
    <3> QED
      BY <3>1, <3>2, <3>3, LeftAlone
  <2> QED
    BY <1>5, <2>1, <2>2, <2>3, <2>4 DEF Process
<1>6. ASSUME NEW t \in Tokens, Execute(t) \/ WriteRefused(t) PROVE ClaimsAgree'
  <2>1. CASE Begin(t)
    <3>1. task[t] \in Tasks /\ task[t].run \in Runs
      BY <2>1, LiveTask DEF Begin, Writes, Phases
    <3> DEFINE R == task[t].run
    <3>2. /\ claim[R] = t /\ status'[R] = "running" /\ starter'[R] = t
          /\ \A s \in Runs \ {R} : status'[s] = status[s] /\ starter'[s] = starter[s]
          /\ UNCHANGED <<owner, claim>>
      BY <2>1, <3>1 DEF Begin, Writes, Held, TypeOK
    <3>3. /\ task'[t].phase = "open" /\ task'[t].run = R
          /\ \A u \in Tokens \ {t} : task'[u] = task[u]
      BY <2>1, <3>1 DEF Begin, Goes, TypeOK, Tasks
    <3> HIDE DEF R
    <3>4. ASSUME NEW s \in Runs
          PROVE /\ owner'[s] = NoProc <=> claim'[s] = NoToken
                /\ status'[s] = "absent" => owner'[s] = NoProc
                /\ starter'[s] # NoToken => starter'[s] = claim'[s]
      BY <3>2 DEF ClaimsAgree
    <3>5. ASSUME NEW u \in Tokens
          PROVE /\ task'[u].phase = "closing" => task'[u].result \in Terminal
                /\ (task'[u].phase \in {"open", "op", "draining", "closing"} /\ claim'[task'[u].run] = u)
                      => status'[task'[u].run] # "queued" /\ starter'[task'[u].run] = u
      <4>1. CASE u = t
        BY <3>2, <3>3, <4>1
      <4>2. ASSUME u # t, task[u].phase \in {"open", "op", "draining", "closing"}, claim[task[u].run] = u
            PROVE  status'[task[u].run] # "queued" /\ starter'[task[u].run] = u
        <5>1. task[u].run \in Runs /\ task[u].run # R
          BY <3>2, <4>2, LiveTask DEF Phases
        <5> QED
          BY <3>2, <4>2, <5>1 DEF ClaimsAgree
      <4> QED
        BY <3>2, <3>3, <4>1, <4>2 DEF ClaimsAgree
    <3> QED
      BY <3>4, <3>5 DEF ClaimsAgree
  <2>2. CASE OpStart(t) \/ SkipAll(t) \/ Notice(t)
    BY <2>2, GoesOn DEF OpStart, SkipAll, Notice, Writes, Phases, Terminal
  <2>3. ASSUME NEW s, OpEnd(t, s) \/ Drain(t, s) PROVE ClaimsAgree'
    BY <2>3, GoesOn DEF OpEnd, Drain, Writes, Phases, Terminal
  <2>4. CASE Finish(t) \/ FinishUnheard(t)
    <3>1. FinishRow(t) /\ Ends(t) /\ UNCHANGED starter
      BY <2>4 DEF Finish, FinishUnheard, Abandon
    <3>2. UNCHANGED <<owner, claim>>
      BY <3>1 DEF FinishRow
    <3>3. task[t].result \in Terminal
      BY <3>1 DEF FinishRow, Writes, ClaimsAgree
    <3>4. OffTheQueue
      BY <3>1, <3>3 DEF FinishRow, TypeOK, Terminal, OffTheQueue
    <3>5. OnlyDrops
      BY <3>1 DEF Ends, TypeOK, OnlyDrops
    <3> QED
      BY <3>1, <3>2, <3>4, <3>5, LeftAlone
  <2>5. CASE ClaimLost(t) \/ WriteRefused(t) \/ AbortTakes(t)
    <3>1. Ends(t) /\ UNCHANGED <<status, owner, claim, starter>>
      BY <2>5 DEF ClaimLost, WriteRefused, AbortTakes, Abandon
    <3>2. OnlyDrops
      BY <3>1 DEF Ends, TypeOK, OnlyDrops
    <3>3. OffTheQueue
      BY <3>1 DEF OffTheQueue
    <3> QED
      BY <3>1, <3>2, <3>3, LeftAlone
  <2> QED
    BY <1>6, <2>1, <2>2, <2>3, <2>4, <2>5 DEF Execute
<1>7. CASE UNCHANGED vars
  BY <1>7, Elsewhere
<1> QED
  BY <1>1, <1>2, <1>3, <1>4, <1>5, <1>6, <1>7 DEF Next

IInv == TypeOK /\ ClaimsAgree

(* The inductive invariant holds at the start,                             *)
LEMMA InitIInv == Init => IInv
BY InitTypeOK, InitClaimsAgree DEF IInv

(* and every step keeps it.                                                *)
LEMMA StepIInv == IInv /\ [Next]_vars => IInv'
BY StepTypeOK, StepClaimsAgree DEF IInv

(* Every reachable state is well typed, and its rows, claims and tasks     *)
(* agree.                                                                  *)
THEOREM InvariantHolds == Spec => []IInv
BY InitIInv, StepIInv, PTL DEF Spec

(* No column of a row and nothing in a process's memory leaves its type.   *)
THEOREM TypeCorrect == Spec => []TypeOK
<1>1. IInv => TypeOK
  BY DEF IInv
<1> QED
  BY <1>1, InvariantHolds, PTL

(* The claim columns, the start and the tasks agree, for any number of     *)
(* processes and runs.                                                     *)
THEOREM ClaimsAgreeAlways == Spec => []ClaimsAgree
<1>1. IInv => ClaimsAgree
  BY DEF IInv
<1> QED
  BY <1>1, InvariantHolds, PTL

-----------------------------------------------------------------------------
(* What one step, of anybody, does to one row.                             *)

Keeps(r) == owner'[r] = owner[r] /\ claim'[r] = claim[r] /\ starter'[r] = starter[r]
Untouched(r) == status'[r] = status[r] /\ Keeps(r)
Created(r)   == status[r] = "absent" /\ status'[r] = "queued" /\ Keeps(r)
Taken(r)     == /\ status[r] = "queued" /\ status'[r] = "queued" /\ ~Claimed(r) /\ ~Blocked(r)
                /\ owner'[r] \in Procs /\ claim'[r] \in Tokens /\ starter'[r] = starter[r]
                /\ \A s \in Runs \ {r} : status'[s] = status[s] /\ owner'[s] = owner[s]
Withdrawn(r) == status[r] = "queued" /\ ~Claimed(r) /\ status'[r] = "canceled" /\ Keeps(r)
Begun(r)     == /\ Active(r) /\ claim[r] \in Tokens /\ status'[r] = "running"
                /\ owner'[r] = owner[r] /\ claim'[r] = claim[r] /\ starter'[r] = claim[r]
EndedBy(r)   == /\ status[r] = "running" /\ claim[r] \in Tokens /\ starter[r] = claim[r]
                /\ task[claim[r]].phase = "closing" /\ task'[claim[r]] = NoTask
                /\ status'[r] \in Terminal /\ Keeps(r)
Failed(r)    == Claimed(r) /\ Active(r) /\ status'[r] = "failed" /\ Keeps(r)
Requeued(r)  == /\ Claimed(r) /\ Active(r) /\ status'[r] = "queued"
                /\ owner'[r] = NoProc /\ claim'[r] = NoToken /\ starter'[r] = NoToken

RowMoves(r) == \/ Untouched(r) \/ Created(r) \/ Taken(r) \/ Withdrawn(r)
               \/ Begun(r) \/ EndedBy(r) \/ Failed(r) \/ Requeued(r)

(* A step that writes none of the columns that tell a row apart.           *)
LEMMA SameRows ==
    ASSUME status' = status, owner' = owner, claim' = claim, starter' = starter
    PROVE  \A r \in Runs : RowMoves(r)
BY DEF RowMoves, Untouched, Keeps

(* Every step does one of these eight things to each row.                  *)
LEMMA StepMovesRows == IInv /\ [Next]_vars => \A r \in Runs : RowMoves(r)
<1> SUFFICES ASSUME TypeOK, ClaimsAgree, [Next]_vars PROVE \A r \in Runs : RowMoves(r)
  BY DEF IInv
<1>1. CASE Outside
  <2>1. ASSUME NEW s \in Runs, NEW n \in Priorities, Submit(s, n) \/ SetPriority(s, n)
        PROVE  \A r \in Runs : RowMoves(r)
    <3>1. owner' = owner /\ claim' = claim /\ starter' = starter
      BY <2>1 DEF Submit, SetPriority
    <3>2. \A r \in Runs : status'[r] = status[r] \/ (status[r] = "absent" /\ status'[r] = "queued")
      BY <2>1 DEF Submit, SetPriority, TypeOK
    <3> QED
      BY <3>1, <3>2 DEF RowMoves, Untouched, Created, Keeps
  <2>2. ASSUME NEW s \in Runs, NEW p \in Procs, CancelQueued(p, s)
        PROVE  \A r \in Runs : RowMoves(r)
    <3>1. owner' = owner /\ claim' = claim /\ starter' = starter
      BY <2>2 DEF CancelQueued
    <3>2. \A r \in Runs : \/ status'[r] = status[r]
                          \/ status[r] = "queued" /\ ~Claimed(r) /\ status'[r] = "canceled"
      BY <2>2 DEF CancelQueued, Waiting, TypeOK
    <3> QED
      BY <3>1, <3>2 DEF RowMoves, Untouched, Withdrawn, Keeps
  <2>3. ASSUME NEW s \in Runs, NEW p \in Procs, CancelSignal(p, s)
        PROVE  \A r \in Runs : RowMoves(r)
    BY <2>3, SameRows DEF CancelSignal
  <2> QED
    BY <1>1, <2>1, <2>2, <2>3 DEF Outside
<1>2. CASE Tick
  BY <1>2, SameRows DEF Tick
<1>3. ASSUME NEW p \in Procs, Dispatch(p) PROVE \A r \in Runs : RowMoves(r)
  <2>1. CASE PassBegin(p) \/ PassEnd(p)
    BY <2>1, SameRows DEF PassBegin, PassEnd
  <2>2. ASSUME NEW t \in Tokens, Start(p, t) PROVE \A r \in Runs : RowMoves(r)
    BY <2>2, SameRows DEF Start
  <2>3. ASSUME NEW t \in Tokens, NEW s \in Runs, ClaimNext(p, s, t) \/ ClaimUnheard(p, s, t)
        PROVE  \A r \in Runs : RowMoves(r)
    <3>1. ClaimRow(p, s, t) /\ starter' = starter
      BY <2>3 DEF ClaimNext, ClaimUnheard
    <3>2. status' = status /\ status[s] = "queued" /\ ~Claimed(s) /\ ~Blocked(s)
      BY <3>1 DEF ClaimRow, Head, Eligible, Waiting
    <3>3. /\ owner'[s] = p /\ claim'[s] = t
          /\ \A r \in Runs \ {s} : owner'[r] = owner[r] /\ claim'[r] = claim[r]
      BY <3>1 DEF ClaimRow, TypeOK
    <3>4. Taken(s)
      BY <3>1, <3>2, <3>3 DEF Taken
    <3>5. \A r \in Runs \ {s} : Untouched(r)
      BY <3>1, <3>2, <3>3 DEF Untouched, Keeps
    <3> QED
      BY <3>4, <3>5 DEF RowMoves
  <2> QED
    BY <1>3, <2>1, <2>2, <2>3 DEF Dispatch
<1>4. ASSUME NEW S, NEW U, U \in SUBSET S, Unclaims(U),
             \A r \in S : Claimed(r) /\ Active(r),
             \A r \in Runs : status'[r] = IF r \notin S THEN status[r]
                                          ELSE IF r \in U THEN "queued" ELSE "failed"
      PROVE  \A r \in Runs : RowMoves(r)
  <2> SUFFICES ASSUME NEW r \in Runs PROVE RowMoves(r)
    OBVIOUS
  <2>1. CASE r \in U
    <3>1. Claimed(r) /\ Active(r) /\ status'[r] = "queued"
      BY <1>4, <2>1
    <3>2. owner'[r] = NoProc /\ claim'[r] = NoToken /\ starter'[r] = NoToken
      BY <1>4, <2>1 DEF Unclaims
    <3> QED
      BY <3>1, <3>2 DEF RowMoves, Requeued
  <2>2. CASE r \notin U
    <3>1. Keeps(r)
      BY <1>4, <2>2 DEF Unclaims, Keeps
    <3>2. CASE r \in S
      BY <1>4, <2>2, <3>1, <3>2 DEF RowMoves, Failed
    <3>3. CASE r \notin S
      BY <1>4, <2>2, <3>1, <3>3 DEF RowMoves, Untouched
    <3> QED
      BY <3>2, <3>3
  <2> QED
    BY <2>1, <2>2
<1>5. ASSUME NEW p \in Procs, Heartbeat(p) PROVE \A r \in Runs : RowMoves(r)
  <2>1. ASSUME NEW S, NEW lease, Reclaim(S, lease), S \subseteq Runs,
               \A r \in S : Claimed(r) /\ Active(r)
        PROVE  \A r \in Runs : RowMoves(r)
    <3> DEFINE U == IF Policy = "Requeue" THEN S ELSE {}
    <3>1. Unclaims(U) /\ U \in SUBSET S
      BY <2>1 DEF Reclaim
    <3>2. \A r \in Runs : status'[r] = IF r \notin S THEN status[r]
                                       ELSE IF r \in U THEN "queued" ELSE "failed"
      BY <2>1, RunQueueAssumption DEF Reclaim
    <3> HIDE DEF U
    <3> QED
      BY <2>1, <3>1, <3>2, <1>4
  <2>2. ASSUME NEW renewed \in BOOLEAN, Beat(p, renewed) PROVE \A r \in Runs : RowMoves(r)
    <3> DEFINE lease == IF renewed THEN Renewed(p) ELSE left
    <3>1. CASE Losses(p, lease) = {}
      <4>1. Reclaim(Lapses(p, lease), lease)
        BY <2>2, <3>1 DEF Beat
      <4> HIDE DEF lease
      <4> QED
        BY <2>1, <4>1 DEF Lapses
    <3>2. CASE Losses(p, lease) # {}
      BY <2>2, <3>2, SameRows DEF Beat
    <3> QED
      BY <3>1, <3>2
  <2>3. CASE BeatEnd(p)
    <3>1. Reclaim(Expired(p), left)
      BY <2>3 DEF BeatEnd
    <3> QED
      BY <2>1, <3>1 DEF Expired, Lapses
  <2> QED
    BY <1>5, <2>2, <2>3 DEF Heartbeat
<1>6. ASSUME NEW p \in Procs, Process(p) PROVE \A r \in Runs : RowMoves(r)
  <2>1. CASE Boot(p) \/ BootEnd(p)
    <3>1. owner' = owner /\ claim' = claim /\ starter' = starter
      BY <2>1 DEF Boot, BootEnd
    <3>2. \A r \in Runs : \/ status'[r] = status[r]
                          \/ status'[r] = "failed" /\ Claimed(r) /\ Active(r)
      BY <2>1 DEF Boot, BootEnd, Expired, Lapses
    <3> QED
      BY <3>1, <3>2 DEF RowMoves, Untouched, Failed, Keeps
  <2>2. CASE BeginStop(p) \/ DrainActive(p) \/ ReleaseRefused(p) \/ Exit(p)
    BY <2>2, SameRows DEF BeginStop, DrainActive, ReleaseRefused, Exit
  <2>3. CASE ReleaseClaims(p)
    <3>1. Unclaims(Released(p))
      BY <2>3 DEF ReleaseClaims
    <3>2. \A r \in Released(p) : Claimed(r) /\ Active(r)
      BY NotNull DEF Released, Owns, Claimed
    <3>3. \A r \in Runs : status'[r] = IF r \in Released(p) THEN "queued" ELSE status[r]
      BY <2>3 DEF ReleaseClaims
    <3> QED
      BY <3>1, <3>2, <3>3, <1>4
  <2> QED
    BY <1>6, <2>1, <2>2, <2>3 DEF Process
<1>7. ASSUME NEW t \in Tokens, Execute(t) \/ WriteRefused(t) PROVE \A r \in Runs : RowMoves(r)
  <2>1. CASE Begin(t)
    <3> DEFINE R == task[t].run
    <3>1. R \in Runs
      BY <2>1, LiveTask DEF Begin, Writes, Phases
    <3>2. /\ claim[R] = t /\ Active(R) /\ status'[R] = "running" /\ starter'[R] = t
          /\ \A s \in Runs \ {R} : status'[s] = status[s] /\ starter'[s] = starter[s]
          /\ owner' = owner /\ claim' = claim
      BY <2>1, <3>1 DEF Begin, Writes, Held, TypeOK
    <3> HIDE DEF R
    <3>3. Begun(R)
      BY <3>1, <3>2 DEF Begun
    <3>4. \A s \in Runs \ {R} : Untouched(s)
      BY <3>2 DEF Untouched, Keeps
    <3> QED
      BY <3>3, <3>4 DEF RowMoves
  <2>2. CASE OpStart(t) \/ SkipAll(t) \/ Notice(t)
    BY <2>2, SameRows DEF OpStart, SkipAll, Notice
  <2>3. ASSUME NEW s, OpEnd(t, s) \/ Drain(t, s) PROVE \A r \in Runs : RowMoves(r)
    BY <2>3, SameRows DEF OpEnd, Drain
  <2>4. CASE Finish(t) \/ FinishUnheard(t)
    <3> DEFINE R == task[t].run
    <3>1. FinishRow(t) /\ Ends(t) /\ starter' = starter
      BY <2>4 DEF Finish, FinishUnheard, Abandon
    <3>2. /\ task[t].phase = "closing" /\ task[t].result \in Terminal
          /\ claim[R] = t /\ Active(R)
      BY <3>1 DEF FinishRow, Writes, Held, ClaimsAgree
    <3>3. R \in Runs
      BY <3>2, LiveTask DEF Phases
    <3>4. starter[R] = t /\ status[R] = "running"
      BY <3>2, <3>3 DEF ClaimsAgree, Active
    <3>5. /\ status'[R] = task[t].result /\ owner' = owner /\ claim' = claim
          /\ \A s \in Runs \ {R} : status'[s] = status[s]
      BY <3>1, <3>3 DEF FinishRow, TypeOK
    <3>6. task'[t] = NoTask
      BY <3>1 DEF Ends, TypeOK
    <3> HIDE DEF R
    <3>7. EndedBy(R)
      BY <3>1, <3>2, <3>4, <3>5, <3>6 DEF EndedBy, Keeps
    <3>8. \A s \in Runs \ {R} : Untouched(s)
      BY <3>1, <3>5 DEF Untouched, Keeps
    <3> QED
      BY <3>7, <3>8 DEF RowMoves
  <2>5. CASE ClaimLost(t) \/ WriteRefused(t) \/ AbortTakes(t)
    BY <2>5, SameRows DEF ClaimLost, WriteRefused, AbortTakes
  <2> QED
    BY <1>7, <2>1, <2>2, <2>3, <2>4, <2>5 DEF Execute
<1>8. CASE UNCHANGED vars
  BY <1>8, SameRows
<1> QED
  BY <1>1, <1>2, <1>3, <1>5, <1>6, <1>7, <1>8 DEF Next

-----------------------------------------------------------------------------
(* What follows of one row. *)

(* No step moves a row off a terminal status.                              *)
LEMMA StepTerminal ==
    IInv /\ [Next]_vars =>
        \A r \in Runs : status[r] \in Terminal => status'[r] = status[r] /\ owner'[r] = owner[r]
<1> SUFFICES ASSUME IInv, [Next]_vars, NEW r \in Runs, status[r] \in Terminal
             PROVE  status'[r] = status[r] /\ owner'[r] = owner[r]
  OBVIOUS
<1>1. RowMoves(r)
  BY StepMovesRows
<1>2. status[r] \notin {"absent", "queued", "running"}
  BY DEF Terminal
<1> QED
  BY <1>1, <1>2 DEF RowMoves, Untouched, Created, Taken, Withdrawn, Begun, EndedBy, Failed,
                    Requeued, Active, Keeps

(* A finished run stays as it finished, and in the name it finished in,    *)
(* against every late write, reclaim, release and boot sweep.              *)
THEOREM TerminalStaysFinal == Spec => TerminalIsFinal
BY InvariantHolds, StepTerminal, PTL DEF Spec, TerminalIsFinal

(* No run succeeds or is canceled out of an execution that did not start   *)
(* it, and none starts again before it was given back.                     *)
THEOREM OneExecutionAtATime == Spec => OneExecution
<1> DEFINE Good(r) ==
      /\ (status[r] = "running" /\ status'[r] \in {"success", "canceled"})
            => starter[r] # NoToken /\ task[starter[r]].phase = "closing"
                                   /\ task'[starter[r]] = NoTask
      /\ (starter[r] # NoToken /\ starter'[r] # starter[r]) => starter'[r] = NoToken
<1>1. ASSUME IInv, [Next]_vars, NEW r \in Runs PROVE Good(r)
  <2>1. RowMoves(r)
    BY <1>1, StepMovesRows
  <2>2. starter[r] # NoToken => starter[r] = claim[r]
    BY <1>1 DEF IInv, ClaimsAgree
  <2>3. CASE EndedBy(r)
    BY <2>3, NotNull DEF EndedBy, Keeps
  <2>4. CASE Begun(r)
    BY <2>2, <2>4 DEF Begun
  <2>5. CASE ~EndedBy(r) /\ ~Begun(r)
    BY <2>1, <2>5 DEF RowMoves, Untouched, Created, Taken, Withdrawn, Failed, Requeued, Keeps
  <2> QED
    BY <2>3, <2>4, <2>5
<1>2. IInv /\ [Next]_vars => \A r \in Runs : Good(r)
  BY <1>1
<1> QED
  BY <1>2, InvariantHolds, PTL DEF Spec, OneExecution

-----------------------------------------------------------------------------
(* The limits.  The runs claimed and unfinished are finitely many, for one *)
(* step claims one run at most, and that one under every limit over it.    *)

LimitInv == IsFiniteSet(InFlight) /\ LimitsHold

(* Every step keeps the limits: the claim that adds a run saw room under each. *)
LEMMA StepLimits == IInv /\ LimitInv /\ [Next]_vars => LimitInv'
<1> SUFFICES ASSUME IInv, LimitInv, [Next]_vars PROVE LimitInv'
  OBVIOUS
<1>1. \A r \in Runs : RowMoves(r)
  BY StepMovesRows
<1>2. ASSUME NEW s \in Runs, Taken(s) PROVE LimitInv'
  <2>1. InFlight' = InFlight \cup {s}
    BY <1>2, NotNull DEF InFlight, Taken, Claimed, Active
  <2>2. IsFiniteSet(InFlight')
    BY <2>1, FS_AddElement DEF LimitInv
  <2>3. ASSUME NEW l \in Limits PROVE Cardinality(InFlight' \cap l.over) <= l.max
    <3> DEFINE F == InFlight \cap l.over
    <3>1. IsFiniteSet(F) /\ Cardinality(F) \in Nat /\ Cardinality(F) <= l.max
      BY FS_Subset, FS_CardinalityType DEF LimitInv, LimitsHold
    <3>2. CASE s \notin l.over
      <4>1. InFlight' \cap l.over = F
        BY <2>1, <3>2
      <4> QED
        BY <3>1, <4>1
    <3>3. CASE s \in l.over
      <4>1. ~(Cardinality(F) >= l.max)
        BY <1>2, <3>3 DEF Taken, Blocked
      <4>2. InFlight' \cap l.over = F \cup {s}
        BY <2>1, <3>3
      <4>3. Cardinality(F \cup {s}) <= Cardinality(F) + 1
        <5>1. Cardinality(F \cup {s}) = IF s \in F THEN Cardinality(F) ELSE Cardinality(F) + 1
          BY <3>1, FS_AddElement
        <5> HIDE DEF F
        <5> QED
          BY <3>1, <5>1
      <4>4. l.max \in Nat
        BY RunQueueAssumption
      <4>5. Cardinality(F \cup {s}) \in Nat
        BY <3>1, FS_AddElement, FS_CardinalityType
      <4> HIDE DEF F
      <4>6. Cardinality(F \cup {s}) <= l.max
        BY <3>1, <4>1, <4>3, <4>4, <4>5
      <4> QED
        BY <4>2, <4>6
    <3> QED
      BY <3>2, <3>3
  <2> QED
    BY <2>2, <2>3 DEF LimitInv, LimitsHold
<1>3. CASE \A s \in Runs : ~Taken(s)
  <2>1. InFlight' \subseteq InFlight
    <3> SUFFICES ASSUME NEW r \in Runs, owner'[r] # NoProc, status'[r] \in {"queued", "running"}
                 PROVE  owner[r] # NoProc /\ status[r] \in {"queued", "running"}
      BY DEF InFlight, Claimed, Active
    <3>1. RowMoves(r) /\ ~Taken(r)
      BY <1>1, <1>3
    <3>2. status[r] = "absent" => owner[r] = NoProc
      BY DEF IInv, ClaimsAgree
    <3>3. Begun(r) => owner[r] # NoProc /\ status[r] \in {"queued", "running"}
      BY NotNull DEF Begun, Active, IInv, ClaimsAgree
    <3> QED
      BY <3>1, <3>2, <3>3 DEF RowMoves, Untouched, Created, Withdrawn, EndedBy, Failed, Requeued,
                              Keeps, Terminal
  <2>2. IsFiniteSet(InFlight')
    BY <2>1, FS_Subset DEF LimitInv
  <2>3. ASSUME NEW l \in Limits PROVE Cardinality(InFlight' \cap l.over) <= l.max
    <3> DEFINE F == InFlight \cap l.over
               G == InFlight' \cap l.over
    <3>1. IsFiniteSet(F) /\ Cardinality(F) \in Nat /\ Cardinality(F) <= l.max
      BY FS_Subset, FS_CardinalityType DEF LimitInv, LimitsHold
    <3>2. G \in SUBSET F
      BY <2>1
    <3>3. IsFiniteSet(G) /\ Cardinality(G) <= Cardinality(F)
      BY <3>1, <3>2, FS_Subset
    <3>4. Cardinality(G) \in Nat /\ l.max \in Nat
      BY <3>3, FS_CardinalityType, RunQueueAssumption
    <3> HIDE DEF F, G
    <3>5. Cardinality(G) <= l.max
      BY <3>1, <3>3, <3>4
    <3> QED
      BY <3>5 DEF G
  <2> QED
    BY <2>2, <2>3 DEF LimitInv, LimitsHold
<1> QED
  BY <1>2, <1>3

(* Nothing is in flight.                                                   *)
LEMMA InitLimits == Init => LimitInv
<1> SUFFICES ASSUME Init PROVE LimitInv
  OBVIOUS
<1>1. InFlight = {}
  BY DEF Init, InFlight, Claimed
<1>2. \A l \in Limits : InFlight \cap l.over = {} /\ l.max \in Nat
  BY <1>1, RunQueueAssumption
<1> QED
  BY <1>1, <1>2, FS_EmptySet DEF LimitInv, LimitsHold

(* No concurrency limit is ever exceeded, for any limits over any runs and *)
(* any number of claiming processes, crashes, reclaims and releases.       *)
THEOREM LimitsAlwaysHold == Spec => []LimitsHold
<1>1. LimitInv => LimitsHold
  BY DEF LimitInv
<1> QED
  BY <1>1, InitLimits, StepLimits, InvariantHolds, PTL DEF Spec

-----------------------------------------------------------------------------
(* The life of a run. *)

(* The empty queue is the beginning of every life.                         *)
LEMMA InitLifecycle == Init => Lifecycle!Init
<1> SUFFICES ASSUME Init PROVE Lifecycle!Init
  OBVIOUS
<1>1. status = [r \in Runs |-> "absent"] /\ claim = [r \in Runs |-> NoToken]
  BY DEF Init
<1>2. Holder = [r \in Runs |-> NoToken]
  BY <1>1 DEF Holder, Active
<1> QED
  BY <1>1, <1>2 DEF Lifecycle!Init

(* Each of the eight things a step does to a row is a step of its life.    *)
LEMMA StepLifecycle == IInv /\ [Next]_vars => Lifecycle!Next
<1> SUFFICES ASSUME IInv, IInv', [Next]_vars PROVE Lifecycle!Next
  BY StepIInv
<1>1. status' \in [Runs -> Lifecycle!Statuses]
  BY DEF IInv, TypeOK, Statuses, Terminal, Lifecycle!Statuses, Lifecycle!Ended
<1>2. Holder' \in [Runs -> Tokens \cup {NoToken}]
  BY DEF IInv, TypeOK, Holder
<1>3. ASSUME NEW r \in Runs
      PROVE  Lifecycle!Moves(r) \/ Lifecycle!Becomes(r, status[r], Holder[r])
  <2>1. /\ Holder[r] = IF Active(r) THEN claim[r] ELSE NoToken
        /\ Holder'[r] = IF Active(r)' THEN claim'[r] ELSE NoToken
    BY DEF Holder
  <2>2. RowMoves(r)
    BY StepMovesRows
  <2>3. /\ owner[r] = NoProc <=> claim[r] = NoToken
        /\ status[r] = "absent" => owner[r] = NoProc
    BY DEF IInv, ClaimsAgree
  <2>5. CASE Untouched(r)
    <3>1. Holder'[r] = Holder[r]
      BY <2>1, <2>5 DEF Untouched, Keeps, Active
    <3> QED
      BY <2>5, <3>1 DEF Untouched, Lifecycle!Becomes
  <2>6. CASE Created(r)
    <3>1. Holder'[r] = NoToken
      BY <2>1, <2>3, <2>6 DEF Created, Keeps, Active
    <3> QED
      BY <2>6, <3>1 DEF Created, Lifecycle!Becomes, Lifecycle!Moves, Lifecycle!Create
  <2>7. CASE Taken(r)
    <3>1. Holder[r] = NoToken /\ Holder'[r] \in Tokens
      BY <2>1, <2>3, <2>7 DEF Taken, Active, Claimed
    <3> QED
      BY <2>7, <3>1 DEF Taken, Lifecycle!Becomes, Lifecycle!Moves, Lifecycle!Acquire
  <2>8. CASE Withdrawn(r)
    <3>1. Holder[r] = NoToken /\ Holder'[r] = NoToken
      BY <2>1, <2>3, <2>8 DEF Withdrawn, Active, Claimed
    <3> QED
      BY <2>8, <3>1 DEF Withdrawn, Lifecycle!Becomes, Lifecycle!Moves, Lifecycle!Withdraw
  <2>9. CASE Begun(r)
    <3>1. Holder[r] # NoToken /\ Holder'[r] = Holder[r]
      BY <2>1, <2>9, NotNull DEF Begun, Active
    <3> QED
      BY <2>9, <3>1 DEF Begun, Active, Lifecycle!Becomes, Lifecycle!Moves, Lifecycle!Begin
  <2>10. CASE EndedBy(r)
    <3>1. Holder[r] # NoToken /\ Holder'[r] = NoToken
      BY <2>1, <2>10, NotNull DEF EndedBy, Active, Terminal
    <3> QED
      BY <2>10, <3>1 DEF EndedBy, Terminal, Lifecycle!Becomes, Lifecycle!Moves, Lifecycle!End, Lifecycle!Ended
  <2>11. CASE Failed(r)
    <3>1. Holder[r] # NoToken /\ Holder'[r] = NoToken
      BY <2>1, <2>3, <2>11 DEF Failed, Active, Claimed
    <3> QED
      BY <2>11, <3>1 DEF Failed, Lifecycle!Becomes, Lifecycle!Moves, Lifecycle!GiveUp
  <2>12. CASE Requeued(r)
    <3>1. Holder[r] # NoToken /\ Holder'[r] = NoToken
      BY <2>1, <2>3, <2>12 DEF Requeued, Active, Claimed
    <3> QED
      BY <2>12, <3>1 DEF Requeued, Lifecycle!Becomes, Lifecycle!Moves, Lifecycle!HandBack
  <2> QED
    BY <2>2, <2>5, <2>6, <2>7, <2>8, <2>9, <2>10, <2>11, <2>12 DEF RowMoves
<1> QED
  BY <1>1, <1>2, <1>3 DEF Lifecycle!Next

(* Whatever processes claim, renew, lose, reclaim and release, a reader of *)
(* the runs sees each one live the life RunLifecycle describes.            *)
THEOREM QueueImplementsLifecycle == Spec => ImplementsLifecycle
<1>1. IInv /\ [Next]_vars =>
        [Lifecycle!Next]_<<status, Holder>>
  BY StepLifecycle
<1> QED
  BY <1>1, InitLifecycle, InvariantHolds, PTL DEF Spec, ImplementsLifecycle, Lifecycle!Spec

=============================================================================
