------------------------------ MODULE RunQueue ------------------------------
(***************************************************************************)
(* The durable run queue and the processes that share it: the `runs` row   *)
(* of every run (store.rs), and in each process the memory of the Runner   *)
(* that claims, executes, renews, reclaims and hands back (executor.rs).   *)
(*                                                                         *)
(* A claim is a token: the code's pair (claimed_by, claimed_at), which     *)
(* names one acquisition by one process.  The execution a claim starts is  *)
(* the task of that token.  A token is used again only when no row and no  *)
(* task names it, so a finite set of them stands for an endless run of     *)
(* timestamps.                                                             *)
(*                                                                         *)
(* Time is relative: left[r] is lease_until minus the clock, and a process *)
(* whose clock is Skew[p] ahead finds the lease lapsed when                *)
(* left[r] < Skew[p].  A lease that is NULL is one that lapsed long ago    *)
(* (every reader of the column treats the two alike).                      *)
(*                                                                         *)
(* The run's ops are followed as one row, op[r]; module RunExecution has   *)
(* the graph.                                                              *)
(***************************************************************************)
EXTENDS Integers, FiniteSets

CONSTANTS
    Procs,      \* processes; a restart is another member, with its own instance id
    Runs,       \* run ids, in created_at order
    Tokens,     \* names of acquisitions
    NoProc, NoRun, NoToken, \* NULL: no claimer, no run, no acquisition
    Lease,      \* LEASE, in ticks
    Skew,       \* how far each process's clock is ahead
    Policy,     \* Reclaim: "Fail" or "Requeue"
    Limits,     \* concurrency limits: a set of [over: set of runs, max: number]
    Slots,      \* runs a process executes at once
    Defined,    \* the runs whose job a process defines
    Priorities, \* the priorities a run may be given
    Faults,     \* what may go wrong at the store: the writes of an execution
                \* ("write"), of the lease loop ("beat"), of a dispatch pass
                \* ("claim") or of a stop ("release") may be refused for good,
                \* or land and be reported as refused ("ack")
    MayStop,    \* bound: the processes that may be told to stop
    MayDie,     \* bound: the processes that may be killed
    SlowPass,   \* TRUE: a stop may begin in the middle of a dispatch pass
    TwoStep,    \* TRUE: the boot sweep's statements interleave (postgres)
    Timely      \* TRUE: every live process beats between two ticks

ASSUME RunQueueAssumption ==
    /\ Runs \subseteq Nat
    /\ NoProc \notin Procs /\ NoRun \notin Runs /\ NoToken \notin Tokens
    /\ Lease \in Nat /\ Slots \in Nat
    /\ Skew \in [Procs -> Nat]
    /\ Policy \in {"Fail", "Requeue"}
    /\ Defined \in [Procs -> SUBSET Runs]
    /\ \A l \in Limits : l.over \subseteq Runs /\ l.max \in Nat
    /\ Priorities \subseteq Int
    /\ Faults \subseteq {"write", "beat", "claim", "release", "ack"}
    /\ {SlowPass, TwoStep, Timely} \subseteq BOOLEAN

VARIABLES
    status,     \* runs.status, "absent" before the run is created
    owner,      \* runs.claimed_by
    claim,      \* runs.claimed_at: the acquisition
    left,       \* runs.lease_until, less the clock
    prio,       \* runs.priority
    op,         \* op_runs.status of the run's work
    task,       \* the execution each token started
    active,     \* Runner.active: run id -> the token whose sender is held
    abandoned,  \* Runner.abandoned
    failing,    \* the processes whose store Health says `failing`
    mode,       \* where a process is in its life
    disp,       \* where a process is in Runner::dispatch
    lost,       \* heartbeat's `lost`, between its reading and its use
    doomed,     \* runs whose ops a boot sweep has marked and whose row it has not
    signalled,  \* tokens whose cancel sender sent true
    aborted,    \* tokens whose task was told to abort
    beaten,     \* processes that beat since the last tick
    asked,      \* history: runs somebody asked to cancel and was told Requested
    starter     \* history: the token that wrote run_started last

rowVars  == <<status, owner, claim, left, prio, op>>
procVars == <<abandoned, failing, mode, disp, lost, doomed>>
taskVars == <<task, active, signalled, aborted>>
histVars == <<beaten, asked, starter>>
vars     == <<rowVars, procVars, taskVars, histVars>>

Terminal   == {"success", "failed", "canceled"}
Statuses   == {"absent", "queued", "running"} \cup Terminal
OpStatuses == {"pending", "running", "success", "failed", "skipped", "canceled"}
Phases     == {"picked", "new", "open", "op", "draining", "closing"}
Modes      == {"off", "up", "stopping", "draining", "released", "gone"}
Live       == {"up", "stopping", "draining", "released"}
Tasks      == [proc: Procs, run: Runs, phase: Phases, result: {"none"} \cup Terminal]
NoTask     == [proc |-> NoProc, run |-> NoRun, phase |-> "ended", result |-> "none"]
NewTask(p, r) == [proc |-> p, run |-> r, phase |-> "picked", result |-> "none"]

-----------------------------------------------------------------------------
(* The row. *)

Active(r)       == status[r] \in {"queued", "running"}
Claimed(r)      == owner[r] # NoProc
Owns(p, r)      == owner[r] = p
Lapsed(p, r)    == left[r] < Skew[p]
InFlight        == {r \in Runs : Claimed(r) /\ Active(r)}
BlockedOneLate(r) == \E l \in Limits : r \in l.over /\ Cardinality(InFlight \cap l.over) > l.max
Blocked(r)      == \E l \in Limits : /\ r \in l.over
                                     /\ Cardinality(InFlight \cap l.over) >= l.max
QueuedAtAll     == {r \in Runs : status[r] = "queued"}
Waiting         == {r \in Runs : status[r] = "queued" /\ ~Claimed(r)}
Before(a, b)    == prio[a] > prio[b] \/ (prio[a] = prio[b] /\ a < b)
Eligible(p)     == {r \in Waiting \cap Defined[p] : ~Blocked(r)}
Head(p)         == {r \in Eligible(p) : \A s \in Eligible(p) \ {r} : Before(r, s)}
LapsesOfAny(p, lease) == {r \in Runs : Claimed(r) /\ lease[r] < Skew[p]}
LapsesOfOwn(p, lease) == {r \in Runs : Owns(p, r) /\ Active(r) /\ lease[r] < Skew[p]}
Lapses(p, lease) == {r \in Runs : Claimed(r) /\ Active(r) /\ lease[r] < Skew[p]}
Expired(p)      == Lapses(p, left)
FreeToken(t)    == task[t] = NoTask /\ \A r \in Runs : claim[r] # t

HeldByStatus(t) == Active(task[t].run)

(* Held(t) is ExecutionClaim::check: every write of an execution makes it  *)
(* in the transaction of the write.                                        *)
Held(t) == LET r == task[t].run
           IN  Owns(task[t].proc, r) /\ claim[r] = t /\ Active(r) /\ ~Lapsed(task[t].proc, r)

(* A boot sweep between its statements holds the op rows it has marked.    *)
Unlocked(r) == \A p \in Procs : r \notin doomed[p]

Entries(p) == {r \in Runs : active[p][r] # NoToken}
TasksOf(p) == {t \in Tokens : task[t].proc = p}

Init ==
    /\ status = [r \in Runs |-> "absent"]
    /\ owner = [r \in Runs |-> NoProc]
    /\ claim = [r \in Runs |-> NoToken]
    /\ left = [r \in Runs |-> -1]
    /\ prio = [r \in Runs |-> 0]
    /\ op = [r \in Runs |-> "pending"]
    /\ task = [t \in Tokens |-> NoTask]
    /\ active = [p \in Procs |-> [r \in Runs |-> NoToken]]
    /\ abandoned = [p \in Procs |-> {}]
    /\ failing = {}
    /\ mode = [p \in Procs |-> "off"]
    /\ disp = [p \in Procs |-> "idle"]
    /\ lost = [p \in Procs |-> {}]
    /\ doomed = [p \in Procs |-> {}]
    /\ signalled = {} /\ aborted = {} /\ beaten = {} /\ asked = {}
    /\ starter = [r \in Runs |-> NoToken]

-----------------------------------------------------------------------------
(* The queue, from outside. *)

(* A launch writes the run and its op, unclaimed (create_run_keyed). *)
Submit(r, n) ==
    /\ status[r] = "absent"
    /\ \A s \in Runs : s < r => status[s] # "absent"
    /\ status' = [status EXCEPT ![r] = "queued"]
    /\ prio' = [prio EXCEPT ![r] = n]
    /\ UNCHANGED <<owner, claim, left, op, procVars, taskVars, histVars>>

SetPriority(r, n) ==
    /\ r \in Waiting /\ prio[r] # n
    /\ prio' = [prio EXCEPT ![r] = n]
    /\ UNCHANGED <<status, owner, claim, left, op, procVars, taskVars, histVars>>

(* Runner::cancel of a run nobody claimed: it is taken off the queue, and  *)
(* whatever entry this process still had for it goes, sender and all.      *)
CancelQueued(p, r) ==
    /\ mode[p] \in Live /\ r \in Waiting /\ Unlocked(r)
    /\ status' = [status EXCEPT ![r] = "canceled"]
    /\ op' = [op EXCEPT ![r] = IF @ = "pending" THEN "canceled" ELSE @]
    /\ active' = [active EXCEPT ![p][r] = NoToken]
    /\ asked' = asked \cup {r}
    /\ UNCHANGED <<owner, claim, left, prio, procVars, task, signalled, aborted, beaten, starter>>

(* Runner::cancel of a run in this process's memory: its sender is told.   *)
(* Without an entry the answer is AlreadyFinished and nothing changes.     *)
CancelSignal(p, r) ==
    /\ mode[p] \in Live /\ Active(r) /\ r \notin Waiting
    /\ active[p][r] # NoToken
    /\ signalled' = signalled \cup {active[p][r]}
    /\ asked' = asked \cup {r}
    /\ UNCHANGED <<rowVars, procVars, task, active, aborted, beaten, starter>>

(* Time passes. With Timely, never past a live process's next heartbeat.   *)
Tick ==
    /\ \E r \in Runs : left[r] > -1
    /\ Timely => \A p \in Procs : mode[p] \in {"up", "stopping"} => p \in beaten
    /\ left' = [r \in Runs |-> IF left[r] > -1 THEN left[r] - 1 ELSE -1]
    /\ beaten' = {}
    /\ UNCHANGED <<status, owner, claim, prio, op, procVars, taskVars, asked, starter>>

-----------------------------------------------------------------------------
(* A process boots, and dies. *)

InterruptedRunning(o) == IF o = "running" THEN "failed" ELSE o
Interrupted(o) == IF o = "running" THEN "failed" ELSE IF o = "pending" THEN "skipped" ELSE o

(* The startup sweep: fail_interrupted fails whatever is claimed and       *)
(* lapsed, in one transaction.  The first statement marks the ops, the     *)
(* last one, which reads the leases again, the runs.                       *)
Boot(p) ==
    /\ mode[p] = "off" /\ doomed[p] = {}
    /\ op' = [r \in Runs |-> IF r \in Expired(p) THEN Interrupted(op[r]) ELSE op[r]]
    /\ IF TwoStep /\ Expired(p) # {}
       THEN /\ doomed' = [doomed EXCEPT ![p] = Expired(p)]
            /\ UNCHANGED <<status, left, mode>>
       ELSE /\ status' = [r \in Runs |-> IF r \in Expired(p) THEN "failed" ELSE status[r]]
            /\ left' = [r \in Runs |-> IF r \in Expired(p) THEN -1 ELSE left[r]]
            /\ mode' = [mode EXCEPT ![p] = "up"]
            /\ UNCHANGED doomed
    /\ UNCHANGED <<owner, claim, prio, abandoned, failing, disp, lost, taskVars, histVars>>

BootEnd(p) ==
    /\ mode[p] = "off" /\ doomed[p] # {}
    /\ status' = [r \in Runs |-> IF r \in Expired(p) THEN "failed" ELSE status[r]]
    /\ left' = [r \in Runs |-> IF r \in Expired(p) THEN -1 ELSE left[r]]
    /\ doomed' = [doomed EXCEPT ![p] = {}]
    /\ mode' = [mode EXCEPT ![p] = "up"]
    /\ UNCHANGED <<owner, claim, prio, op, abandoned, failing, disp, lost, taskVars, histVars>>

(* A kill, or the exit after a stop: everything in memory goes.            *)
Exit(p) ==
    /\ mode[p] \in IF p \in MayDie THEN Live ELSE {"released"}
    /\ mode' = [mode EXCEPT ![p] = "gone"]
    /\ task' = [t \in Tokens |-> IF t \in TasksOf(p) THEN NoTask ELSE task[t]]
    /\ active' = [active EXCEPT ![p] = [r \in Runs |-> NoToken]]
    /\ abandoned' = [abandoned EXCEPT ![p] = {}]
    /\ failing' = failing \ {p}
    /\ disp' = [disp EXCEPT ![p] = "idle"]
    /\ lost' = [lost EXCEPT ![p] = {}]
    /\ signalled' = signalled \ TasksOf(p)
    /\ aborted' = aborted \ TasksOf(p)
    /\ beaten' = beaten \ {p}
    /\ UNCHANGED <<rowVars, doomed, asked, starter>>

-----------------------------------------------------------------------------
(* Runner::dispatch: one pass at a time in a process. *)

(* Role, stopping and health are looked at once, as a pass begins.         *)
PassBegin(p) ==
    /\ disp[p] = "idle" /\ mode[p] = "up" /\ p \notin failing
    /\ \E r \in Waiting : r \in Defined[p]
    /\ disp' = [disp EXCEPT ![p] = "pass"]
    /\ UNCHANGED <<rowVars, abandoned, failing, mode, lost, doomed, taskVars, histVars>>

PassEnd(p) ==
    /\ disp[p] = "pass"
    /\ "claim" \in Faults \/ Eligible(p) = {} \/ Cardinality(Entries(p)) >= Slots
    /\ disp' = [disp EXCEPT ![p] = "idle"]
    /\ UNCHANGED <<rowVars, abandoned, failing, mode, lost, doomed, taskVars, histVars>>

ClaimPastSlots(p, r, t) ==
    /\ r \in Head(p) /\ FreeToken(t)
    /\ owner' = [owner EXCEPT ![r] = p]
    /\ claim' = [claim EXCEPT ![r] = t]
    /\ left' = [left EXCEPT ![r] = Skew[p] + Lease]
    /\ UNCHANGED <<status, prio, op>>

ClaimRow(p, r, t) ==
    /\ r \in Head(p) /\ FreeToken(t)
    /\ Cardinality(Entries(p)) < Slots
    /\ owner' = [owner EXCEPT ![r] = p]
    /\ claim' = [claim EXCEPT ![r] = t]
    /\ left' = [left EXCEPT ![r] = Skew[p] + Lease]
    /\ UNCHANGED <<status, prio, op>>

(* claim_next: the best waiting run no limit blocks.  It stays `queued`.   *)
ClaimNext(p, r, t) ==
    /\ disp[p] = "pass" /\ ClaimRow(p, r, t)
    /\ task' = [task EXCEPT ![t] = NewTask(p, r)]
    /\ disp' = [disp EXCEPT ![p] = "starting"]
    /\ UNCHANGED <<active, signalled, aborted, abandoned, failing, mode, lost, doomed, histVars>>

(* The same, when the commit lands and its answer does not: the pass ends  *)
(* with the error, and the row names a process that does not know.         *)
ClaimUnheard(p, r, t) ==
    /\ "ack" \in Faults
    /\ disp[p] = "pass" /\ ClaimRow(p, r, t)
    /\ disp' = [disp EXCEPT ![p] = "idle"]
    /\ UNCHANGED <<task, active, signalled, aborted, abandoned, failing, mode, lost, doomed, histVars>>

(* Runner::start: the entry first, over any entry the run still had; the   *)
(* older entry's sender is dropped with it.                                *)
Start(p, t) ==
    /\ disp[p] = "starting"
    /\ task[t].proc = p /\ task[t].phase = "picked"
    /\ active' = [active EXCEPT ![p][task[t].run] = t]
    /\ task' = [task EXCEPT ![t].phase = "new"]
    /\ disp' = [disp EXCEPT ![p] = "pass"]
    /\ UNCHANGED <<rowVars, signalled, aborted, abandoned, failing, mode, lost, doomed, histVars>>

-----------------------------------------------------------------------------
(* One execution, the task of token t.  Each step is a write made under    *)
(* the claim.                                                              *)

Ends(t) == /\ task' = [task EXCEPT ![t] = NoTask]
           /\ signalled' = signalled \ {t}
           /\ aborted' = aborted \ {t}

Writes(t, ph) == task[t].phase = ph /\ Held(t)

Goes(t, ph, res) ==
    task' = [task EXCEPT ![t] = [@ EXCEPT !.phase = ph, !.result = res]]

(* run_started: an update by id that only the claim guards. *)
Begin(t) ==
    /\ Writes(t, "new")
    /\ status' = [status EXCEPT ![task[t].run] = "running"]
    /\ starter' = [starter EXCEPT ![task[t].run] = t]
    /\ Goes(t, "open", "none")
    /\ UNCHANGED <<owner, claim, left, prio, op, procVars, active, signalled, aborted, beaten, asked>>

OpStart(t) ==
    /\ Writes(t, "open") /\ Unlocked(task[t].run)
    /\ op' = [op EXCEPT ![task[t].run] = "running"]
    /\ Goes(t, "op", "none")
    /\ UNCHANGED <<status, owner, claim, left, prio, procVars, active, signalled, aborted, histVars>>

RecordsAnyway(r, s) == op' = [op EXCEPT ![r] = s]

(* op_finished declines a row that already says how the op ended. *)
Records(r, s) == op' = [op EXCEPT ![r] = IF @ \in {"pending", "running"} THEN s ELSE @]

OpEnd(t, s) ==
    /\ Writes(t, "op") /\ Unlocked(task[t].run)
    /\ s \in {"success", "failed", "skipped"}
    /\ Records(task[t].run, s)
    /\ Goes(t, "closing", IF s = "failed" THEN "failed" ELSE "success")
    /\ UNCHANGED <<status, owner, claim, left, prio, procVars, active, signalled, aborted, histVars>>

(* A run-scoped resource or a secret is missing: no op runs, the run fails. *)
SkipAll(t) ==
    /\ Writes(t, "open") /\ Unlocked(task[t].run)
    /\ Records(task[t].run, "skipped")
    /\ Goes(t, "closing", "failed")
    /\ UNCHANGED <<status, owner, claim, left, prio, procVars, active, signalled, aborted, histVars>>

DroppedOrSent(t) == t \in signalled \/ active[task[t].proc][task[t].run] # t

(* A task watching its sender cannot tell a dropped one from a cancel. A   *)
(* stop holds the senders it drained until it has handed its runs back, or *)
(* has failed to.                                                          *)
CancelSeen(t) == LET p == task[t].proc
                 IN  t \in signalled \/ (active[p][task[t].run] # t /\ mode[p] # "draining")

Notice(t) ==
    /\ task[t].phase \in {"open", "op"} /\ CancelSeen(t)
    /\ Goes(t, "draining", IF task[t].phase = "op" THEN "success" ELSE "none")
    /\ UNCHANGED <<rowVars, procVars, active, signalled, aborted, histVars>>

(* The cancel's drain: an op in flight is recorded as what it really did   *)
(* if it came back, and canceled if it did not.                            *)
Drain(t, s) ==
    /\ Writes(t, "draining") /\ Unlocked(task[t].run)
    /\ s \in {"canceled"} \cup IF task[t].result = "success"
                               THEN {"success", "failed", "skipped"} ELSE {}
    /\ Records(task[t].run, s)
    /\ Goes(t, "closing", "canceled")
    /\ UNCHANGED <<status, owner, claim, left, prio, procVars, active, signalled, aborted, histVars>>

FinishRow(t) ==
    /\ Writes(t, "closing")
    /\ status' = [status EXCEPT ![task[t].run] = task[t].result]
    /\ left' = [left EXCEPT ![task[t].run] = -1]
    /\ UNCHANGED <<owner, claim, prio, op>>

(* run_finished, then this process's entry for the run, by run id. *)
Finish(t) ==
    /\ FinishRow(t)
    /\ active' = [active EXCEPT ![task[t].proc][task[t].run] = NoToken]
    /\ Ends(t)
    /\ UNCHANGED <<procVars, histVars>>

AbandonUnsaid(t) ==
    /\ active' = [active EXCEPT ![task[t].proc][task[t].run] = NoToken]
    /\ Ends(t)
    /\ UNCHANGED abandoned

(* Runner::abandon, also by run id. *)
Abandon(t) ==
    /\ abandoned' = [abandoned EXCEPT ![task[t].proc] = @ \cup {task[t].run}]
    /\ active' = [active EXCEPT ![task[t].proc][task[t].run] = NoToken]
    /\ Ends(t)

InWrite(t) == task[t].phase \in {"new", "open", "op", "draining", "closing"}

(* The claim moved on, or its lease lapsed: ClaimLost is not transient.    *)
ClaimLost(t) ==
    /\ InWrite(t) /\ ~Held(t)
    /\ Abandon(t)
    /\ UNCHANGED <<rowVars, failing, mode, disp, lost, doomed, histVars>>

(* The store refused every attempt.                                        *)
WriteRefused(t) ==
    /\ "write" \in Faults /\ InWrite(t)
    /\ Abandon(t)
    /\ failing' = failing \cup {task[t].proc}
    /\ UNCHANGED <<rowVars, mode, disp, lost, doomed, histVars>>

(* run_finished lands unheard; the retry finds a terminal row: ClaimLost.  *)
FinishUnheard(t) ==
    /\ "ack" \in Faults /\ FinishRow(t)
    /\ Abandon(t)
    /\ UNCHANGED <<failing, mode, disp, lost, doomed, histVars>>

(* An abort takes effect where the task next waits.                        *)
AbortTakes(t) ==
    /\ t \in aborted
    /\ Ends(t)
    /\ UNCHANGED <<rowVars, procVars, active, histVars>>

-----------------------------------------------------------------------------
(* Runner::heartbeat: renew, find what was lost, let go of it, reclaim. *)

RenewedRunning(p) == [r \in Runs |-> IF /\ Owns(p, r) /\ status[r] = "running" /\ ~Lapsed(p, r)
                                        /\ r \notin abandoned[p]
                                    THEN Skew[p] + Lease ELSE left[r]]
Renewed(p) == [r \in Runs |-> IF /\ Owns(p, r) /\ Active(r) /\ ~Lapsed(p, r)
                                 /\ r \notin abandoned[p]
                              THEN Skew[p] + Lease ELSE left[r]]

Losses(p, lease) ==
    {r \in Entries(p) : ~(Owns(p, r) /\ Active(r) /\ lease[r] >= Skew[p])}

UnclaimsOwner(S) ==
    /\ owner' = [r \in Runs |-> IF r \in S THEN NoProc ELSE owner[r]]
    /\ starter' = [r \in Runs |-> IF r \in S THEN NoToken ELSE starter[r]]
    /\ UNCHANGED claim
Unclaims(S) ==
    /\ owner' = [r \in Runs |-> IF r \in S THEN NoProc ELSE owner[r]]
    /\ claim' = [r \in Runs |-> IF r \in S THEN NoToken ELSE claim[r]]
    /\ starter' = [r \in Runs |-> IF r \in S THEN NoToken ELSE starter[r]]

(* reclaim_expired takes back everything lapsed, whoever held it.          *)
Reclaim(S, lease) ==
    /\ \A r \in S : Unlocked(r)
    /\ op' = [r \in Runs |-> IF r \in S THEN Interrupted(op[r]) ELSE op[r]]
    /\ status' = [r \in Runs |-> IF r \notin S THEN status[r]
                                 ELSE IF Policy = "Fail" THEN "failed" ELSE "queued"]
    /\ left' = [r \in Runs |-> IF r \in S THEN -1 ELSE lease[r]]
    /\ Unclaims(IF Policy = "Requeue" THEN S ELSE {})

(* renewed: the renewal was taken, and cleared `failing`, or was refused.  *)
(* `lost` is read under the lock on `active`.  With nothing lost there is  *)
(* nothing between the renewal and the reclaim that another thread could   *)
(* make stale.                                                             *)
Beat(p, renewed) ==
    LET lease == IF renewed THEN Renewed(p) ELSE left
    IN  /\ mode[p] \in {"up", "stopping"} /\ lost[p] = {}
        /\ renewed \/ "beat" \in Faults
        /\ failing' = IF renewed THEN failing \ {p} ELSE failing \cup {p}
        /\ lost' = [lost EXCEPT ![p] = Losses(p, lease)]
        /\ IF Losses(p, lease) = {}
           THEN /\ Reclaim(Lapses(p, lease), lease)
                /\ beaten' = IF Timely THEN beaten \cup {p} ELSE beaten
           ELSE /\ left' = lease
                /\ UNCHANGED <<status, owner, claim, op, beaten, starter>>
        /\ UNCHANGED <<prio, abandoned, mode, disp, doomed, taskVars, asked>>

BeatEndBlind(p) ==
    /\ lost[p] # {}
    /\ active' = [active EXCEPT ![p] = [r \in Runs |-> IF r \in lost[p] THEN NoToken
                                                       ELSE active[p][r]]]
    /\ aborted' = aborted \cup {active[p][r] : r \in lost[p]}
    /\ lost' = [lost EXCEPT ![p] = {}]
    /\ Reclaim(Expired(p), left)
    /\ beaten' = IF Timely THEN beaten \cup {p} ELSE beaten
    /\ UNCHANGED <<prio, abandoned, failing, mode, disp, doomed, task, signalled, asked>>

(* Each lost entry is taken out under the lock taken again, whichever task *)
(* it is of by now, and its task told to abort; then the reclaim.          *)
BeatEnd(p) ==
    /\ lost[p] # {}
    /\ active' = [active EXCEPT ![p] = [r \in Runs |-> IF r \in lost[p] THEN NoToken
                                                       ELSE active[p][r]]]
    /\ aborted' = aborted \cup {active[p][r] : r \in lost[p] \cap Entries(p)}
    /\ lost' = [lost EXCEPT ![p] = {}]
    /\ Reclaim(Expired(p), left)
    /\ beaten' = IF Timely THEN beaten \cup {p} ELSE beaten
    /\ UNCHANGED <<prio, abandoned, failing, mode, disp, doomed, task, signalled, asked>>

-----------------------------------------------------------------------------
(* A stop. *)

BeginStop(p) ==
    /\ mode[p] = "up" /\ p \in MayStop
    /\ SlowPass \/ disp[p] = "idle"
    /\ mode' = [mode EXCEPT ![p] = "stopping"]
    /\ UNCHANGED <<rowVars, abandoned, failing, disp, lost, doomed, taskVars, histVars>>

(* The deadline is up, or nothing is in flight: the lease loop is aborted, *)
(* `active` drained and its tasks told to abort.                           *)
DrainActive(p) ==
    /\ mode[p] = "stopping"
    /\ mode' = [mode EXCEPT ![p] = "draining"]
    /\ active' = [active EXCEPT ![p] = [r \in Runs |-> NoToken]]
    /\ aborted' = aborted \cup {active[p][r] : r \in Entries(p)}
    /\ UNCHANGED <<rowVars, task, signalled, abandoned, failing, disp, lost, doomed, histVars>>

Released(p) == {r \in Runs : Owns(p, r) /\ Active(r) /\ r \notin abandoned[p]}

(* Its tasks gone, or ABORT_GRACE over: what it holds goes back, the lease *)
(* live or not.                                                            *)
ReleaseClaims(p) ==
    /\ mode[p] = "draining" /\ \A r \in Released(p) : Unlocked(r)
    /\ op' = [r \in Runs |-> IF r \in Released(p) /\ op[r] = "running" THEN "pending" ELSE op[r]]
    /\ status' = [r \in Runs |-> IF r \in Released(p) THEN "queued" ELSE status[r]]
    /\ Unclaims(Released(p))
    /\ left' = [r \in Runs |-> IF r \in Released(p) THEN -1 ELSE left[r]]
    /\ mode' = [mode EXCEPT ![p] = "released"]
    /\ UNCHANGED <<prio, abandoned, failing, disp, lost, doomed, taskVars, beaten, asked>>

(* The store refuses: no row goes back, the leases are left to run out, and *)
(* the senders are dropped all the same.                                   *)
ReleaseRefused(p) ==
    /\ "release" \in Faults
    /\ mode[p] = "draining"
    /\ mode' = [mode EXCEPT ![p] = "released"]
    /\ UNCHANGED <<rowVars, abandoned, failing, disp, lost, doomed, taskVars, histVars>>

-----------------------------------------------------------------------------
Outside == \E r \in Runs : \/ \E n \in Priorities : Submit(r, n) \/ SetPriority(r, n)
                           \/ \E p \in Procs : CancelQueued(p, r) \/ CancelSignal(p, r)

Dispatch(p) == \/ PassBegin(p) \/ PassEnd(p)
               \/ \E t \in Tokens : \/ Start(p, t)
                                   \/ \E r \in Runs : ClaimNext(p, r, t) \/ ClaimUnheard(p, r, t)

Execute(t) == \/ Begin(t) \/ OpStart(t) \/ SkipAll(t) \/ Notice(t)
              \/ \E s \in OpStatuses : OpEnd(t, s) \/ Drain(t, s)
              \/ Finish(t) \/ FinishUnheard(t)
              \/ ClaimLost(t) \/ AbortTakes(t)

Heartbeat(p) == BeatEnd(p) \/ \E renewed \in BOOLEAN : Beat(p, renewed)

Process(p) == \/ Boot(p) \/ BootEnd(p) \/ BeginStop(p) \/ DrainActive(p)
              \/ ReleaseClaims(p) \/ ReleaseRefused(p) \/ Exit(p)

Next == \/ Outside
        \/ Tick
        \/ \E p \in Procs : Dispatch(p) \/ Heartbeat(p) \/ Process(p)
        \/ \E t \in Tokens : Execute(t) \/ WriteRefused(t)

Spec == Init /\ [][Next]_vars

(* A deployed process is started and runs its loops (run_dispatcher,       *)
(* run_leases), tokio schedules its tasks, and time passes.  Nothing       *)
(* obliges a process to stop or to die, or anybody to submit, to cancel or *)
(* to change a priority.                                                   *)
Fairness ==
    /\ WF_vars(Tick)
    /\ \A p \in Procs : /\ WF_vars(Boot(p) \/ BootEnd(p))
                        /\ WF_vars(Dispatch(p)) /\ WF_vars(Heartbeat(p))
    /\ \A t \in Tokens : WF_vars(Execute(t))

FairSpec == Spec /\ Fairness

-----------------------------------------------------------------------------
(* What the queue promises. *)

TypeOK ==
    /\ status \in [Runs -> Statuses]
    /\ owner \in [Runs -> Procs \cup {NoProc}]
    /\ claim \in [Runs -> Tokens \cup {NoToken}]
    /\ left \in [Runs -> Int]
    /\ prio \in [Runs -> Int]
    /\ op \in [Runs -> OpStatuses]
    /\ task \in [Tokens -> Tasks \cup {NoTask}]
    /\ active \in [Procs -> [Runs -> Tokens \cup {NoToken}]]
    /\ abandoned \in [Procs -> SUBSET Runs]
    /\ failing \subseteq Procs
    /\ mode \in [Procs -> Modes]
    /\ disp \in [Procs -> {"idle", "pass", "starting"}]
    /\ lost \in [Procs -> SUBSET Runs]
    /\ doomed \in [Procs -> SUBSET Runs]
    /\ signalled \subseteq Tokens
    /\ aborted \subseteq Tokens
    /\ beaten \subseteq Procs
    /\ asked \subseteq Runs
    /\ starter \in [Runs -> Tokens \cup {NoToken}]

(* What the tokens, the rows and the tasks say of each other: the claim     *)
(* columns are set together, a run nobody created has none, the execution  *)
(* that wrote run_started is the one the row names, a task past that write *)
(* whose claim still stands has a started run, and one about to finish     *)
(* knows how.  The proofs rest on it.                                      *)
ClaimsAgree ==
    /\ \A r \in Runs :
         /\ owner[r] = NoProc <=> claim[r] = NoToken
         /\ status[r] = "absent" => owner[r] = NoProc
         /\ starter[r] # NoToken => starter[r] = claim[r]
    /\ \A t \in Tokens :
         /\ task[t].phase = "closing" => task[t].result \in Terminal
         /\ (task[t].phase \in {"open", "op", "draining", "closing"} /\ claim[task[t].run] = t)
               => status[task[t].run] # "queued" /\ starter[task[t].run] = t

(* However many processes claim, release, reclaim and die, the runs that   *)
(* are claimed and unfinished never exceed a concurrency limit (Limits).   *)
LimitsHold == \A l \in Limits : Cardinality(InFlight \cap l.over) <= l.max

(* A process never executes more runs at once than its slots.              *)
SlotsHold == \A p \in Procs : Cardinality(TasksOf(p) \ aborted) <= Slots

(* The run row and the op row agree: a finished run has no unfinished op,  *)
(* and a successful one no failed or canceled op, whoever wrote the two.   *)
RowsAgree == \A r \in Runs :
    /\ status[r] \in Terminal => op[r] \notin {"pending", "running"}
    /\ status[r] = "success" => op[r] \in {"success", "skipped"}

(* A run is recorded canceled only when somebody asked for it: being let   *)
(* go of, handed back or overtaken is not a cancel.  It holds as long as no *)
(* hand-back is refused.                                                   *)
CanceledOnlyIfAsked == \A r \in Runs : status[r] = "canceled" => r \in asked

(* No process keeps renewing a claim nobody executes: a live lease in the  *)
(* name of a serving process that has not given the run up has a task.     *)
RenewsOnlyWhatItExecutes == \A p \in Procs, r \in Runs :
    (/\ mode[p] = "up" /\ Owns(p, r) /\ Active(r) /\ ~Lapsed(p, r)
     /\ r \notin abandoned[p])
        => task[claim[r]] # NoTask

(* While a process beats on time, the lease of a run it is executing does  *)
(* not lapse under it.                                                     *)
LeaseKeptWhileExecuting == \A t \in Tokens :
    LET r == task[t].run
        p == task[t].proc
    IN  (InWrite(t) /\ mode[p] = "up" /\ claim[r] = t /\ Active(r)) => ~Lapsed(p, r)

(* A run back on the queue is what an unclaimed queued run is: its op is   *)
(* pending.                                                                *)
QueuedOpsPending == \A r \in Waiting : op[r] = "pending"

(* A terminal status is final: no late write, reclaim, release or boot     *)
(* sweep, of whatever process, moves it or leases the row again.           *)
TerminalIsFinal == [][\A r \in Runs : status[r] \in Terminal =>
                         status'[r] = status[r] /\ owner'[r] = owner[r]]_vars

(* Nothing but a fresh attempt's start moves an op off a terminal status.  *)
OpLeavesTerminalByStart == [][\A r \in Runs :
    (op[r] \notin {"pending", "running"} /\ op'[r] # op[r]) => op'[r] = "running"]_vars

(* Whatever is refused, a run becomes canceled because somebody asked, or  *)
(* in the hands of a process past its stop that could not give it back: a  *)
(* task that outlived the grace sees its sender dropped under a claim that *)
(* still stands.  Nobody else takes a lost entry, a lapsed lease or a      *)
(* release for a cancel.                                                   *)
CancelsAreAsked == [][\A r \in Runs : (status[r] # "canceled" /\ status'[r] = "canceled") =>
    r \in asked' \/ \E p \in Procs : Owns(p, r) /\ mode[p] = "released"]_vars

(* The execution that ends a run by succeeding or canceling is the one     *)
(* that started it, and no second execution starts before the first was    *)
(* given back.                                                             *)
OneExecution == [][\A r \in Runs :
    /\ (status[r] = "running" /\ status'[r] \in {"success", "canceled"})
          => starter[r] # NoToken /\ task[starter[r]].phase = "closing"
                                 /\ task'[starter[r]] = NoTask
    /\ (starter[r] # NoToken /\ starter'[r] # starter[r]) => starter'[r] = NoToken]_vars

(* A process told to stop claims nothing more.                             *)
StoppingClaimsNothing == [][\A p \in Procs, r \in Runs :
    (mode[p] \in {"stopping", "draining", "released"} /\ ~Owns(p, r)) => ~Owns(p, r)']_vars

(* As long as one process that defines the job stays up, every queued run  *)
(* ends, whatever happens to the others: a claimer that dies strands none, *)
(* and the room under a limit it held comes back.                          *)
QueueDrains == \A r \in Runs :
    (\E p \in Procs \ (MayStop \cup MayDie) : r \in Defined[p])
        => []<>(status[r] \in {"absent"} \cup Terminal)

(* The queue implements the life of a run: the holder of a run is the      *)
(* acquisition its unfinished row names.                                   *)
Holder == [r \in Runs |-> IF Active(r) THEN claim[r] ELSE NoToken]
Lifecycle == INSTANCE RunLifecycle WITH
    Holders <- Tokens, NoHolder <- NoToken, st <- status, holder <- Holder

(* Every step of every process maps to a step of that life, or to none.    *)
ImplementsLifecycle == Lifecycle!Spec
=============================================================================
