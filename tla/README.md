# hestan, modelled and proved

This directory holds TLA+ modules for hestan, an orchestrator: jobs are graphs
of ops, a run is one execution of a job, assets are what some ops build, and
several processes share one database (sqlite or postgres), through which they
hand runs to each other and elect the one that decides what to launch. The
modules are translated from the code under `src/src/`; where a comment or a doc
page and the code disagree the model follows the code, and the disagreement is
in *Findings*.

`PROJECT.json` says, definition by definition, which lines each one models,
which runs check which property, which plausible bug of the code (a mutant) each
property would catch, and, under `hazards`, where in the code what is hard to
test bites.

## 1. Inventory

| component | state it keeps | operations | talks to |
|---|---|---|---|
| run queue and claims (`store.rs`, `executor.rs`, `app.rs`) | the `runs` row: status, priority, `claimed_by`, `claimed_at`, `lease_until`; `op_runs` status; per process `active`, `abandoned`, the stop flag | submit, prioritise, claim, renew, lose, reclaim, boot sweep, cancel, release, every write of an execution | executor (a claim starts an execution, a lost claim drops it), server and cli (submit, cancel) |
| run executor (`executor.rs`, `graph.rs`) | `pending`, `statuses`, `collected`, `expanded`, the JoinSet, `failed`, `canceled` | sweep, skip, expand, spawn, join, drain, finish | op attempts (tasks), store (rows), I/O managers (values) |
| op attempts (`executor.rs`, `op.rs`, `backoff.rs`, `rate.rs`, `isolate.rs`) | attempt number, the child's process group, permits of pools | start, retry, time out, terminate, reap | the run's task (an `Outcome`), the child (its row) |
| decider lease (`decider.rs`, `store.rs`) | one row: holder, term, expiry; in each process a watch of its term | take, renew, lose, hand back, fence | schedules, sensors, policies, backfills: each launch carries the term |
| launches and run keys (`store.rs`, `executor.rs`) | run keys, build claims, the claim on a schedule's occurrence | create a run with its key, its claims and its tick in one transaction | run queue |
| schedules (`schedule.rs`) | cursor, pause flag, the tick log with the held fires; in the process the pass | catch up, hold, drain, sleep, fire, pause, resume | launches, decider |
| sensors (`sensor.rs`) | cursor, pause flag, run keys; in the process the evaluations under way | seed, read, call the closure, launch, commit; probe | launches, decider, assets |
| assets, staleness, policies (`asset.rs`, `policy.rs`, `freshness.rs`) | materializations with their fingerprints and lineage, build claims | probe, compute what is stale, plan a build, capture, materialize | launches, executor |
| backfills, partitions (`backfill.rs`, `partition.rs`) | a backfill's row: its keys, how many are launched, its runs | start, launch the next chunk, close, cancel | assets, launches, run queue |
| notifications (`delivery_store.rs`, `notification.rs`; `hooks.rs`, `notify.rs`) | routes, deliveries with lease, attempts and generation, destination leases | route, enqueue, claim, send, settle, recover, block, retry, dismiss | the end of a run |
| resume and replay (`executor.rs`) | the recorded ops of a chain of runs | what is reused, what runs again | executor |
| stop sequence (`stop.rs`, `app.rs`) | the stop flag, the drain deadline | stop admitting, drain, release | queue, decider |
| retention (`retention.rs`) | none of its own | delete old runs, their values, settled deliveries | store |
| server, cli, logs, metrics, secrets, resources, integrations | none a decision reads | parsing, rendering, I/O | all |

What is hard in it, and what makes each part correct:

* **Queue.** Several processes and several tasks of one process interleave with
  the writes of an execution they no longer own; clocks differ; a commit may
  land and its acknowledgement be lost; a process dies between two statements.
  Correct means: a terminal status is final; a run has one execution that may
  end it; a claim is renewed exactly while it is executed; limits hold; what a
  dead process held comes back; a run says `canceled` only if somebody asked.
* **Executor.** Skips are propagated before every dep has settled, fan-outs add
  ops to a running graph, a cap delays what is ready, and a cancel lands at any
  point. Correct means: what ran is what the trigger rules ask for; nothing is
  left behind by a finished run; statuses in memory and rows in the store agree;
  a fan-out is all or nothing; the loop ends.
* **Attempts.** A child records its own outcome in the row while its parent may
  be stopping it. Correct means: a recorded outcome stands unless a retry
  reopens it, a success above all.
* **Decider.** A process that lost the lease may still be in the middle of a
  launch, or of a whole pass. Correct means: no decision lands under a term that
  is over, each is made once, and somebody decides.
* **Schedules.** A pass reads, launches and records in statements of their own,
  on rows that another process, or a person, changes meanwhile. Correct means:
  no occurrence fires twice or under a pause that came before it, no fire lands
  beside the run its overlap policy says to wait for, what is held is drained.
* **Sensors.** Correct means: one run per key however often a request is
  repeated; a cursor moves past what was launched only.
* **Builds.** Probes, policies, people and the chunker plan from a table that
  builds rewrite while they plan. Correct means: what is called fresh is what
  its sources say; no key is built twice at once; a backfill is complete only
  when it is built, and comes to an end.
* **Deliveries.** At least once, within a budget that counts what nobody
  answered for, never two at a time to one destination, and what an operator
  does is done to the delivery that was on the screen.
* **Resume.** What is reused is a success whose value can still be read, and
  everything downstream of what runs again runs again.

## 2. The modules

| modules | what of the system | state |
|---|---|---|
| `RunQueue`; abstract `RunLifecycle`; `RunQueueProofs`, `RunnerProofs` | the rows of runs and the processes that share them; implements the life of a run | modelled, proved |
| `RunExecution`; `RunExecutionProofs` | one execution: graph, attempts, children, cancel | modelled, proved |
| `DeciderLease`; abstract `Terms` | the lease, the term watch, the fence; extended by the next two | modelled |
| `Schedules` (extends `DeciderLease`, implements `Terms`); `SchedulesProofs` | the scheduler's pass in every process | modelled, proved |
| `Sensors` (extends `DeciderLease`); `SensorsProofs` | the evaluation of a sensor in every process | modelled, proved |
| `Assets` | staleness, plans and policies, as operators | modelled |
| `Builds` (extends `Assets`); `BuildsProofs` | probes, policies, requests, backfills, and the runs that build | modelled, proved |
| `Delivery`; `DeliveryProofs` | durable notifications | modelled, proved |
| `Extremes` | lemmas on the `Max` and `Min` of finite sets of numbers, for the proofs | proved |
| `MC*` | instances of each for TLC | |

The pieces meet where one is the other's environment: `RunExecution` is what
happens between a claim and a release of `RunQueue`; the end of a run there is
`Finish` of `Delivery`, `Land` of `Sensors`, `RunEnds` of `Schedules` and
`Succeeds`, `Fails`, `IsCanceled` of `Builds`; the launches of `Schedules`,
`Sensors` and `Builds` are `Submit` of `RunQueue`, with the transaction around
it; the fence each deciding launch passes is `DeciderLease`'s in the first two,
and in `Builds`, where no property speaks of terms, a launch that may come to
nothing (`Die`). Instances stay within two processes: a third adds no new pair
of roles (who holds and who takes over, who decides and who still thinks so, who
sends and who recovers).

## 3. `RunQueue`: the queue and the processes that share it

**State.** Per run the columns of its row: `status`, `owner` (`claimed_by`),
`claim` (`claimed_at`), `left` (`lease_until` less the clock), `prio`, and `op`,
the run's ops followed as one row. Per process its memory: `active` (the
Runner's map, keyed by run id as in the code), `abandoned`, `mode` (from unborn
through boot, stop and release to dead), `disp` (where a dispatch pass is),
`failing`, and what a heartbeat has read and not yet acted on (`lost`,
`doomed`). Per acquisition `task`, the execution it started. History: `asked`
(somebody asked to cancel), `starter` (whose execution wrote `run_started`).

**Claims are tokens.** The code names an acquisition by the pair
(`claimed_by`, `claimed_at`) and every write of an execution checks the pair
(`ExecutionClaim::check`). A token stands for the pair; one is used again only
when nothing names it. Timestamps that collide are not modelled.

**Time is relative.** `left[r]` counts down by `Tick`, `Skew[p]` is how far the
clock of `p` is ahead, and a lease lapses for `p` when `left[r] < Skew[p]`. A
lease that never was and one that lapsed long ago are one value, as every reader
of the column treats them.

**Actions.** One per operation: `Submit`, `SetPriority`, `CancelQueued`,
`CancelSignal`, `Boot`/`BootEnd` (`fail_interrupted`; one statement in sqlite's
transaction, several under postgres' read committed: `TwoStep`), `PassBegin`,
`ClaimNext`, `ClaimUnheard`, `Start`, `PassEnd` (`dispatch`), the writes of an
execution (`Begin`, `OpStart`, `OpEnd`, `SkipAll`, `Drain`, `Finish`, each
guarded by the claim check), `ClaimLost`, `WriteRefused`, `FinishUnheard`,
`Beat`/`BeatEnd` (renew, reclaim, and later the letting go), `BeginStop`,
`DrainActive`, `ReleaseClaims`, `ReleaseRefused` (the rows stay as they are and
their claims wait out their leases; the senders are dropped all the same), `Exit`.

**Faults** is the set of what the store may do to us: refuse the writes of an
execution, of the lease loop, of a pass or of a stop, or land them and lose the
answer.

| run | question | bounds |
|---|---|---|
| `queue_fail` | rows, ops, claims and memory agree under loss, crash, stop and skewed clocks (`Reclaim::Fail`); refinement of `RunLifecycle` | 2 processes, 1 run, 2 tokens, 2 priorities, lease 1, one clock ahead; writes, heartbeats and hand-backs refused; either may die, one may stop |
| `queue_slots` | a process's slots, under refused claims, unheard answers and a stop; and no lease lapses under a live execution when every live process beats between two ticks | 2 processes, 2 runs, 2 tokens, one slot each, lease 2, one clock ahead, boot sweeps in steps |
| `queue_live` | the shared limit holds across crash and reclaim (`Reclaim::Requeue`); every queued run whose job a surviving process defines ends | 2 processes with disjoint jobs, 2 runs, a limit of one, one process may die |

Two processes are enough for every pair of roles (holder and reclaimer, holder
and booter, two claimers); a third only repeats one. One run suffices where the
property speaks of one row; limits, slots and liveness have two. Two tokens are
an acquisition and its successor; one is free again once nothing names it.
`CHECK_DEADLOCK FALSE` is set because the system may really stop: every process
may have exited. Symmetry is over tokens only; never in the liveness run.

**Fairness** (`queue_live` only): time passes; a deployed process boots and its
loops `run_dispatcher` and `run_leases` keep turning (they are `loop`s around an
interval, with nothing that ends them but a stop); tokio schedules a task that
can move. Nobody has to submit, cancel, stop or die. `QueueDrains` is written
`[]<>(status is absent or terminal)`, which for a run that never goes back to
absent and never leaves a terminal status is the leads-to from queued.

**`RunLifecycle`** is what a reader of a run may rely on: created once, held by
at most one acquisition, started and ended in the hands of its holder, never
moved after its end. `ImplementsLifecycle` is the refinement; the holder of a
run is the acquisition its *unfinished* row names.

## 4. `RunExecution`: one execution of a graph

**State.** A *unit* is what a row of `op_runs` is about: `<<o, <<>>>>` an op,
`<<m, p>>` the instance of mapped op `m` with labels `p`. `at` is where
`execute_in_span` is; `pending`, `ready`, `stat` (`statuses`), `val` (the length
of the array a unit produced, or `Scalar`: all a fan-out depends on), `row`
(`op_runs.status`), `task` (what each op's task does, or the `Outcome` it holds
out), `attempt`, `failed`, `canceled`, `verdict`, `asked` (the cancel watch).
History: `admitted`, `unkept`.

**Actions.** The run's task: `Open`, `OpenRefused`, `OpenCanceled`; the sweep
(`Decline`, `Admit`, `Expand`, `ExpandRefused`); `Pick`, `Spawn`, `Unreadable`,
`Spawned`; the wait (`SeeCancel`, `NothingLeft`, `JoinSuccess`, `JoinFailure`,
`JoinSkip`, `JoinKilled`); the drain (`DrainJoin`, `DrainEnds`); `Finish`. An
op's task: `OpStart`, `Produces`, `BodyFails`, `SkipsItself`, the isolated side
`ChildRecords`, `ChildExits`, `ChildUnread` (the wait for the child, or the read
of its row, errs), `ChildTold`, `ChildReaped`, `BackoffCanceled`, and `AbortTakes`. From outside: `Cancel`, `LetGo`.

**Abstractions.** The sweep is cut one unit at a time: the tasks beside it may
land meanwhile, but nothing they do is read before the next wait, so the cuts
add no behaviour of the rows. Which ready ops the cap leaves out follows the
graph's order in the code and is a free choice here. Waits for pools and rate
limits are part of `body`. A seeded op (`Reused`) is never a mapped one. A retry
goes through `backoff` and `op_started` again. `DrainEnds` waits for tasks that
only wait to be scheduled: `CANCEL_GRACE` is seconds. What a failure cuts off
(`CutOff`, `downstream_through`) is stated as the least set the walk leads out of
nowhere. `LetGo` is every write whose refusal ends the execution without a verdict,
and the abort of its task.

| run | question | graph and bounds |
|---|---|---|
| `exec_rules` | do early skips agree with the rules read at the end; is nothing left; what a verdict implies; are deps over when an op starts; who wrote a row, does it stay, does the run's task believe it | five ops, all three rules, two ops in children that may die, one of them with a timeout and not always heard of, retries, cap 2, cancel, outputs that cannot be stored, abandonment |
| `exec_fan` | all-or-nothing fan-outs, cap and ceiling; a canceled run ends although bodies and children never return, any other ends unless a body never returns | a fan-out in a fan-out over a reused array of 0 to 2, values lost and unreadable, resources that are not there, an endless child with a timeout and not always heard of, an endless body, cap 2, ceiling 3 |


Arrays of two are enough for "some but not all instances"; with a ceiling of
three the second level is what passes it, with instances of the first made.
`CHECK_DEADLOCK FALSE` in `exec_fan`, whose specification has no stutter at the
end: a finished execution takes no step.

**Fairness** (`exec_fan`): tokio schedules the run's task and the ops' tasks; an
abort lands where a task waits for tokio (`task[u] # "body"`: a body that never
awaits is never aborted); a parent that told its child to stop reaps it
(SIGTERM, grace, SIGKILL); a body not in `Endless` returns. No child has to die,
no wait or read to fail, nobody has to cancel. A run that is over never starts again, so
`[]<>(asked => ~Up)` is the leads-to from `asked`.

## 5. Who decides, and what: `DeciderLease`, `Schedules`, `Sensors`

### The lease

`holder`, `term`, `left` are the row `decider`; `mine[p]` is the watch of a
process (the term it believes it holds), `since[p]` how long ago it last moved
the lease. `Take`, `Renew`, `RenewErrs`, `HandBack`, `Die`, `Tick` are the turns
of `run_decider`, the end of `serve`, a kill and time. `FencePasses(p)` is what
the transaction of every launch checks: the row still names `p`, the term it
believes in, and the lease is not past by its clock. A process whose row was
taken goes on believing until its next turn; nothing but the fence stops it.
`DeciderLease` has no specification of its own: `Schedules` and `Sensors` extend
it and take its steps beside theirs. `MaxTerm` bounds how many acquisitions are
followed.

`Terms` is what a deployment may rely on: one term at a time, each the property
of the process that took it, only ever rising, and each decision made once, in
the term in force. `DecidedOnce` is `Schedules` implementing it, its decisions
the occurrences of schedules.

### `Schedules`

**State.** The tables: `cursor`, `paused`, `tick` (the last entry of
`schedule_ticks` for an occurrence; "deferred" is a held fire), `run` (the run an
occurrence launched) and `manual` (one nobody's schedule launched). Per process
the pass: `pc`, `now`, the `rows` it read at its beginning, the entries still to
catch up (`here`), the occurrences still to deal with (`todo`), the one in hand
and what was decided of it (`doing`), `tried`, `gone`. History: `pausedAt`,
`made` (the term an occurrence was fired in).

**Actions.** `Begin` (the rows are read once), `CatchUp`, `QueueFire`,
`CaughtUp` (the cursor moves over what was missed), `Drain`, `DrainNext`,
`NoteRunless`, `Launch` (one transaction: fence, run, tick, the claim on the
occurrence), `Sleep`, `Wake` (rows read again, or a new pass), `FireNext` (the
cursor moves *before* the launch, as `schedule.rs:667` does), `FireLook`,
`Fired`; around them `Come`, `Pause`, `Resume`, `Submit`, `RunEnds`,
`ManualEnds`, the lease's steps, `Stop`, `Crash`. Every read and every write of
the store is its own step, and anything else may come between two.

**Abstractions.** Time is a count of moments at which something is due; all
processes share the declarations. One scheduler per process. Pauses are followed
while the schedule has an occurrence to come, for one that comes later changes
nothing. `Faulty` bounds the terms and moments in which statements of the store
may fail.

| run | question | bounds |
|---|---|---|
| `sched_fires` | an occurrence is decided once, in the term in force; no fire of a term lands beside another run of its job; nothing that came due under a pause fires under it | 2 processes, 2 terms, lease 0 (it lapses between any two renewals), 2 moments; a job with one cron, pausable, or an asset with two; reads, writes and answers lost in the first term, at the last moment |
| `sched_live` | a held fire is launched or closed by whoever decides next; somebody decides | 2 processes, 2 terms, lease 1, 1 moment, a manual run in the way; the first may stop, or die at any point |

Two moments make an occurrence to be missed and one to wake for, two terms the
one that is over and its successor; a fault at the last moment of the first term
is one after which the second has everything to repair. In `sched_live` the
terms are bounded, so both properties say "or the bound is met" (`NoMoreTerms`).

**Fairness**: the scheduler's task runs; an up process tries to take or renew at
every turn of `run_decider`; time passes; runs end (what `QueueDrains` and
`RunEnds` are about).

### `Sensors`

**State.** `cursor`, `paused`, `keys` (`sensor_run_keys`), `launched` (how many
runs per key, 2 for "more"), `eval[p]` (the evaluation of each process: its step,
the cursor it read, the place it will commit, the requests left), `stamp` and
`landed` (when a run took its `finished_at`, and when its row was committed: two
moments), `seeded` (history: what a new cursor was set past).

**Actions.** `Turn`, `ReadCursor`, `Seed`, `Read` (a page), `Call`, `Ask`,
`Launch` (fence, run, key: one transaction), `Commit` (no fence, no order),
`Stamp`, `Land`, `Pause`, `Resume`, the lease's steps, `Crash`. An evaluation is
a task: it outlives the turn, and the term, it began in.

| run | question | bounds |
|---|---|---|
| `sensors_events` | one run per key; what the cursor passed was acted on | 2 processes, 2 terms, lease 0, 2 runs, pages of 1, both kinds of sensor; reads, writes, closures, renewals fail, launches commit unheard |

Two runs in pages of one are two evaluations whose commits can come in either
order. `Ordered` (TRUE here) says that runs land in the order of their stamps;
*Findings* says what happens without it.

## 6. `Assets`, `Builds`: what is stale, and who builds it

**`Assets`** has the pure part as functions of the table of materializations:
`Stale` (a node whose sources' fingerprints are not those it was made from, or
that reads a stale one), plans, and the plans of policies, over a graph of
*nodes* (an asset and a key; the mappings between partition sets are resolved).
They are recursive functions, not RECURSIVE operators.

**`Builds`. State.** `world` (the sources outside), `mats` (the newest
materialization of each node: its fingerprint and the fingerprints it was made
from), `run` (status, what it builds, whether it says so, what each op captured),
`bf` (rows of backfills), `ask[a]` (where each *asker* is: the loops `sensors`,
`policies` and the chunker, a request of the API, a click). History: `built`,
the keys that runs of each backfill materialized.

**Actions.** `See`/`ProbeWrites`/`ProbePass`, `PolicyPass`, `Request`,
`RequestKey`, `RequestAll`, `RequestWhole`; `Start`, `Create`, `Reread`, `Tick`,
`Judge`, `CancelReads`, `CancelAsks`, `CancelCloses`; `Launch` (the scan for
active builds of the same keys, and the row: one transaction), `Record`
(`backfill_launched`), `Die`; `Begin`, `Capture` (one input after the other),
`Build`, `Succeeds`, `Fails`, `IsCanceled`, `Prune`; `Move`. An asker reads,
decides and acts in steps of its own.

**Abstractions.** A backfill's range is the whole set or its stale keys. A node's
value is its fingerprint, and bodies are functions of what they captured (a body
that computes otherwise makes nothing stale). The row re-read and the plan of a
chunk are one step, as are judging and closing, and a probe's read and write of
the fingerprint it compares. An asker does one thing at a time: the two ticks of
a decider that overlap are not followed. A cron policy is a node that may be due.
A launch whose fence refuses it is a launch that comes to nothing (`Die`).
Windows past the end of a set, growing sets, assets made by one op, checks,
fingerprints given by hand and replays are left out. An ended run nobody asks
about leaves its slot. `Outside`/`MaxOutside` bound what may happen besides:
a failure, a death, a retention, a request by hand, a move of the source.
Requests are budgeted because an unending stream of them can starve a chunk for
ever, in the code as here. `Slow` says whether a tick may come between the row of
a start and its first chunk; it may (see *Findings*), and `builds` leaves it out
to ask what else holds.

| run | question | bounds |
|---|---|---|
| `builds` | what is called fresh is what its sources say; no key has two builders; a backfill is complete only when built, and ends; where all is built when stale, all comes to be fresh | a source, an asset of two keys, one that reads both; deployments of probes and policies, or of a chunker, an API and a UI; 2 runs at a time, 1 backfill in chunks of 1, one outside event of any kind |
| `builds_v_complete` | the second property where a start may be overtaken | the backfill's deployment, 3 runs, one failure |

Two keys are what a chunk and its successor need, and what an op that reads all
of an asset captures with something between. One event from outside, at any
point, is one step of somebody failing while everything else goes on.

**Fairness**: a loop loops, what was begun is gone on with, a run is worked on.
`BackfillEnds` is `[]<>(not running)`, since a backfill is never running twice.
`Converges` is `<>[]`: the bound on `Move` makes the sources stop.

## 7. `Delivery`: durable notifications

**State.** `run`, `routes` (`run_notification_routes`, fixed when the run is
created), `row` (`notification_deliveries`: state, cycle, attempts used,
generation, due, lease), `dest` (the lease and the next free moment of a
destination), `log` (`notification_attempts`), `sends` (in the memory of their
process), `got` (history: what the remote end accepted), `view` (the row an
operator has on the screen).

**Actions.** `Create`, `Finish` (deliveries appear in the transaction that ends
the run), `Lapse`, `Block`, `Unblock` (`reconcile_deliveries`), `Claim`,
`ClaimUnheard`, `Drop` (the pass or its process ends with sends in flight),
`Accept`, `Answer`, `SettleAnswered`, `SettleRetry`, `Unsettled`, `View`,
`Retry`, `Dismiss`, `Prune`, `Tick`. Any process may make passes: the one that
decides, one whose term ended under it, a headless run. Which process decides is
not followed here. An error that names a delay closes its destination for as
long, a permanent one too.

A send is claimed with a lease on the row and one on the destination, made
outside the store, and settled only by the token (delivery, attempt) it was
claimed with. The remote end may accept what its sender never hears of.

| run | question | bounds |
|---|---|---|
| `delivery_sends` | sends that keep their timeout never overlap at a destination; a budget counts what nobody answered for; the record never contradicts the remote end | 2 processes, one of which does not know the destination, 2 runs to it, 2 attempts, timeout 1, lease 2, spacing 1 |
| `delivery_ends` | an operator only changes what was seen; what is owed comes to an end if those who decide know its destination | 2 processes, one of which does not, 1 delivery through 2 cycles, spacing 1, an operator who acts late |

`MaxGen` bounds how often registries that disagree may block and unblock a
delivery, `MaxSends` the attempts a new cycle may bring it to: each is an
operator's or a deployment's doing, without end if they want it.

**Fairness** (`delivery_ends`): time passes; a sender is polled (it has a
timeout), its answer acknowledged or given up. No process is obliged to make
passes: only the one that decides does (`run_delivery`, once a second), and the
lease may go to any. So `OwedIsSettled` has a premise, `DeciderKnows`: passes go
on being made by processes that know the destination, one for ever or several by
turns. The others may make passes between those, and block what the others
unblocked. Where the process that holds the lease does not know a destination, a
delivery to it may stay blocked for as long, as the code means it to; without the
premise TLC shows the property violated so.

## 8. What is proved

Every theorem holds for all values of the constants its module assumes: any
number of processes, runs, destinations, keys, any clocks, any faults. The bounds
that are constants of the models (`MaxTerm`, `Horizon`, `MaxCycles`, `Slots`...)
are arbitrary in them too.

### `RunQueueProofs`

| theorem | says |
|---|---|
| `TypeCorrect` | `Spec => []TypeOK` |
| `ClaimsAgreeAlways` | the claim columns, the start and the tasks agree |
| `TerminalStaysFinal` | no step of anybody moves a finished run or its name |
| `OneExecutionAtATime` | success and cancel come only from the execution that started the run, and a second one starts only after the run was given back |
| `LimitsAlwaysHold` | no concurrency limit is ever exceeded |
| `QueueImplementsLifecycle` | `Spec => Lifecycle!Spec` |

**Argument.** `TypeOK` alone is not inductive (`Finish` writes the result its
task carries: a task about to finish must know one), and `TerminalIsFinal` is
not a consequence of types: `Finish` by an execution whose run was reclaimed
must be excluded. `ClaimsAgree` is the strengthening: owner and claim are set
together; the execution that wrote `run_started` is the one the row names; a
task past that write whose claim still stands has a started run. `IInv ==
TypeOK /\ ClaimsAgree` is inductive (`InitIInv`, `StepIInv`). `StepMovesRows`
then shows that every step of every actor does one of eight things to a row
(leaves it, creates it, takes it, begins it, ends it, withdraws it, hands it
back, gives it up), from which finality, the single execution and the
refinement follow by cases; each of the eight is an action of `RunLifecycle` or
a stutter. `LimitsAlwaysHold` adds that the in-flight set is finite: a step
takes at most one run, only one that is not blocked, and each other change only
shrinks the set.

The only assumption is `RunQueueAssumption`: the NULLs are not members, leases,
limits and slots are numbers, a limit is over runs. It does not assume the sets
finite; `LimitsHold` is proved because `InFlight` starts empty.

### `RunnerProofs`

| theorem | says | given |
|---|---|---|
| `OpsLeaveTerminalByStart` | `OpLeavesTerminalByStart` | nothing |
| `RowsAlwaysAgree` | `RowsAgree` | `TwoStep = FALSE` |
| `MemoryAgrees` | the invariant below | `Regular` |
| `CancelsWereAsked` | `CancelsAreAsked`: a run is recorded `canceled` when somebody asked, or by a task of a process past its stop | `Regular` |
| `CanceledMeansAsked` | `CanceledOnlyIfAsked` | `Regular`, no `"release"` in `Faults` |
| `RenewsWhatItExecutes` | `RenewsOnlyWhatItExecutes` | `Regular`, no `"ack"` in `Faults` |
| `SlotsAlwaysHold` | `SlotsHold` | `Regular` |
| `NobodyTakesWhatRuns` | no clock finds the lease of a run lapsed that a serving process executes | `OnTime` |
| `LeasesAreKept` | `LeaseKeptWhileExecuting` | `OnTime` |

`Regular` is `Policy = "Fail" /\ SlowPass = FALSE`: a run whose lease lapses is
failed, and a stop begins between two dispatch passes. `OnTime` adds that every
live process beats between two ticks, that no renewal is refused, and that a
lease is longer than any two clocks are apart. *Findings* has what happens
without them: `RowsAgree` fails without `TwoStep = FALSE`, `CanceledOnlyIfAsked`
and `SlotsHold` without either part of `Regular`, `CanceledOnlyIfAsked` when a
hand-back is refused too, `CancelsAreAsked` and `LeaseKeptWhileExecuting`
when a lapsed run is queued again, `RenewsOnlyWhatItExecutes` when an answer is
lost, and a heartbeat that is late or refused lets a lease lapse. `MemoryInv` is
false without either part of `Regular`; for `CancelsWereAsked`,
`RenewsWhatItExecutes` and `LeasesAreKept` that a stop waits for the pass is a
condition for that reason only (TLC finds no violation of what they say without
it), and the distance of the clocks is one of `NobodyTakesWhatRuns`, which
`LeasesAreKept` inherits.

**Rows.** `RowsAgree` says nothing of runs under way, so a step could end one
with its op unfinished. `RowInv` adds what a task knows: one in its body whose
claim stands has a running op, one about to finish an op that ended, and ended
well if the task is to record success; a run not started has no running op.

**Memory.** What the Runner remembers is keyed by run id, and what it decides by
it is right only if the entry it finds is of the execution it thinks of.
`MemoryInv` says when that is so. `TasksLive`: the run of a task is in its
process's name until the process hands it back. From it, since a row in
somebody's name cannot be claimed, `Unique` (a process has one task for a run),
and from that `EntriesOk` (an entry taken out by run id is the task's own) and
`Entered` (a task without an entry was told to abort). `LostOk` carries what a
heartbeat has read over the gap in which the rows move, so that `AbortedOk` holds:
who is told to abort by a process that still serves has lost its claim already.
`AbandonedOk` keeps what was given up from being claimed by the same process
again, the case in which its id would still be in the set. `SignalledOk`, `Names`,
`Dispatching` and `BootClean` tie signals, tokens, passes and unborn processes to
the rest. `CancelsAsked` is what the cancel needs: a task that sees its sender
dropped was aborted, so its claim is gone, so it can no longer record `canceled`;
or its process is past its stop, and its hand-back, whose claims stand when it was
refused, dropped the sender.
The step lemmas say, per piece of memory, what any step of anybody can do to it
(`StepHands`, `StepModes`, `StepDisp`, `StepTasks`, `StepEntries`, `StepAborted`,
`StepLost`, `StepGivesUp`, `StepSignals`); the twelve parts are then shown kept
from these alone.

**Slots.** Between two starts the entries a process counts are in bijection with
the tasks it executes (`EntriesCount`), so a claim made with a slot to spare
leaves it within its slots.

**Lease.** `LeaseInv`: nothing is ever found lost, and the lease of an executed
run is past every clock, by a tick more when its process has beaten since the
last one. A tick uses the margin up, a beat restores it, and a claim starts with
it.

### `RunExecutionProofs`

For every finite acyclic graph of ops, any trigger rules, retries, fan-outs over
fan-outs, arrays up to any `MaxFan`, any cap and ceiling, any faults and a cancel
at any moment, under `RunExecutionAssumption`:

| theorem | says |
|---|---|
| `TypeCorrect` | `Spec => []TypeOK` |
| `StatusesAreTheRows` | `StatusesAgreeWithRows`: what the run's task holds of a unit is what its row says, but for an instance whose stored value cannot be read back and a child that was not heard of |
| `OutcomesAreKept` | `OutcomeIsKept`: only a retry of an isolated op moves a row that says how an op ended, while attempts are left, and only a failed one or that of a child that was not heard of |
| `BoundsAlwaysHold` | at most `Cap` ops in flight, at most `Ceiling` instances made |
| `FanOutsAreAllOrNothing` | a mapped op succeeds with all its instances, stops with the first that stops, and feeds whole arrays only |
| `EveryOpAccounted` | `Spec => []Account` (and what the two above rest on): the invariant of the next four |
| `NoOpIsLeft` | `NoOpLeft`, given that stored outputs can be read back (no `"get"` in `Faults`) |
| `VerdictsTell` | `VerdictTells`: no condition |
| `RulesAreObeyed` | `RulesObeyed`, given `SeedsClosed` and neither `"get"` nor `"open"` in `Faults` |
| `DepsAreDone` | `DepsDone`, given that only ops that need every dep to succeed wait for a fan-out |

**Unheard.** The exceptions of the two are the code's. A child writes its outcome
in its own row, and its parent takes the attempt for a failed one when its timeout
stopped the child (`Timeouts`), or when the wait for the child or the read of its
row errs (`Unread`: `isolate.rs:241`, `isolate.rs:256`), whatever the row says;
*Findings* has what becomes of a recorded success. The invariant is stated op by
op: for an op that is in neither set both say what they say without exception.

**The hypotheses.** An output that cannot be read back (`"get"`) fails an op
without a task, and the loop may break with ops pending; an op released by the
first stopped instance of a fan-out starts beside the other instances: both are in
*Findings*. A run whose resources are not there (`"open"`) runs no op, so no rule is
asked. `SeedsClosed` says that what is handed to a run was worked out of what is
handed to it too: a resume reuses the successes of an earlier run and everything
below what runs again runs again, but a replay seeds the deps of what it was asked
for and nothing above them; *Findings* has what comes of it. `exec_rules` meets all
of them.

**Argument.** What a status says agrees with the row only because of what the
row says while the op's task is *on the way* to that status: a task that holds
out a success has written it (`recorded`) or is about to have it written over a
running row (`produced`). `Fits` says so for each place a task can be in,
`Blank`/`WaitsBlank`/`MappedBlank` that a unit that waits, or an instance not yet
made, has left no trace, `SettledRests` that a settled unit has no task left,
`OnlyCanceledDrains` that a run whose loop ended has nothing in flight unless it
was canceled. `IInv`, their conjunction with `TypeOK` over all units, is
inductive (`InitIInv`, `StepIInv`), and TLC agrees on every instance. On top of
it, `StepShrinks` sorts the steps once: all but `Admit`, `Expand`, `Pick` and
`Spawn` add nothing to what is on its way. `BoundsAlwaysHold` needs that `Pick`
leaves room for what it selects (in flight and ready together within the cap
while spawning) and that every expansion is finite. `FanOutsAreAllOrNothing`
needs that a settled status never changes (`StatStays`), hence that a rule that
let a unit in goes on saying yes (`LetInStays`), that instances appear with
their op's expansion only, and that the last of them collects its op.

For the last four every op has to be found somewhere. `Account` says where: what
is ready is ready only between a sweep and its spawns (`OnlySpawnReady`); what is on
its way was admitted (`RootsAdmitted`), under its rule, and only what was admitted
succeeds (`RuledIn`); while the loop runs an op has settled, waits, or was admitted,
and what was admitted and has not settled is ready, in flight, back in `pending`
because of the cap, or a fan-out with an instance of which that holds (`Accounted`);
a row is open only where the run still holds the unit (`RowsClosed`); and whatever
waits, something is in flight that will wake the loop (`Progresses`). The last is
where the graph counts: if nothing is in flight and something waits, the waiting
ops have one that waits for no other of them (`Acyclic`, as `MinimalOp`), all its
deps have settled, and the sweep would have gone on (`SweepFindsWork`).

`Acyclic` is stated of sets of ops and `CutOff` as the least set the walk leads out
of nowhere, so neither needs an induction: `WalkCloses` and `WalkReaches` say that
everything in it has a dep in it or is next to the root, which is why each op that a
skip is propagated to has a dep that stopped (`CutTurnsDown`), so that its rule says
no whatever its other deps come to (`TurnedDown`, which no later step takes back).
`Verdicts` ties the run's own flags to rows and statuses, through the one gap there
is: the row of a child that failed with an attempt left.

### `SchedulesProofs`

| theorem | says |
|---|---|
| `Invariant` | the inductive invariant below |
| `SchedulerImplementsTerms` | `DecidedOnce`: the scheduler refines `Terms` |
| `PauseIsKept` | `PausedNeverFires` |
| `TermsDoNotOverlapThemselves` | `OneRunPerTerm` |

**Argument.** What makes a fire safe was read in earlier statements than the one
that makes it. `Inv` says of each thing a process holds on to why it is still
good, where an occurrence is *free* when it is due and under no pause that began
before it was: `HeldFree` (what is held is free), `PassSound` (what a pass has in
hand is free, unless the rows it read already say paused), `Unmade` (an
occurrence without a run was made in no term, so a launch is the first),
`Believed` (nobody believes in a term to come), `Clear` (a launch decided on in
the term in force finds its job as idle as when it was looked at: within a term
only its holder launches, and a scheduler does one thing at a time). `Clear` is
why the property is about a term: across two, the look and the launch may be of
different deciders.

### `SensorsProofs`

| theorem | says |
|---|---|
| `OneRunPerKeyAlways` | one run per key: no condition |
| `OrderedRunsAreNotLost` | given `Ordered`, the cursor of a run-status sensor passes nothing it did not act on |

**Argument.** Keys and launches are written in one transaction (`KeysTaken`: at
most one run per key, and what was launched has its key), so the first needs
little. The second needs that all the cursor has passed was seen to
(`Past(cursor)`) and, for each evaluation, that what lies before the place it will
commit was seen to or is still in its hands (`Sound(eval[p])`). Neither would
survive a run that lands behind them: `Reached` says that no place a cursor or an
evaluation names is past the last run that landed, and in order nothing lands
before that. `At` orders runs by stamp, then number; `Extremes` has what `Max` and
`Min` of finite sets return.

### `BuildsProofs`

| theorem | says |
|---|---|
| `WhatIsFreshIsRight` | `FreshIsRight`: no condition |
| `BuildersApart` | `OneBuilder`: no condition |
| `BackfillsAgree` | `Spec => []Inv`, given `Slow = FALSE` and `OneChunker` |
| `BackfillCompletes` | `CompleteMeansBuilt`, given the same |
| `BackfillInOrder` | `ChunksInOrder` (a chunk is out only when every key before it has been built), given the same |

**What is fresh.** `Recorded` is all a run has to keep: what a node holds is what its
body makes of what it says it read (`Honest`), since `Build` writes both of what it
captured, and a probe writes sources only. The rest is about one table
(`RecordedIsRight`). `Stale` and what is right are recursive functions over the
nodes; that they exist is shown without an induction over data: for any set of
nodes one reads none of the others (`FirstNode`, from `AcyclicAssets`), so two
tables of values agree where they meet (`ValuedAgree`), what all nodes that have
one have together is one, and a first node without would complete it
(`ValuedExists`); staleness is the least set that spreads from what moved
(`StaledExists`). Then the first node that is fresh and not right was computed of
inputs that are fresh, hence right, and unmoved.

**The two hypotheses.** `Slow = FALSE`: no tick comes between the row of a start
and its first chunk; `builds_v_complete` shows what happens when one does.
`OneChunker`: one asker of the deployment ticks, which is what the deciding lease
is for. Both are needed by the argument, which is that a row in somebody's hand
is *current* unless somebody else was given the right to move it.

**Argument.** `BuildersApart` is by the transaction of `Launch`: the scan and the
row are one, so two active bounded runs that meet would have met in it; every
other step starts no run (`Table`, `Changes`, `Same` sort the steps once). For the
other three `Inv` is `Shaped` (types), `Apart` (no two askers are about to act on
rows of one backfill), `RunOk` (of the keys a chunk reaches to, each is built or
the run is to build it, all before the chunk are built, and all are when it
succeeded), `BfOk` (a backfill names its last run and how far that reaches, and a
complete one is built), `AskOk` (a row somebody is about to act on is as the table
has it, and what is about to be launched or recorded is the chunk that follows).
The proof sorts the forty-odd steps by what they do to the table and to what
askers hold, and shows that each sort keeps each part.

### `DeliveryProofs`

| theorem | says |
|---|---|
| `Invariant` | the inductive invariant below |
| `DestinationsTakeOne` | `OneAtATime` |
| `AttemptsAreCounted` | `BudgetKept` |
| `RecordsAreTrue` | `RecordsTrue` |
| `OperatorActsOnWhatIsThere` | `OperatorSawIt` |

**Argument.** `Inv` is `Typed`, `Logged` (a row in flight has an attempt), `Begun`
(nothing is recorded of a delivery whose run has not ended), `Known` (what was
sent, or accepted, is an attempt of the log), `Single` (one send per token), `Open`
(a send's attempt is not settled, and its answer is what the remote end did),
`Records` (a settled attempt says what the remote end did), `InTime` (while a send
keeps its timeout, row and destination are claimed by its token, with a lease that
has run no longer than the send), `Seen` (the screen's generation is not ahead of
the row's, and at the same one the row is what is on the screen) and `Budget` (the
log holds no more attempts of the current cycle than the row counts). The
inequality that carries `OneAtATime` is the assumption `Lease > Timeout`, as the
code computes it.

### Only model-checked

* **Liveness** (`QueueDrains`, `CancelEnds`, `RunEnds`, `HeldFiresDrain`,
  `SomebodyDecides`, `OwedIsSettled`, `BackfillEnds`, `Converges`): liveness under
  fairness, and ENABLED, are outside the prover's reach.
* Every invariant and action property a run checks is proved. The ones
  `RunnerProofs` proves under conditions are checked by the runs
  under constants that meet them; `SlotsHold` and `LeaseKeptWhileExecuting` with
  answers lost and boot sweeps in steps, on which neither proof depends.

## 9. Findings

One `violation` run: TLC finds a sentence of the repository broken by what the
code does.

| run | what happens |
|---|---|
| `builds_v_complete` | `start` reads its backfill's row back and launches from it (`backfill.rs:66`); a tick that comes between launched from it too. The second chunk is then out beside the first, which nobody looks at again, and a backfill is complete with a chunk queued, failed or canceled; `model.rs:1439` says of `Complete` that every partition it was asked for has been built |

The same models show more, without a run of their own. To see one, take the
configuration named, change what the second column says and check the property:

| property | instance | what happens |
|---|---|---|
| `CanceledOnlyIfAsked` | `MCRunQueue_fail` | the hand-back of a stop is refused (`executor.rs:1818`) and the cancel senders are dropped all the same (`executor.rs:1832`): a task that outlived the abort's grace, its claim still standing, takes that for a cancel and records `canceled`, against which the senders are held till then (`executor.rs:1826`) |
| `CancelsAreAsked` | `MCRunQueue_fail` with `Policy = "Requeue"` | a process takes back its own lapsed run; the older execution gives up and drops, by run id, the entry of the newer one, which sees its sender gone and records `canceled` |
| `CanceledOnlyIfAsked` | `MCRunQueue_slots` with `SlowPass = TRUE` | a stopped process hands a run back and its pass, still in its loop, claims it again; the first task, aborted and not yet gone, finds its claim lost and drops the second's entry |
| `SlotsHold` | `MCRunQueue_slots` with `SlowPass = TRUE`, or with `Policy = "Requeue"`, `Faults = {"write"}` | a run goes back on the queue while its task is still there, a cancel takes the entry out (`CancelQueued` clears it by run id), and the process counts one fewer than it executes |
| `RenewsOnlyWhatItExecutes` | `MCRunQueue_fail` with `"ack"` in `Faults` | a claim that landed unheard is renewed for ever and executed never |
| `LeaseKeptWhileExecuting` | `MCRunQueue_slots` with `Policy = "Requeue"`, `Faults = {"write"}` | a run abandoned and claimed again by the same process is still in `abandoned` (`executor.rs:1852`), so its lease is not renewed |
| `QueuedOpsPending` | `MCRunQueue_fail` | a run handed back at a stop keeps the terminal ops of the interrupted attempt (`store.rs:3339`) |
| `StoppingClaimsNothing` | `MCRunQueue_slots` with `SlowPass = TRUE` | a pass already inside its loop when the stop begins claims another run (`executor.rs:1603`) |
| `RowsAgree` | `MCRunQueue_fail` with `TwoStep = TRUE` | between the statements of a boot sweep on postgres a renewal lands: the ops are failed and the run goes on (`store.rs:2496`) |
| `RulesObeyed` | `MCRunExecution_rules` with the `Replay` graph, `Reused = {"load"}`, `Isolated`, `Timeouts` and `Unread` empty | `skip_downstream` passes through an op whose output was handed to the run (`executor.rs:5001`): a replay of `fetch`, `log` and `report`, with `load` between them recorded, skips `report` when `fetch` does not succeed, although `load` and `log` did; `executor.rs:3035` has what is seeded stand in for a run that worked, `docs/replay.md:21` has a replay execute exactly the selected ops |
| `NoOpLeft` | `MCRunExecution_fan` (under `Spec`) | an op whose input cannot be read fails without a task; with nothing in flight the loop breaks with ops still pending |
| `SuccessIsKept` | `MCRunExecution_rules`, with `Timeouts` or with `Unread` alone | a child that records success while its timeout is stopping it, or whose parent then fails to wait for it or to read its row (`isolate.rs:243`, `isolate.rs:257`), counts as failed: `isolate.rs:250` has what was written be what happened; the op is failed over a row that says success, or a retry overwrites it |
| `DepsDone` | `MCRunExecution_fan` (under `Spec`) | a mapped op counts as settled from its first stopped instance (`executor.rs:4434`): a cleanup op starts while siblings run |
| `CancelHeard` | `MCRunExecution_rules` | a cancel after the last join is answered *requested* and the run succeeds (`executor.rs:3449`) |
| `SuccessRemembers` | `MCRunExecution_rules` | a child that cannot commit its watermark leaves a success row, all its parent reads (`isolate.rs:603`) |
| `RefusedFireLeftToCatchUp` | `MCSchedules_fires` | the cursor moves over an occurrence before its launch (`schedule.rs:667`); a launch the fence refuses is then nobody's, where the comment at `schedule.rs:824` leaves it to the new decider's catch-up |
| `NoEventLost` | `MCSensors_events` with `Ordered = FALSE` | a run takes its `finished_at` (`executor.rs:3986`), another lands with a later one, the cursor passes it, and the first lands behind it (`sensor.rs:980` says it may repeat an event and never lose one) |

Met while reading, and not in a model: an exhausted schedule drops its held fire,
whatever `Overlap::Queue` promises; an occurrence that comes due inside a pass is
treated as missed; a decider whose renewals err goes on believing until a whole
lease has passed since the last that did not, by which time the row may be
another's; `fail_interrupted` writes terminal rows without the notice that `run_finished`
owes; `delivery_failed` asks for no state of the row; an error in claiming drops
the sends a delivery pass already has under way; unblocking forgets the backoff
and the delay a destination asked for; a backfill tick that read the row before a
cancel sends another chunk after it (`backfill.rs:84`); the check that an asset
has one backfill at a time is not in the transaction that creates the row; a crash
between a chunk's launch and its record launches it again; a build that does not
say what it builds takes no scan, and can run beside one that does;
`docs/assets.md:544` has lineage read at the moment it is recorded, where
`capture_inputs` reads it before the body; retention reads what is held before it
decides what to delete.

## 10. Not modelled, and why, and what is left

Left out for good: HTTP, UI and CLI parsing and rendering, logs, metrics and
tracing (no decision reads them), secrets, resources and I/O managers (pure I/O:
their failures are the `Faults` of `RunExecution`), adapters to other programs,
and the builders that validate a registry (what they guarantee is the assumption
on the constants). Within the modelled parts: timestamps that collide, the
transport of a value (only its length matters), the wording of errors,
notifications and log lines that accompany a write, and two executions of one
run in one graph model (the queue decides who may write; `RunExecution` is what
one of them does).

What a later step would add, in this order: `Resume` (what a resume reuses along
a chain of runs, as functions against a reference definition: the constant
`Reused` of `RunExecution`); the choice of rows in the retention sweep beside the
end of a run; launch keys of API clients; the older callback hooks; growing
partition sets and windows.
