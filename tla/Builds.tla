------------------------------- MODULE Builds -------------------------------
(***************************************************************************)
(* Builds of assets: the runs that materialize them, everything that asks  *)
(* for one (probes, policies, requests, backfills) and the backfills that  *)
(* ask for a range chunk by chunk, over one table of materializations.     *)
(*                                                                         *)
(* An asker is a task of some process (a deciding loop, a request handler).*)
(* It reads, decides on what it read, and acts: one step here for each     *)
(* transaction, with anybody else's in between.                            *)
(***************************************************************************)
EXTENDS Assets, Sequences

CONSTANTS
    Values,     \* what the fingerprints of sources and outputs stand for
    Compute,    \* the body of each node, a function of what it read
    Askers,     \* tasks that ask for builds
    Deployments,\* which of them there may be at once
    Does,       \* what each does: "probe", "policy", "build", "start", "tick", "cancel"
    Outset,     \* what each source is at first
    Slots,      \* bound: the runs that exist at once
    NoRun,
    Backfills,  \* bound: how many are started, 1..n
    Filled,     \* the asset they fill
    Outside,    \* what may happen besides: see Costs
    MaxOutside, \* bound: how often
    Slow        \* whether start can be overtaken between its row and its chunk

ASSUME BuildsAssumption ==
    /\ Values \subseteq Nat /\ Outset \in [Sources -> Values]
    /\ Does \in [Askers -> SUBSET {"probe", "policy", "build", "start", "tick", "cancel"}]
    /\ Deployments \subseteq SUBSET Askers
    /\ NoRun \notin Slots
    /\ IsFiniteSet(Backfills) /\ Backfills = 1..Cardinality(Backfills) /\ Filled \in Partitioned
    /\ MaxOutside \in Nat /\ Slow \in BOOLEAN

VARIABLES
    up,         \* the askers of this deployment
    world,      \* what each source is now, outside
    mats,       \* asset_materializations, the newest of each node
    run,        \* runs of the assets job
    bf,         \* backfills
    ask,        \* where each asker is
    events,     \* how much of Outside has happened
    built       \* history: the keys that runs of each backfill materialized

vars == <<up, world, mats, run, bf, ask, events, built>>

Derived == {n \in Nodes : n[1] \in Assets}
Prints == Values \cup {None}
Unbuilt == [fp |-> None, ins |-> <<>>]

(* A run: what it builds, whether it says so, what each op captured of its *)
(* inputs, which chunk of which backfill it is.  Of one that ended only how*)
(* it ended matters.                                                       *)
Absent == [status |-> "absent", builds |-> {}, bounded |-> TRUE, took |-> <<>>, done |-> {},
           asked |-> FALSE, b |-> 0, upto |-> 0]
Over(r, status) == [Absent EXCEPT !.status = status, !.b = run[r].b, !.upto = run[r].upto]
Active(r) == run[r].status \in {"queued", "running"}
Ended == {"success", "failed", "canceled", "gone"}

Unmade == [status |-> "unmade", keys |-> <<>>, launched |-> 0, last |-> NoRun]

(* The row of a backfill as an asker read it. *)
RowOf(b) == [b |-> b, launched |-> bf[b].launched, last |-> bf[b].last]

Idle == [step |-> "idle", seen |-> <<>>, plan |-> {}, bounded |-> TRUE,
         rows |-> <<>>, run |-> NoRun]
Steps == {"idle", "write", "pass", "create", "reread", "row", "launch", "record", "ask", "close"}

(* A run the store is still asked about: the last of a backfill, now or as *)
(* an asker read it, or one just launched.                                 *)
Named(r) ==
    \/ \E b \in Backfills : bf[b].last = r
    \/ \E a \in Askers : ask[a].run = r \/ \E i \in DOMAIN ask[a].rows : ask[a].rows[i].last = r

(* An ended run nobody asks about leaves its slot. *)
Keeps(runs) == run' = [r \in Slots |-> IF runs[r].status \in Ended /\ ~Named(r)' THEN Absent ELSE runs[r]]

TypeOK ==
    /\ up \in Deployments
    /\ world \in [Sources -> Values]
    /\ \A n \in Nodes : mats[n].fp \in Prints /\ (mats[n].fp # None => DOMAIN mats[n].ins = Reads[n])
    /\ \A r \in Slots :
         /\ run[r].status \in {"absent", "queued", "running"} \cup Ended
         /\ run[r].done \subseteq run[r].builds /\ run[r].builds \subseteq Derived
    /\ \A b \in Backfills :
         /\ bf[b].status \in {"unmade", "running", "complete", "failed", "canceled"}
         /\ bf[b].launched \in 0..Len(bf[b].keys) /\ bf[b].last \in Slots \cup {NoRun}
    /\ \A a \in Askers : ask[a].step \in Steps /\ ask[a].plan \subseteq Derived
    /\ events \in 0..MaxOutside

Init ==
    /\ up \in Deployments
    /\ world = Outset
    /\ mats = [n \in Nodes |-> Unbuilt]
    /\ run = [r \in Slots |-> Absent]
    /\ bf = [b \in Backfills |-> Unmade]
    /\ ask = [a \in Askers |-> Idle]
    /\ events = 0
    /\ built = [b \in Backfills |-> {}]

(* Something of the outside happens. *)
Costs(what) == what \in Outside /\ events < MaxOutside /\ events' = events + 1

Free(a, what) == ask[a].step = "idle" /\ what \in Does[a]
Becomes(a, rec) == ask' = [ask EXCEPT ![a] = rec]
AsksFor(a, plan, bounded) ==
    Becomes(a, [Idle EXCEPT !.step = "launch", !.plan = plan, !.bounded = bounded])

-----------------------------------------------------------------------------
(* Sources and probes. *)

(* A source changes, outside. *)
Move(s) ==
    /\ Costs("move")
    /\ \E v \in Values \ {world[s]} : world' = [world EXCEPT ![s] = v]
    /\ UNCHANGED <<mats, run, bf, ask, built>>

(* A probe looks... *)
See(a, s) ==
    /\ Free(a, "probe")
    /\ Becomes(a, [Idle EXCEPT !.step = "write", !.seen = <<s, world[s]>>])
    /\ UNCHANGED <<world, mats, run, bf, events, built>>

(* ...and what it saw is written if it is not what the store holds.        *)
ProbeWrites(a) ==
    LET n == <<ask[a].seen[1], 1>>  fp == ask[a].seen[2] IN
    /\ ask[a].step = "write"
    /\ mats' = IF mats[n].fp = fp THEN mats ELSE [mats EXCEPT ![n] = [fp |-> fp, ins |-> <<>>]]
    /\ Becomes(a, [ask[a] EXCEPT !.step = "pass"])
    /\ UNCHANGED <<world, run, bf, events, built>>

-----------------------------------------------------------------------------
(* Who asks: a plan is made of the materializations there are now, and is  *)
(* launched later.                                                         *)

(* A pass over some assets; one that wants nothing is over. *)
PassOver(a, only, due) ==
    LET plan == PolicyPlan(mats, only, due) IN
    /\ IF plan = {} THEN Becomes(a, Idle) ELSE AsksFor(a, plan, TRUE)
    /\ UNCHANGED <<world, mats, run, bf, events, built>>

(* launch_policy_builds, at the end of a probe, changed or not. *)
ProbePass(a) ==
    /\ ask[a].step = "pass"
    /\ PassOver(a, Downstream(ask[a].seen[1]), {})

(* policy::tick *)
PolicyPass(a) ==
    /\ Free(a, "policy")
    /\ \E due \in SUBSET {x \in Assets : Policy[x] = "cron"} : PassOver(a, Assets, due)

(* build_one: nothing to do for an asset that is fresh. *)
Request(a, t) ==
    /\ Free(a, "build") /\ Costs("request") /\ StaleNodes(mats, t) # {}
    /\ AsksFor(a, Plan(mats, {t}, NoneNamed), TRUE)
    /\ UNCHANGED <<world, mats, run, bf, built>>

(* build_one of one key, stale or not. *)
RequestKey(a, n) ==
    /\ Free(a, "build") /\ Costs("request") /\ n[1] \in Partitioned
    /\ AsksFor(a, Plan(mats, {n[1]}, [x \in {n[1]} |-> {n}]), TRUE)
    /\ UNCHANGED <<world, mats, run, bf, built>>

(* build_all_assets *)
RequestAll(a) ==
    LET stale == {t \in Assets : StaleNodes(mats, t) # {}} IN
    /\ Free(a, "build") /\ Costs("request") /\ stale # {}
    /\ AsksFor(a, Plan(mats, stale, NoneNamed), TRUE)
    /\ UNCHANGED <<world, mats, run, bf, built>>

(* Hestan::build_asset, whose run does not say what it builds. *)
RequestWhole(a, t) ==
    /\ Free(a, "build") /\ Costs("request")
    /\ AsksFor(a, Plan(mats, {t}, NoneNamed), FALSE)
    /\ UNCHANGED <<world, mats, run, bf, built>>

-----------------------------------------------------------------------------
(* Backfills.  The rows an asker goes through are as it read them. *)

(* Some numbers in order: the one sequence of them that rises. *)
InOrder(S) ==
    {seq \in [1..Cardinality(S) -> S] : \A i, j \in 1..Cardinality(S) : i < j => seq[i] < seq[j]}

(* On to the next row, or done. *)
NextRow(a) ==
    IF Len(ask[a].rows) <= 1 THEN Idle
    ELSE [Idle EXCEPT !.step = "row", !.rows = Tail(ask[a].rows)]

(* finish_backfill: the first terminal status wins. *)
Closed(b, status) ==
    IF bf[b].status = "running" THEN [bf EXCEPT ![b].status = status] ELSE bf

(* The keys of the next chunk, and how far it reaches. *)
Upto(row) == IF row.launched + Limit[Filled] <= Len(bf[row.b].keys)
             THEN row.launched + Limit[Filled] ELSE Len(bf[row.b].keys)
Chunk(row) == {<<Filled, bf[row.b].keys[i]>> : i \in row.launched + 1 .. Upto(row)}

(* launch_next, up to its launch: nothing left is a backfill that is over. *)
SendNext(a, row, rest) ==
    IF Chunk(row) = {}
    THEN /\ bf' = Closed(row.b, "complete") /\ Becomes(a, NextRow(a)) /\ Keeps(run)
         /\ UNCHANGED <<world, mats, events, built>>
    ELSE /\ Becomes(a, [Idle EXCEPT !.step = "launch", !.rows = <<row>> \o rest,
                         !.plan = Plan(mats, {Filled}, [x \in {Filled} |-> Chunk(row)])])
         /\ UNCHANGED <<world, mats, run, bf, events, built>>

(* start: refused beside another of the asset... *)
Start(a) ==
    /\ Free(a, "start")
    /\ \A b \in Backfills : bf[b].status # "running"
    /\ Becomes(a, [Idle EXCEPT !.step = "create"])
    /\ UNCHANGED <<world, mats, run, bf, events, built>>

(* ...writes its row, of the range or of what is stale in it... *)
Create(a, b) ==
    LET range(missing) == {k \in 1..Count[Filled] : missing => Stale(mats)[<<Filled, k>>]} IN
    /\ ask[a].step = "create"
    /\ bf[b].status = "unmade" /\ \A c \in Backfills : c < b => bf[c].status # "unmade"
    /\ \E missing \in BOOLEAN : \E keys \in InOrder(range(missing)) :
         /\ bf' = [bf EXCEPT ![b] = [status |-> IF keys = <<>> THEN "complete" ELSE "running",
                                     keys |-> keys, launched |-> 0, last |-> NoRun]]
         /\ IF keys = <<>> THEN Becomes(a, Idle)
            ELSE Becomes(a, [Idle EXCEPT !.step = "reread",
                                         !.rows = <<[b |-> b, launched |-> 0, last |-> NoRun]>>])
    /\ UNCHANGED <<world, mats, run, events, built>>

(* ...and reads it back, for its first chunk. *)
Reread(a) ==
    LET b == ask[a].rows[1].b IN
    /\ ask[a].step = "reread"
    /\ IF bf[b].status = "running" THEN SendNext(a, RowOf(b), <<>>)
       ELSE Becomes(a, Idle) /\ UNCHANGED <<world, mats, run, bf, events, built>>

(* Between its row and its first chunk a start is at one of these. *)
Starting == \E x \in Askers :
    "start" \in Does[x] /\ ask[x].step \in {"reread", "launch", "record"} /\ ask[x].rows # <<>>

(* A pass of the chunker reads every running backfill... *)
Tick(a) ==
    LET running == {b \in Backfills : bf[b].status = "running"} IN
    /\ Free(a, "tick") /\ running # {}
    /\ Slow \/ ~Starting
    /\ \E bs \in InOrder(running) :
         Becomes(a, [Idle EXCEPT !.step = "row", !.rows = [i \in DOMAIN bs |-> RowOf(bs[i])]])
    /\ UNCHANGED <<world, mats, run, bf, events, built>>

(* a mutant: a chunk that failed is done with *)
LastStatusLenient(row) ==
    IF row.last = NoRun THEN "none"
    ELSE IF run[row.last].status = "failed" THEN "success" ELSE run[row.last].status

(* a mutant: a run whose row is gone is waited for *)
LastStatusWaiting(row) ==
    IF row.last = NoRun THEN "none"
    ELSE IF run[row.last].status = "gone" THEN "running" ELSE run[row.last].status

(* ...and asks what the last run of each did. *)
LastStatus(row) == IF row.last = NoRun THEN "none" ELSE run[row.last].status

Judge(a) ==
    LET row == ask[a].rows[1]
        status == LastStatus(row)
        more == row.launched < Len(bf[row.b].keys)
        close(as) == /\ bf' = Closed(row.b, as) /\ Becomes(a, NextRow(a)) /\ Keeps(run)
                     /\ UNCHANGED <<world, mats, events, built>>
    IN
    /\ ask[a].step = "row"
    /\ \/ status = "none" /\ SendNext(a, row, Tail(ask[a].rows))
       \/ status = "success" /\ more /\ SendNext(a, row, Tail(ask[a].rows))
       \/ status = "success" /\ ~more /\ close("complete")
       \/ status \in {"failed", "gone"} /\ close("failed")
       \/ status = "canceled" /\ close("canceled")
       \/ /\ status \in {"queued", "running"}
          /\ UNCHANGED <<world, mats, bf, events, built>>
          /\ Becomes(a, NextRow(a)) /\ Keeps(run)

(* cancel: the row is read, its last run asked to stop, the row closed.    *)
CancelReads(a, b) ==
    /\ Free(a, "cancel") /\ bf[b].status = "running"
    /\ Becomes(a, [Idle EXCEPT !.step = "ask", !.rows = <<RowOf(b)>>])
    /\ UNCHANGED <<world, mats, run, bf, events, built>>

(* A run nobody executes is taken off the queue, one of this process is    *)
(* told; one of another process is not.                                    *)
CancelAsks(a) ==
    LET r == ask[a].rows[1].last IN
    /\ ask[a].step = "ask"
    /\ Becomes(a, [ask[a] EXCEPT !.step = "close"])
    /\ \/ r # NoRun /\ run[r].status = "queued" /\ run' = [run EXCEPT ![r] = Over(r, "canceled")]
       \/ r # NoRun /\ run[r].status = "running" /\ run' = [run EXCEPT ![r].asked = TRUE]
       \/ (r # NoRun => run[r].status # "queued") /\ UNCHANGED run
    /\ UNCHANGED <<world, mats, bf, events, built>>

CancelCloses(a) ==
    /\ ask[a].step = "close"
    /\ bf' = Closed(ask[a].rows[1].b, "canceled")
    /\ Becomes(a, Idle) /\ Keeps(run)
    /\ UNCHANGED <<world, mats, events, built>>

-----------------------------------------------------------------------------
(* Launches: what a bounded build would build must not meet what an active *)
(* run builds, and a run that will not say meets everything.  A build that *)
(* does not say is let past.                                               *)

(* a mutant: a run still on the queue is not met *)
OverlapsRunning(plan) ==
    {r \in Slots : run[r].status = "running" /\ (~run[r].bounded \/ run[r].builds \cap plan # {})}

Overlaps(plan) == {r \in Slots : Active(r) /\ (~run[r].bounded \/ run[r].builds \cap plan # {})}

(* create_run_keyed, of a build: the scan and the row. *)
Launch(a) ==
    LET rows == ask[a].rows
        met == ask[a].bounded /\ Overlaps(ask[a].plan) # {}
    IN
    /\ ask[a].step = "launch"
    /\ UNCHANGED <<world, mats, bf, built>>
    /\ UNCHANGED events
    /\ \/ /\ met
          /\ Becomes(a, NextRow(a)) /\ Keeps(run)
       \/ /\ ~met /\ \E r \in Slots : run[r].status = "absent"
          /\ LET r == CHOOSE x \in Slots : run[x].status = "absent" IN
             /\ run' = [run EXCEPT ![r] =
                  [Absent EXCEPT !.status = "queued", !.builds = ask[a].plan, !.bounded = ask[a].bounded,
                                 !.b = IF rows = <<>> THEN 0 ELSE rows[1].b,
                                 !.upto = IF rows = <<>> THEN 0 ELSE Upto(rows[1])]]
             /\ Becomes(a, IF rows = <<>> THEN Idle ELSE [ask[a] EXCEPT !.step = "record", !.run = r])

(* backfill_launched: whatever the row says by now. *)
Record(a) ==
    LET row == ask[a].rows[1] IN
    /\ ask[a].step = "record"
    /\ bf' = [bf EXCEPT ![row.b].launched = Upto(row), ![row.b].last = ask[a].run]
    /\ Becomes(a, NextRow(a)) /\ Keeps(run)
    /\ UNCHANGED <<world, mats, events, built>>

(* The process of an asker dies, or an error ends what it was doing: one of*)
(* the store, or the fence of a term that is over. *)
Die(a) ==
    /\ ask[a].step # "idle" /\ Costs("die")
    /\ UNCHANGED <<world, mats, bf, built>>
    /\ Becomes(a, Idle) /\ Keeps(run)

-----------------------------------------------------------------------------
(* Runs.  An op runs when every op it reads that the run has is done; an   *)
(* instance captures what it is about to read, one row after the other,    *)
(* and its materialization is written with its success.                    *)

Begin(r) ==
    /\ run[r].status = "queued"
    /\ run' = [run EXCEPT ![r].status = "running"]
    /\ UNCHANGED <<world, mats, bf, ask, events, built>>

Ready(r, n) ==
    /\ run[r].status = "running" /\ n \in run[r].builds \ run[r].done
    /\ \A x \in run[r].builds : x[1] \in DepsOf[n[1]] => x \in run[r].done

(* capture_inputs: the keys of an asset one after the other. *)
Capture(r, n, d) ==
    /\ Ready(r, n) /\ d \in Reads[n] /\ <<n, d>> \notin DOMAIN run[r].took
    /\ \A k \in Reads[n] : k[1] = d[1] /\ k[2] < d[2] => <<n, k>> \in DOMAIN run[r].took
    /\ run' = [run EXCEPT ![r].took =
                 [x \in DOMAIN @ \cup {<<n, d>>} |-> IF x = <<n, d>> THEN mats[d].fp ELSE @[x]]]
    /\ UNCHANGED <<world, mats, bf, ask, events, built>>

Took(r, n) == [d \in Reads[n] |-> run[r].took[<<n, d>>]]

(* a mutant: the fingerprints are read back when the body is done *)
MadeRereading(r, n) ==
    [fp |-> Compute[n][Took(r, n)], ins |-> [d \in Reads[n] |-> mats[d].fp]]

(* What a build leaves: what the body made of the values it captured, and  *)
(* their fingerprints. *)
Made(r, n) == [fp |-> Compute[n][Took(r, n)], ins |-> Took(r, n)]

Build(r, n) ==
    /\ Ready(r, n) /\ \A d \in Reads[n] : <<n, d>> \in DOMAIN run[r].took
    /\ mats' = [mats EXCEPT ![n] = Made(r, n)]
    /\ run' = [run EXCEPT ![r].done = @ \cup {n}]
    /\ built' = IF run[r].b # 0 /\ n[1] = Filled
                THEN [built EXCEPT ![run[r].b] = @ \cup {n[2]}] ELSE built
    /\ UNCHANGED <<world, bf, ask, events>>

Ends(r, status) ==
    /\ UNCHANGED <<world, mats, bf, ask, built>>
    /\ Keeps([run EXCEPT ![r] = Over(r, status)])

Succeeds(r) == run[r].status = "running" /\ run[r].done = run[r].builds /\ Ends(r, "success") /\ UNCHANGED events
Fails(r) == run[r].status = "running" /\ Costs("fail") /\ Ends(r, "failed")
IsCanceled(r) == run[r].status = "running" /\ run[r].asked /\ Ends(r, "canceled") /\ UNCHANGED events

(* Retention takes the row of a run that ended. *)
Prune(r) ==
    /\ run[r].status \in Ended \ {"gone"} /\ Costs("prune")
    /\ run' = [run EXCEPT ![r] = Over(r, "gone")]
    /\ UNCHANGED <<world, mats, bf, ask, built>>

-----------------------------------------------------------------------------
Asks(a) ==
    \/ \E s \in Sources : See(a, s)
    \/ ProbeWrites(a) \/ ProbePass(a) \/ PolicyPass(a)
    \/ \E t \in Assets : Request(a, t) \/ RequestWhole(a, t)
    \/ \E n \in Derived : RequestKey(a, n)
    \/ RequestAll(a)
    \/ Start(a) \/ Reread(a) \/ \E b \in Backfills : Create(a, b) \/ CancelReads(a, b)
    \/ Tick(a) \/ Judge(a) \/ CancelAsks(a) \/ CancelCloses(a)
    \/ Launch(a) \/ Record(a)

Works(r) ==
    \/ Begin(r) \/ Succeeds(r) \/ IsCanceled(r)
    \/ \E n \in Derived : Build(r, n) \/ \E d \in Reads[n] : Capture(r, n, d)

Next ==
    /\ UNCHANGED up
    /\ \/ \E s \in Sources : Move(s)
       \/ \E a \in up : Asks(a) \/ Die(a)
       \/ \E r \in Slots : Works(r) \/ Fails(r) \/ Prune(r)

Spec == Init /\ [][Next]_vars

(* A loop goes on looping, what was begun is gone on with, and a run is    *)
(* worked on until it ends. *)
Loop(a) == Does[a] \subseteq {"probe", "policy", "tick"}
GoesOn(a) == UNCHANGED up /\ a \in up /\ (Loop(a) \/ ask[a].step # "idle") /\ Asks(a)

FairSpec ==
    /\ Spec
    /\ \A a \in Askers : WF_(ask[a])(GoesOn(a))
    /\ \A r \in Slots : WF_(run[r])(UNCHANGED up /\ Works(r))

-----------------------------------------------------------------------------
(* An asset that is fresh holds what would be computed from the sources as *)
(* they are recorded, whoever built it and whatever moved meanwhile.       *)
FreshIsRight ==
    LET right[n \in Nodes] ==
          IF n \in Derived THEN Compute[n][[d \in Reads[n] |-> right[d]]] ELSE mats[n].fp
    IN \A n \in Derived : ~Stale(mats)[n] => mats[n].fp = right[n]

(* No two active runs that say what they build build the same key.         *)
OneBuilder ==
    \A r, x \in Slots :
      r # x /\ Active(r) /\ Active(x) /\ run[r].bounded /\ run[x].bounded
        => run[r].builds \cap run[x].builds = {}

(* A backfill is complete when every partition it was asked for was built. *)
CompleteMeansBuilt ==
    \A b \in Backfills :
      bf[b].status = "complete" => \A i \in DOMAIN bf[b].keys : bf[b].keys[i] \in built[b]

(* A chunk goes out only when the keys before it have been built.          *)
ChunksInOrder ==
    \A r \in Slots : Active(r) /\ run[r].b # 0 =>
      LET keys == bf[run[r].b].keys IN
      \A i \in DOMAIN keys : i + Limit[Filled] <= run[r].upto => keys[i] \in built[run[r].b]

Up(what) == \E a \in up : what \in Does[a]

(* A backfill does not stay running: a chunk is built, fails or is         *)
(* canceled, one that is refused is sent again, and a row whose chunk      *)
(* nobody sent is picked up. *)
BackfillEnds ==
    \A b \in Backfills : []<>(Up("tick") => bf[b].status # "running")

(* Where every asset is built when stale, by probes and by policies, all   *)
(* of them come to be fresh when the sources stop moving. *)
Converges ==
    <>[](Up("probe") /\ Up("policy") => \A n \in Derived : ~Stale(mats)[n])
=============================================================================
