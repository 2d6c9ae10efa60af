----------------------------- MODULE Schedules -----------------------------
(***************************************************************************)
(* The scheduler (schedule.rs) of every process that may hold the deciding *)
(* lease, over the tables they share: the cursor and the pause flag of     *)
(* each schedule, the tick log, and the runs the fires launched.           *)
(*                                                                         *)
(* A pass reads the rows once, brings every cursor up to now, drains what  *)
(* is held, sleeps until the next occurrence, reads again and fires.  Every*)
(* read and every write of the store is a step of its own.                 *)
(***************************************************************************)
EXTENDS DeciderLease, Sequences, FiniteSets, FiniteSetsExt, Functions

CONSTANTS
    Declarations,   \* what a deployment may declare: sequences of schedules
    Targets,    \* the jobs and assets they fire
    Fires,      \* [schedule -> target]
    Assets,     \* the targets that are builds of an asset
    Due,        \* [schedule -> its occurrences]
    Horizon,    \* bound: the last moment followed
    Finite,     \* the schedules with no occurrence past the horizon
    Catchup,    \* [schedule -> "skip" | "one" | "all"]
    Limit,      \* [schedule -> the cap of Catchup::All]
    Overlap,    \* [target -> "skip" | "queue" | "allow"]
    MayPause,
    MaySubmit,  \* bound: the targets somebody else runs, once
    Faulty      \* bound: the terms and moments in which reads and writes may fail

Schedules == UNION {Range(d) : d \in Declarations}

Never == -1     \* a cursor that was never set

ASSUME SchedulesAssumption ==
    /\ Assets \subseteq Targets
    /\ Fires \in [Schedules -> Targets]
    /\ Horizon \in Nat /\ Due \in [Schedules -> SUBSET (1..Horizon)]
    /\ Catchup \in [Schedules -> {"skip", "one", "all"}]
    /\ \A s \in Schedules : Fires[s] \in Assets => Catchup[s] # "all"
    /\ Limit \in [Schedules -> Nat \ {0}]
    /\ Overlap \in [Targets -> {"skip", "queue", "allow"}]
    /\ \A a \in Assets : Overlap[a] = "skip"
    /\ Finite \subseteq Schedules /\ MayPause \subseteq Schedules /\ MaySubmit \subseteq Targets

VARIABLES
    entries,    \* what is declared, the same in every process
    clock,      \* the last moment that came
    paused, cursor,     \* schedules
    tick,       \* schedule_ticks: the last tick of each occurrence
    run,        \* the run of each occurrence
    manual,     \* the run of each target that no schedule launched
    pc,         \* where the pass of each process is
    now,        \* what it took for the time
    rows,       \* the pause flags and cursors it read
    here,       \* the entries it has yet to catch up
    todo,       \* the occurrences it has yet to deal with
    doing,      \* the one it is at, and what it decided about it
    tried,      \* targets it has dealt with in this drain, or fired
    gone,       \* the entries it dropped
    pausedAt,   \* history: when each pause began
    made        \* history: the term each occurrence was fired in

tables == <<entries, paused, cursor, tick, run, manual>>
vars == <<leaseVars, clock, tables, pc, now, rows, here, todo, doing, tried, gone, pausedAt, made>>

Occurrences == UNION {{s} \X Due[s] : s \in Schedules}
Outcomes == {"fired", "skipped", "deferred", "error"}
Nothing == [of |-> <<>>, how |-> "none", under |-> 0]
Unread == [paused |-> {}, cursor |-> [s \in Schedules |-> Never]]

TypeOK ==
    /\ LeaseTypeOK
    /\ entries \in Declarations
    /\ clock \in 0..Horizon
    /\ paused \subseteq Schedules
    /\ cursor \in [Schedules -> {Never} \cup 0..Horizon]
    /\ tick \in [Occurrences -> {"none"} \cup Outcomes]
    /\ run \in [Occurrences -> {"none", "active", "over"}]
    /\ manual \in [Targets -> {"none", "active", "over"}]
    /\ pc \in [Procs -> {"idle", "catchup", "queueing", "draining",
                         "asleep", "firing", "done"}]
    /\ now \in [Procs -> 0..Horizon]
    /\ rows \in [Procs -> [paused : SUBSET Schedules,
                           cursor : [Schedules -> {Never} \cup 0..Horizon]]]
    /\ here \in [Procs -> SUBSET Schedules]
    /\ todo \in [Procs -> SUBSET Occurrences]
    /\ doing \in [Procs -> {Nothing} \cup
          [of : Occurrences, how : {"look"} \cup Outcomes, under : 0..MaxTerm]]
    /\ tried \in [Procs -> SUBSET Targets]
    /\ gone \in [Procs -> SUBSET Schedules]
    /\ pausedAt \in [Schedules -> 0..Horizon]
    /\ made \in [Occurrences -> 0..MaxTerm]

Init ==
    /\ LeaseInit
    /\ entries \in Declarations
    /\ clock = 0
    /\ paused = {} /\ cursor = [s \in Schedules |-> Never]
    /\ tick = [o \in Occurrences |-> "none"]
    /\ run = [o \in Occurrences |-> "none"]
    /\ manual = [j \in Targets |-> "none"]
    /\ pc = [p \in Procs |-> "idle"]
    /\ now = [p \in Procs |-> 0] /\ rows = [p \in Procs |-> Unread]
    /\ here = [p \in Procs |-> {}] /\ todo = [p \in Procs |-> {}]
    /\ doing = [p \in Procs |-> Nothing]
    /\ tried = [p \in Procs |-> {}] /\ gone = [p \in Procs |-> {}]
    /\ pausedAt = [s \in Schedules |-> 0] /\ made = [o \in Occurrences |-> 0]

-----------------------------------------------------------------------------
(* What the store says. *)

TargetOf(o) == Fires[o[1]]

(* has_active_run: a job whose run is queued or running; an asset never is *)
(* (`busy`), its build claim answers instead.                              *)
Active(j) == manual[j] = "active" \/ \E o \in Occurrences : TargetOf(o) = j /\ run[o] = "active"
Busy(j) == j \notin Assets /\ Active(j)

(* "read", "write": a statement of the scheduler fails; "heard": its       *)
(* launch commits and is not heard to.                                     *)
Fails(kind) == kind \in Faults /\ <<term, clock>> \in Faulty

(* pending_fires: a deferred tick with no later one for its occurrence.    *)
Pending == {o \in Occurrences : tick[o] = "deferred"}
HasPending(j) == \E o \in Pending : TargetOf(o) = j

(* set_schedule_cursor: never backwards.  The caller goes on if it fails.  *)
Advance(s, t) ==
    \/ cursor' = IF cursor[s] < t THEN [cursor EXCEPT ![s] = t] ELSE cursor
    \/ Fails("write") /\ cursor' = cursor

(* record_tick, whose failure is logged and no more. *)
Ticks(o, outcome) ==
    \/ tick' = [tick EXCEPT ![o] = outcome]
    \/ Fails("write") /\ tick' = tick

-----------------------------------------------------------------------------
(* The pass. *)

Position(s) == CHOOSE i \in DOMAIN entries : entries[i] = s
Goes(p, s) == pc' = [pc EXCEPT ![p] = s]
Missed(p, s) == {t \in Due[s] : rows[p].cursor[s] < t /\ t <= now[p]}

(* What a process that sleeps, waits or is gone still has in hand: only    *)
(* the fires it sleeps for.                                                *)
Rests(p) ==
    /\ now' = [now EXCEPT ![p] = 0]
    /\ rows' = [rows EXCEPT ![p] = Unread]
    /\ tried' = [tried EXCEPT ![p] = {}]

(* The decider wakes to a new pass and reads the rows; catch_up does       *)
(* nothing for an entry whose cursor no occurrence has passed.             *)
Begin(p) ==
    /\ mode[p] = "up" /\ pc[p] = "idle" /\ Leading(p)
    /\ now' = [now EXCEPT ![p] = clock]
    /\ rows' = [rows EXCEPT ![p] = [paused |-> paused, cursor |-> cursor]]
    /\ here' = [here EXCEPT ![p] = {s \in Range(entries) \ gone[p] :
          cursor[s] = Never \/ \E t \in Due[s] : cursor[s] < t /\ t <= clock}]
    /\ Goes(p, "catchup")
    /\ UNCHANGED <<leaseVars, clock, tables, todo, doing, tried, gone, pausedAt, made>>

(* The newest of what was missed, at most Limit of it. *)
Newest(p, s) == {t \in Missed(p, s) : Cardinality({u \in Missed(p, s) : u > t}) < Limit[s]}
Dropped(p, s) == Missed(p, s) \ Newest(p, s)

(* catch_up of the next entry, up to what it will launch or hold. *)
CatchUp(p) == \E s \in here[p] :
    LET passed == /\ here' = [here EXCEPT ![p] = @ \ {s}]
                  /\ UNCHANGED <<pc, tick, todo>>
    IN
    /\ mode[p] # "dead" /\ pc[p] = "catchup"
    /\ \A f \in here[p] : Position(s) <= Position(f)
    /\ \/ rows[p].cursor[s] = Never /\ Advance(s, now[p]) /\ passed
       \/ /\ rows[p].cursor[s] # Never
          /\ s \in rows[p].paused \/ Catchup[s] = "skip"
          /\ Advance(s, Max(Missed(p, s))) /\ passed
       \/ /\ rows[p].cursor[s] # Never
          /\ s \notin rows[p].paused /\ Catchup[s] # "skip"
          /\ todo' = [todo EXCEPT ![p] =
                IF Catchup[s] = "one" THEN {<<s, Max(Missed(p, s))>>} ELSE {s} \X Newest(p, s)]
          /\ IF Catchup[s] = "all" /\ Dropped(p, s) # {}
             THEN Ticks(<<s, Min(Dropped(p, s))>>, "skipped")
             ELSE UNCHANGED tick
          /\ Goes(p, "queueing")
          /\ UNCHANGED <<cursor, here>>
    /\ UNCHANGED <<leaseVars, clock, entries, paused, run, manual, now, rows, doing, tried, gone, pausedAt, made>>

(* Of what a pass has to deal with, the oldest; of what came due at one    *)
(* time, whichever was held first.                                         *)
Oldest(p) == {o \in todo[p] : \A v \in todo[p] : o[2] <= v[2]}

Decides(p, o, how) ==
    doing' = [doing EXCEPT ![p] = [of |-> o, how |-> how, under |-> mine[p]]]

(* a mutant: a caught-up fire does not ask whether its job is going *)
QueueFireBlind(p) == \E o \in Oldest(p) :
    /\ mode[p] # "dead" /\ pc[p] = "queueing" /\ doing[p] = Nothing
    /\ Decides(p, o, "fired")
    /\ UNCHANGED <<leaseVars, clock, tables, pc, now, rows, here, todo, tried, gone, pausedAt, made>>

(* queue_fire: whether it is free to launch, before it does. *)
QueueFire(p) == \E o \in Oldest(p) :
    /\ mode[p] # "dead" /\ pc[p] = "queueing" /\ doing[p] = Nothing
    /\ LET free == ~Busy(TargetOf(o)) /\ ~HasPending(TargetOf(o)) IN
       \/ Decides(p, o, IF free THEN "fired" ELSE "deferred")
       \/ Fails("read") /\ Decides(p, o, "deferred")
    /\ UNCHANGED <<leaseVars, clock, tables, pc, now, rows, here, todo, tried, gone, pausedAt, made>>

(* catch_up ends: the cursor moves over everything that was missed. *)
CaughtUp(p) == \E s \in here[p] :
    /\ mode[p] # "dead" /\ pc[p] = "queueing" /\ doing[p] = Nothing /\ todo[p] = {}
    /\ \A f \in here[p] : Position(s) <= Position(f)
    /\ Advance(s, Max(Missed(p, s)))
    /\ here' = [here EXCEPT ![p] = @ \ {s}]
    /\ Goes(p, "catchup")
    /\ UNCHANGED <<leaseVars, clock, entries, paused, tick, run, manual, now, rows, todo, doing, tried, gone,
                   pausedAt, made>>

(* a mutant: held fires are only drained by the process that starts up *)
DrainNothing(p) ==
    /\ mode[p] # "dead" /\ pc[p] = "catchup" /\ here[p] = {}
    /\ Goes(p, "draining")
    /\ now' = [now EXCEPT ![p] = 0] /\ rows' = [rows EXCEPT ![p].cursor = Unread.cursor]
    /\ UNCHANGED <<leaseVars, clock, tables, here, todo, doing, tried, gone, pausedAt, made>>

(* drain_pending reads what is held. *)
Drain(p) ==
    /\ mode[p] # "dead" /\ pc[p] = "catchup" /\ here[p] = {}
    /\ \/ todo' = [todo EXCEPT ![p] = Pending]
       \/ Fails("read") /\ UNCHANGED todo
    /\ Goes(p, "draining")
    /\ now' = [now EXCEPT ![p] = 0] /\ rows' = [rows EXCEPT ![p].cursor = Unread.cursor]
    /\ UNCHANGED <<leaseVars, clock, tables, here, doing, tried, gone, pausedAt, made>>

(* The next held fire: dropped, left for the next pass, or launched. *)
DrainNext(p) == \E o \in Oldest(p) :
    LET j == TargetOf(o)
        unheld == o[1] \in gone[p] \/ o[1] \in rows[p].paused
        busy == Busy(j) \/ Fails("read")
    IN
    /\ mode[p] # "dead" /\ pc[p] = "draining" /\ doing[p] = Nothing
    /\ \/ unheld /\ Decides(p, o, "skipped") /\ UNCHANGED <<todo, tried>>
       \/ /\ ~unheld /\ j \in tried[p]
          /\ todo' = [todo EXCEPT ![p] = @ \ {o}] /\ UNCHANGED <<doing, tried>>
       \/ /\ ~unheld /\ j \notin tried[p] /\ busy
          /\ todo' = [todo EXCEPT ![p] = @ \ {o}]
          /\ tried' = [tried EXCEPT ![p] = @ \cup {j}]
          /\ UNCHANGED doing
       \/ /\ ~unheld /\ j \notin tried[p] /\ ~Busy(j)
          /\ Decides(p, o, "fired")
          /\ tried' = [tried EXCEPT ![p] = @ \cup {j}]
          /\ UNCHANGED todo
    /\ UNCHANGED <<leaseVars, clock, tables, pc, now, rows, here, gone, pausedAt, made>>

Settles(p, o) == doing' = [doing EXCEPT ![p] = Nothing] /\ todo' = [todo EXCEPT ![p] = @ \ {o}]

(* note_runless_tick: what was decided against launching is recorded. *)
NoteRunless(p) ==
    /\ mode[p] # "dead" /\ doing[p].how \in {"skipped", "deferred", "error"}
    /\ Ticks(doing[p].of, doing[p].how)
    /\ Settles(p, doing[p].of)
    /\ UNCHANGED <<leaseVars, clock, entries, paused, cursor, run, manual, pc, now, rows, here, tried, gone,
                   pausedAt, made>>

(* a mutant: the fence does not ask for the term *)
UnfencedLands(p, o) ==
    /\ run[o] = "none"
    /\ TargetOf(o) \in Assets => ~Active(TargetOf(o))
    /\ run' = [run EXCEPT ![o] = "active"]
    /\ tick' = [tick EXCEPT ![o] = "fired"]
    /\ made' = [made EXCEPT ![o] = mine[p]]

(* note_tick: the launch, the tick and the claim on the occurrence are one *)
(* transaction, fenced by the term the process believes in by then.        *)
Lands(p, o) ==
    /\ FencePasses(p) /\ run[o] = "none"
    /\ TargetOf(o) \in Assets => ~Active(TargetOf(o))
    /\ run' = [run EXCEPT ![o] = "active"]
    /\ tick' = [tick EXCEPT ![o] = "fired"]
    /\ made' = [made EXCEPT ![o] = mine[p]]

(* A launch that came to nothing: how its occurrence is recorded. *)
Refused(p, o, how) ==
    /\ \/ /\ how = "skipped" /\ TargetOf(o) \in Assets    \* nothing stale
       \/ /\ how = "skipped" /\ FencePasses(p)
          /\ run[o] # "none" \/ (TargetOf(o) \in Assets /\ Active(TargetOf(o)))
       \/ /\ how = "error" /\ Fails("write")
    /\ doing' = [doing EXCEPT ![p].how = how]

Launch(p) ==
    /\ mode[p] # "dead" /\ doing[p].how = "fired"
    /\ LET o == doing[p].of IN
       \/ Lands(p, o) /\ Settles(p, o)
       \/ /\ Fails("heard") /\ Lands(p, o)
          /\ doing' = [doing EXCEPT ![p].how = "error"] /\ UNCHANGED todo
       \/ /\ ~FencePasses(p) /\ Settles(p, o) /\ UNCHANGED <<run, tick, made>>
       \/ /\ \E how \in {"skipped", "error"} : Refused(p, o, how)
          /\ UNCHANGED <<todo, run, tick, made>>
    /\ UNCHANGED <<leaseVars, clock, entries, paused, cursor, manual, pc, now, rows, here, tried, gone, pausedAt>>

(* The pass goes to sleep on the next occurrence of each entry; an entry   *)
(* with none left is dropped, and with no entry left the scheduler ends.   *)
Sleep(p) ==
    LET Coming(s) == {t \in Due[s] : t > clock}
        live == Range(entries) \ gone[p]
        over == {s \in live \cap Finite : Coming(s) = {}}
    IN
    /\ mode[p] # "dead" /\ pc[p] = "draining" /\ todo[p] = {} /\ doing[p] = Nothing
    /\ gone' = [gone EXCEPT ![p] = @ \cup over]
    /\ todo' = [todo EXCEPT ![p] =
          {<<s, Min(Coming(s))>> : s \in {e \in live : Coming(e) # {}}}]
    /\ \/ Goes(p, IF live = over /\ Pending = {} THEN "done" ELSE "asleep")
       \/ Fails("read") /\ live = over /\ Goes(p, "done")
    /\ Rests(p)
    /\ UNCHANGED <<leaseVars, clock, tables, here, doing, pausedAt, made>>

Overdue(p) == {o \in todo[p] : o[2] <= clock}

(* a mutant: the rows are not read again after the sleep *)
WakeOnOldRows(p) ==
    /\ mode[p] = "up" /\ pc[p] = "asleep"
    /\ \/ /\ Overdue(p) # {} /\ Leading(p)
          /\ todo' = [todo EXCEPT ![p] = Overdue(p)]
          /\ Goes(p, "firing")
       \/ /\ Overdue(p) = {} \/ ~Leading(p)
          /\ todo' = [todo EXCEPT ![p] = {}]
          /\ Goes(p, "idle")
    /\ UNCHANGED <<leaseVars, clock, tables, now, rows, here, doing, tried, gone, pausedAt, made>>

(* It wakes: to fire what came due, with the rows read again; or to a new  *)
(* pass, when nothing did, it no longer decides, or the read fails.        *)
Wake(p) ==
    /\ mode[p] = "up" /\ pc[p] = "asleep"
    /\ \/ /\ Overdue(p) # {} /\ Leading(p)
          /\ rows' = [rows EXCEPT ![p].paused = paused]
          /\ todo' = [todo EXCEPT ![p] = Overdue(p)]
          /\ Goes(p, "firing")
       \/ /\ Overdue(p) = {} \/ ~Leading(p) \/ Fails("read")
          /\ todo' = [todo EXCEPT ![p] = {}]
          /\ Goes(p, "idle")
          /\ UNCHANGED rows
    /\ UNCHANGED <<leaseVars, clock, tables, now, here, doing, tried, gone, pausedAt, made>>

(* The next of them, in the order of the entries: its cursor is moved      *)
(* first; it is then let be, or looked at.                                 *)
FireNext(p) == \E o \in todo[p] :
    /\ mode[p] # "dead" /\ pc[p] = "firing" /\ doing[p] = Nothing
    /\ \A v \in todo[p] : Position(o[1]) <= Position(v[1])
    /\ Advance(o[1], o[2])
    /\ IF o[1] \in rows[p].paused
       THEN todo' = [todo EXCEPT ![p] = @ \ {o}] /\ UNCHANGED <<doing, tried>>
       ELSE /\ Decides(p, o, IF TargetOf(o) \in tried[p] THEN "skipped" ELSE "look")
            /\ tried' = [tried EXCEPT ![p] = @ \cup {TargetOf(o)}]
            /\ UNCHANGED todo
    /\ UNCHANGED <<leaseVars, clock, entries, paused, tick, run, manual, pc, now, rows, here, gone, pausedAt, made>>

(* Whether what it fires is already going, and what its overlap then says. *)
FireLook(p) ==
    LET o == doing[p].of
        policy == Overlap[TargetOf(o)]
        Verdict(held, busy) ==
            CASE ~(held \/ busy) \/ policy = "allow" -> "fired"
              [] (held \/ busy) /\ policy = "queue" /\ ~held -> "deferred"
              [] OTHER -> "skipped"
    IN
    /\ mode[p] # "dead" /\ doing[p].how = "look"
    /\ \E held \in {HasPending(TargetOf(o))} \cup (IF Fails("read") THEN {TRUE} ELSE {}),
          busy \in {Busy(TargetOf(o))} \cup (IF Fails("read") THEN {TRUE} ELSE {}) :
          Decides(p, o, Verdict(held, busy))
    /\ UNCHANGED <<leaseVars, clock, tables, pc, now, rows, here, todo, tried, gone, pausedAt, made>>

(* The pass is over. *)
Fired(p) ==
    /\ mode[p] # "dead" /\ pc[p] = "firing" /\ todo[p] = {} /\ doing[p] = Nothing
    /\ Goes(p, "idle")
    /\ Rests(p)
    /\ UNCHANGED <<leaseVars, clock, tables, here, todo, doing, gone, pausedAt, made>>

Pass(p) ==
    \/ Begin(p) \/ CatchUp(p) \/ QueueFire(p) \/ CaughtUp(p) \/ Drain(p) \/ DrainNext(p)
    \/ NoteRunless(p) \/ Launch(p) \/ Sleep(p) \/ Wake(p) \/ FireNext(p) \/ FireLook(p) \/ Fired(p)

-----------------------------------------------------------------------------
(* Around the scheduler. *)

passVars == <<pc, now, rows, here, todo, doing, tried, gone>>

(* Time is followed up to the last occurrence. *)
Come ==
    /\ \E s \in Range(entries), t \in 1..Horizon : t \in Due[s] /\ t > clock
    /\ clock' = clock + 1
    /\ UNCHANGED <<leaseVars, tables, passVars, pausedAt, made>>

(* set_schedule_paused, by anybody; followed while the schedule has an     *)
(* occurrence to come.                                                     *)
Pause(s) ==
    /\ s \in (MayPause \cap Range(entries)) \ paused
    /\ \E t \in Due[s] : t > clock
    /\ paused' = paused \cup {s} /\ pausedAt' = [pausedAt EXCEPT ![s] = clock]
    /\ UNCHANGED <<leaseVars, clock, entries, cursor, tick, run, manual, passVars, made>>

Resume(s) ==
    /\ s \in paused /\ paused' = paused \ {s} /\ pausedAt' = [pausedAt EXCEPT ![s] = 0]
    /\ UNCHANGED <<leaseVars, clock, entries, cursor, tick, run, manual, passVars, made>>

(* A run of a target is submitted otherwise, once; a build beside no other.*)
Submit(j) ==
    /\ j \in MaySubmit /\ manual[j] = "none" /\ (j \in Assets => ~Active(j))
    /\ manual' = [manual EXCEPT ![j] = "active"]
    /\ UNCHANGED <<leaseVars, clock, entries, paused, cursor, tick, run, passVars, pausedAt, made>>

RunEnds(o) ==
    /\ run[o] = "active" /\ run' = [run EXCEPT ![o] = "over"]
    /\ UNCHANGED <<leaseVars, clock, entries, paused, cursor, tick, manual, passVars, pausedAt, made>>

ManualEnds(j) ==
    /\ manual[j] = "active" /\ manual' = [manual EXCEPT ![j] = "over"]
    /\ UNCHANGED <<leaseVars, clock, entries, paused, cursor, tick, run, passVars, pausedAt, made>>

Leases ==
    /\ \/ \E p \in Procs : Take(p) \/ Renew(p) \/ RenewErrs(p)
       \/ Tick
    /\ UNCHANGED <<clock, tables, passVars, pausedAt, made>>

(* serve returns: a loop that waits is gone, one inside a pass goes on to  *)
(* its next wait.                                                          *)
Stop(p) ==
    /\ HandBack(p)
    /\ todo' = IF pc[p] = "asleep" THEN [todo EXCEPT ![p] = {}] ELSE todo
    /\ UNCHANGED <<clock, tables, pc, now, rows, here, doing, tried, gone, pausedAt, made>>

Crash(p) ==
    /\ Die(p)
    /\ Goes(p, "idle") /\ Rests(p)
    /\ here' = [here EXCEPT ![p] = {}] /\ todo' = [todo EXCEPT ![p] = {}]
    /\ doing' = [doing EXCEPT ![p] = Nothing]
    /\ gone' = [gone EXCEPT ![p] = {}]
    /\ UNCHANGED <<clock, tables, pausedAt, made>>

Next ==
    \/ \E p \in Procs : Pass(p) \/ Stop(p) \/ Crash(p)
    \/ Leases \/ Come
    \/ \E s \in Schedules : Pause(s) \/ Resume(s)
    \/ \E j \in Targets : Submit(j) \/ ManualEnds(j)
    \/ \E o \in Occurrences : RunEnds(o)

Spec == Init /\ [][Next]_vars

-----------------------------------------------------------------------------
(* Properties. *)

(* Each occurrence is decided at most once, in the term in force and by    *)
(* the process whose term it is, however stale what the process believes.  *)
Election == INSTANCE Terms WITH Decisions <- Occurrences, leader <- holder
DecidedOnce == Election!Spec

(* Within a term, a fire whose overlap is not Allow never lands beside     *)
(* another scheduled run of its job: what was looked at before the launch, *)
(* in another transaction, still holds in it.                              *)
OneRunPerTerm ==
    [][\A o \in Occurrences, p \in Procs :
          /\ doing[p].of = o /\ run[o] = "none" /\ run'[o] = "active"
          /\ holder = p /\ mine[p] = doing[p].under /\ Overlap[TargetOf(o)] # "allow"
          => \A v \in Occurrences : TargetOf(v) = TargetOf(o) => run[v] # "active"]_vars

(* What came due while a schedule was paused never fires while it still    *)
(* is: not by a pass that read the rows before, nor out of the held fires, *)
(* nor by the process that takes over.                                     *)
PausedNeverFires ==
    [][\A o \in Occurrences :
          run[o] = "none" /\ run'[o] = "active"
          => ~(o[1] \in paused /\ pausedAt[o[1]] < o[2])]_vars

(* The bound on the terms is met, and the last one is over. *)
NoMoreTerms == term = MaxTerm /\ \A p \in Procs : ~FencePasses(p)

(* note_launched says that a fire the fence refuses is "un-accounted for,   *)
(* and the new decider's catch-up is what will account for it": the cursor *)
(* is then short of the occurrence.                                        *)
RefusedFireLeftToCatchUp ==
    [][\A p \in Procs :
          LET o == doing[p].of IN
          doing[p].how = "fired" /\ doing'[p] = Nothing /\ mode'[p] = mode[p] /\ run'[o] = "none"
          => cursor[o[1]] < o[2]]_vars

(* A held fire is eventually launched or closed, whoever decides by then.  *)
HeldFiresDrain ==
    \A o \in Occurrences : []<>(tick[o] # "deferred" \/ NoMoreTerms)

(* After the decider is lost somebody decides again.                       *)
SomebodyDecides ==
    []<>((\E p \in Procs : mode[p] = "up" /\ p \notin MayDie \cup MayStop)
            => NoMoreTerms \/ \E p \in Procs : FencePasses(p))

(* The scheduler's task runs, the decider's loop turns, and runs end.      *)
Fairness ==
    /\ \A p \in Procs : WF_vars(Pass(p)) /\ WF_vars(Take(p) /\ Leases) /\ WF_vars(Renew(p) /\ Leases)
    /\ WF_vars(Tick /\ Leases)
    /\ WF_vars(Come)
    /\ \A o \in Occurrences : WF_vars(RunEnds(o))
    /\ \A j \in Targets : WF_vars(ManualEnds(j))

FairSpec == Spec /\ Fairness
=============================================================================
