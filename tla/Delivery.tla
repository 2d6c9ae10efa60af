------------------------------ MODULE Delivery ------------------------------
(***************************************************************************)
(* Durable named notifications (delivery_store.rs, notification.rs): what  *)
(* a run owes its destinations is fixed when the run is created, becomes   *)
(* deliveries in the transaction that ends the run, and is sent by passes  *)
(* that any process may make: the one that decides, one whose term ended   *)
(* under it, a headless run that flushes its own.  A send is claimed with a*)
(* lease on the delivery and on its destination, is made outside the store,*)
(* and is recorded only by the claim it was made under.                    *)
(***************************************************************************)
EXTENDS Integers, Sequences, FiniteSets, FiniteSetsExt

CONSTANTS
    Procs,      \* processes that make passes
    Runs, Dests,
    Routes,     \* <<run, destination>>: the job of the run is one it is about
    Wants,      \* the outcomes each destination is about
    Knows,      \* the destinations each process has an enabled, compatible sender of
    Attempts,   \* NotificationPolicy.attempts
    Timeout,    \* NotificationPolicy.timeout, in ticks
    Lease,      \* how long a claim lasts: the timeout and a margin
    Spacing,    \* NotificationPolicy.spacing
    Waits,      \* how long a retry may be put off
    Watched,    \* the deliveries an operator looks at
    MaxCycles,  \* bound: how often an operator starts a new cycle
    MaxSends,   \* bound: the attempts a new cycle may bring a delivery to
    MaxGen,     \* bound: generations up to which a registry may block a delivery
    Faults,     \* "ack": acknowledging a send fails for good; "heard": a claim
                \* commits and is not heard of; "drop": a process or a pass ends
    None

Statuses == {"success", "failed", "canceled"}
Answers == {"accepted", "permanent_failure", "retryable_failure"}
Never == -1     \* a delay no timestamp can hold

ASSUME DeliveryAssumption ==
    /\ Routes \subseteq Runs \X Dests
    /\ Wants \in [Dests -> SUBSET Statuses]
    /\ Knows \in [Procs -> SUBSET Dests]
    /\ {Attempts, Timeout, Lease, MaxCycles} \subseteq Nat \ {0}
    /\ Lease > Timeout
    /\ {Spacing, MaxGen, MaxSends} \subseteq Nat
    /\ Waits \subseteq Nat \cup {Never}
    /\ Watched \subseteq Routes
    /\ None \notin Answers /\ None \notin Routes \X Nat

VARIABLES
    run,        \* runs.status: "none" before it exists, "live", "ended"
    routes,     \* run_notification_routes
    row,        \* notification_deliveries
    dest,       \* notification_destination_state
    log,        \* notification_attempts: the cycle and outcome of each
    sends,      \* the sends in flight, each in the memory of its process
    got,        \* history: the sends the remote end accepted
    view        \* the delivery an operator looks at, as it was

vars == <<run, routes, row, dest, log, sends, got, view>>

NoRow == [state |-> "none", cycle |-> 0, used |-> 0, gen |-> 0, due |-> 0, lease |-> 0]
Fresh == [claim |-> None, lease |-> 0, next |-> 0]

States == {"none", "pending", "in_flight", "blocked", "delivered", "failed", "dismissed"}
Owed == {"pending", "in_flight", "blocked"}
Tokens == Routes \X (1..(Attempts * MaxCycles))
Horizon == Max(Waits \cup {Lease, Spacing})

TypeOK ==
    /\ run \in [Runs -> {"none", "live", "ended"}] /\ routes \subseteq Routes
    /\ DOMAIN row = Routes /\ DOMAIN log = Routes
    /\ \A x \in Routes :
        /\ row[x] \in [state : States, cycle : 0..MaxCycles, used : 0..Attempts,
                       gen : Nat, due : 0..Horizon, lease : 0..Lease]
        /\ \A n \in DOMAIN log[x] : log[x][n].cycle \in 1..row[x].cycle
        /\ row[x].state = "in_flight" <=> (log[x] # <<>> /\ log[x][Len(log[x])].outcome = "in_flight")
    /\ dest \in [Dests -> [claim : Tokens \cup {None}, lease : 0..Lease, next : 0..Horizon]]
    /\ \A s \in sends :
        /\ s.by \in Procs /\ s.token \in Tokens /\ s.age \in 0..(Timeout + 1)
        /\ s.token[2] <= Len(log[s.token[1]]) \/ row[s.token[1]].state = "none"
    /\ got \subseteq Tokens

Init ==
    /\ run = [r \in Runs |-> "none"] /\ routes = {}
    /\ row = [x \in Routes |-> NoRow] /\ log = [x \in Routes |-> <<>>]
    /\ dest = [d \in Dests |-> Fresh]
    /\ sends = {} /\ got = {} /\ view = None

(***************************************************************************)
(* A run begins and ends.                                                  *)
(***************************************************************************)
(* snapshot: in the transaction that creates the run.                      *)
Create(r) ==
    /\ run[r] = "none"
    /\ run' = [run EXCEPT ![r] = "live"]
    /\ routes' = routes \cup {x \in Routes : x[1] = r}
    /\ UNCHANGED <<row, dest, log, sends, got, view>>

(* finish: in the transaction that ends it, whichever that is.             *)
Finish(r) ==
    /\ run[r] = "live"
    /\ run' = [run EXCEPT ![r] = "ended"]
    /\ \E status \in Statuses :
        row' = [x \in Routes |->
                 IF x \in routes /\ x[1] = r /\ status \in Wants[x[2]]
                 THEN [NoRow EXCEPT !.state = "pending", !.cycle = 1] ELSE row[x]]
    /\ routes' = {x \in routes : x[1] # r}
    /\ UNCHANGED <<dest, log, sends, got, view>>

(***************************************************************************)
(* reconcile_deliveries, one delivery at a time, by process p.             *)
(***************************************************************************)
Outcome(x, n, outcome) == log' = [log EXCEPT ![x][n].outcome = outcome]

(* the claim of a destination is cleared by the token it was taken with    *)
Release(d, token) == IF d.claim = token THEN [d EXCEPT !.claim = None, !.lease = 0] ELSE d

(* a mutant: an attempt nobody answered for does not count *)
LapseForFree(p, x) ==
    /\ row[x].state = "in_flight" /\ row[x].lease = 0
    /\ Outcome(x, Len(log[x]), "outcome_unknown")
    /\ dest' = [dest EXCEPT ![x[2]] = Release(@, <<x, Len(log[x])>>)]
    /\ row' = [row EXCEPT ![x].state = IF x[2] \in Knows[p] THEN "pending" ELSE "blocked",
                          ![x].gen = @ + 1, ![x].due = 0]
    /\ UNCHANGED <<run, routes, sends, got, view>>

(* a mutant: only what may be sent again is recovered *)
LapseSparing(p, x) ==
    /\ row[x].state = "in_flight" /\ row[x].lease = 0 /\ row[x].used < Attempts
    /\ Outcome(x, Len(log[x]), "outcome_unknown")
    /\ dest' = [dest EXCEPT ![x[2]] = Release(@, <<x, Len(log[x])>>)]
    /\ row' = [row EXCEPT ![x].state = IF x[2] \in Knows[p] THEN "pending" ELSE "blocked",
                          ![x].gen = @ + 1, ![x].due = 0]
    /\ UNCHANGED <<run, routes, sends, got, view>>

(* A claim that expired: what its send came to is not known.               *)
Lapse(p, x) ==
    LET spent == row[x].used >= Attempts
        blocks == ~spent /\ x[2] \notin Knows[p]
    IN
    /\ row[x].state = "in_flight" /\ row[x].lease = 0
    /\ Outcome(x, Len(log[x]), "outcome_unknown")
    /\ dest' = [dest EXCEPT ![x[2]] = Release(@, <<x, Len(log[x])>>)]
    /\ row' = [row EXCEPT ![x].state = IF spent THEN "failed" ELSE IF blocks THEN "blocked" ELSE "pending",
                          ![x].gen = IF blocks THEN @ + 2 ELSE @ + 1,
                          ![x].due = 0]
    /\ UNCHANGED <<run, routes, sends, got, view>>

(* a mutant: blocking a delivery is not a change an operator could miss *)
BlockQuietly(p, x) ==
    /\ row[x].state = "pending" /\ x[2] \notin Knows[p] /\ row[x].gen < MaxGen
    /\ row' = [row EXCEPT ![x].state = "blocked"]
    /\ UNCHANGED <<run, routes, dest, log, sends, got, view>>

(* The destination is missing, disabled or incompatible in p...            *)
Block(p, x) ==
    /\ row[x].state = "pending" /\ x[2] \notin Knows[p] /\ row[x].gen < MaxGen
    /\ row' = [row EXCEPT ![x].state = "blocked", ![x].gen = @ + 1]
    /\ UNCHANGED <<run, routes, dest, log, sends, got, view>>

(* ...or is there again, and what was blocked is due at once.              *)
Unblock(p, x) ==
    /\ row[x].state = "blocked" /\ x[2] \in Knows[p]
    /\ row' = [row EXCEPT ![x].state = "pending", ![x].gen = @ + 1, ![x].due = 0]
    /\ UNCHANGED <<run, routes, dest, log, sends, got, view>>

(***************************************************************************)
(* claim_delivery and the send.                                            *)
(***************************************************************************)
(* a mutant: whether another's send is out is not looked at *)
ClaimableTogether(p, x) ==
    /\ x[2] \in Knows[p]
    /\ row[x].state = "pending" /\ row[x].due = 0
    /\ dest[x[2]].next = 0

Claimable(p, x) ==
    /\ x[2] \in Knows[p]
    /\ row[x].state = "pending" /\ row[x].due = 0
    /\ dest[x[2]].lease = 0 /\ dest[x[2]].next = 0

Take(x) ==
    /\ row' = [row EXCEPT ![x].state = "in_flight", ![x].used = @ + 1, ![x].gen = @ + 1,
                          ![x].lease = Lease]
    /\ dest' = [dest EXCEPT ![x[2]] = [claim |-> <<x, Len(log[x]) + 1>>, lease |-> Lease,
                                       next |-> Spacing]]
    /\ log' = [log EXCEPT ![x] = Append(@, [cycle |-> row[x].cycle, outcome |-> "in_flight"])]

Send(p, x) == [by |-> p, token |-> <<x, Len(log[x]) + 1>>, age |-> 0, answer |-> None]

(* The claim commits, and the send of it begins.                           *)
Claim(p, x) ==
    /\ Claimable(p, x) /\ Take(x)
    /\ sends' = sends \cup {Send(p, x)}
    /\ UNCHANGED <<run, routes, got, view>>

(* It commits and its answer is lost: the pass ends there and drops every  *)
(* send it has in flight, this one before it began.                        *)
ClaimUnheard(p, x) ==
    /\ "heard" \in Faults /\ Claimable(p, x) /\ Take(x)
    /\ sends' = {s \in sends : s.by # p}
    /\ UNCHANGED <<run, routes, got, view>>

(* An error in the pass, a flush out of its budget, the stop of a process  *)
(* or its death: what it was sending goes unanswered.                      *)
Drop(p) ==
    /\ "drop" \in Faults
    /\ \E s \in sends : s.by = p
    /\ sends' = {s \in sends : s.by # p}
    /\ UNCHANGED <<run, routes, row, dest, log, got, view>>

(* The remote end takes the message...                                     *)
Accept(s) ==
    /\ s.answer = None /\ s.token \notin got
    /\ got' = got \cup {s.token}
    /\ UNCHANGED <<run, routes, row, dest, log, sends, view>>

(* ...and the sender hears so, or is refused for good, or for now: an      *)
(* error, a panic or the timeout, which say nothing of what it did.        *)
Answer(s) ==
    /\ s.answer = None
    /\ \E answer \in Answers :
        /\ answer = "accepted" => s.token \in got
        /\ answer = "permanent_failure" => s.token \notin got
        /\ sends' = (sends \ {s}) \cup {[s EXCEPT !.answer = answer]}
    /\ UNCHANGED <<run, routes, row, dest, log, got, view>>

(***************************************************************************)
(* settle_delivery, retried until it lands or its claim is lost.           *)
(***************************************************************************)
(* a mutant: the token of the claim is not compared *)
HoldsAny(s) == row[s.token[1]].state = "in_flight" /\ row[s.token[1]].lease > 0

Holds(s) ==
    LET x == s.token[1] IN
    row[x].state = "in_flight" /\ row[x].lease > 0 /\ Len(log[x]) = s.token[2]

Settled(x, state, due) ==
    row' = [row EXCEPT ![x].state = state, ![x].due = due, ![x].gen = @ + 1, ![x].lease = 0]

(* Its destination is released, and closed to every delivery for as long   *)
(* as an error that names a delay asks for, whether or not it is retried.  *)
Frees(s, closed) ==
    dest' = [dest EXCEPT ![s.token[1][2]] =
              LET d == Release(@, s.token) IN [d EXCEPT !.next = Max({d.next, closed})]]

SettleAnswered(s) ==
    LET x == s.token[1]
        state == IF s.answer = "accepted" THEN "delivered" ELSE "failed"
    IN
    /\ s.answer \in {"accepted", "permanent_failure"} /\ Holds(s)
    /\ Settled(x, state, 0) /\ Outcome(x, s.token[2], s.answer)
    /\ \E closed \in {Never} \cup IF s.answer = "accepted" THEN {} ELSE Waits : Frees(s, closed)
    /\ sends' = sends \ {s}
    /\ UNCHANGED <<run, routes, got, view>>

(* To be retried after the backoff, or the delay the remote end asked for. *)
SettleRetry(s) ==
    LET x == s.token[1]
        again(wait) == wait # Never /\ row[x].used < Attempts
    IN
    /\ s.answer = "retryable_failure" /\ Holds(s)
    /\ \E wait \in Waits :
        /\ IF again(wait) THEN Settled(x, "pending", wait) ELSE Settled(x, "failed", 0)
        /\ \E closed \in {Never, wait} : Frees(s, closed)
    /\ Outcome(x, s.token[2], s.answer)
    /\ sends' = sends \ {s}
    /\ UNCHANGED <<run, routes, got, view>>

(* ClaimLost; or the acknowledgement could not be written for too long.    *)
Unsettled(s) ==
    /\ s.answer # None
    /\ ~Holds(s) \/ "ack" \in Faults
    /\ sends' = sends \ {s}
    /\ UNCHANGED <<run, routes, row, dest, log, got, view>>

(***************************************************************************)
(* control_notification, retention, time.                                  *)
(***************************************************************************)
Shown(x) == [x |-> x, state |-> row[x].state, cycle |-> row[x].cycle, used |-> row[x].used,
             gen |-> row[x].gen]

(* Whoever looks at a row in any other state can only be refused.          *)
View(x) ==
    /\ x \in Watched /\ row[x].state \in {"failed", "pending", "blocked"}
    /\ view' = Shown(x)
    /\ UNCHANGED <<run, routes, row, dest, log, sends, got>>

Retry(x) ==
    /\ view # None /\ view.x = x /\ view.gen = row[x].gen
    /\ row[x].state = "failed"
    /\ row[x].cycle < MaxCycles /\ Len(log[x]) + Attempts <= MaxSends
    /\ \E p \in Procs : x[2] \in Knows[p]
    /\ row' = [row EXCEPT ![x].state = "pending", ![x].cycle = @ + 1, ![x].used = 0,
                          ![x].due = 0, ![x].gen = @ + 1]
    /\ UNCHANGED <<run, routes, dest, log, sends, got, view>>

Dismiss(x) ==
    /\ view # None /\ view.x = x /\ view.gen = row[x].gen
    /\ row[x].state \in {"failed", "pending", "blocked"}
    /\ row' = [row EXCEPT ![x].state = "dismissed", ![x].due = 0, ![x].gen = @ + 1]
    /\ UNCHANGED <<run, routes, dest, log, sends, got, view>>

(* prune_named_notifications: a row that is settled for long enough, its   *)
(* attempts, and what is kept of a destination nothing refers to.          *)
Prune(x) ==
    LET idle(d) == /\ dest[d].claim = None
                   /\ \A y \in Routes \ {x} : y[2] = d => row[y].state = "none"
                   /\ \A y \in routes : y[2] # d
    IN
    /\ row[x].state \in {"delivered", "dismissed"}
    /\ row' = [row EXCEPT ![x] = NoRow] /\ log' = [log EXCEPT ![x] = <<>>]
    /\ dest' = [d \in Dests |-> IF idle(d) THEN Fresh ELSE dest[d]]
    /\ UNCHANGED <<run, routes, sends, got, view>>

Less(n) == IF n > 0 THEN n - 1 ELSE 0

Tick ==
    /\ row' = [x \in Routes |-> [row[x] EXCEPT !.due = Less(row[x].due), !.lease = Less(row[x].lease)]]
    /\ dest' = [d \in Dests |-> [dest[d] EXCEPT !.lease = Less(dest[d].lease), !.next = Less(dest[d].next)]]
    /\ sends' = {[s EXCEPT !.age = IF s.age <= Timeout THEN s.age + 1 ELSE s.age] : s \in sends}
    /\ UNCHANGED <<run, routes, log, got, view>>

RunStep == \E r \in Runs : Create(r) \/ Finish(r)
PassStep(p) == \E x \in Routes :
    Lapse(p, x) \/ Block(p, x) \/ Unblock(p, x) \/ Claim(p, x) \/ ClaimUnheard(p, x)
SendStep(s) == Accept(s) \/ Answer(s) \/ SettleAnswered(s) \/ SettleRetry(s) \/ Unsettled(s)
OperatorStep == \E x \in Routes : View(x) \/ Retry(x) \/ Dismiss(x) \/ Prune(x)

Next ==
    \/ RunStep
    \/ \E p \in Procs : PassStep(p) \/ Drop(p)
    \/ \E s \in sends : SendStep(s)
    \/ OperatorStep
    \/ Tick

Spec == Init /\ [][Next]_vars

(* Time passes; a sender is polled, and its answer acknowledged, until it  *)
(* has one.  Nobody in particular has to make passes: who does is up to    *)
(* the decider's lease.                                                    *)
FairSpec ==
    /\ Spec
    /\ WF_vars(Tick)
    /\ WF_vars(\E s \in sends : Answer(s))
    /\ WF_vars(\E s \in sends : SettleAnswered(s) \/ SettleRetry(s) \/ Unsettled(s))

(***************************************************************************)
(* Properties.                                                             *)
(***************************************************************************)
(* Of two sends that kept their timeout, whoever makes them, no two are    *)
(* under way to the same destination: the leases outlive the timeout, and  *)
(* a destination is not taken before the lease on it is over.              *)
OneAtATime ==
    \A s, t \in sends :
        /\ s.answer = None /\ t.answer = None /\ s.age <= Timeout /\ t.age <= Timeout
        /\ s.token[1][2] = t.token[1][2]
        => s = t

(* A cycle sends no more than the policy allows, whatever became of the    *)
(* sends: answered, expired, lost in a crash.                              *)
BudgetKept ==
    \A x \in Routes : \A c \in 1..MaxCycles :
        Cardinality({n \in DOMAIN log[x] : log[x][n].cycle = c}) <= Attempts

(* What is recorded is what happened: an attempt recorded as accepted was, *)
(* one recorded as refused was not, and nothing is sent, or left to be     *)
(* sent, after an attempt that is recorded as accepted.                    *)
RecordsTrue ==
    \A x \in Routes : \A n \in DOMAIN log[x] :
        /\ log[x][n].outcome = "accepted" => /\ <<x, n>> \in got
                                             /\ n = Len(log[x]) /\ row[x].state = "delivered"
        /\ log[x][n].outcome = "permanent_failure" => <<x, n>> \notin got
        /\ row[x].state = "delivered" => log[x][Len(log[x])].outcome = "accepted"

(* An operator retries or dismisses what was shown, or nothing: a delivery *)
(* that was claimed, settled, blocked or retried since is left alone.      *)
OperatorSawIt ==
    [][\A x \in Routes :
         \/ row'[x].state = "dismissed" /\ row[x].state # "dismissed"
         \/ row'[x].cycle > row[x].cycle /\ row[x].cycle > 0
         => view # None /\ view = Shown(x)]_vars

(* Those who decide, and so make a pass a second, know the destination d.  *)
DeciderKnows(d) == WF_vars(\E p \in Procs : d \in Knows[p] /\ PassStep(p))

(* A delivery that is owed comes to an end, delivered, failed or dismissed, *)
(* if those who decide know its destination.  (If they do not, it may be   *)
(* blocked for as long as they decide.)                                    *)
OwedIsSettled ==
    \A x \in Routes : DeciderKnows(x[2]) => []<>(row[x].state \notin Owed)
=============================================================================
