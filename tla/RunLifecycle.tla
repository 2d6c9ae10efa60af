---------------------------- MODULE RunLifecycle ----------------------------
(***************************************************************************)
(* What the run queue promises of each run, whatever processes, leases and *)
(* failures lie behind it: a run is created once, is held by at most one   *)
(* acquisition at a time, starts and ends only in the hands of its holder, *)
(* and never moves again once it has ended.                                *)
(***************************************************************************)
CONSTANTS Runs, Holders, NoHolder

VARIABLES
    st,         \* the status a reader of the run sees
    holder      \* the acquisition that may start and end it

Ended    == {"success", "failed", "canceled"}
Statuses == {"absent", "queued", "running"} \cup Ended

Init == /\ st = [r \in Runs |-> "absent"]
        /\ holder = [r \in Runs |-> NoHolder]

Becomes(r, s, h) == st'[r] = s /\ holder'[r] = h

Create(r)   == st[r] = "absent" /\ Becomes(r, "queued", NoHolder)

Acquire(r)  == /\ st[r] = "queued" /\ holder[r] = NoHolder
               /\ \E h \in Holders : Becomes(r, "queued", h)

Begin(r)    == /\ st[r] = "queued" /\ holder[r] # NoHolder
               /\ Becomes(r, "running", holder[r])

End(r)      == /\ st[r] = "running" /\ holder[r] # NoHolder
               /\ \E s \in Ended : Becomes(r, s, NoHolder)

(* A canceled run that nobody held. *)
Withdraw(r) == /\ st[r] = "queued" /\ holder[r] = NoHolder
               /\ Becomes(r, "canceled", NoHolder)

(* The holder stops, or goes away: back on the queue, or failed. *)
HandBack(r) == holder[r] # NoHolder /\ Becomes(r, "queued", NoHolder)
GiveUp(r)   == holder[r] # NoHolder /\ Becomes(r, "failed", NoHolder)

Moves(r) == Create(r) \/ Acquire(r) \/ Begin(r) \/ End(r) \/ Withdraw(r) \/ HandBack(r) \/ GiveUp(r)

(* One statement may move many runs at once: a reclaim, a release. *)
Next == /\ st' \in [Runs -> Statuses]
        /\ holder' \in [Runs -> Holders \cup {NoHolder}]
        /\ \A r \in Runs : Moves(r) \/ Becomes(r, st[r], holder[r])

Spec == Init /\ [][Next]_<<st, holder>>
=============================================================================
