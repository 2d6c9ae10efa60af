--------------------------- MODULE DeciderLease ---------------------------
(***************************************************************************)
(* The lease that names the one process of a deployment that decides: the  *)
(* row `decider` (holder, term, expiry), what each process believes of it, *)
(* and the fence a decision passes in the transaction that writes it.      *)
(*                                                                         *)
(* Time is relative, as in RunQueue: `left` counts down to the expiry, a   *)
(* process whose clock is ahead by Skew[p] sees Skew[p] less of it.        *)
(***************************************************************************)
EXTENDS Integers

CONSTANTS
    Procs,      \* processes with an elected handle
    NoProc,
    Lease,      \* DECIDE_LEASE, in renewals
    Skew,       \* how far ahead the clock of a process is
    MaxTerm,    \* bound: how many acquisitions are followed
    Faults,     \* "lease": its statements fail; "heard": they land unheard
    MayStop, MayDie

ASSUME DeciderLeaseAssumption ==
    /\ NoProc \notin Procs
    /\ Lease \in Nat /\ MaxTerm \in Nat
    /\ Skew \in [Procs -> Nat]
    /\ MayStop \subseteq Procs /\ MayDie \subseteq Procs

VARIABLES
    holder,     \* decider.claimed_by
    term,       \* decider.term
    left,       \* decider.lease_until less the clock; -1 once it is past
    mine,       \* the watch of each process: the term it believes it holds
    since,      \* how long ago it last moved `lease_until` (`renewed`)
    mode        \* "up", "stopping" (the lease handed back), "dead"

leaseVars == <<holder, term, left, mine, since, mode>>

LeaseInit ==
    /\ holder = NoProc /\ term = 0 /\ left = -1
    /\ mine = [p \in Procs |-> 0]
    /\ since = [p \in Procs |-> 0]
    /\ mode = [p \in Procs |-> "up"]

LeaseTypeOK ==
    /\ holder \in Procs \cup {NoProc}
    /\ term \in 0..MaxTerm
    /\ left = -1 \/ \E p \in Procs : left \in 0..(Lease + Skew[p])
    /\ mine \in [Procs -> 0..MaxTerm]
    /\ since \in [Procs -> 0..Lease]
    /\ mode \in [Procs -> {"up", "stopping", "dead"}]

-----------------------------------------------------------------------------

(* A process decides while it believes it holds a term. *)
Leading(p) == mine[p] # 0

(* The row's lease is past, by the clock of p. *)
LapsedFor(p) == left < Skew[p]

(* The transaction of p, under the term it believes in, is let through.    *)
FencePasses(p) == holder = p /\ term = mine[p] /\ ~LapsedFor(p)

(* a mutant: a lapsed lease is not taken over *)
TakableUnheld(p) == holder \in {NoProc, p}

(* What UPDATE decider of p would take. *)
Takable(p) == holder \in {NoProc, p} \/ LapsedFor(p)

(* The row taken by p, in a new term. *)
RowTaken(p) == holder' = p /\ term' = term + 1 /\ left' = Lease + Skew[p]

(* take_now: at boot, and at each turn of run_decider that holds no term.  *)
Take(p) ==
    /\ mode[p] = "up" /\ ~Leading(p) /\ Takable(p) /\ term < MaxTerm
    /\ RowTaken(p)
    /\ \/ mine' = [mine EXCEPT ![p] = term + 1] /\ since' = [since EXCEPT ![p] = 0]
       \/ "heard" \in Faults /\ UNCHANGED <<mine, since>>
    /\ UNCHANGED mode

(* What a renewal of p would move. *)
Renewable(p) == holder = p /\ term = mine[p] /\ ~LapsedFor(p)

(* A turn of run_decider that renews, or learns that it cannot.            *)
Renew(p) ==
    /\ mode[p] = "up" /\ Leading(p)
    /\ IF Renewable(p)
       THEN /\ left' = Lease + Skew[p]
            /\ since' = [since EXCEPT ![p] = 0]
            /\ UNCHANGED mine
       ELSE mine' = [mine EXCEPT ![p] = 0] /\ UNCHANGED <<left, since>>
    /\ UNCHANGED <<holder, term, mode>>

(* A turn whose statement errs: not executed, or executed and unheard.     *)
RenewErrs(p) ==
    /\ mode[p] = "up" /\ Leading(p)
    /\ \/ "lease" \in Faults /\ UNCHANGED left
       \/ "heard" \in Faults /\ Renewable(p) /\ left' = Lease + Skew[p]
    /\ mine' = IF since[p] >= Lease THEN [mine EXCEPT ![p] = 0] ELSE mine
    /\ UNCHANGED <<holder, term, since, mode>>

(* serve returns: the loops are aborted and the lease handed back.         *)
HandBack(p) ==
    /\ p \in MayStop /\ mode[p] = "up"
    /\ mode' = [mode EXCEPT ![p] = "stopping"]
    /\ mine' = [mine EXCEPT ![p] = 0]
    /\ \/ /\ Leading(p) /\ holder = p /\ term = mine[p]
          /\ holder' = NoProc /\ left' = -1
       \/ /\ ~(Leading(p) /\ holder = p /\ term = mine[p]) \/ "lease" \in Faults
          /\ UNCHANGED <<holder, left>>
    /\ UNCHANGED <<term, since>>

(* A process is killed: its lease stays until it lapses. *)
Die(p) ==
    /\ p \in MayDie /\ mode[p] # "dead"
    /\ mode' = [mode EXCEPT ![p] = "dead"]
    /\ mine' = [mine EXCEPT ![p] = 0]
    /\ since' = [since EXCEPT ![p] = 0]
    /\ UNCHANGED <<holder, term, left>>

(* One renewal's worth of time; `since` is followed where a turn may err.  *)
Tick ==
    /\ left >= 0
    /\ left' = left - 1
    /\ since' = [p \in Procs |->
          IF Faults # {} /\ Leading(p) /\ since[p] < Lease THEN since[p] + 1 ELSE since[p]]
    /\ UNCHANGED <<holder, term, mine, mode>>

LeaseStep ==
    \/ \E p \in Procs : Take(p) \/ Renew(p) \/ RenewErrs(p) \/ HandBack(p) \/ Die(p)
    \/ Tick
=============================================================================
