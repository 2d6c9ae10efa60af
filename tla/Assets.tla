------------------------------- MODULE Assets -------------------------------
(***************************************************************************)
(* What hestan concludes from the materializations it has read (asset.rs,  *)
(* policy.rs): which keys of which assets are stale, what a build of some  *)
(* targets would therefore run, and what the automation policies want.     *)
(* Every operator is about a snapshot `m` of the table, for a caller acts  *)
(* on what it read and not on what is there by then.                       *)
(*                                                                         *)
(* A node is a pair of an asset and one of its keys, oldest first; an      *)
(* asset that is not partitioned, and a source, has key 1 alone.           *)
(***************************************************************************)
EXTENDS Integers, FiniteSets

CONSTANTS
    Sources, Assets,    \* what is probed, and what is built
    Partitioned,        \* assets with a key set
    Count,              \* how many keys each has
    Reads,              \* what each node reads, the mappings resolved
    Limit,              \* Partitions::build_limit
    Policy,             \* AutoPolicy's rule: "stale", "missing", "cron", "none"
    UpstreamReady       \* assets whose policy waits for what they read

Nodes == UNION {{a} \X (1..Count[a]) : a \in Sources \cup Assets}
NodesOf(a) == {a} \X (1..Count[a])
DepsOf == [a \in Sources \cup Assets |-> UNION {{d[1] : d \in Reads[n]} : n \in NodesOf(a)}]

(* topo_order refuses a graph with a cycle: any set of assets has one that *)
(* reads none of the others. *)
AcyclicAssets ==
    \A S \in SUBSET (Sources \cup Assets) : S # {} => \E a \in S : DepsOf[a] \cap S = {}

ASSUME AssetsAssumption ==
    /\ Sources \cap Assets = {} /\ Partitioned \subseteq Assets
    /\ Count \in [Sources \cup Assets -> Nat \ {0}]
    /\ \A a \in (Sources \cup Assets) \ Partitioned : Count[a] = 1
    /\ Reads \in [Nodes -> SUBSET Nodes]
    /\ \A s \in Sources : DepsOf[s] = {}
    /\ AcyclicAssets
    /\ Limit \in [Assets -> Nat \ {0}]
    /\ Policy \in [Assets -> {"stale", "missing", "cron", "none"}]
    /\ UpstreamReady \subseteq Assets

(* Everything an asset is built from, itself included. *)
Upstream[a \in Sources \cup Assets] == {a} \cup UNION {Upstream[d] : d \in DepsOf[a]}
Downstream(s) == {a \in Assets : s \in Upstream[a]}

-----------------------------------------------------------------------------
(* Staleness.  A materialization is [fp, ins]: the fingerprint of the value*)
(* and those of what it was computed from.                                 *)

None == -1      \* no fingerprint: never materialized

(* one_staleness, in topological order: never built, or a dep moved, is    *)
(* missing, or is stale itself.                                            *)
Stale(m) ==
    LET stale[n \in Nodes] ==
          \/ m[n].fp = None
          \/ \E d \in Reads[n] : stale[d] \/ m[d].fp = None \/ m[n].ins[d] # m[d].fp
    IN stale

StaleNodes(m, a) == {n \in NodesOf(a) : Stale(m)[n]}

(* The newest of some keys, up to the build limit. *)
Newest(a, keys) == {n \in keys : Cardinality({x \in keys : x[2] > n[2]}) < Limit[a]}

-----------------------------------------------------------------------------
(* Plans: the nodes a build of `targets` claims and runs, with the keys of *)
(* some of them named outright.                                            *)

(* plan_partitions: each target, and what is stale above it. *)
PlannedOps(m, targets) ==
    targets \cup {a \in Assets \cap UNION {Upstream[t] : t \in targets} : StaleNodes(m, a) # {}}

(* The keys of a target: those named, or those a build takes by default.   *)
Asked(m, targets, named, a) ==
    IF a \notin Partitioned THEN NodesOf(a)
    ELSE IF a \in DOMAIN named THEN named[a]
    ELSE IF a \in targets THEN Newest(a, StaleNodes(m, a)) ELSE {}

(* key_targets, from the sinks up: besides what is asked of it, every stale*)
(* key of an asset that a planned consumer is about to read.               *)
KeyTargets(m, targets, named) ==
    LET ops == PlannedOps(m, targets)
        pulled[a \in Assets] ==
          {n \in StaleNodes(m, a) : a \in Partitioned /\ \E c \in {x \in ops : a \in DepsOf[x]} :
             \E x \in Asked(m, targets, named, c) \cup pulled[c] : n \in Reads[x]}
    IN pulled

(* What claimed_by lists of the plan. *)
Plan(m, targets, named) ==
    UNION {Asked(m, targets, named, a) \cup KeyTargets(m, targets, named)[a] : a \in PlannedOps(m, targets)}

NoneNamed == [a \in {} |-> {}]

-----------------------------------------------------------------------------
(* Policies. *)

(* a mutant: a rule about stale keys looks for missing ones *)
FiresOnMissing(m, n, due) == Policy[n[1]] # "none" /\ m[n].fp = None

(* The rule of a node fires; `due` are the assets whose cron came round.   *)
Fires(m, n, due) ==
    \/ Policy[n[1]] = "stale" /\ Stale(m)[n]
    \/ Policy[n[1]] = "missing" /\ m[n].fp = None
    \/ Policy[n[1]] = "cron" /\ n[1] \in due /\ Stale(m)[n]

(* unobserved_sources: a source nothing has observed holds back all below. *)
Unobserved(m, a) == \E s \in Sources \cap Upstream[a] : m[<<s, 1>>].fp = None

(* gap: something the node reads has not been built. *)
Gap(m, n) == \E d \in Reads[n] : m[d].fp = None

(* Pass::verdict = Build. *)
ToBuild(m, n, due) ==
    /\ Fires(m, n, due)
    /\ ~Unobserved(m, n[1])
    /\ n[1] \in UpstreamReady => ~Gap(m, n)

(* Pass::wants, of the assets the pass is about: the keys to build of each.*)
Wants(m, only, due) ==
    LET keys(a) == {n \in NodesOf(a) : ToBuild(m, n, due)}
    IN [a \in {x \in only : keys(x) # {}} |-> Newest(a, keys(a))]

(* One plan for everything a pass wants. *)
PolicyPlan(m, only, due) ==
    LET wants == Wants(m, only, due) IN Plan(m, DOMAIN wants, wants)
=============================================================================
