------------------------------- MODULE Terms -------------------------------
(***************************************************************************)
(* What a deployment may rely on about its decisions: there is one term at *)
(* a time, each belongs to the process that took it, terms only go up, and *)
(* a decision is made once, by the process whose term it is.               *)
(***************************************************************************)
EXTENDS Naturals

CONSTANTS
    Procs,      \* processes that may decide
    Decisions,  \* what there is to decide, each once
    NoProc

VARIABLES
    term,       \* the term in force
    leader,     \* whose it is, or NoProc once it was handed back
    made        \* the term each decision was made in; 0 while it is open

Init == term = 0 /\ leader = NoProc /\ made = [d \in Decisions |-> 0]

(* A process begins a term of its own. *)
Acquire(p) == term' = term + 1 /\ leader' = p /\ UNCHANGED made

(* The term is over, and the next not begun. *)
Release == leader' = NoProc /\ UNCHANGED <<term, made>>

(* The process whose term it is decides what was open. *)
Decide(d) ==
    /\ leader # NoProc
    /\ made[d] = 0
    /\ made' = [made EXCEPT ![d] = term]
    /\ UNCHANGED <<term, leader>>

Next == (\E p \in Procs : Acquire(p)) \/ Release \/ \E d \in Decisions : Decide(d)

Spec == Init /\ [][Next]_<<term, leader, made>>
=============================================================================
