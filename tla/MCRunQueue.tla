----------------------------- MODULE MCRunQueue -----------------------------
(* Small instances of RunQueue for TLC. *)
EXTENDS RunQueue, TLC

CONSTANTS p1, p2, t1, t2, t3

NoSkew   == [p \in Procs |-> 0]
Ahead    == [p \in Procs |-> IF p = p2 THEN 1 ELSE 0]
All      == [p \in Procs |-> Runs]
Apart    == [p \in Procs |-> IF p = p1 THEN {1} ELSE {2}]
OneAtATime == {[over |-> Runs, max |-> 1]}
Sym      == Permutations(Procs) \cup Permutations(Tokens)
TokenSym == Permutations(Tokens)
=============================================================================
