------------------------------ MODULE MCBuilds ------------------------------
(* Instances of Builds for TLC: a source, a partitioned asset that reads   *)
(* it, and one that reads every key of that. *)
EXTENDS Builds

CONSTANTS s, A, B, MaxKeys

MCCount == [x \in {s, A, B} |-> IF x = A THEN MaxKeys ELSE 1]
MCReads ==
    [n \in UNION {{x} \X (1..MCCount[x]) : x \in {s, A, B}} |->
       CASE n[1] = s -> {}
         [] n[1] = A -> {<<s, 1>>}
         [] n[1] = B -> {A} \X (1..MCCount[A])]
MCLimit == [x \in {A, B} |-> 1]

(* A keeps the source, B says whether its keys agree. *)
MCCompute ==
    [n \in DOMAIN MCReads |-> [took \in [MCReads[n] -> Values \cup {-1}] |->
       IF n[1] = A THEN IF took[<<s, 1>>] = -1 THEN 0 ELSE took[<<s, 1>>]
       ELSE Cardinality({took[d] : d \in MCReads[n]}) % 2]]

StalePolicy == [x \in {A, B} |-> "stale"]
NoPolicy == [x \in {A, B} |-> "none"]
AtFirst == [x \in {s} |-> 0]
Loops == [a \in Askers |->
    CASE a = "sensors" -> {"probe"} [] a = "policies" -> {"policy"} [] a = "chunker" -> {"tick"}
      [] a = "api" -> {"build", "start"} [] a = "ui" -> {"cancel"}]
Fill == {{"chunker", "api", "ui"}}
Fresh == {{"sensors", "policies"}}
TwoByTwo == {{"sensors", "policies"}, {"chunker", "api", "ui"}}
=============================================================================
