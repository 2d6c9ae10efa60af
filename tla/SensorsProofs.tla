---------------------------- MODULE SensorsProofs ----------------------------
(***************************************************************************)
(* What holds of Sensors for any number of processes, terms, runs and      *)
(* pages, any faults and any skew of the clocks.                           *)
(***************************************************************************)
EXTENDS Sensors, Extremes, FiniteSetTheorems, TLAPS

Steps == {"idle", "read", "seed", "page", "call", "ask", "launch", "commit"}

(* The types of the tables and of what an evaluation keeps; and that the   *)
(* moments runs ended at have a last one.                                  *)
TablesTyped ==
    /\ kind \in Kinds /\ stamp \in [Runs -> Nat] /\ landed \subseteq Runs
    /\ cursor \in Int /\ keys \subseteq Runs /\ launched \in [Runs -> 0..2]
EvalTyped == eval \in [Procs -> [step : Steps, read : Int, upto : Int, rest : SUBSET Runs]]
Bounded == \E b \in Nat : \A r \in Runs : stamp[r] <= b
Typed == TablesTyped /\ EvalTyped /\ Bounded

(* The keys that are claimed are those of what was launched. *)
KeysUsed == \A r \in keys : launched[r] > 0
KeysTaken == Keyed => \A r \in Runs : launched[r] <= 1 /\ (launched[r] > 0 => r \in keys)

(* Whether a run needs no more attention; whether all up to a place do not;*)
(* and whether a place is no later than a run that landed.                 *)
Seen(r) == r \in seeded \/ launched[r] > 0
Past(c) == \A r \in Matching \cap landed : At(r) <= c => Seen(r)
Reached(c) == c <= 0 \/ \E m \in landed : c <= At(m)

(* A new run-status sensor's first evaluation, which launches nothing. *)
Seeds(e) == kind = "runs" /\ e.read = Unset

(* What an evaluation has before it: all it passed, but the rest. *)
Sound(e) ==
    /\ Past(e.read) /\ Reached(e.read) /\ Reached(e.upto)
    /\ e.step \notin {"call", "ask", "launch"} => e.rest = {}
    /\ Seeds(e) => e.step \in {"idle", "read", "seed", "commit"}
    /\ e.step = "seed" => Seeds(e)
    /\ ~Seeds(e) /\ e.step \in {"call", "ask", "launch", "commit"} =>
         \A r \in Matching \cap landed : At(r) <= e.upto => r \in e.rest \/ Seen(r)

Stamped == \A r \in landed : stamp[r] # 0

(* An evaluation that is about a request has one. *)
Asking == \A p \in Procs : eval[p].step \in {"call", "ask", "launch"} => eval[p].rest # {}

(* The invariant of any world, and what an ordered one adds to it. *)
Core == Typed /\ Stamped /\ KeysUsed /\ Asking
Inv ==
    /\ Core
    /\ Past(cursor) /\ Reached(cursor)
    /\ \A p \in Procs : Sound(eval[p])

-----------------------------------------------------------------------------
(* Lemmas. *)

N == Cardinality(Runs)

(* The runs are numbered. *)
LEMMA RunsNumbered ==
    /\ N \in Nat /\ Runs = 1..N /\ Matching \subseteq Runs /\ Runs \subseteq Nat
    /\ IsFiniteSet(Runs) /\ \A r \in Runs : r > 0 /\ r <= N
<1>1. IsFiniteSet(Runs) /\ Runs = 1..N /\ Matching \subseteq Runs
  BY SensorsAssumption DEF N
<1>2. N \in Nat
  BY <1>1, FS_CardinalityType DEF N
<1> QED
  BY <1>1, <1>2

(* A place is a number, above zero. *)
LEMMA PlaceOf ==
    ASSUME stamp \in [Runs -> Nat], NEW r \in Runs
    PROVE  At(r) \in Nat /\ At(r) > 0
<1> DEFINE a == stamp[r] * (N + 1)
<1>1. stamp[r] \in Nat /\ N + 1 \in Nat /\ r \in Nat /\ r > 0
  BY RunsNumbered
<1>2. a \in Nat
  BY <1>1
<1>3. At(r) = a + r
  BY DEF At, N
<1> HIDE DEF a
<1> QED
  BY <1>1, <1>2, <1>3

(* The places of the runs have a last one, and so have those of some. *)
LEMMA LastPlace ==
    ASSUME Typed, NEW S, S \subseteq Runs, S # {}
    PROVE  /\ Max({At(r) : r \in S}) \in {At(r) : r \in S} /\ Max({At(r) : r \in S}) \in Nat
           /\ \A r \in S : At(r) <= Max({At(s) : s \in S})
<1> DEFINE P == {At(r) : r \in S}
<1>1. PICK b \in Nat : \A r \in Runs : stamp[r] <= b
  BY DEF Typed, Bounded
<1>2. b * (N + 1) \in Nat /\ N \in Nat
  BY <1>1, RunsNumbered
<1>3. ASSUME NEW r \in S PROVE At(r) \in Nat /\ At(r) <= b * (N + 1) + N
  <2>1. stamp[r] \in Nat /\ stamp[r] <= b /\ N + 1 \in Nat /\ r <= N /\ r \in Nat
    BY <1>1, RunsNumbered DEF Typed, TablesTyped
  <2>2. stamp[r] * (N + 1) <= b * (N + 1) /\ stamp[r] * (N + 1) \in Nat
    BY <2>1
  <2>3. At(r) = stamp[r] * (N + 1) + r
    BY DEF At, N
  <2> DEFINE a == stamp[r] * (N + 1)
             z == b * (N + 1)
  <2>4. At(r) = a + r /\ a <= z /\ a \in Nat /\ z \in Nat
    BY <1>2, <2>2, <2>3
  <2> HIDE DEF a, z
  <2>5. At(r) \in Nat /\ At(r) <= z + N
    BY <2>1, <2>4, <1>2
  <2> QED
    BY <2>5 DEF z
<1> DEFINE top == b * (N + 1) + N
<1>4. top \in Int
  BY <1>2
<1>5. \A y \in P : y \in Nat /\ y \in Int /\ y <= top
  BY <1>3
<1>6. P # {}
  OBVIOUS
<1> HIDE DEF P, top
<1>7. Max(P) \in P /\ \A y \in P : y <= Max(P)
  BY <1>4, <1>5, <1>6, MaxIsGreatest
<1>8. Max(P) \in Nat
  BY <1>5, <1>7
<1> QED
  BY <1>7, <1>8 DEF P

(* The next request of an evaluation is one of those that are left. *)
LEMMA NextRequest ==
    ASSUME Typed, NEW p \in Procs, eval[p].rest # {}
    PROVE  Oldest(p) \in eval[p].rest /\ Oldest(p) \in Runs
<1> DEFINE R == eval[p].rest
           P == {At(r) : r \in R}
<1>1. R \subseteq Runs
  BY DEF Typed, EvalTyped
<1>2. P \subseteq Nat /\ P # {}
  BY <1>1, PlaceOf DEF Typed, TablesTyped
<1>3. PICK m \in P : \A y \in P : m <= y
  <2> HIDE DEF P
  <2> QED
    BY <1>2, LeastExists
<1>4. PICK r \in R : At(r) = m
  BY <1>3
<1>5. \A s \in R : At(r) <= At(s)
  BY <1>3, <1>4
<1> QED
  BY <1>1, <1>4, <1>5 DEF Oldest

(* A page is all that landed after a place, up to the last of it. *)
LEMMA PageIsWhole ==
    ASSUME Typed, NEW c \in Int, NEW r \in After(c), PageAfter(c) # {},
           At(r) <= Max({At(s) : s \in PageAfter(c)})
    PROVE  r \in PageAfter(c)
<1>1. PageAfter(c) \subseteq After(c) /\ After(c) \subseteq Runs
  BY DEF PageAfter, After, Typed, TablesTyped
<1>2. PICK m \in PageAfter(c) : At(m) = Max({At(s) : s \in PageAfter(c)})
  BY <1>1, LastPlace
<1> DEFINE Before(x) == {s \in After(c) : At(s) < At(x)}
<1>3. At(r) \in Nat /\ At(m) \in Nat /\ \A s \in After(c) : At(s) \in Nat
  BY <1>1, <1>2, PlaceOf DEF Typed, TablesTyped
<1>4. Before(r) \subseteq Before(m)
  BY <1>2, <1>3
<1>5. IsFiniteSet(Before(m)) /\ Cardinality(Before(m)) < Page
  <2>1. Before(m) \subseteq Runs
    BY <1>1
  <2>2. IsFiniteSet(Before(m))
    BY <2>1, RunsNumbered, FS_Subset
  <2> QED
    BY <2>2 DEF PageAfter
<1>6. /\ Cardinality(Before(r)) <= Cardinality(Before(m))
      /\ Cardinality(Before(r)) \in Nat /\ Cardinality(Before(m)) \in Nat
  BY <1>4, <1>5, FS_Subset, FS_CardinalityType
<1>7. Cardinality(Before(r)) < Page
  BY <1>5, <1>6, SensorsAssumption
<1> QED
  BY <1>7 DEF PageAfter

-----------------------------------------------------------------------------
(* What any step does to the tables: what has landed, or was dealt with,   *)
(* stays so, and in an ordered world what lands does so after the rest.    *)
PlaceNext(r) == stamp'[r] * (N + 1) + r
SeenNext(r) == r \in seeded' \/ launched'[r] > 0
Grown ==
    /\ kind' = kind /\ landed \subseteq landed' /\ landed' \subseteq Runs
    /\ stamp' \in [Runs -> Nat] /\ \A r \in landed : stamp'[r] = stamp[r]
    /\ \A r \in Runs : Seen(r) => SeenNext(r)
    /\ Ordered => \A r \in landed' \ landed : \A m \in landed : At(m) < PlaceNext(r)

PastNext(c) == \A r \in Matching \cap landed' : PlaceNext(r) <= c => SeenNext(r)
ReachedNext(c) == c <= 0 \/ \E m \in landed' : c <= PlaceNext(m)

(* A place is a number after the step, too. *)
LEMMA NextPlaces ==
    ASSUME stamp' \in [Runs -> Nat], NEW r \in Runs
    PROVE  PlaceNext(r) \in Nat /\ PlaceNext(r) > 0
<1> DEFINE a == stamp'[r] * (N + 1)
<1>1. stamp'[r] \in Nat /\ N + 1 \in Nat /\ r \in Nat /\ r > 0
  BY RunsNumbered
<1>2. a \in Nat
  BY <1>1
<1>3. PlaceNext(r) = a + r
  BY DEF PlaceNext
<1> HIDE DEF a
<1> QED
  BY <1>1, <1>2, <1>3

(* A place stays past, whatever lands. *)
LEMMA PlacesStay ==
    ASSUME Typed, Ordered, Grown
    PROVE  /\ \A c \in Int : Past(c) /\ Reached(c) => PastNext(c)
           /\ \A c \in Int : Reached(c) => ReachedNext(c)
<1>1. \A r \in landed : PlaceNext(r) = At(r)
  BY DEF Grown, PlaceNext, At, N
<1>2. \A r \in landed : At(r) \in Nat /\ At(r) > 0 /\ r \in Runs
  BY PlaceOf DEF Typed, TablesTyped
<1>3. \A r \in landed' : PlaceNext(r) \in Nat /\ PlaceNext(r) > 0
  BY NextPlaces DEF Grown
<1>4. ASSUME NEW c \in Int, Past(c), Reached(c) PROVE PastNext(c)
  <2> SUFFICES ASSUME NEW r \in Matching \cap landed', PlaceNext(r) <= c
               PROVE  SeenNext(r)
    BY DEF PastNext
  <2>1. CASE r \in landed
    BY <1>1, <1>2, <1>4, <2>1 DEF Past, Grown
  <2>2. CASE r \notin landed
    <3>1. \A m \in landed : At(m) < PlaceNext(r)
      BY <2>2 DEF Grown
    <3>2. c <= 0 \/ \E m \in landed : c <= At(m)
      BY <1>4 DEF Reached
    <3> QED
      BY <3>1, <3>2, <1>2, <1>3
  <2> QED
    BY <2>1, <2>2
<1>5. ASSUME NEW c \in Int, Reached(c) PROVE ReachedNext(c)
  BY <1>1, <1>5 DEF Reached, ReachedNext, Grown
<1> QED
  BY <1>4, <1>5

(* The time a run takes is no earlier than any taken before. *)
LEMMA StampMoves ==
    ASSUME Typed, NEW r \in Runs, Stamp(r)
    PROVE  /\ stamp[r] = 0 /\ stamp' \in [Runs -> Nat] /\ \A s \in Runs \ {r} : stamp'[s] = stamp[s]
           /\ stamp'[r] # 0 /\ Bounded'
<1> DEFINE T == {stamp[s] : s \in Runs}
<1>1. PICK b \in Nat : \A s \in Runs : stamp[s] <= b
  BY DEF Typed, Bounded
<1>2. stamp \in [Runs -> Nat]
  BY DEF Typed, TablesTyped
<1>3. T # {} /\ b \in Int /\ \A y \in T : y \in Nat /\ y \in Int /\ y <= b
  BY <1>1, <1>2
<1>4. Max(T) \in Nat /\ Max(T) <= b
  <2> HIDE DEF T
  <2> QED
    BY <1>3, MaxIsGreatest
<1>5. PICK at \in {Max(T), Max(T) + 1} \ {0} : stamp' = [stamp EXCEPT ![r] = at]
  BY DEF Stamp
<1> HIDE DEF T
<1>6. at \in Nat /\ at # 0 /\ at <= b + 1
  BY <1>4, <1>5, <1>1
<1>7. \A s \in Runs : stamp'[s] <= b + 1
  BY <1>1, <1>2, <1>5, <1>6
<1> QED
  BY <1>1, <1>2, <1>5, <1>6, <1>7 DEF Stamp, Bounded

(* No step takes anything out of its type. *)
LEMMA StepTyped ==
    ASSUME Core, [Next]_vars
    PROVE  Typed'
<1> DEFINE Quiet == UNCHANGED <<kind, stamp, landed, cursor, keys, launched>>
<1>0. \A p \in Procs : eval[p].rest \subseteq Runs /\ eval[p].read \in Int /\ eval[p].upto \in Int
  BY DEF Core, Typed, EvalTyped
<1>a. Quiet => TablesTyped' /\ Bounded'
  BY DEF Core, Typed, TablesTyped, Bounded
<1>b. \A R : Then(R) \in Steps
  BY DEF Then, Steps
<1>c. Idle \in [step : Steps, read : Int, upto : Int, rest : SUBSET Runs]
  BY DEF Idle, Steps, Unset
<1>1. ASSUME NEW p \in Procs, Turn(p)
      PROVE  Typed'
  <2>1. EvalTyped'
    BY <1>1, <1>0 DEF Turn, Goes, Core, Typed, EvalTyped, Steps
  <2>2. Quiet
    BY <1>1 DEF Turn
  <2> QED
    BY <2>1, <2>2, <1>a DEF Typed
<1>2. ASSUME NEW p \in Procs, ReadCursor(p)
      PROVE  Typed'
  <2>1. EvalTyped'
    BY <1>2, <1>0, <1>c DEF ReadCursor, Goes, Ends, Core, Typed, EvalTyped, TablesTyped, Steps
  <2>2. Quiet
    BY <1>2 DEF ReadCursor
  <2> QED
    BY <2>1, <2>2, <1>a DEF Typed
<1>3. ASSUME NEW p \in Procs, Call(p)
      PROVE  Typed'
  <2>1. EvalTyped'
    BY <1>3, <1>0, <1>c DEF Call, Goes, Ends, Core, Typed, EvalTyped, Steps
  <2>2. Quiet
    BY <1>3 DEF Call
  <2> QED
    BY <2>1, <2>2, <1>a DEF Typed
<1>4. ASSUME NEW p \in Procs, Ask(p)
      PROVE  Typed'
  <2>1. EvalTyped'
    BY <1>4, <1>0, <1>b, <1>c DEF Ask, Goes, Handled, Ends, Core, Typed, EvalTyped, Steps
  <2>2. Quiet
    BY <1>4 DEF Ask
  <2> QED
    BY <2>1, <2>2, <1>a DEF Typed
<1>5. ASSUME NEW p \in Procs, Seed(p)
      PROVE  Typed'
  <2>1. landed # {} => Max({At(r) : r \in landed}) \in Nat
    BY LastPlace DEF Core, Typed, TablesTyped
  <2> DEFINE top == IF landed = {} THEN 0 ELSE Max({At(r) : r \in landed})
  <2>2. top \in Int
    BY <2>1
  <2>3. \/ eval' = [eval EXCEPT ![p].step = "commit", ![p].upto = top]
        \/ eval' = [eval EXCEPT ![p] = Idle]
    BY <1>5 DEF Seed, Ends
  <2> HIDE DEF top
  <2>4. EvalTyped'
    BY <2>2, <2>3, <1>c DEF Core, Typed, EvalTyped, Steps
  <2>5. Quiet
    BY <1>5 DEF Seed
  <2> QED
    BY <2>4, <2>5, <1>a DEF Typed
<1>6. ASSUME NEW p \in Procs, Read(p)
      PROVE  Typed'
  <2> DEFINE page == PageAfter(eval[p].read)
             top == Max({At(r) : r \in page})
             rest == page \cap Matching
             next == Then(rest)
  <2>1. page \subseteq Runs /\ rest \subseteq Runs
    BY DEF PageAfter, After, Core, Typed, TablesTyped
  <2>2. page # {} => top \in Int
    <3> HIDE DEF page, rest
    <3>1. ASSUME page # {} PROVE top \in Nat
      BY <2>1, <3>1, LastPlace DEF Core
    <3> QED
      BY <3>1
  <2>3. next \in Steps
    BY <1>b
  <2>4. \/ page # {} /\ eval' = [eval EXCEPT ![p].upto = top, ![p].rest = rest, ![p].step = next]
        \/ eval' = [eval EXCEPT ![p] = Idle]
    BY <1>6 DEF Read, Ends
  <2> HIDE DEF page, top, rest, next
  <2>5. EvalTyped'
    BY <2>1, <2>2, <2>3, <2>4, <1>c DEF Core, Typed, EvalTyped
  <2>6. Quiet
    BY <1>6 DEF Read
  <2> QED
    BY <2>5, <2>6, <1>a DEF Typed
<1>7. ASSUME NEW p \in Procs, Launch(p)
      PROVE  Typed'
  <2>1. EvalTyped'
    BY <1>7, <1>0, <1>b, <1>c DEF Launch, Handled, Ends, Core, Typed, EvalTyped
  <2>2. eval[p].rest # {}
    BY <1>7 DEF Launch, Core, Asking
  <2>3. Oldest(p) \in Runs
    BY <2>2, NextRequest DEF Core
  <2>4. TablesTyped' /\ Bounded'
    BY <1>7, <2>3 DEF Launch, Core, Typed, TablesTyped, Bounded
  <2> QED
    BY <2>1, <2>4 DEF Typed
<1>8. ASSUME NEW p \in Procs, Commit(p)
      PROVE  Typed'
  <2>1. EvalTyped'
    BY <1>8, <1>0, <1>c DEF Commit, Ends, Core, Typed, EvalTyped
  <2>2. TablesTyped' /\ Bounded'
    BY <1>8, <1>0 DEF Commit, Core, Typed, TablesTyped, Bounded
  <2> QED
    BY <2>1, <2>2 DEF Typed
<1>9. ASSUME NEW p \in Procs, Crash(p)
      PROVE  Typed'
  <2>1. EvalTyped'
    BY <1>9, <1>c DEF Crash, Ends, Core, Typed, EvalTyped
  <2>2. Quiet
    BY <1>9 DEF Crash
  <2> QED
    BY <2>1, <2>2, <1>a DEF Typed
<1>10. ASSUME NEW r \in Runs, Stamp(r)
      PROVE  Typed'
  <2>1. stamp' \in [Runs -> Nat] /\ Bounded'
    BY <1>10, StampMoves DEF Core
  <2> QED
    BY <2>1, <1>10 DEF Stamp, Core, Typed, TablesTyped, EvalTyped
<1>11. ASSUME NEW r \in Runs, Land(r)
      PROVE  Typed'
  BY <1>11 DEF Land, Core, Typed, TablesTyped, EvalTyped, Bounded
<1>12. ASSUME Pause \/ Resume \/ Leases \/ UNCHANGED vars
      PROVE  Typed'
  BY <1>12 DEF Pause, Resume, Leases, sensorVars, vars, Core, Typed, TablesTyped, EvalTyped, Bounded
<1> QED
  BY <1>1, <1>2, <1>3, <1>4, <1>5, <1>6, <1>7, <1>8, <1>9, <1>10, <1>11, <1>12 DEF Next, Evaluation

(* The first step of the argument: what any step does to the tables. *)
LEMMA StepGrows ==
    ASSUME Core, [Next]_vars
    PROVE  Grown
<1> DEFINE Quiet == UNCHANGED <<kind, stamp, landed, launched, seeded>>
<1>a. Quiet => Grown
  BY DEF Grown, Seen, SeenNext, Core, Typed, TablesTyped
<1>1. ASSUME NEW p \in Procs, Evaluation(p), ~Launch(p), ~Commit(p)
      PROVE  Grown
  <2>1. Quiet
    BY <1>1 DEF Evaluation, Turn, ReadCursor, Seed, Read, Call, Ask
  <2> QED
    BY <2>1, <1>a
<1>2. ASSUME NEW p \in Procs, Launch(p)
      PROVE  Grown
  <2>1. UNCHANGED <<kind, stamp, landed, seeded>>
    BY <1>2 DEF Launch
  <2>2. launched' = launched \/ launched' = [launched EXCEPT ![Oldest(p)] = IF @ < 2 THEN @ + 1 ELSE @]
    BY <1>2 DEF Launch
  <2>3. \A r \in Runs : launched[r] > 0 => launched'[r] > 0
    BY <2>2 DEF Core, Typed, TablesTyped
  <2> QED
    BY <2>1, <2>3 DEF Grown, Seen, SeenNext, Core, Typed, TablesTyped
<1>3. ASSUME NEW p \in Procs, Commit(p)
      PROVE  Grown
  <2>1. UNCHANGED <<kind, stamp, landed, launched>> /\ seeded \subseteq seeded'
    BY <1>3 DEF Commit
  <2> QED
    BY <2>1 DEF Grown, Seen, SeenNext, Core, Typed, TablesTyped
<1>4. ASSUME NEW r \in Runs, Stamp(r)
      PROVE  Grown
  <2>1. UNCHANGED <<kind, landed, launched, seeded>>
    BY <1>4 DEF Stamp
  <2>2. stamp[r] = 0 /\ stamp' \in [Runs -> Nat] /\ \A s \in Runs \ {r} : stamp'[s] = stamp[s]
    BY <1>4, StampMoves DEF Core
  <2>3. \A s \in landed : stamp'[s] = stamp[s]
    BY <2>2 DEF Core, Stamped, Typed, TablesTyped
  <2> QED
    BY <2>1, <2>2, <2>3 DEF Grown, Seen, SeenNext, Core, Typed, TablesTyped
<1>5. ASSUME NEW r \in Runs, Land(r)
      PROVE  Grown
  <2>1. UNCHANGED <<kind, stamp, launched, seeded>> /\ landed' = landed \cup {r}
    BY <1>5 DEF Land
  <2>2. Ordered => \A m \in landed : At(m) < At(r)
    BY <1>5 DEF Land
  <2>3. PlaceNext(r) = At(r)
    BY <2>1 DEF PlaceNext, At, N
  <2> QED
    BY <2>1, <2>2, <2>3 DEF Grown, Seen, SeenNext, Core, Typed, TablesTyped
<1>6. ASSUME NEW p \in Procs, Crash(p)
      PROVE  Grown
  BY <1>6, <1>a DEF Crash
<1>7. ASSUME Pause \/ Resume \/ Leases \/ UNCHANGED vars
      PROVE  Grown
  BY <1>7, <1>a DEF Pause, Resume, Leases, sensorVars, vars
<1> QED
  BY <1>1, <1>2, <1>3, <1>4, <1>5, <1>6, <1>7 DEF Next

(* Only a launch that the key lets through launches, and it takes the key. *)
LEMMA StepKeys ==
    ASSUME Core, [Next]_vars
    PROVE  KeysUsed' /\ (KeysTaken => KeysTaken')
<1>1. ASSUME NEW p \in Procs, Launch(p)
      PROVE  KeysUsed' /\ (KeysTaken => KeysTaken')
  <2> DEFINE r == Oldest(p)
  <2>1. eval[p].rest # {}
    BY <1>1 DEF Launch, Core, Asking
  <2>2. r \in Runs
    BY <2>1, NextRequest DEF Core
  <2>3. CASE UNCHANGED <<launched, keys>>
    BY <2>3 DEF Core, KeysUsed, KeysTaken
  <2>4. CASE /\ Keyed => r \notin keys
             /\ launched' = [launched EXCEPT ![r] = IF @ < 2 THEN @ + 1 ELSE @]
             /\ keys' = IF Keyed THEN keys \cup {r} ELSE keys
    <3> HIDE DEF r
    <3>1. KeysUsed'
      BY <2>2, <2>4 DEF Core, KeysUsed, Typed, TablesTyped
    <3>2. KeysTaken => KeysTaken'
      BY <2>2, <2>4 DEF Core, KeysTaken, Typed, TablesTyped
    <3> QED
      BY <3>1, <3>2
  <2> QED
    BY <1>1, <2>3, <2>4 DEF Launch
<1>2. ASSUME UNCHANGED <<keys, launched>>
      PROVE  KeysUsed' /\ (KeysTaken => KeysTaken')
  BY <1>2 DEF Core, KeysUsed, KeysTaken
<1>3. (\E p \in Procs : Launch(p)) \/ UNCHANGED <<keys, launched>>
  BY DEF Next, Evaluation, Turn, ReadCursor, Seed, Read, Call, Ask, Commit, Crash, Stamp, Land,
         Pause, Resume, Leases, sensorVars, vars
<1> QED
  BY <1>1, <1>2, <1>3

(* A run that landed took its time first, and keeps it. *)
LEMMA StepStamped ==
    ASSUME Core, [Next]_vars
    PROVE  Stamped'
<1>1. ASSUME NEW r \in Runs, Land(r)
      PROVE  Stamped'
  BY <1>1 DEF Land, Core, Stamped
<1>2. CASE landed' = landed
  <2>1. \A r \in landed : stamp'[r] = stamp[r]
    BY StepGrows DEF Grown
  <2> QED
    BY <1>2, <2>1 DEF Core, Stamped
<1>3. (\E r \in Runs : Land(r)) \/ landed' = landed
  BY DEF Next, Evaluation, Turn, ReadCursor, Seed, Read, Call, Ask, Launch, Commit, Crash, Stamp,
         Pause, Resume, Leases, sensorVars, vars
<1> QED
  BY <1>1, <1>2, <1>3

(* An evaluation goes on to a request only while one is left. *)
LEMMA StepAsking ==
    ASSUME Core, [Next]_vars
    PROVE  Asking'
<1>0. EvalTyped /\ Asking
  BY DEF Core, Typed
<1>1. ASSUME NEW p \in Procs, Evaluation(p) \/ Crash(p)
      PROVE  Asking'
  <2>1. \A q \in Procs : q # p => eval'[q] = eval[q]
    BY <1>0, <1>1 DEF EvalTyped, Evaluation, Turn, ReadCursor, Seed, Read, Call, Ask, Launch, Commit, Crash,
         Goes, Ends, Handled
  <2>2. eval'[p].step \in {"call", "ask", "launch"} => eval'[p].rest # {}
    <3>1. CASE Ends(p)
      BY <1>0, <3>1 DEF EvalTyped, Ends, Idle
    <3>2. CASE Handled(p)
      BY <1>0, <3>2 DEF EvalTyped, Handled, Then
    <3>3. CASE Read(p)
      <4> DEFINE page == PageAfter(eval[p].read)
                 rest == page \cap Matching
                 top == Max({At(r) : r \in page})
      <4>1. Ends(p) \/ eval' = [eval EXCEPT ![p].upto = top, ![p].rest = rest, ![p].step = Then(rest)]
        BY <3>3 DEF Read
      <4> HIDE DEF page, rest, top
      <4> QED
        BY <1>0, <3>1, <4>1 DEF EvalTyped, Then
    <3>4. CASE Seed(p)
      <4> DEFINE top == IF landed = {} THEN 0 ELSE Max({At(r) : r \in landed})
      <4>1. Ends(p) \/ eval' = [eval EXCEPT ![p].step = "commit", ![p].upto = top]
        BY <3>4 DEF Seed
      <4> HIDE DEF top
      <4> QED
        BY <1>0, <3>1, <4>1 DEF EvalTyped
    <3>5. CASE Turn(p) \/ ReadCursor(p)
      BY <1>0, <3>1, <3>5 DEF EvalTyped, Turn, ReadCursor, Goes
    <3>6. CASE Call(p) \/ Ask(p)
      BY <1>0, <3>1, <3>2, <3>6 DEF EvalTyped, Asking, Call, Ask, Goes
    <3>7. CASE Launch(p) \/ Commit(p) \/ Crash(p)
      BY <3>1, <3>2, <3>7 DEF Launch, Commit, Crash
    <3> QED
      BY <1>1, <3>3, <3>4, <3>5, <3>6, <3>7 DEF Evaluation
  <2> QED
    BY <1>0, <2>1, <2>2 DEF Asking
<1>2. CASE UNCHANGED eval
  BY <1>0, <1>2 DEF Asking
<1>3. (\E p \in Procs : Evaluation(p) \/ Crash(p)) \/ UNCHANGED eval
  BY DEF Next, Stamp, Land, Pause, Resume, Leases, sensorVars, vars
<1> QED
  BY <1>1, <1>2, <1>3

(* The invariant of any world is one. *)
LEMMA CoreStep ==
    ASSUME Core, [Next]_vars
    PROVE  Core'
BY StepTyped, StepKeys, StepStamped, StepAsking DEF Core

-----------------------------------------------------------------------------
(* What an evaluation that does not move has before it stays before it. *)
LEMMA SoundStays ==
    ASSUME Inv, Ordered, Grown, NEW p \in Procs, eval'[p] = eval[p]
    PROVE  Sound(eval[p])'
<1> DEFINE e == eval[p]
<1>1. e.read \in Int /\ e.upto \in Int
  BY DEF Inv, Core, Typed, EvalTyped
<1>2. PastNext(e.read) /\ ReachedNext(e.read) /\ ReachedNext(e.upto)
  BY <1>1, PlacesStay DEF Inv, Core, Sound
<1>3. ASSUME ~Seeds(eval[p]), e.step \in {"call", "ask", "launch", "commit"},
             NEW r \in Matching \cap landed', PlaceNext(r) <= e.upto
      PROVE  r \in e.rest \/ SeenNext(r)
  <2>1. CASE r \in landed
    <3>1. At(r) = PlaceNext(r)
      BY <2>1 DEF Grown, At, PlaceNext, N
    <3>2. r \in e.rest \/ Seen(r)
      BY <1>3, <2>1, <3>1 DEF Inv, Core, Sound
    <3> QED
      BY <3>2, <2>1 DEF Grown, Inv, Core, Typed, TablesTyped
  <2>2. CASE r \notin landed
    <3>1. \A m \in landed : At(m) < PlaceNext(r)
      BY <2>2 DEF Grown
    <3>2. e.upto <= 0 \/ \E m \in landed : e.upto <= At(m)
      BY DEF Inv, Core, Sound, Reached
    <3>3. PlaceNext(r) \in Nat /\ PlaceNext(r) > 0 /\ \A m \in landed : At(m) \in Nat
      BY NextPlaces, PlaceOf DEF Grown, Inv, Core, Typed, TablesTyped
    <3> QED
      BY <1>1, <1>3, <3>1, <3>2, <3>3
  <2> QED
    BY <2>1, <2>2
<1> QED
  BY <1>2, <1>3 DEF Inv, Core, Sound, Past, Reached, Seeds, Seen, PastNext, ReachedNext, SeenNext,
     Grown, At, PlaceNext, N

(* An evaluation that is over has nothing before it. *)
LEMMA IdleIsSound ==
    ASSUME Typed, stamp' \in [Runs -> Nat], landed' \subseteq Runs, NEW p \in Procs, eval' = [eval EXCEPT ![p] = Idle]
    PROVE  Sound(eval[p])'
<1>1. eval'[p] = Idle
  BY DEF Typed, EvalTyped
<1>2. \A r \in landed' : PlaceNext(r) \in Nat /\ PlaceNext(r) > 0
  BY NextPlaces
<1> QED
  BY <1>1, <1>2 DEF Sound, Past, Reached, Seeds, Idle, Unset, At, PlaceNext, N

(* The tables an evaluation leaves alone, and those it may add to. *)
Still == UNCHANGED <<kind, stamp, landed, launched, seeded>>

(* Where it is in the runs is as it was, in a step that adds none. *)
LEMMA StillPlaces ==
    ASSUME kind' = kind, stamp' = stamp, landed' = landed
    PROVE  \A r : At(r)' = At(r)
BY DEF At

(* Nothing but its step counts, when no table moves. *)
LEMMA StillSound ==
    ASSUME Typed, Still, NEW p \in Procs, NEW e, eval'[p] = e, Sound(e)
    PROVE  Sound(eval[p])'
<1>1. \A r : At(r)' = At(r)
  BY StillPlaces DEF Still
<1> QED
  BY <1>1 DEF Still, Sound, Seeds, Past, Reached, Seen

(* An evaluation that reads where it starts, or goes on to its next step,  *)
(* is as sound as it was.                                                  *)
LEMMA ReadsSound ==
    ASSUME Inv, NEW p \in Procs, Turn(p) \/ ReadCursor(p) \/ Call(p)
    PROVE  Sound(eval[p])'
<1> DEFINE e == eval[p]
<1>0. Typed /\ Still /\ stamp' \in [Runs -> Nat] /\ landed' \subseteq Runs
  BY DEF Still, Inv, Core, Typed, TablesTyped, Turn, ReadCursor, Call
<1>1. Sound(e) /\ Past(cursor) /\ Reached(cursor)
  BY DEF Inv
<1>2. e \in [step : Steps, read : Int, upto : Int, rest : SUBSET Runs] /\ cursor \in Int
  BY <1>0 DEF Typed, EvalTyped, TablesTyped
<1>3. \/ eval' = [eval EXCEPT ![p] = Idle]
      \/ /\ e.step = "idle" \/ (e.step = "read" /\ kind = "user") \/ e.step = "call"
         /\ \E s \in {"read", "page", "ask"} :
              /\ eval' = [eval EXCEPT ![p].step = s]
              /\ e.step = "call" => s = "ask"
              /\ s = "ask" => e.step = "call"
              /\ s = "page" => kind = "user"
      \/ /\ e.step = "read"
         /\ eval' = [eval EXCEPT ![p].read = cursor,
                                 ![p].step = IF kind = "runs" /\ cursor = Unset THEN "seed" ELSE "page"]
  <2>1. CASE Turn(p)
    BY <2>1 DEF Turn, Goes
  <2>2. CASE ReadCursor(p)
    BY <2>2 DEF ReadCursor, Goes, Ends
  <2>3. CASE Call(p)
    BY <2>3 DEF Call, Goes, Ends
  <2> QED
    BY <2>1, <2>2, <2>3
<1>4. CASE eval' = [eval EXCEPT ![p] = Idle]
  BY <1>0, <1>4, IdleIsSound
<1>5. CASE /\ e.step = "idle" \/ (e.step = "read" /\ kind = "user") \/ e.step = "call"
           /\ \E s \in {"read", "page", "ask"} :
                /\ eval' = [eval EXCEPT ![p].step = s]
                /\ e.step = "call" => s = "ask"
                /\ s = "ask" => e.step = "call"
                /\ s = "page" => kind = "user"
  <2>1. PICK s \in {"read", "page", "ask"} :
              /\ eval' = [eval EXCEPT ![p].step = s]
              /\ e.step = "call" => s = "ask"
              /\ s = "ask" => e.step = "call"
              /\ s = "page" => kind = "user"
    BY <1>5
  <2> DEFINE f == [e EXCEPT !.step = s]
  <2>2. eval'[p] = f
    BY <2>1, <1>0 DEF Typed, EvalTyped
  <2>3. f.step = s /\ f.read = e.read /\ f.upto = e.upto /\ f.rest = e.rest
    BY <1>2
  <2>4. Sound(f)
    <3> HIDE DEF f, e
    <3> QED
      BY <2>1, <2>3, <1>1, <1>5 DEF Sound, Seeds
  <2> HIDE DEF f
  <2> QED
    BY <2>2, <2>4, <1>0, StillSound
<1>6. CASE /\ e.step = "read"
           /\ eval' = [eval EXCEPT ![p].read = cursor,
                                   ![p].step = IF kind = "runs" /\ cursor = Unset THEN "seed" ELSE "page"]
  <2> DEFINE s == IF kind = "runs" /\ cursor = Unset THEN "seed" ELSE "page"
             f == [e EXCEPT !.read = cursor, !.step = s]
  <2>1. eval'[p] = f
    BY <1>6, <1>0 DEF Typed, EvalTyped
  <2>2. f.step = s /\ f.read = cursor /\ f.upto = e.upto /\ f.rest = e.rest
    BY <1>2
  <2>3. Sound(f)
    <3> HIDE DEF f, e
    <3> QED
      BY <2>2, <1>1, <1>6 DEF Sound, Seeds
  <2> HIDE DEF f
  <2> QED
    BY <2>1, <2>3, <1>0, StillSound
<1> QED
  BY <1>3, <1>4, <1>5, <1>6

(* One that learns where "now" is will have reached it. *)
LEMMA SeedSound ==
    ASSUME Inv, NEW p \in Procs, Seed(p)
    PROVE  Sound(eval[p])'
<1> DEFINE e == eval[p]
           top == IF landed = {} THEN 0 ELSE Max({At(r) : r \in landed})
           f == [e EXCEPT !.step = "commit", !.upto = top]
<1>1. Typed /\ Still /\ stamp' \in [Runs -> Nat] /\ landed' \subseteq Runs
  BY DEF Still, Inv, Core, Typed, TablesTyped, Seed
<1>2. Sound(e) /\ e.step = "seed" /\ Seeds(e)
  BY DEF Inv, Seed, Sound
<1>3. CASE eval' = [eval EXCEPT ![p] = Idle]
  BY <1>1, <1>3, IdleIsSound
<1>4. CASE eval' = [eval EXCEPT ![p].step = "commit", ![p].upto = top]
  <2>1. e \in [step : Steps, read : Int, upto : Int, rest : SUBSET Runs]
    BY <1>1 DEF Typed, EvalTyped
  <2>2. eval'[p] = f
    BY <1>1, <1>4 DEF Typed, EvalTyped
  <2>3. f.step = "commit" /\ f.read = e.read /\ f.upto = top /\ f.rest = e.rest
    BY <2>1
  <2>4. Reached(top)
    <3>1. CASE landed = {}
      BY <3>1 DEF Reached
    <3>2. CASE landed # {}
      <4>1. landed \subseteq Runs
        BY <1>1 DEF Typed, TablesTyped
      <4>2. top \in {At(r) : r \in landed} /\ top \in Nat
        BY <1>1, <3>2, <4>1, LastPlace
      <4>3. PICK m \in landed : top = At(m)
        BY <4>2
      <4> HIDE DEF top
      <4> QED
        BY <4>2, <4>3 DEF Reached
    <3> QED
      BY <3>1, <3>2
  <2>5. e.rest = {}
    BY <1>2 DEF Inv, Sound
  <2>6. Sound(f)
    <3> HIDE DEF f, e, top
    <3> QED
      BY <2>3, <2>4, <2>5, <1>2 DEF Sound, Seeds
  <2> HIDE DEF f
  <2> QED
    BY <2>2, <2>6, <1>1, StillSound
<1> QED
  BY <1>3, <1>4 DEF Seed, Ends

(* A page read after where it starts leaves nothing out. *)
LEMMA ReadSound ==
    ASSUME Inv, NEW p \in Procs, Read(p)
    PROVE  Sound(eval[p])'
<1> DEFINE e == eval[p]
           page == PageAfter(e.read)
           top == Max({At(r) : r \in page})
           rest == page \cap Matching
           s == Then(rest)
           f == [e EXCEPT !.upto = top, !.rest = rest, !.step = s]
<1>1. Typed /\ Still /\ stamp' \in [Runs -> Nat] /\ landed' \subseteq Runs
  BY DEF Still, Inv, Core, Typed, TablesTyped, Read
<1>2. Sound(e) /\ e.step = "page"
  BY DEF Inv, Read
<1>3. e \in [step : Steps, read : Int, upto : Int, rest : SUBSET Runs]
  BY <1>1 DEF Typed, EvalTyped
<1>4. CASE eval' = [eval EXCEPT ![p] = Idle]
  BY <1>1, <1>4, IdleIsSound
<1>5. CASE /\ page # {}
           /\ eval' = [eval EXCEPT ![p].upto = top, ![p].rest = rest, ![p].step = s]
  <2>1. eval'[p] = f
    BY <1>1, <1>5 DEF Typed, EvalTyped
  <2>2. f.step = s /\ f.read = e.read /\ f.upto = top /\ f.rest = rest
    BY <1>3
  <2>3. page \subseteq landed /\ page \subseteq Runs
    BY <1>1 DEF PageAfter, After, Typed, TablesTyped
  <2>4. Reached(top)
    <3>1. top \in {At(r) : r \in page} /\ top \in Nat
      <4> HIDE DEF page
      <4> QED
        BY <1>1, <1>5, <2>3, LastPlace
    <3>2. PICK m \in page : top = At(m)
      BY <3>1
    <3> HIDE DEF top, page
    <3> QED
      BY <3>1, <3>2, <2>3 DEF Reached
  <2>5. ASSUME NEW r \in Matching \cap landed, At(r) <= top
        PROVE  r \in rest \/ Seen(r)
    <3>1. CASE At(r) <= e.read
      BY <3>1, <1>2 DEF Sound, Past
    <3>2. CASE ~(At(r) <= e.read)
      <4>1. At(r) \in Nat /\ e.read \in Int
        BY <1>1, <1>3, PlaceOf DEF Typed, TablesTyped
      <4>2. r \in After(e.read)
        BY <3>2, <4>1 DEF After
      <4>3. r \in PageAfter(e.read)
        BY <4>1, <4>2, <1>1, <1>5, <2>5, PageIsWhole
      <4> QED
        BY <4>3
    <3> QED
      BY <3>1, <3>2
  <2>6. /\ s \in {"commit", "call", "ask"}
        /\ s = "commit" <=> rest = {}
    BY DEF Then
  <2>7. Sound(f)
    <3> HIDE DEF f, e, top, s, rest
    <3> QED
      BY <2>2, <2>4, <2>5, <2>6, <1>2 DEF Sound, Seeds
  <2> HIDE DEF f
  <2> QED
    BY <2>1, <2>7, <1>1, StillSound
<1> QED
  BY <1>4, <1>5 DEF Read, Ends

(* What was launched, or is claimed, needs no more attention. *)
LEMMA HandledSound ==
    ASSUME Inv, Grown, UNCHANGED <<stamp, landed>>, NEW p \in Procs,
           eval[p].step \in {"ask", "launch"}, SeenNext(Oldest(p)), Handled(p)
    PROVE  Sound(eval[p])'
<1> DEFINE e == eval[p]
           rest == e.rest \ {Oldest(p)}
           s == Then(rest)
<1>1. Typed /\ kind' = kind
  BY DEF Inv, Core, Grown
<1>2. Sound(e)
  BY DEF Inv
<1>3. /\ eval'[p].step = s /\ eval'[p].read = e.read
      /\ eval'[p].upto = e.upto /\ eval'[p].rest = rest
  BY <1>1 DEF Handled, Typed, EvalTyped
<1>4. s \in {"commit", "call", "ask"} /\ (s = "commit" <=> rest = {})
  BY DEF Then
<1>5. \A r : At(r)' = At(r)
  BY <1>1, StillPlaces
<1>6. \A r \in landed : Seen(r) => SeenNext(r)
  BY <1>1 DEF Grown, Typed, TablesTyped
<1>7. ~Seeds(e) /\ \A r \in Matching \cap landed : At(r) <= e.upto => r \in e.rest \/ Seen(r)
  BY <1>2 DEF Sound
<1>8. \A r \in Matching \cap landed : At(r) <= e.upto => r \in rest \/ SeenNext(r)
  BY <1>6, <1>7
<1>9. Past(e.read) /\ Reached(e.read) /\ Reached(e.upto)
  BY <1>2 DEF Sound
<1> HIDE DEF e, rest, s
<1> QED
  BY <1>1, <1>3, <1>4, <1>5, <1>6, <1>7, <1>8, <1>9 DEF Sound, Seeds, Past, Reached, Seen, SeenNext

(* A request is handled once its key is claimed, or it is launched. *)
LEMMA RequestSound ==
    ASSUME Inv, Grown, NEW p \in Procs, Ask(p) \/ Launch(p)
    PROVE  Sound(eval[p])'
<1> DEFINE e == eval[p]
           x == Oldest(p)
<1>1. Typed /\ UNCHANGED <<kind, stamp, landed, seeded>> /\ stamp' \in [Runs -> Nat] /\ landed' \subseteq Runs
  BY DEF Inv, Core, Typed, TablesTyped, Ask, Launch
<1>2. e.step \in {"ask", "launch"} /\ e.rest # {}
  BY DEF Ask, Launch, Inv, Core, Asking
<1>3. x \in Runs
  BY <1>1, <1>2, NextRequest
<1>4. x \in keys => Seen(x)
  BY <1>3 DEF Inv, Core, KeysUsed, Seen
<1>5. CASE Ends(p)
  BY <1>1, <1>5, IdleIsSound DEF Ends
<1>6. CASE Handled(p) /\ SeenNext(x)
  BY <1>1, <1>2, <1>6, HandledSound
<1>7. CASE Still /\ e.step = "ask" /\ Goes(p, "launch")
  <2> DEFINE f == [e EXCEPT !.step = "launch"]
  <2>1. eval'[p] = f
    BY <1>1, <1>7 DEF Goes, Typed, EvalTyped
  <2>2. f.step = "launch" /\ f.read = e.read /\ f.upto = e.upto /\ f.rest = e.rest
    BY <1>1 DEF Typed, EvalTyped
  <2>3. Sound(e)
    BY DEF Inv
  <2>4. Sound(f)
    <3> HIDE DEF f, e
    <3> QED
      BY <2>2, <2>3, <1>7 DEF Sound, Seeds
  <2> HIDE DEF f
  <2> QED
    BY <2>1, <2>4, <1>1, <1>7, StillSound
<1>8. CASE Ask(p)
  <2>1. Still
    BY <1>8 DEF Ask, Still
  <2>2. x \in keys => SeenNext(x)
    BY <1>4, <2>1 DEF Still, Seen, SeenNext
  <2> QED
    BY <1>5, <1>6, <1>7, <1>8, <2>1, <2>2 DEF Ask
<1>9. CASE Launch(p)
  <2>1. CASE launched' = [launched EXCEPT ![x] = IF @ < 2 THEN @ + 1 ELSE @]
    <3>1. launched'[x] > 0
      <4> HIDE DEF x
      <4> QED
        BY <2>1, <1>1, <1>3 DEF Typed, TablesTyped
    <3>2. SeenNext(x)
      BY <3>1 DEF SeenNext
    <3> QED
      BY <1>5, <1>6, <1>9, <3>2 DEF Launch
  <2>2. CASE launched' = launched
    <3>1. x \in keys => SeenNext(x)
      BY <1>1, <1>4, <2>2 DEF Seen, SeenNext
    <3>2. Ends(p) \/ (x \in keys /\ Handled(p)) \/ launched' = [launched EXCEPT ![x] = IF @ < 2 THEN @ + 1 ELSE @]
      BY <1>9 DEF Launch
    <3> QED
      BY <1>5, <1>6, <2>1, <3>1, <3>2
  <2> QED
    BY <1>9, <2>1, <2>2 DEF Launch
<1> QED
  BY <1>8, <1>9

(* What a place is past is so after a cursor is set there, and so is what  *)
(* one that is set to "now" starts after.                                  *)
LEMMA CommitPast ==
    ASSUME Inv, Ordered, Grown, NEW p \in Procs, Commit(p)
    PROVE  Past(cursor)' /\ Reached(cursor)'
<1> DEFINE e == eval[p]
<1>1. Typed /\ UNCHANGED <<kind, stamp, landed, launched>> /\ Sound(e) /\ e.step = "commit"
  BY DEF Inv, Core, Commit
<1>2. \A r : At(r)' = At(r)
  BY <1>1, StillPlaces
<1>3. seeded \subseteq seeded' /\ landed \subseteq Runs
  BY <1>1 DEF Commit, Typed, TablesTyped
<1>4. CASE UNCHANGED cursor
  BY <1>1, <1>2, <1>3, <1>4 DEF Inv, Past, Reached, Seen
<1>5. CASE /\ cursor' = e.upto
           /\ seeded' = IF Seeds(e) THEN seeded \cup {r \in landed : At(r) <= e.upto} ELSE seeded
  <2>1. Reached(e.upto)
    BY <1>1 DEF Sound
  <2>2. ASSUME NEW r \in Matching \cap landed, At(r) <= e.upto
        PROVE  r \in seeded' \/ launched[r] > 0
    <3>1. CASE Seeds(e)
      BY <1>5, <2>2, <3>1
    <3>2. CASE ~Seeds(e)
      BY <1>1, <1>3, <2>2, <3>2 DEF Sound, Seen
    <3> QED
      BY <3>1, <3>2
  <2> QED
    BY <1>1, <1>2, <1>5, <2>1, <2>2 DEF Past, Reached, Seen
<1> QED
  BY <1>4, <1>5 DEF Commit, Seeds

(* In an ordered world the rest is one, too. *)
LEMMA InvStep ==
    ASSUME Inv, Ordered, [Next]_vars
    PROVE  Inv'
<1>1. Core /\ Core' /\ Grown
  BY CoreStep, StepGrows DEF Inv
<1>2. stamp' \in [Runs -> Nat] /\ landed' \subseteq Runs
  BY <1>1 DEF Grown
<1>3. ASSUME NEW q \in Procs PROVE Sound(eval[q])'
  <2>1. CASE eval'[q] = eval[q]
    BY <1>1, <2>1, SoundStays
  <2>2. ASSUME NEW p \in Procs, Evaluation(p) \/ Crash(p), p # q
        PROVE  eval'[q] = eval[q]
    BY <1>1, <2>2 DEF Core, Typed, EvalTyped, Evaluation, Turn, ReadCursor, Seed, Read, Call, Ask, Launch,
         Commit, Crash, Goes, Ends, Handled
  <2>3. CASE Evaluation(q)
    <3>1. CASE Commit(q)
      BY <1>1, <1>2, <3>1, IdleIsSound DEF Core, Commit, Ends
    <3> QED
      BY <1>1, <2>3, <3>1, ReadsSound, SeedSound, ReadSound, RequestSound DEF Evaluation
  <2>4. CASE Crash(q)
    BY <1>1, <1>2, <2>4, IdleIsSound DEF Core, Crash, Ends
  <2>5. (\E p \in Procs : Evaluation(p) \/ Crash(p)) \/ UNCHANGED eval
    BY DEF Next, Stamp, Land, Pause, Resume, Leases, sensorVars, vars
  <2> QED
    BY <2>1, <2>2, <2>3, <2>4, <2>5
<1>4. Past(cursor)' /\ Reached(cursor)'
  <2>1. CASE \E p \in Procs : Commit(p)
    BY <1>1, <2>1, CommitPast
  <2>2. CASE cursor' = cursor
    <3>1. Typed /\ cursor \in Int /\ Past(cursor) /\ Reached(cursor)
      BY <1>1 DEF Inv, Core, Typed, TablesTyped
    <3>2. PastNext(cursor) /\ ReachedNext(cursor)
      BY <1>1, <3>1, PlacesStay
    <3> QED
      BY <2>2, <3>2 DEF Past, Reached, Seen, PastNext, ReachedNext, SeenNext, At, PlaceNext, N
  <2>3. (\E p \in Procs : Commit(p)) \/ cursor' = cursor
    BY DEF Next, Evaluation, Turn, ReadCursor, Seed, Read, Call, Ask, Launch, Crash, Stamp, Land,
         Pause, Resume, Leases, sensorVars, vars
  <2> QED
    BY <2>1, <2>2, <2>3
<1> QED
  BY <1>1, <1>3, <1>4 DEF Inv

(* Nothing is before the start. *)
LEMMA InitInv ==
    ASSUME Init
    PROVE  Inv /\ KeysTaken
<1>1. Typed
  <2>1. Bounded
    <3>1. \A r \in Runs : stamp[r] <= 0
      BY DEF Init
    <3> QED
      BY <3>1 DEF Bounded
  <2>2. EvalTyped
    BY DEF Init, EvalTyped, Idle, Unset, Steps
  <2>3. TablesTyped
    BY DEF Init, TablesTyped, Unset
  <2> QED
    BY <2>1, <2>2, <2>3 DEF Typed
<1>2. Core /\ KeysTaken
  BY <1>1 DEF Init, Core, Stamped, KeysUsed, KeysTaken, Asking, Idle
<1>3. \A c : Past(c)
  BY DEF Init, Past
<1>4. Reached(Unset) /\ cursor = Unset
  BY DEF Init, Reached, Unset
<1>5. Sound(Idle)
  BY <1>3, <1>4 DEF Sound, Seeds, Idle
<1>6. \A p \in Procs : eval[p] = Idle
  BY DEF Init
<1> QED
  BY <1>2, <1>3, <1>4, <1>5, <1>6 DEF Inv

-----------------------------------------------------------------------------
(* Theorems. *)

(* However many processes evaluate a sensor, crash between two statements, *)
(* repeat a request whose launch they did not hear of, or launch it after  *)
(* their term is over, one run carries its key (launch_request, whose key  *)
(* is claimed in the transaction that launches).                           *)
THEOREM OneRunPerKeyAlways == Spec => []OneRunPerKey
<1>1. Init => Core /\ KeysTaken
  BY InitInv DEF Inv
<1>2. Core /\ KeysTaken /\ [Next]_vars => Core' /\ KeysTaken'
  BY CoreStep, StepKeys
<1>3. KeysTaken => OneRunPerKey
  BY DEF KeysTaken, OneRunPerKey
<1> QED
  BY <1>1, <1>2, <1>3, PTL DEF Spec

(* Where runs land in the order they were stamped in, a cursor passes only *)
(* what was launched, or what a new cursor was set to start after: pages,  *)
(* failed closures, refused or unheard launches, two processes that each   *)
(* commit the cursor they read to, and crashes lose none (evaluate_runs).  *)
THEOREM OrderedRunsAreNotLost ==
    ASSUME Ordered
    PROVE  Spec => []NoEventLost
<1>1. Init => Inv
  BY InitInv
<1>2. Inv /\ [Next]_vars => Inv'
  BY InvStep
<1>3. Inv => NoEventLost
  <2> SUFFICES ASSUME Inv, NEW r \in Matching \cap landed, At(r) <= cursor, r \notin seeded
               PROVE  launched[r] > 0
    BY DEF NoEventLost
  <2> QED
    BY DEF Inv, Past, Seen
<1> QED
  BY <1>1, <1>2, <1>3, PTL DEF Spec
=============================================================================
