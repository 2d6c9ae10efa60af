--------------------------- MODULE DeliveryProofs ---------------------------
(***************************************************************************)
(* What holds of Delivery for any number of processes, runs, destinations  *)
(* and attempts, any faults and any clock.                                 *)
(***************************************************************************)
EXTENDS Delivery, FiniteSetTheorems, SequenceTheorems, TLAPS

Outcomes == Answers \cup {"in_flight", "outcome_unknown"}
Entries == [cycle : Nat, outcome : Outcomes]

Row == [state : States, cycle : Nat, used : Nat, gen : Nat, due : Nat, lease : Nat]
Destination == [claim : (Routes \X Nat) \cup {None}, lease : Nat, next : Nat]
Sending == [by : Procs, token : Routes \X Nat, age : Nat, answer : Answers \cup {None}]

(* The types of what is stored and of the sends under way. *)
RowsTyped == row \in [Routes -> Row]
DestsTyped == dest \in [Dests -> Destination]
LogsTyped == log \in [Routes -> Seq(Entries)]
RestTyped ==
    /\ run \in [Runs -> {"none", "live", "ended"}] /\ routes \subseteq Routes
    /\ sends \subseteq Sending /\ got \subseteq Routes \X Nat
Typed == RowsTyped /\ DestsTyped /\ LogsTyped /\ RestTyped

-----------------------------------------------------------------------------
(* Lemmas about the operators. *)

(* A route goes from a run to a destination. *)
LEMMA RouteEnds == \A x \in Routes : x[1] \in Runs /\ x[2] \in Dests
BY DeliveryAssumption

(* What is assumed of the limits. *)
LEMMA Numbers ==
    /\ Attempts \in Nat /\ Attempts > 0 /\ Timeout \in Nat /\ Lease \in Nat /\ Lease > Timeout
    /\ Spacing \in Nat /\ MaxCycles \in Nat
    /\ \A w \in Waits : w # Never => w \in Nat
BY DeliveryAssumption

(* The larger of a moment and a delay, where the delay may be none at all. *)
LEMMA LaterOf ==
    ASSUME NEW a \in Nat, NEW w \in Nat \cup {Never}
    PROVE  Max({a, w}) \in Nat
<1>1. \E m \in {a, w} : \A y \in {a, w} : m >= y
  <2>1. CASE a >= w
    BY <2>1 DEF Never
  <2>2. CASE w >= a
    BY <2>2 DEF Never
  <2> QED
    BY <2>1, <2>2 DEF Never
<1>2. Max({a, w}) \in {a, w} /\ Max({a, w}) >= a
  BY <1>1 DEF Max
<1> QED
  BY <1>2 DEF Never

(* Recording what a send came to changes that entry alone, and not when it *)
(* was made. *)
LEMMA OutcomeRecorded ==
    ASSUME Typed, NEW x \in Routes, NEW n \in 1..Len(log[x]), NEW o \in Outcomes, Outcome(x, n, o)
    PROVE  /\ log' \in [Routes -> Seq(Entries)]
           /\ \A y \in Routes : Len(log'[y]) = Len(log[y])
           /\ \A y \in Routes : \A m \in 1..Len(log[y]) :
                log'[y][m].cycle = log[y][m].cycle /\ (<<y, m>> # <<x, n>> => log'[y][m] = log[y][m])
           /\ log'[x][n].outcome = o
<1> DEFINE e == [log[x][n] EXCEPT !.outcome = o]
           f == [log[x] EXCEPT ![n] = e]
<1>1. log[x] \in Seq(Entries) /\ log[x][n] \in Entries
  BY DEF Typed, RowsTyped, LogsTyped, Row
<1>2. e \in Entries /\ e.cycle = log[x][n].cycle /\ e.outcome = o
  BY <1>1 DEF Entries
<1>3. log' = [log EXCEPT ![x] = f]
  BY DEF Outcome
<1> HIDE DEF e
<1>4. f \in Seq(Entries) /\ Len(f) = Len(log[x])
      /\ \A m \in 1..Len(log[x]) : f[m] = IF m = n THEN e ELSE log[x][m]
  BY <1>1, <1>2, ExceptSeq
<1> HIDE DEF f
<1> QED
  BY <1>2, <1>3, <1>4 DEF Typed, LogsTyped

(* A claim adds an entry, in the cycle there is, and takes the destination.*)
LEMMA Taken ==
    ASSUME Typed, NEW x \in Routes, Take(x)
    PROVE  /\ log' \in [Routes -> Seq(Entries)]
           /\ \A y \in Routes \ {x} : log'[y] = log[y] /\ row'[y] = row[y]
           /\ Len(log'[x]) = Len(log[x]) + 1
           /\ \A m \in 1..Len(log[x]) : log'[x][m] = log[x][m]
           /\ log'[x][Len(log[x]) + 1] = [cycle |-> row[x].cycle, outcome |-> "in_flight"]
<1>1. log[x] \in Seq(Entries) /\ row[x].cycle \in Nat
  BY DEF Typed, RowsTyped, LogsTyped, Row
<1>2. [cycle |-> row[x].cycle, outcome |-> "in_flight"] \in Entries
  BY <1>1 DEF Entries, Outcomes
<1> QED
  BY <1>1, <1>2 DEF Typed, RowsTyped, LogsTyped, Take

-----------------------------------------------------------------------------
(* The invariant, part by part. *)

(* A delivery in flight has been attempted. *)
LoggedAt(x) == row[x].state = "in_flight" => Len(log[x]) > 0

(* A row exists once its run has ended, and until then nothing is known of *)
(* it anywhere: a delivery that was pruned does not come back.             *)
BegunAt(x) ==
    /\ row[x].state # "none" => run[x[1]] = "ended"
    /\ run[x[1]] # "ended" => /\ Len(log[x]) = 0 /\ row[x].cycle = 0
                              /\ view # None => view.x # x
                              /\ \A k \in got : k[1] # x
                              /\ \A s \in sends : s.token[1] # x

(* What was sent, and what is, has its entry in the log of its delivery.   *)
Sent(k) == k \in got \/ \E s \in sends : s.token = k
KnownOf(k) == Sent(k) /\ row[k[1]].state # "none" => k[2] \in 1..Len(log[k[1]])

(* The entry of a send under way has no answer, and what the sender was    *)
(* told is so. *)
OpenOf(s) ==
    /\ s.token[2] \in 1..Len(log[s.token[1]])
         => log[s.token[1]][s.token[2]].outcome \in {"in_flight", "outcome_unknown"}
    /\ s.answer = "accepted" => s.token \in got
    /\ s.answer = "permanent_failure" => s.token \notin got

(* RecordsTrue, of one entry. *)
RecordOf(x, n) ==
    /\ log[x][n].outcome = "accepted" => /\ <<x, n>> \in got
                                         /\ n = Len(log[x]) /\ row[x].state = "delivered"
    /\ log[x][n].outcome = "permanent_failure" => <<x, n>> \notin got
    /\ row[x].state = "delivered" => log[x][Len(log[x])].outcome = "accepted"

(* While a send that is not answered keeps its timeout, the delivery and   *)
(* its destination are leased to it.                                       *)
InTimeOf(s) ==
    LET x == s.token[1] IN
    s.answer = None /\ s.age <= Timeout =>
      /\ row[x].state = "in_flight" /\ Len(log[x]) = s.token[2]
      /\ row[x].lease + s.age >= Lease
      /\ dest[x[2]].claim = s.token /\ dest[x[2]].lease + s.age >= Lease

(* What an operator looks at is what is there, or is behind it. *)
SeenAt(x) ==
    view # None /\ view.x = x /\ row[x].state # "none" =>
      /\ view.gen \in Nat /\ view.gen <= row[x].gen
      /\ view.gen = row[x].gen => view = Shown(x)

(* The attempts at x in cycle c are as many as the row has counted, and no *)
(* more than are allowed; a delivery is left to be sent while some remain. *)
Tally(x, c) == {n \in 1..Len(log[x]) : log[x][n].cycle = c}
BudgetAt(x) ==
    /\ row[x].used <= Attempts
    /\ row[x].state \in {"pending", "blocked"} => row[x].used < Attempts
    /\ \A n \in 1..Len(log[x]) : log[x][n].cycle <= row[x].cycle
    /\ \A c \in Nat : /\ IsFiniteSet(Tally(x, c)) /\ Cardinality(Tally(x, c)) <= Attempts
                      /\ c = row[x].cycle => Cardinality(Tally(x, c)) <= row[x].used

Logged == \A x \in Routes : LoggedAt(x)
Begun == \A x \in Routes : BegunAt(x)
Known == \A k \in Routes \X Nat : KnownOf(k)
Single == \A s, t \in sends : s.token = t.token => s = t
Open == \A s \in sends : OpenOf(s)
Records == \A x \in Routes : \A n \in 1..Len(log[x]) : RecordOf(x, n)
InTime == \A s \in sends : InTimeOf(s)
Seen == \A x \in Routes : SeenAt(x)
Budget == \A x \in Routes : BudgetAt(x)


(* A row that is settled stays of its type. *)
LEMMA SettledTyped ==
    ASSUME RowsTyped, NEW x \in Routes, NEW st \in States, NEW wait \in Nat,
           row' = [row EXCEPT ![x].state = st, ![x].due = wait, ![x].gen = @ + 1, ![x].lease = 0]
    PROVE  RowsTyped'
<1> DEFINE new == [row[x] EXCEPT !.state = st, !.due = wait, !.gen = @ + 1, !.lease = 0]
<1>1. row[x] \in Row
  BY DEF RowsTyped
<1>2. new \in Row
  <2> DEFINE old == row[x]
             next == old.gen + 1
  <2>1. old \in Row /\ next \in Nat
    BY <1>1 DEF Row
  <2>2. new = [old EXCEPT !.state = st, !.due = wait, !.gen = next, !.lease = 0]
    OBVIOUS
  <2> HIDE DEF old, next, new
  <2> QED
    BY <2>1, <2>2 DEF Row
<1>3. row' = [row EXCEPT ![x] = new]
  BY DEF RowsTyped
<1> HIDE DEF new
<1> QED
  BY <1>2, <1>3 DEF RowsTyped

(* No step takes a row out of its type, a destination, *)
LEMMA StepRowsTyped ==
    ASSUME Typed, Logged, [Next]_vars
    PROVE  RowsTyped'
<1>1. ASSUME NEW r \in Runs, Create(r)
      PROVE  RowsTyped'
  BY <1>1, Numbers DEF Create, RowsTyped, Row, States, Typed
<1>2. ASSUME NEW r \in Runs, Finish(r)
      PROVE  RowsTyped'
  <2>1. \A y \in Routes : row'[y] = row[y] \/ row'[y] = [state |-> "pending", cycle |-> 1,
                                used |-> 0, gen |-> 0, due |-> 0, lease |-> 0]
    BY <1>2 DEF Finish, NoRow
  <2>2. row' = [y \in Routes |-> row'[y]]
    BY <1>2 DEF Finish
  <2> QED
    BY <2>1, <2>2 DEF RowsTyped, Row, States, Typed
<1>3. ASSUME NEW p \in Procs, NEW x \in Routes, Lapse(p, x)
      PROVE  RowsTyped'
  <2>1. PICK st \in States, n \in {1, 2} :
          row' = [row EXCEPT ![x].state = st, ![x].gen = @ + n, ![x].due = 0]
    BY <1>3 DEF Lapse, States
  <2> QED
    BY <2>1 DEF RowsTyped, Row, Typed
<1>4. ASSUME NEW p \in Procs, NEW x \in Routes, Block(p, x)
      PROVE  RowsTyped'
  BY <1>4, Numbers DEF Block, RowsTyped, Row, States, Typed
<1>5. ASSUME NEW p \in Procs, NEW x \in Routes, Unblock(p, x)
      PROVE  RowsTyped'
  BY <1>5, Numbers DEF Unblock, RowsTyped, Row, States, Typed
<1>6. ASSUME NEW p \in Procs, NEW x \in Routes, Claim(p, x)
      PROVE  RowsTyped'
  <2>1. row' = [row EXCEPT ![x].state = "in_flight", ![x].used = @ + 1, ![x].gen = @ + 1,
                           ![x].lease = Lease]
    BY <1>6 DEF Claim, Take
  <2> QED
    BY <2>1, <1>6, Numbers DEF RowsTyped, Row, States, Typed
<1>7. ASSUME NEW p \in Procs, NEW x \in Routes, ClaimUnheard(p, x)
      PROVE  RowsTyped'
  <2>1. row' = [row EXCEPT ![x].state = "in_flight", ![x].used = @ + 1, ![x].gen = @ + 1,
                           ![x].lease = Lease]
    BY <1>7 DEF ClaimUnheard, Take
  <2> QED
    BY <2>1, <1>7, Numbers DEF RowsTyped, Row, States, Typed
<1>8. ASSUME NEW p \in Procs, Drop(p)
      PROVE  RowsTyped'
  BY <1>8, Numbers DEF Drop, RowsTyped, Row, States, Typed
<1>9. ASSUME NEW s \in sends, Accept(s)
      PROVE  RowsTyped'
  BY <1>9, Numbers DEF Accept, RowsTyped, Row, States, Typed
<1>10. ASSUME NEW s \in sends, Answer(s)
      PROVE  RowsTyped'
  BY <1>10, Numbers DEF Answer, RowsTyped, Row, States, Typed
<1>11. ASSUME NEW s \in sends, SettleAnswered(s)
      PROVE  RowsTyped'
  <2>1. PICK st \in States :
          row' = [row EXCEPT ![s.token[1]].state = st, ![s.token[1]].due = 0,
                             ![s.token[1]].gen = @ + 1, ![s.token[1]].lease = 0]
    BY <1>11 DEF SettleAnswered, Settled, States
  <2>2. s.token[1] \in Routes
    BY DEF Typed, RestTyped, Sending
  <2> QED
    BY <2>1, <2>2, SettledTyped DEF Typed
<1>12. ASSUME NEW s \in sends, SettleRetry(s)
      PROVE  RowsTyped'
  <2>1. PICK st \in States, wait \in Nat :
          row' = [row EXCEPT ![s.token[1]].state = st, ![s.token[1]].due = wait,
                             ![s.token[1]].gen = @ + 1, ![s.token[1]].lease = 0]
    BY <1>12, Numbers DEF SettleRetry, Settled, States
  <2>2. s.token[1] \in Routes
    BY DEF Typed, RestTyped, Sending
  <2> QED
    BY <2>1, <2>2, SettledTyped DEF Typed
<1>13. ASSUME NEW s \in sends, Unsettled(s)
      PROVE  RowsTyped'
  BY <1>13 DEF Unsettled, RowsTyped, Typed
<1>14. ASSUME NEW x \in Routes, View(x)
      PROVE  RowsTyped'
  BY <1>14, Numbers DEF View, RowsTyped, Row, States, Typed
<1>15. ASSUME NEW x \in Routes, Retry(x)
      PROVE  RowsTyped'
  BY <1>15, Numbers DEF Retry, RowsTyped, Row, States, Typed
<1>16. ASSUME NEW x \in Routes, Dismiss(x)
      PROVE  RowsTyped'
  BY <1>16, Numbers DEF Dismiss, RowsTyped, Row, States, Typed
<1>17. ASSUME NEW x \in Routes, Prune(x)
      PROVE  RowsTyped'
  BY <1>17 DEF Prune, NoRow, RowsTyped, Row, States, Typed
<1>18. ASSUME Tick
      PROVE  RowsTyped'
  <2>1. row' = [y \in Routes |-> row'[y]]
    BY <1>18 DEF Tick
  <2>2. ASSUME NEW y \in Routes PROVE row'[y] \in Row
    <3>1. row[y] \in Row
      BY DEF Typed, RowsTyped
    <3>2. Less(row[y].due) \in Nat /\ Less(row[y].lease) \in Nat
      BY <3>1 DEF Row, Less
    <3>3. row'[y] = [row[y] EXCEPT !.due = Less(row[y].due), !.lease = Less(row[y].lease)]
      BY <1>18 DEF Tick
    <3> QED
      BY <3>1, <3>2, <3>3 DEF Row
  <2> QED
    BY <2>1, <2>2 DEF RowsTyped
<1>19. ASSUME UNCHANGED vars PROVE RowsTyped'
  BY <1>19 DEF vars, Typed, RowsTyped
<1> QED
  BY <1>1, <1>2, <1>3, <1>4, <1>5, <1>6, <1>7, <1>8, <1>9, <1>10, <1>11, <1>12, <1>13, <1>14, <1>15,
     <1>16, <1>17, <1>18, <1>19 DEF Next, RunStep, PassStep, SendStep, OperatorStep

(* Whatever its answer was, settling a send frees its destination.         *)
LEMMA SettleFrees ==
    ASSUME NEW s, SettleAnswered(s) \/ SettleRetry(s)
    PROVE  \E closed \in Waits \cup {Never} : Frees(s, closed)
BY DEF SettleAnswered, SettleRetry

(* A destination that is freed, and closed for a while, is well typed.     *)
LEMMA FreesTyped ==
    ASSUME DestsTyped, NEW s, s.token[1][2] \in Dests,
           NEW closed \in Waits \cup {Never}, Frees(s, closed)
    PROVE  DestsTyped'
<1> DEFINE c == s.token[1][2]
           d == Release(dest[c], s.token)
<1>1. c \in Dests /\ d \in Destination
  BY DEF DestsTyped, Destination, Release
<1>2. dest' = [dest EXCEPT ![c] = [d EXCEPT !.next = Max({d.next, closed})]]
  BY DEF Frees
<1> HIDE DEF c, d
<1>3. Max({d.next, closed}) \in Nat
  BY <1>1, LaterOf, Numbers DEF Destination
<1>4. ASSUME NEW next \in Nat PROVE [d EXCEPT !.next = next] \in Destination
  BY <1>1 DEF Destination
<1> QED
  BY <1>1, <1>2, <1>3, <1>4 DEF DestsTyped

(* ...what is kept of a destination, *)
LEMMA StepDestsTyped ==
    ASSUME Typed, Logged, [Next]_vars
    PROVE  DestsTyped'
<1>1. ASSUME NEW r \in Runs, Create(r)
      PROVE  DestsTyped'
  BY <1>1, RouteEnds, Numbers DEF Create, DestsTyped, Destination, Release, Typed
<1>2. ASSUME NEW r \in Runs, Finish(r)
      PROVE  DestsTyped'
  BY <1>2, RouteEnds, Numbers DEF Finish, DestsTyped, Destination, Release, Typed
<1>3. ASSUME NEW p \in Procs, NEW x \in Routes, Lapse(p, x)
      PROVE  DestsTyped'
  BY ZenonT(60), <1>3, RouteEnds DEF Lapse, Release, DestsTyped, Destination, Typed
<1>4. ASSUME NEW p \in Procs, NEW x \in Routes, Block(p, x)
      PROVE  DestsTyped'
  BY <1>4, RouteEnds, Numbers DEF Block, DestsTyped, Destination, Release, Typed
<1>5. ASSUME NEW p \in Procs, NEW x \in Routes, Unblock(p, x)
      PROVE  DestsTyped'
  BY <1>5, RouteEnds, Numbers DEF Unblock, DestsTyped, Destination, Release, Typed
<1>6. ASSUME NEW p \in Procs, NEW x \in Routes, Claim(p, x)
      PROVE  DestsTyped'
  BY <1>6, RouteEnds, Numbers DEF Claim, Take, DestsTyped, LogsTyped, Destination, Typed
<1>7. ASSUME NEW p \in Procs, NEW x \in Routes, ClaimUnheard(p, x)
      PROVE  DestsTyped'
  BY <1>7, RouteEnds, Numbers DEF ClaimUnheard, Take, DestsTyped, LogsTyped, Destination, Typed
<1>8. ASSUME NEW p \in Procs, Drop(p)
      PROVE  DestsTyped'
  BY <1>8, RouteEnds, Numbers DEF Drop, DestsTyped, Destination, Release, Typed
<1>9. ASSUME NEW s \in sends, Accept(s)
      PROVE  DestsTyped'
  BY <1>9, RouteEnds, Numbers DEF Accept, DestsTyped, Destination, Release, Typed
<1>10. ASSUME NEW s \in sends, Answer(s)
      PROVE  DestsTyped'
  BY <1>10, RouteEnds, Numbers DEF Answer, DestsTyped, Destination, Release, Typed
<1>11. ASSUME NEW s \in sends, SettleAnswered(s)
      PROVE  DestsTyped'
  BY <1>11, SettleFrees, FreesTyped, RouteEnds DEF Typed, RestTyped, Sending
<1>12. ASSUME NEW s \in sends, SettleRetry(s)
      PROVE  DestsTyped'
  BY <1>12, SettleFrees, FreesTyped, RouteEnds DEF Typed, RestTyped, Sending
<1>13. ASSUME NEW s \in sends, Unsettled(s)
      PROVE  DestsTyped'
  BY <1>13, RouteEnds, Numbers DEF Unsettled, DestsTyped, Destination, Release, Typed
<1>14. ASSUME NEW x \in Routes, View(x)
      PROVE  DestsTyped'
  BY <1>14, RouteEnds, Numbers DEF View, DestsTyped, Destination, Release, Typed
<1>15. ASSUME NEW x \in Routes, Retry(x)
      PROVE  DestsTyped'
  BY <1>15, RouteEnds, Numbers DEF Retry, DestsTyped, Destination, Release, Typed
<1>16. ASSUME NEW x \in Routes, Dismiss(x)
      PROVE  DestsTyped'
  BY <1>16, RouteEnds, Numbers DEF Dismiss, DestsTyped, Destination, Release, Typed
<1>17. ASSUME NEW x \in Routes, Prune(x)
      PROVE  DestsTyped'
  BY <1>17 DEF Prune, Fresh, DestsTyped, Destination, Typed
<1>18. ASSUME Tick
      PROVE  DestsTyped'
  <2>1. dest' = [d \in Dests |-> dest'[d]]
    BY <1>18 DEF Tick
  <2>2. ASSUME NEW d \in Dests PROVE dest'[d] \in Destination
    <3>1. dest[d] \in Destination
      BY DEF Typed, DestsTyped
    <3>2. Less(dest[d].next) \in Nat /\ Less(dest[d].lease) \in Nat
      BY <3>1 DEF Destination, Less
    <3>3. dest'[d] = [dest[d] EXCEPT !.lease = Less(dest[d].lease), !.next = Less(dest[d].next)]
      BY <1>18 DEF Tick
    <3> QED
      BY <3>1, <3>2, <3>3 DEF Destination
  <2> QED
    BY <2>1, <2>2 DEF DestsTyped
<1>19. ASSUME UNCHANGED vars PROVE DestsTyped'
  BY <1>19 DEF vars, Typed, DestsTyped
<1> QED
  BY <1>1, <1>2, <1>3, <1>4, <1>5, <1>6, <1>7, <1>8, <1>9, <1>10, <1>11, <1>12, <1>13, <1>14, <1>15,
     <1>16, <1>17, <1>18, <1>19 DEF Next, RunStep, PassStep, SendStep, OperatorStep

(* ...a log, *)
LEMMA StepLogsTyped ==
    ASSUME Typed, Logged, [Next]_vars
    PROVE  LogsTyped'
<1>1. ASSUME NEW r \in Runs, Create(r)
      PROVE  LogsTyped'
  BY <1>1 DEF Create, LogsTyped, Typed
<1>2. ASSUME NEW r \in Runs, Finish(r)
      PROVE  LogsTyped'
  BY <1>2 DEF Finish, LogsTyped, Typed
<1>3. ASSUME NEW p \in Procs, NEW x \in Routes, Lapse(p, x)
      PROVE  LogsTyped'
  <2>1. Len(log[x]) \in 1..Len(log[x]) /\ "outcome_unknown" \in Outcomes
    BY <1>3 DEF Lapse, Logged, LoggedAt, Typed, LogsTyped, Outcomes
  <2> QED
    BY <1>3, <2>1, OutcomeRecorded DEF Lapse, LogsTyped
<1>4. ASSUME NEW p \in Procs, NEW x \in Routes, Block(p, x)
      PROVE  LogsTyped'
  BY <1>4 DEF Block, LogsTyped, Typed
<1>5. ASSUME NEW p \in Procs, NEW x \in Routes, Unblock(p, x)
      PROVE  LogsTyped'
  BY <1>5 DEF Unblock, LogsTyped, Typed
<1>6. ASSUME NEW p \in Procs, NEW x \in Routes, Claim(p, x)
      PROVE  LogsTyped'
  BY <1>6, Taken DEF Claim, LogsTyped
<1>7. ASSUME NEW p \in Procs, NEW x \in Routes, ClaimUnheard(p, x)
      PROVE  LogsTyped'
  BY <1>7, Taken DEF ClaimUnheard, LogsTyped
<1>8. ASSUME NEW p \in Procs, Drop(p)
      PROVE  LogsTyped'
  BY <1>8 DEF Drop, LogsTyped, Typed
<1>9. ASSUME NEW s \in sends, Accept(s)
      PROVE  LogsTyped'
  BY <1>9 DEF Accept, LogsTyped, Typed
<1>10. ASSUME NEW s \in sends, Answer(s)
      PROVE  LogsTyped'
  BY <1>10 DEF Answer, LogsTyped, Typed
<1>11. ASSUME NEW s \in sends, SettleAnswered(s)
      PROVE  LogsTyped'
  <2>1. s.token[1] \in Routes /\ s.token[2] \in 1..Len(log[s.token[1]]) /\ s.answer \in Outcomes
    BY <1>11 DEF SettleAnswered, Holds, Typed, RestTyped, Sending, LogsTyped, Logged, LoggedAt,
       Outcomes, Answers
  <2> QED
    BY <1>11, <2>1, OutcomeRecorded DEF SettleAnswered, LogsTyped
<1>12. ASSUME NEW s \in sends, SettleRetry(s)
      PROVE  LogsTyped'
  <2>1. s.token[1] \in Routes /\ s.token[2] \in 1..Len(log[s.token[1]]) /\ s.answer \in Outcomes
    BY <1>12 DEF SettleRetry, Holds, Typed, RestTyped, Sending, LogsTyped, Logged, LoggedAt, Outcomes, Answers
  <2> QED
    BY <1>12, <2>1, OutcomeRecorded DEF SettleRetry, LogsTyped
<1>13. ASSUME NEW s \in sends, Unsettled(s)
      PROVE  LogsTyped'
  BY <1>13 DEF Unsettled, LogsTyped, Typed
<1>14. ASSUME NEW x \in Routes, View(x)
      PROVE  LogsTyped'
  BY <1>14 DEF View, LogsTyped, Typed
<1>15. ASSUME NEW x \in Routes, Retry(x)
      PROVE  LogsTyped'
  BY <1>15 DEF Retry, LogsTyped, Typed
<1>16. ASSUME NEW x \in Routes, Dismiss(x)
      PROVE  LogsTyped'
  BY <1>16 DEF Dismiss, LogsTyped, Typed
<1>17. ASSUME NEW x \in Routes, Prune(x)
      PROVE  LogsTyped'
  BY <1>17 DEF Prune, LogsTyped, Typed
<1>18. ASSUME Tick
      PROVE  LogsTyped'
  BY <1>18 DEF Tick, LogsTyped, Typed
<1>19. ASSUME UNCHANGED vars PROVE LogsTyped'
  BY <1>19 DEF vars, Typed, LogsTyped
<1> QED
  BY <1>1, <1>2, <1>3, <1>4, <1>5, <1>6, <1>7, <1>8, <1>9, <1>10, <1>11, <1>12, <1>13, <1>14, <1>15,
     <1>16, <1>17, <1>18, <1>19 DEF Next, RunStep, PassStep, SendStep, OperatorStep

(* ...or what is sent. *)
LEMMA StepRestTyped ==
    ASSUME Typed, Logged, [Next]_vars
    PROVE  RestTyped'
<1>1. ASSUME NEW r \in Runs, Create(r)
      PROVE  RestTyped'
  BY <1>1 DEF Create, RestTyped, Typed
<1>2. ASSUME NEW r \in Runs, Finish(r)
      PROVE  RestTyped'
  BY <1>2 DEF Finish, RestTyped, Typed
<1>3. ASSUME NEW p \in Procs, NEW x \in Routes, Lapse(p, x)
      PROVE  RestTyped'
  BY <1>3 DEF Lapse, RestTyped, Typed
<1>4. ASSUME NEW p \in Procs, NEW x \in Routes, Block(p, x)
      PROVE  RestTyped'
  BY <1>4 DEF Block, RestTyped, Typed
<1>5. ASSUME NEW p \in Procs, NEW x \in Routes, Unblock(p, x)
      PROVE  RestTyped'
  BY <1>5 DEF Unblock, RestTyped, Typed
<1>6. ASSUME NEW p \in Procs, NEW x \in Routes, Claim(p, x)
      PROVE  RestTyped'
  BY <1>6 DEF Claim, Send, RestTyped, LogsTyped, Sending, Typed
<1>7. ASSUME NEW p \in Procs, NEW x \in Routes, ClaimUnheard(p, x)
      PROVE  RestTyped'
  BY <1>7 DEF ClaimUnheard, Send, RestTyped, LogsTyped, Sending, Typed
<1>8. ASSUME NEW p \in Procs, Drop(p)
      PROVE  RestTyped'
  BY <1>8 DEF Drop, RestTyped, Typed
<1>9. ASSUME NEW s \in sends, Accept(s)
      PROVE  RestTyped'
  BY <1>9 DEF Accept, RestTyped, Sending, Typed
<1>10. ASSUME NEW s \in sends, Answer(s)
      PROVE  RestTyped'
  BY <1>10, Numbers DEF Answer, RestTyped, Sending, Typed
<1>11. ASSUME NEW s \in sends, SettleAnswered(s)
      PROVE  RestTyped'
  BY <1>11 DEF SettleAnswered, RestTyped, Typed
<1>12. ASSUME NEW s \in sends, SettleRetry(s)
      PROVE  RestTyped'
  BY <1>12 DEF SettleRetry, RestTyped, Typed
<1>13. ASSUME NEW s \in sends, Unsettled(s)
      PROVE  RestTyped'
  BY <1>13 DEF Unsettled, RestTyped, Typed
<1>14. ASSUME NEW x \in Routes, View(x)
      PROVE  RestTyped'
  BY <1>14 DEF View, RestTyped, Typed
<1>15. ASSUME NEW x \in Routes, Retry(x)
      PROVE  RestTyped'
  BY <1>15 DEF Retry, RestTyped, Typed
<1>16. ASSUME NEW x \in Routes, Dismiss(x)
      PROVE  RestTyped'
  BY <1>16 DEF Dismiss, RestTyped, Typed
<1>17. ASSUME NEW x \in Routes, Prune(x)
      PROVE  RestTyped'
  BY <1>17 DEF Prune, RestTyped, Typed
<1>18. ASSUME Tick
      PROVE  RestTyped'
  <2>1. ASSUME NEW s \in sends
        PROVE  [s EXCEPT !.age = IF s.age <= Timeout THEN s.age + 1 ELSE s.age] \in Sending
    BY Numbers DEF Typed, RestTyped, Sending
  <2> QED
    BY <1>18, <2>1 DEF Tick, RestTyped, Typed
<1>19. ASSUME UNCHANGED vars PROVE RestTyped'
  BY <1>19 DEF vars, Typed, RestTyped
<1> QED
  BY <1>1, <1>2, <1>3, <1>4, <1>5, <1>6, <1>7, <1>8, <1>9, <1>10, <1>11, <1>12, <1>13, <1>14, <1>15,
     <1>16, <1>17, <1>18, <1>19 DEF Next, RunStep, PassStep, SendStep, OperatorStep

-----------------------------------------------------------------------------
(* What the steps that answer for an attempt, or make one, change. *)

(* The last attempt at x is recorded to have come to o; the log of no other*)
(* delivery changes, nor what else is in this one.                         *)
Recorded(x, o) ==
    /\ \A y \in Routes : Len(log'[y]) = Len(log[y])
    /\ \A y \in Routes : \A m \in 1..Len(log[y]) :
         /\ log'[y][m].cycle = log[y][m].cycle
         /\ (y # x \/ m # Len(log[x])) => log'[y][m] = log[y][m]
    /\ Len(log[x]) \in 1..Len(log[x]) /\ log'[x][Len(log[x])].outcome = o

(* The rows of all others stay, and this one stays in its cycle. *)
Alone(x) ==
    /\ \A y \in Routes \ {x} : row'[y] = row[y]
    /\ row'[x].used = row[x].used /\ row'[x].cycle = row[x].cycle /\ row'[x].gen > row[x].gen

(* An outcome recorded on the attempt in flight closes its entry. *)
LEMMA Closes ==
    ASSUME Typed, Logged, NEW x \in Routes, row[x].state = "in_flight", NEW o \in Outcomes,
           Outcome(x, Len(log[x]), o)
    PROVE  Recorded(x, o)
<1>1. Len(log[x]) \in 1..Len(log[x])
  BY DEF Typed, LogsTyped, Logged, LoggedAt
<1> QED
  BY <1>1, OutcomeRecorded DEF Recorded

(* An expired claim. *)
Lapsed(x) ==
    /\ Recorded(x, "outcome_unknown") /\ Alone(x)
    /\ row[x].state = "in_flight" /\ row[x].lease = 0
    /\ row'[x].state = "failed" \/ (row'[x].state \in {"pending", "blocked"} /\ row[x].used < Attempts)
    /\ \A d \in Dests : dest[d].claim # <<x, Len(log[x])>> => dest'[d] = dest[d]
    /\ UNCHANGED <<run, routes, sends, got, view>>

(* An attempt whose lease is past is closed as unknown: what moves. *)
LEMMA LapseMoves ==
    ASSUME Typed, Logged, NEW p \in Procs, NEW x \in Routes, Lapse(p, x)
    PROVE  Lapsed(x)
<1>1. Recorded(x, "outcome_unknown")
  BY Closes DEF Lapse, Outcomes
<1>2. PICK st \in {"failed", "pending", "blocked"}, n \in {1, 2} :
        /\ row' = [row EXCEPT ![x].state = st, ![x].gen = @ + n, ![x].due = 0]
        /\ st = "failed" \/ row[x].used < Attempts
  <2>1. row[x].used \in Nat
    BY DEF Typed, RowsTyped, Row
  <2>2. CASE row[x].used >= Attempts
    BY <2>2 DEF Lapse
  <2>3. CASE row[x].used < Attempts /\ x[2] \in Knows[p]
    BY <2>1, <2>3, Numbers DEF Lapse
  <2>4. CASE row[x].used < Attempts /\ x[2] \notin Knows[p]
    BY <2>1, <2>4, Numbers DEF Lapse
  <2>5. row[x].used >= Attempts \/ row[x].used < Attempts
    BY <2>1, Numbers
  <2> QED
    BY <2>2, <2>3, <2>4, <2>5
<1>3. /\ Alone(x) /\ row'[x].state = st
  BY <1>2 DEF Alone, Typed, RowsTyped, Row
<1>4. \A d \in Dests : dest[d].claim # <<x, Len(log[x])>> => dest'[d] = dest[d]
  BY RouteEnds DEF Lapse, Release, Typed, DestsTyped
<1> QED
  BY <1>1, <1>2, <1>3, <1>4 DEF Lapse, Lapsed

(* An acknowledged answer. *)
Acknowledged(s, x) ==
    /\ x \in Routes /\ s.token = <<x, Len(log[x])>>
    /\ Recorded(x, s.answer) /\ Alone(x)
    /\ row[x].state = "in_flight" /\ s.answer \in Answers
    /\ s.answer = "accepted" <=> row'[x].state = "delivered"
    /\ \/ row'[x].state \in {"delivered", "failed"}
       \/ row'[x].state = "pending" /\ row[x].used < Attempts
    /\ \A d \in Dests : dest[d].claim # s.token => /\ dest'[d].claim = dest[d].claim
                                                   /\ dest'[d].lease = dest[d].lease
    /\ sends' = sends \ {s}
    /\ UNCHANGED <<run, routes, got, view>>

(* The answer to a send is recorded: what moves. *)
LEMMA SettleMoves ==
    ASSUME Typed, Logged, NEW s \in sends, SettleAnswered(s) \/ SettleRetry(s)
    PROVE  Acknowledged(s, s.token[1])
<1> DEFINE x == s.token[1]
<1>1. x \in Routes /\ s \in Sending
  BY DEF Typed, RestTyped, Sending
<1>2. row[x].state = "in_flight" /\ Len(log[x]) = s.token[2] /\ s.answer \in Answers
  BY DEF SettleAnswered, SettleRetry, Holds, Answers
<1>3. s.token = <<x, Len(log[x])>>
  BY <1>1, <1>2 DEF Sending
<1>4. Recorded(x, s.answer)
  BY <1>1, <1>2, Closes DEF SettleAnswered, SettleRetry, Outcomes
<1>5. PICK st \in {"delivered", "failed", "pending"}, due \in Nat :
        /\ row' = [row EXCEPT ![x].state = st, ![x].due = due, ![x].gen = @ + 1, ![x].lease = 0]
        /\ s.answer = "accepted" <=> st = "delivered"
        /\ st = "pending" => row[x].used < Attempts
  BY Numbers DEF SettleAnswered, SettleRetry, Settled
<1>6. Alone(x) /\ row'[x].state = st
  <2>1. row \in [Routes -> Row] /\ row[x] \in Row
    BY <1>1 DEF Typed, RowsTyped
  <2>2. row[x].gen \in Nat
    BY <2>1 DEF Row
  <2> HIDE DEF x
  <2> QED
    BY <1>1, <1>5, <2>1, <2>2 DEF Alone, Row
<1>7. \A d \in Dests : dest[d].claim # s.token => /\ dest'[d].claim = dest[d].claim
                                                  /\ dest'[d].lease = dest[d].lease
  <2> DEFINE c == x[2]
  <2>1. c \in Dests /\ dest[c] \in Destination
    BY <1>1, RouteEnds DEF Typed, DestsTyped
  <2>2. dest \in [Dests -> Destination]
    BY DEF Typed, DestsTyped
  <2> HIDE DEF c
  <2>3. dest[c].claim # s.token => Release(dest[c], s.token) = dest[c]
    BY DEF Release
  <2>4. PICK closed \in Waits \cup {Never} :
          dest' = [dest EXCEPT ![c] =
                    LET d == Release(dest[c], s.token) IN [d EXCEPT !.next = Max({d.next, closed})]]
    BY SettleFrees DEF Frees, c
  <2> QED
    BY <2>1, <2>2, <2>3, <2>4 DEF c, Destination
<1> QED
  BY <1>1, <1>2, <1>3, <1>4, <1>5, <1>6, <1>7 DEF SettleAnswered, SettleRetry, Acknowledged

(* A claim. *)
Claimed(p, x) ==
    /\ \A y \in Routes \ {x} : log'[y] = log[y] /\ row'[y] = row[y]
    /\ Len(log'[x]) = Len(log[x]) + 1 /\ Len(log[x]) \in Nat
    /\ \A m \in 1..Len(log[x]) : log'[x][m] = log[x][m]
    /\ log'[x][Len(log[x]) + 1] = [cycle |-> row[x].cycle, outcome |-> "in_flight"]
    /\ row[x].state = "pending" /\ dest[x[2]].lease = 0
    /\ row'[x].state = "in_flight" /\ row'[x].cycle = row[x].cycle
    /\ row'[x].used = row[x].used + 1 /\ row'[x].gen = row[x].gen + 1 /\ row'[x].lease = Lease
    /\ dest' = [dest EXCEPT ![x[2]] = [claim |-> <<x, Len(log[x]) + 1>>, lease |-> Lease,
                                       next |-> Spacing]]
    /\ \A t \in sends' : t \in sends \/ t = Send(p, x)
    /\ UNCHANGED <<run, routes, got, view>>

(* A claim opens an attempt: what moves. *)
LEMMA ClaimMoves ==
    ASSUME Typed, NEW p \in Procs, NEW x \in Routes, Claim(p, x) \/ ClaimUnheard(p, x)
    PROVE  Claimed(p, x)
<1>1. Take(x) /\ Claimable(p, x) /\ UNCHANGED <<run, routes, got, view>>
  BY DEF Claim, ClaimUnheard
<1>2. /\ row'[x].state = "in_flight" /\ row'[x].cycle = row[x].cycle
      /\ row'[x].used = row[x].used + 1 /\ row'[x].gen = row[x].gen + 1 /\ row'[x].lease = Lease
  BY <1>1 DEF Take, Typed, RowsTyped, Row
<1>3. Len(log[x]) \in Nat
  BY DEF Typed, LogsTyped
<1>4. \A t \in sends' : t \in sends \/ t = Send(p, x)
  BY DEF Claim, ClaimUnheard
<1> QED
  BY <1>1, <1>2, <1>3, <1>4, Taken DEF Take, Claimable, Claimed

(* Time. *)
Ticked ==
    /\ \A y \in Routes :
         /\ row'[y].state = row[y].state /\ row'[y].cycle = row[y].cycle
         /\ row'[y].used = row[y].used /\ row'[y].gen = row[y].gen
         /\ row'[y].lease >= row[y].lease - 1 /\ row'[y].lease \in Nat
    /\ \A d \in Dests : dest'[d].claim = dest[d].claim /\ dest'[d].lease >= dest[d].lease - 1
    /\ \A t \in sends' : \E s \in sends :
         /\ t.token = s.token /\ t.answer = s.answer /\ t.by = s.by
         /\ s.age <= Timeout => t.age = s.age + 1
         /\ s.age > Timeout => t.age = s.age
         /\ t = [s EXCEPT !.age = t.age]
    /\ UNCHANGED <<run, routes, log, got, view>>

(* Time passes: what moves. *)
LEMMA TickMoves == Typed /\ Tick => Ticked
<1> SUFFICES ASSUME Typed, Tick PROVE Ticked
  OBVIOUS
<1>1. ASSUME NEW y \in Routes
      PROVE  /\ row'[y].state = row[y].state /\ row'[y].cycle = row[y].cycle
             /\ row'[y].used = row[y].used /\ row'[y].gen = row[y].gen
             /\ row'[y].lease >= row[y].lease - 1 /\ row'[y].lease \in Nat
  <2>1. row[y] \in Row
    BY DEF Typed, RowsTyped
  <2>2. row'[y] = [row[y] EXCEPT !.due = Less(row[y].due), !.lease = Less(row[y].lease)]
    BY DEF Tick
  <2> QED
    BY <2>1, <2>2 DEF Row, Less
<1>2. ASSUME NEW d \in Dests
      PROVE  dest'[d].claim = dest[d].claim /\ dest'[d].lease >= dest[d].lease - 1
  <2>1. dest[d] \in Destination
    BY DEF Typed, DestsTyped
  <2>2. dest'[d] = [dest[d] EXCEPT !.lease = Less(dest[d].lease), !.next = Less(dest[d].next)]
    BY DEF Tick
  <2> QED
    BY <2>1, <2>2 DEF Destination, Less
<1>3. ASSUME NEW t \in sends'
      PROVE  \E s \in sends :
                /\ t.token = s.token /\ t.answer = s.answer /\ t.by = s.by
                /\ s.age <= Timeout => t.age = s.age + 1
                /\ s.age > Timeout => t.age = s.age
                /\ t = [s EXCEPT !.age = t.age]
  <2>1. PICK s \in sends : t = [s EXCEPT !.age = IF s.age <= Timeout THEN s.age + 1 ELSE s.age]
    BY <1>3 DEF Tick
  <2>2. s \in Sending
    BY DEF Typed, RestTyped
  <2> QED
    BY <2>1, <2>2, Numbers DEF Sending
<1> QED
  BY <1>1, <1>2, <1>3 DEF Tick, Ticked


-----------------------------------------------------------------------------
(* No step breaks a part of the invariant. *)

(* A delivery in flight has been attempted. *)
LEMMA StepLogged ==
    ASSUME Typed, Logged, NEW y \in Routes, [Next]_vars
    PROVE  LoggedAt(y)'
<1>1. ASSUME NEW r \in Runs, Create(r)
      PROVE  LoggedAt(y)'
  BY <1>1 DEF Create, LoggedAt, Logged, Typed, RowsTyped, LogsTyped, Row
<1>2. ASSUME NEW r \in Runs, Finish(r)
      PROVE  LoggedAt(y)'
  BY <1>2 DEF Finish, NoRow, LoggedAt, Logged
<1>3. ASSUME NEW p \in Procs, NEW x \in Routes, Lapse(p, x)
      PROVE  LoggedAt(y)'
  <2>a. Lapsed(x)
    BY <1>3, LapseMoves
  <2> QED
    BY <2>a DEF Lapsed, LoggedAt, Logged, Recorded, Alone
<1>4. ASSUME NEW p \in Procs, NEW x \in Routes, Block(p, x)
      PROVE  LoggedAt(y)'
  BY <1>4 DEF Block, LoggedAt, Logged, Typed, RowsTyped, LogsTyped, Row
<1>5. ASSUME NEW p \in Procs, NEW x \in Routes, Unblock(p, x)
      PROVE  LoggedAt(y)'
  BY <1>5 DEF Unblock, LoggedAt, Logged, Typed, RowsTyped, LogsTyped, Row
<1>6. ASSUME NEW p \in Procs, NEW x \in Routes, Claim(p, x)
      PROVE  LoggedAt(y)'
  <2>a. Claimed(p, x)
    BY <1>6, ClaimMoves
  <2> QED
    BY <2>a DEF Claimed, LoggedAt, Logged
<1>7. ASSUME NEW p \in Procs, NEW x \in Routes, ClaimUnheard(p, x)
      PROVE  LoggedAt(y)'
  <2>a. Claimed(p, x)
    BY <1>7, ClaimMoves
  <2> QED
    BY <2>a DEF Claimed, LoggedAt, Logged
<1>8. ASSUME NEW p \in Procs, Drop(p)
      PROVE  LoggedAt(y)'
  BY <1>8 DEF Drop, LoggedAt, Logged, Typed, RowsTyped, LogsTyped, Row
<1>9. ASSUME NEW s \in sends, Accept(s)
      PROVE  LoggedAt(y)'
  BY <1>9 DEF Accept, LoggedAt, Logged, Typed, RowsTyped, LogsTyped, Row
<1>10. ASSUME NEW s \in sends, Answer(s)
      PROVE  LoggedAt(y)'
  BY <1>10 DEF Answer, LoggedAt, Logged, Typed, RowsTyped, LogsTyped, Row
<1>11. ASSUME NEW s \in sends, SettleAnswered(s)
      PROVE  LoggedAt(y)'
  <2>a. Acknowledged(s, s.token[1])
    BY <1>11, SettleMoves
  <2> QED
    BY <2>a DEF Acknowledged, LoggedAt, Logged, Recorded, Alone
<1>12. ASSUME NEW s \in sends, SettleRetry(s)
      PROVE  LoggedAt(y)'
  <2>a. Acknowledged(s, s.token[1])
    BY <1>12, SettleMoves
  <2> QED
    BY <2>a DEF Acknowledged, LoggedAt, Logged, Recorded, Alone
<1>13. ASSUME NEW s \in sends, Unsettled(s)
      PROVE  LoggedAt(y)'
  BY <1>13 DEF Unsettled, LoggedAt, Logged, Typed, RowsTyped, LogsTyped, Row
<1>14. ASSUME NEW x \in Routes, View(x)
      PROVE  LoggedAt(y)'
  BY <1>14 DEF View, LoggedAt, Logged, Typed, RowsTyped, LogsTyped, Row
<1>15. ASSUME NEW x \in Routes, Retry(x)
      PROVE  LoggedAt(y)'
  BY <1>15 DEF Retry, LoggedAt, Logged, Typed, RowsTyped, LogsTyped, Row
<1>16. ASSUME NEW x \in Routes, Dismiss(x)
      PROVE  LoggedAt(y)'
  BY <1>16 DEF Dismiss, LoggedAt, Logged, Typed, RowsTyped, LogsTyped, Row
<1>17. ASSUME NEW x \in Routes, Prune(x)
      PROVE  LoggedAt(y)'
  BY <1>17 DEF Prune, NoRow, LoggedAt, Logged, Typed, RowsTyped, LogsTyped
<1>18. ASSUME Tick
      PROVE  LoggedAt(y)'
  <2>a. Ticked
    BY <1>18, TickMoves
  <2> QED
    BY <2>a DEF Ticked, LoggedAt, Logged
<1>19. ASSUME UNCHANGED vars PROVE LoggedAt(y)'
  BY <1>19 DEF vars, Typed, LoggedAt, Logged
<1> QED
  BY <1>1, <1>2, <1>3, <1>4, <1>5, <1>6, <1>7, <1>8, <1>9, <1>10, <1>11, <1>12, <1>13, <1>14, <1>15,
     <1>16, <1>17, <1>18, <1>19 DEF Next, RunStep, PassStep, SendStep, OperatorStep

(* Nothing is known of a delivery whose run has not ended. *)
LEMMA StepBegun ==
    ASSUME Typed, Logged, Begun, NEW y \in Routes, [Next]_vars
    PROVE  BegunAt(y)'
<1>1. ASSUME NEW r \in Runs, Create(r)
      PROVE  BegunAt(y)'
  BY <1>1, RouteEnds DEF Create, BegunAt, Begun, Typed, RowsTyped, LogsTyped, Row
<1>2. ASSUME NEW r \in Runs, Finish(r)
      PROVE  BegunAt(y)'
  BY <1>2, RouteEnds DEF Finish, NoRow, BegunAt, Begun, Typed, RestTyped
<1>3. ASSUME NEW p \in Procs, NEW x \in Routes, Lapse(p, x)
      PROVE  BegunAt(y)'
  <2>a. Lapsed(x)
    BY <1>3, LapseMoves
  <2> QED
    BY <2>a DEF Lapsed, BegunAt, Begun, Recorded, Alone
<1>4. ASSUME NEW p \in Procs, NEW x \in Routes, Block(p, x)
      PROVE  BegunAt(y)'
  BY <1>4, RouteEnds DEF Block, BegunAt, Begun, Typed, RowsTyped, LogsTyped, Row
<1>5. ASSUME NEW p \in Procs, NEW x \in Routes, Unblock(p, x)
      PROVE  BegunAt(y)'
  BY <1>5, RouteEnds DEF Unblock, BegunAt, Begun, Typed, RowsTyped, LogsTyped, Row
<1>6. ASSUME NEW p \in Procs, NEW x \in Routes, Claim(p, x)
      PROVE  BegunAt(y)'
  <2>a. Claimed(p, x)
    BY <1>6, ClaimMoves
  <2> QED
    BY <2>a DEF Claimed, BegunAt, Begun, Send
<1>7. ASSUME NEW p \in Procs, NEW x \in Routes, ClaimUnheard(p, x)
      PROVE  BegunAt(y)'
  <2>a. Claimed(p, x)
    BY <1>7, ClaimMoves
  <2> QED
    BY <2>a DEF Claimed, BegunAt, Begun, Send
<1>8. ASSUME NEW p \in Procs, Drop(p)
      PROVE  BegunAt(y)'
  BY <1>8, RouteEnds DEF Drop, BegunAt, Begun, Typed, RowsTyped, LogsTyped, Row
<1>9. ASSUME NEW s \in sends, Accept(s)
      PROVE  BegunAt(y)'
  BY <1>9, RouteEnds DEF Accept, BegunAt, Begun, Typed, RowsTyped, LogsTyped, Row
<1>10. ASSUME NEW s \in sends, Answer(s)
      PROVE  BegunAt(y)'
  BY <1>10 DEF Answer, BegunAt, Begun, Typed, RestTyped, Sending
<1>11. ASSUME NEW s \in sends, SettleAnswered(s)
      PROVE  BegunAt(y)'
  <2>a. Acknowledged(s, s.token[1])
    BY <1>11, SettleMoves
  <2> QED
    BY <2>a DEF Acknowledged, BegunAt, Begun, Recorded, Alone
<1>12. ASSUME NEW s \in sends, SettleRetry(s)
      PROVE  BegunAt(y)'
  <2>a. Acknowledged(s, s.token[1])
    BY <1>12, SettleMoves
  <2> QED
    BY <2>a DEF Acknowledged, BegunAt, Begun, Recorded, Alone
<1>13. ASSUME NEW s \in sends, Unsettled(s)
      PROVE  BegunAt(y)'
  BY <1>13, RouteEnds DEF Unsettled, BegunAt, Begun, Typed, RowsTyped, LogsTyped, Row
<1>14. ASSUME NEW x \in Routes, View(x)
      PROVE  BegunAt(y)'
  BY <1>14 DEF View, Shown, BegunAt, Begun
<1>15. ASSUME NEW x \in Routes, Retry(x)
      PROVE  BegunAt(y)'
  BY <1>15, RouteEnds DEF Retry, BegunAt, Begun, Typed, RowsTyped, LogsTyped, Row
<1>16. ASSUME NEW x \in Routes, Dismiss(x)
      PROVE  BegunAt(y)'
  BY <1>16, RouteEnds DEF Dismiss, BegunAt, Begun, Typed, RowsTyped, LogsTyped, Row
<1>17. ASSUME NEW x \in Routes, Prune(x)
      PROVE  BegunAt(y)'
  BY <1>17 DEF Prune, NoRow, BegunAt, Begun, Typed, RowsTyped, LogsTyped
<1>18. ASSUME Tick
      PROVE  BegunAt(y)'
  <2>a. Ticked
    BY <1>18, TickMoves
  <2> QED
    BY <2>a DEF Ticked, BegunAt, Begun
<1>19. ASSUME UNCHANGED vars PROVE BegunAt(y)'
  BY <1>19 DEF vars, Typed, BegunAt, Begun
<1> QED
  BY <1>1, <1>2, <1>3, <1>4, <1>5, <1>6, <1>7, <1>8, <1>9, <1>10, <1>11, <1>12, <1>13, <1>14, <1>15,
     <1>16, <1>17, <1>18, <1>19 DEF Next, RunStep, PassStep, SendStep, OperatorStep

(* What was sent has its entry. *)
LEMMA StepKnown ==
    ASSUME Typed, Logged, Begun, Known, NEW k \in Routes \X Nat, [Next]_vars
    PROVE  KnownOf(k)'
<1>1. ASSUME NEW r \in Runs, Create(r)
      PROVE  KnownOf(k)'
  BY <1>1 DEF Create, KnownOf, Known, Sent, Typed, RowsTyped, LogsTyped, Row
<1>2. ASSUME NEW r \in Runs, Finish(r)
      PROVE  KnownOf(k)'
  BY <1>2 DEF Finish, KnownOf, Known, Sent, Begun, BegunAt
<1>3. ASSUME NEW p \in Procs, NEW x \in Routes, Lapse(p, x)
      PROVE  KnownOf(k)'
  <2>a. Lapsed(x)
    BY <1>3, LapseMoves
  <2> QED
    BY <2>a DEF Lapsed, KnownOf, Known, Sent, Recorded, Alone
<1>4. ASSUME NEW p \in Procs, NEW x \in Routes, Block(p, x)
      PROVE  KnownOf(k)'
  BY <1>4 DEF Block, KnownOf, Known, Sent, Typed, RowsTyped, LogsTyped, Row
<1>5. ASSUME NEW p \in Procs, NEW x \in Routes, Unblock(p, x)
      PROVE  KnownOf(k)'
  BY <1>5 DEF Unblock, KnownOf, Known, Sent, Typed, RowsTyped, LogsTyped, Row
<1>6. ASSUME NEW p \in Procs, NEW x \in Routes, Claim(p, x)
      PROVE  KnownOf(k)'
  <2>a. Claimed(p, x)
    BY <1>6, ClaimMoves
  <2> QED
    BY <2>a DEF Claimed, KnownOf, Known, Sent, Send
<1>7. ASSUME NEW p \in Procs, NEW x \in Routes, ClaimUnheard(p, x)
      PROVE  KnownOf(k)'
  <2>a. Claimed(p, x)
    BY <1>7, ClaimMoves
  <2> QED
    BY <2>a DEF Claimed, KnownOf, Known, Sent, Send
<1>8. ASSUME NEW p \in Procs, Drop(p)
      PROVE  KnownOf(k)'
  BY <1>8 DEF Drop, KnownOf, Known, Sent, Typed, RowsTyped, LogsTyped, Row
<1>9. ASSUME NEW s \in sends, Accept(s)
      PROVE  KnownOf(k)'
  BY <1>9 DEF Accept, KnownOf, Known, Sent, Typed, RowsTyped, LogsTyped, Row
<1>10. ASSUME NEW s \in sends, Answer(s)
      PROVE  KnownOf(k)'
  BY <1>10 DEF Answer, KnownOf, Known, Sent, Typed, RestTyped, Sending
<1>11. ASSUME NEW s \in sends, SettleAnswered(s)
      PROVE  KnownOf(k)'
  <2>a. Acknowledged(s, s.token[1])
    BY <1>11, SettleMoves
  <2> QED
    BY <2>a DEF Acknowledged, KnownOf, Known, Sent, Recorded, Alone
<1>12. ASSUME NEW s \in sends, SettleRetry(s)
      PROVE  KnownOf(k)'
  <2>a. Acknowledged(s, s.token[1])
    BY <1>12, SettleMoves
  <2> QED
    BY <2>a DEF Acknowledged, KnownOf, Known, Sent, Recorded, Alone
<1>13. ASSUME NEW s \in sends, Unsettled(s)
      PROVE  KnownOf(k)'
  BY <1>13 DEF Unsettled, KnownOf, Known, Sent, Typed, RowsTyped, LogsTyped, Row
<1>14. ASSUME NEW x \in Routes, View(x)
      PROVE  KnownOf(k)'
  BY <1>14 DEF View, KnownOf, Known, Sent, Typed, RowsTyped, LogsTyped, Row
<1>15. ASSUME NEW x \in Routes, Retry(x)
      PROVE  KnownOf(k)'
  BY <1>15 DEF Retry, KnownOf, Known, Sent, Typed, RowsTyped, LogsTyped, Row
<1>16. ASSUME NEW x \in Routes, Dismiss(x)
      PROVE  KnownOf(k)'
  BY <1>16 DEF Dismiss, KnownOf, Known, Sent, Typed, RowsTyped, LogsTyped, Row
<1>17. ASSUME NEW x \in Routes, Prune(x)
      PROVE  KnownOf(k)'
  BY <1>17 DEF Prune, NoRow, KnownOf, Known, Sent, Typed, LogsTyped, RowsTyped
<1>18. ASSUME Tick
      PROVE  KnownOf(k)'
  <2>a. Ticked
    BY <1>18, TickMoves
  <2> QED
    BY <2>a DEF Ticked, KnownOf, Known, Sent
<1>19. ASSUME UNCHANGED vars PROVE KnownOf(k)'
  BY <1>19 DEF vars, Typed, KnownOf, Known, Sent
<1> QED
  BY <1>1, <1>2, <1>3, <1>4, <1>5, <1>6, <1>7, <1>8, <1>9, <1>10, <1>11, <1>12, <1>13, <1>14, <1>15,
     <1>16, <1>17, <1>18, <1>19 DEF Next, RunStep, PassStep, SendStep, OperatorStep

(* A send is its token. *)
LEMMA StepSingle ==
    ASSUME Typed, Logged, Known, Single, [Next]_vars
    PROVE  Single'
<1>1. ASSUME NEW r \in Runs, Create(r)
      PROVE  Single'
  BY <1>1 DEF Create, Single
<1>2. ASSUME NEW r \in Runs, Finish(r)
      PROVE  Single'
  BY <1>2 DEF Finish, Single
<1>3. ASSUME NEW p \in Procs, NEW x \in Routes, Lapse(p, x)
      PROVE  Single'
  BY <1>3 DEF Lapse, Single
<1>4. ASSUME NEW p \in Procs, NEW x \in Routes, Block(p, x)
      PROVE  Single'
  BY <1>4 DEF Block, Single
<1>5. ASSUME NEW p \in Procs, NEW x \in Routes, Unblock(p, x)
      PROVE  Single'
  BY <1>5 DEF Unblock, Single
<1>6. ASSUME NEW p \in Procs, NEW x \in Routes, Claim(p, x)
      PROVE  Single'
  <2>a. Claimed(p, x)
    BY <1>6, ClaimMoves
  <2>1. ASSUME NEW s \in sends, s.token = <<x, Len(log[x]) + 1>> PROVE FALSE
    <3>1. s.token \in Routes \X Nat /\ s.token[1] = x /\ s.token[2] = Len(log[x]) + 1
      BY <2>1 DEF Typed, RestTyped, Sending
    <3> QED
      BY <3>1, <2>a DEF Claimed, Known, KnownOf, Sent
  <2> QED
    BY <2>a, <2>1 DEF Claimed, Single, Send
<1>7. ASSUME NEW p \in Procs, NEW x \in Routes, ClaimUnheard(p, x)
      PROVE  Single'
  <2>a. Claimed(p, x)
    BY <1>7, ClaimMoves
  <2>1. ASSUME NEW s \in sends, s.token = <<x, Len(log[x]) + 1>> PROVE FALSE
    <3>1. s.token \in Routes \X Nat /\ s.token[1] = x /\ s.token[2] = Len(log[x]) + 1
      BY <2>1 DEF Typed, RestTyped, Sending
    <3> QED
      BY <3>1, <2>a DEF Claimed, Known, KnownOf, Sent
  <2> QED
    BY <2>a, <2>1 DEF Claimed, Single, Send
<1>8. ASSUME NEW p \in Procs, Drop(p)
      PROVE  Single'
  BY <1>8 DEF Drop, Single
<1>9. ASSUME NEW s \in sends, Accept(s)
      PROVE  Single'
  BY <1>9 DEF Accept, Single
<1>10. ASSUME NEW s \in sends, Answer(s)
      PROVE  Single'
  BY <1>10 DEF Answer, Single, Typed, RestTyped, Sending
<1>11. ASSUME NEW s \in sends, SettleAnswered(s)
      PROVE  Single'
  <2>a. Acknowledged(s, s.token[1])
    BY <1>11, SettleMoves
  <2> QED
    BY <2>a DEF Acknowledged, Single
<1>12. ASSUME NEW s \in sends, SettleRetry(s)
      PROVE  Single'
  <2>a. Acknowledged(s, s.token[1])
    BY <1>12, SettleMoves
  <2> QED
    BY <2>a DEF Acknowledged, Single
<1>13. ASSUME NEW s \in sends, Unsettled(s)
      PROVE  Single'
  BY <1>13 DEF Unsettled, Single
<1>14. ASSUME NEW x \in Routes, View(x)
      PROVE  Single'
  BY <1>14 DEF View, Single
<1>15. ASSUME NEW x \in Routes, Retry(x)
      PROVE  Single'
  BY <1>15 DEF Retry, Single
<1>16. ASSUME NEW x \in Routes, Dismiss(x)
      PROVE  Single'
  BY <1>16 DEF Dismiss, Single
<1>17. ASSUME NEW x \in Routes, Prune(x)
      PROVE  Single'
  BY <1>17 DEF Prune, Single
<1>18. ASSUME Tick
      PROVE  Single'
  <2>1. ASSUME NEW s \in sends', NEW t \in sends', s.token = t.token PROVE s = t
    <3>1. PICK u \in sends : s = [u EXCEPT !.age = IF u.age <= Timeout THEN u.age + 1 ELSE u.age]
      BY <1>18 DEF Tick
    <3>2. PICK v \in sends : t = [v EXCEPT !.age = IF v.age <= Timeout THEN v.age + 1 ELSE v.age]
      BY <1>18 DEF Tick
    <3>3. u.token = s.token /\ v.token = t.token
      BY <3>1, <3>2 DEF Typed, RestTyped, Sending
    <3> QED
      BY <2>1, <3>1, <3>2, <3>3 DEF Single
  <2> QED
    BY <2>1 DEF Single
<1>19. ASSUME UNCHANGED vars PROVE Single'
  BY <1>19 DEF vars, Typed, Single
<1> QED
  BY <1>1, <1>2, <1>3, <1>4, <1>5, <1>6, <1>7, <1>8, <1>9, <1>10, <1>11, <1>12, <1>13, <1>14, <1>15,
     <1>16, <1>17, <1>18, <1>19 DEF Next, RunStep, PassStep, SendStep, OperatorStep

(* No answer is none of the answers. *)
LEMMA NoAnswer == None \notin Answers /\ None \notin Routes \X Nat
BY DeliveryAssumption

(* The entry of a send under way is open. *)
LEMMA StepOpen ==
    ASSUME Typed, Logged, Known, Single, Open, NEW t \in sends', [Next]_vars
    PROVE  OpenOf(t)'
<1>1. ASSUME NEW r \in Runs, Create(r)
      PROVE  OpenOf(t)'
  BY <1>1 DEF Create, OpenOf, Open, Typed, RowsTyped, LogsTyped, Row
<1>2. ASSUME NEW r \in Runs, Finish(r)
      PROVE  OpenOf(t)'
  BY <1>2 DEF Finish, OpenOf, Open, Typed, RowsTyped, LogsTyped, Row
<1>3. ASSUME NEW p \in Procs, NEW x \in Routes, Lapse(p, x)
      PROVE  OpenOf(t)'
  <2>a. Lapsed(x)
    BY <1>3, LapseMoves
  <2> QED
    BY <2>a DEF Lapsed, OpenOf, Open, Recorded, Typed, RestTyped, Sending
<1>4. ASSUME NEW p \in Procs, NEW x \in Routes, Block(p, x)
      PROVE  OpenOf(t)'
  BY <1>4 DEF Block, OpenOf, Open, Typed, RowsTyped, LogsTyped, Row
<1>5. ASSUME NEW p \in Procs, NEW x \in Routes, Unblock(p, x)
      PROVE  OpenOf(t)'
  BY <1>5 DEF Unblock, OpenOf, Open, Typed, RowsTyped, LogsTyped, Row
<1>6. ASSUME NEW p \in Procs, NEW x \in Routes, Claim(p, x)
      PROVE  OpenOf(t)'
  <2>a. Claimed(p, x)
    BY <1>6, ClaimMoves
  <2>1. CASE t \in sends
    <3>1. t.token \in Routes \X Nat
      BY <2>1 DEF Typed, RestTyped, Sending
    <3>2. t.token[1] = x => t.token[2] \in 1..Len(log[x])
      BY <3>1, <2>1, <2>a DEF Claimed, Known, KnownOf, Sent
    <3> QED
      BY <2>1, <3>1, <3>2, <2>a DEF Claimed, Open, OpenOf
  <2>2. CASE t = Send(p, x)
    BY <2>2, <2>a, NoAnswer DEF Claimed, OpenOf, Send, Answers
  <2> QED
    BY <2>1, <2>2, <2>a DEF Claimed
<1>7. ASSUME NEW p \in Procs, NEW x \in Routes, ClaimUnheard(p, x)
      PROVE  OpenOf(t)'
  <2>a. Claimed(p, x)
    BY <1>7, ClaimMoves
  <2>1. CASE t \in sends
    <3>1. t.token \in Routes \X Nat
      BY <2>1 DEF Typed, RestTyped, Sending
    <3>2. t.token[1] = x => t.token[2] \in 1..Len(log[x])
      BY <3>1, <2>1, <2>a DEF Claimed, Known, KnownOf, Sent
    <3> QED
      BY <2>1, <3>1, <3>2, <2>a DEF Claimed, Open, OpenOf
  <2>2. CASE t = Send(p, x)
    BY <2>2, <2>a, NoAnswer DEF Claimed, OpenOf, Send, Answers
  <2> QED
    BY <2>1, <2>2, <2>a DEF Claimed
<1>8. ASSUME NEW p \in Procs, Drop(p)
      PROVE  OpenOf(t)'
  BY <1>8 DEF Drop, OpenOf, Open, Typed, RowsTyped, LogsTyped, Row
<1>9. ASSUME NEW s \in sends, Accept(s)
      PROVE  OpenOf(t)'
  BY <1>9, NoAnswer DEF Accept, OpenOf, Open, Single, Answers
<1>10. ASSUME NEW s \in sends, Answer(s)
      PROVE  OpenOf(t)'
  <2>1. t \in sends \/ \E a \in Answers : t = [s EXCEPT !.answer = a] /\ (a = "accepted" => s.token \in got)
                                     /\ (a = "permanent_failure" => s.token \notin got)
    BY <1>10 DEF Answer
  <2>2. s \in Sending
    BY DEF Typed, RestTyped
  <2> QED
    BY <1>10, <2>1, <2>2 DEF Answer, OpenOf, Open, Sending
<1>11. ASSUME NEW s \in sends, SettleAnswered(s)
      PROVE  OpenOf(t)'
  <2>a. Acknowledged(s, s.token[1])
    BY <1>11, SettleMoves
  <2>1. t \in sends /\ t # s /\ t.token \in Routes \X Nat /\ t.token # s.token
    BY <2>a DEF Acknowledged, Single, Typed, RestTyped, Sending
  <2> QED
    BY SMTT(30), <2>1, <2>a DEF Acknowledged, Open, OpenOf, Recorded
<1>12. ASSUME NEW s \in sends, SettleRetry(s)
      PROVE  OpenOf(t)'
  <2>a. Acknowledged(s, s.token[1])
    BY <1>12, SettleMoves
  <2>1. t \in sends /\ t # s /\ t.token \in Routes \X Nat /\ t.token # s.token
    BY <2>a DEF Acknowledged, Single, Typed, RestTyped, Sending
  <2> QED
    BY SMTT(30), <2>1, <2>a DEF Acknowledged, Open, OpenOf, Recorded
<1>13. ASSUME NEW s \in sends, Unsettled(s)
      PROVE  OpenOf(t)'
  BY <1>13 DEF Unsettled, OpenOf, Open, Typed, RowsTyped, LogsTyped, Row
<1>14. ASSUME NEW x \in Routes, View(x)
      PROVE  OpenOf(t)'
  BY <1>14 DEF View, OpenOf, Open, Typed, RowsTyped, LogsTyped, Row
<1>15. ASSUME NEW x \in Routes, Retry(x)
      PROVE  OpenOf(t)'
  BY <1>15 DEF Retry, OpenOf, Open, Typed, RowsTyped, LogsTyped, Row
<1>16. ASSUME NEW x \in Routes, Dismiss(x)
      PROVE  OpenOf(t)'
  BY <1>16 DEF Dismiss, OpenOf, Open, Typed, RowsTyped, LogsTyped, Row
<1>17. ASSUME NEW x \in Routes, Prune(x)
      PROVE  OpenOf(t)'
  BY <1>17 DEF Prune, OpenOf, Open, Typed, RowsTyped, LogsTyped, Row
<1>18. ASSUME Tick
      PROVE  OpenOf(t)'
  <2>a. Ticked
    BY <1>18, TickMoves
  <2> QED
    BY <2>a DEF Ticked, OpenOf, Open
<1>19. ASSUME UNCHANGED vars PROVE OpenOf(t)'
  BY <1>19 DEF vars, Typed, OpenOf, Open
<1> QED
  BY <1>1, <1>2, <1>3, <1>4, <1>5, <1>6, <1>7, <1>8, <1>9, <1>10, <1>11, <1>12, <1>13, <1>14, <1>15,
     <1>16, <1>17, <1>18, <1>19 DEF Next, RunStep, PassStep, SendStep, OperatorStep

(* What is recorded is what happened. *)
LEMMA StepRecords ==
    ASSUME Typed, Logged, Begun, Single, Open, Records, NEW y \in Routes, NEW n \in 1..Len(log'[y]), [Next]_vars
    PROVE  RecordOf(y, n)'
<1>1. ASSUME NEW r \in Runs, Create(r)
      PROVE  RecordOf(y, n)'
  BY <1>1 DEF Create, RecordOf, Records
<1>2. ASSUME NEW r \in Runs, Finish(r)
      PROVE  RecordOf(y, n)'
  BY <1>2 DEF Finish, NoRow, RecordOf, Records, Begun, BegunAt
<1>3. ASSUME NEW p \in Procs, NEW x \in Routes, Lapse(p, x)
      PROVE  RecordOf(y, n)'
  <2>a. Lapsed(x)
    BY <1>3, LapseMoves
  <2> QED
    BY SMTT(30), <2>a DEF Lapsed, RecordOf, Records, Recorded, Alone
<1>4. ASSUME NEW p \in Procs, NEW x \in Routes, Block(p, x)
      PROVE  RecordOf(y, n)'
  BY <1>4 DEF Block, RecordOf, Records, Typed, RowsTyped, LogsTyped, Row
<1>5. ASSUME NEW p \in Procs, NEW x \in Routes, Unblock(p, x)
      PROVE  RecordOf(y, n)'
  BY <1>5 DEF Unblock, RecordOf, Records, Typed, RowsTyped, LogsTyped, Row
<1>6. ASSUME NEW p \in Procs, NEW x \in Routes, Claim(p, x)
      PROVE  RecordOf(y, n)'
  <2>a. Claimed(p, x)
    BY <1>6, ClaimMoves
  <2> QED
    BY SMTT(30), <2>a DEF Claimed, RecordOf, Records
<1>7. ASSUME NEW p \in Procs, NEW x \in Routes, ClaimUnheard(p, x)
      PROVE  RecordOf(y, n)'
  <2>a. Claimed(p, x)
    BY <1>7, ClaimMoves
  <2> QED
    BY SMTT(30), <2>a DEF Claimed, RecordOf, Records
<1>8. ASSUME NEW p \in Procs, Drop(p)
      PROVE  RecordOf(y, n)'
  BY <1>8 DEF Drop, RecordOf, Records
<1>9. ASSUME NEW s \in sends, Accept(s)
      PROVE  RecordOf(y, n)'
  BY <1>9 DEF Accept, RecordOf, Records, Open, OpenOf
<1>10. ASSUME NEW s \in sends, Answer(s)
      PROVE  RecordOf(y, n)'
  BY <1>10 DEF Answer, RecordOf, Records
<1>11. ASSUME NEW s \in sends, SettleAnswered(s)
      PROVE  RecordOf(y, n)'
  <2>a. Acknowledged(s, s.token[1])
    BY <1>11, SettleMoves
  <2> DEFINE x == s.token[1]
  <2>1. CASE y # x
    BY <2>a, <2>1 DEF Acknowledged, RecordOf, Records, Recorded, Alone
  <2>2. CASE y = x /\ n # Len(log[x])
    <3>1. n \in 1..Len(log[y]) /\ log'[y][n] = log[y][n] /\ Len(log'[y]) = Len(log[y]) /\ got' = got
      BY <2>a, <2>2 DEF Acknowledged, Recorded
    <3>2. log[y][n].outcome # "accepted"
      BY <2>a, <2>2, <3>1 DEF Acknowledged, Records, RecordOf
    <3>3. row'[y].state = "delivered" => log'[y][Len(log'[y])].outcome = "accepted"
      BY <2>a, <2>2 DEF Acknowledged, Recorded
    <3> QED
      BY <3>1, <3>2, <3>3 DEF Records, RecordOf
  <2>3. CASE y = x /\ n = Len(log[x])
    <3>1. /\ s.answer = "accepted" => s.token \in got
          /\ s.answer = "permanent_failure" => s.token \notin got
      BY DEF Open, OpenOf
    <3> QED
      BY <2>a, <2>3, <3>1 DEF Acknowledged, Recorded, RecordOf
  <2> QED
    BY <2>1, <2>2, <2>3
<1>12. ASSUME NEW s \in sends, SettleRetry(s)
      PROVE  RecordOf(y, n)'
  <2>a. Acknowledged(s, s.token[1])
    BY <1>12, SettleMoves
  <2> DEFINE x == s.token[1]
  <2>1. CASE y # x
    BY <2>a, <2>1 DEF Acknowledged, RecordOf, Records, Recorded, Alone
  <2>2. CASE y = x /\ n # Len(log[x])
    <3>1. n \in 1..Len(log[y]) /\ log'[y][n] = log[y][n] /\ Len(log'[y]) = Len(log[y]) /\ got' = got
      BY <2>a, <2>2 DEF Acknowledged, Recorded
    <3>2. log[y][n].outcome # "accepted"
      BY <2>a, <2>2, <3>1 DEF Acknowledged, Records, RecordOf
    <3>3. row'[y].state = "delivered" => log'[y][Len(log'[y])].outcome = "accepted"
      BY <2>a, <2>2 DEF Acknowledged, Recorded
    <3> QED
      BY <3>1, <3>2, <3>3 DEF Records, RecordOf
  <2>3. CASE y = x /\ n = Len(log[x])
    <3>1. /\ s.answer = "accepted" => s.token \in got
          /\ s.answer = "permanent_failure" => s.token \notin got
      BY DEF Open, OpenOf
    <3> QED
      BY <2>a, <2>3, <3>1 DEF Acknowledged, Recorded, RecordOf
  <2> QED
    BY <2>1, <2>2, <2>3
<1>13. ASSUME NEW s \in sends, Unsettled(s)
      PROVE  RecordOf(y, n)'
  BY <1>13 DEF Unsettled, RecordOf, Records
<1>14. ASSUME NEW x \in Routes, View(x)
      PROVE  RecordOf(y, n)'
  BY <1>14 DEF View, RecordOf, Records
<1>15. ASSUME NEW x \in Routes, Retry(x)
      PROVE  RecordOf(y, n)'
  BY SMTT(30), <1>15 DEF Retry, RecordOf, Records, Typed, RowsTyped, LogsTyped, Row
<1>16. ASSUME NEW x \in Routes, Dismiss(x)
      PROVE  RecordOf(y, n)'
  BY <1>16 DEF Dismiss, RecordOf, Records, Typed, RowsTyped, LogsTyped, Row
<1>17. ASSUME NEW x \in Routes, Prune(x)
      PROVE  RecordOf(y, n)'
  <2>1. y # x /\ log'[y] = log[y] /\ row'[y] = row[y] /\ got' = got
    BY <1>17, EmptySeq DEF Prune, Typed, RowsTyped, LogsTyped
  <2> QED
    BY <2>1 DEF RecordOf, Records
<1>18. ASSUME Tick
      PROVE  RecordOf(y, n)'
  <2>a. Ticked
    BY <1>18, TickMoves
  <2> QED
    BY <2>a DEF Ticked, RecordOf, Records
<1>19. ASSUME UNCHANGED vars PROVE RecordOf(y, n)'
  BY <1>19 DEF vars, Typed, RecordOf, Records
<1> QED
  BY <1>1, <1>2, <1>3, <1>4, <1>5, <1>6, <1>7, <1>8, <1>9, <1>10, <1>11, <1>12, <1>13, <1>14, <1>15,
     <1>16, <1>17, <1>18, <1>19 DEF Next, RunStep, PassStep, SendStep, OperatorStep

(* A send in time holds its leases. *)
LEMMA StepInTime ==
    ASSUME Typed, Logged, Begun, Single, InTime, NEW t \in sends', [Next]_vars
    PROVE  InTimeOf(t)'
<1>1. ASSUME NEW r \in Runs, Create(r)
      PROVE  InTimeOf(t)'
  BY <1>1 DEF Create, InTimeOf, InTime, Typed, RestTyped, Sending, RowsTyped, Row
<1>2. ASSUME NEW r \in Runs, Finish(r)
      PROVE  InTimeOf(t)'
  <2>0. ASSUME t \in sends PROVE /\ t \in Sending /\ t.token[1] \in Routes /\ t.token[1][2] \in Dests
                            /\ t.token = <<t.token[1], t.token[2]>> /\ InTimeOf(t)
    BY <2>0, RouteEnds DEF Typed, RestTyped, Sending, InTime
  <2> QED
    BY <2>0, <1>2, Numbers DEF Finish, Begun, BegunAt, InTimeOf, Sending
<1>3. ASSUME NEW p \in Procs, NEW x \in Routes, Lapse(p, x)
      PROVE  InTimeOf(t)'
  <2>a. Lapsed(x)
    BY <1>3, LapseMoves
  <2>0. ASSUME t \in sends PROVE /\ t \in Sending /\ t.token[1] \in Routes /\ t.token[1][2] \in Dests
                            /\ t.token = <<t.token[1], t.token[2]>> /\ InTimeOf(t)
    BY <2>0, RouteEnds DEF Typed, RestTyped, Sending, InTime
  <2> QED
    BY <2>0, <2>a, Numbers DEF Lapsed, Alone, Recorded, Release, Typed, DestsTyped, InTimeOf, Sending
<1>4. ASSUME NEW p \in Procs, NEW x \in Routes, Block(p, x)
      PROVE  InTimeOf(t)'
  <2>0. ASSUME t \in sends PROVE /\ t \in Sending /\ t.token[1] \in Routes /\ t.token[1][2] \in Dests
                            /\ t.token = <<t.token[1], t.token[2]>> /\ InTimeOf(t)
    BY <2>0, RouteEnds DEF Typed, RestTyped, Sending, InTime
  <2> QED
    BY <2>0, <1>4, Numbers DEF Block, Typed, RowsTyped, Row, InTimeOf, Sending
<1>5. ASSUME NEW p \in Procs, NEW x \in Routes, Unblock(p, x)
      PROVE  InTimeOf(t)'
  <2>0. ASSUME t \in sends PROVE /\ t \in Sending /\ t.token[1] \in Routes /\ t.token[1][2] \in Dests
                            /\ t.token = <<t.token[1], t.token[2]>> /\ InTimeOf(t)
    BY <2>0, RouteEnds DEF Typed, RestTyped, Sending, InTime
  <2> QED
    BY <2>0, <1>5, Numbers DEF Unblock, Typed, RowsTyped, Row, InTimeOf, Sending
<1>6. ASSUME NEW p \in Procs, NEW x \in Routes, Claim(p, x)
      PROVE  InTimeOf(t)'
  <2>a. Claimed(p, x)
    BY <1>6, ClaimMoves
  <2>0. ASSUME t \in sends PROVE /\ t \in Sending /\ t.token[1] \in Routes /\ t.token[1][2] \in Dests
                            /\ t.token = <<t.token[1], t.token[2]>> /\ InTimeOf(t)
    BY <2>0, RouteEnds DEF Typed, RestTyped, Sending, InTime
  <2>1. CASE t \in sends
    BY <2>0, <2>1, <2>a, Numbers, RouteEnds DEF Claimed, InTimeOf, Sending, Typed, DestsTyped
  <2>2. CASE t = Send(p, x)
    BY <2>2, <2>a, Numbers, RouteEnds DEF Claimed, InTimeOf, Send, Typed, DestsTyped
  <2> QED
    BY <2>1, <2>2, <2>a DEF Claimed
<1>7. ASSUME NEW p \in Procs, NEW x \in Routes, ClaimUnheard(p, x)
      PROVE  InTimeOf(t)'
  <2>a. Claimed(p, x)
    BY <1>7, ClaimMoves
  <2>0. ASSUME t \in sends PROVE /\ t \in Sending /\ t.token[1] \in Routes /\ t.token[1][2] \in Dests
                            /\ t.token = <<t.token[1], t.token[2]>> /\ InTimeOf(t)
    BY <2>0, RouteEnds DEF Typed, RestTyped, Sending, InTime
  <2>1. CASE t \in sends
    BY <2>0, <2>1, <2>a, Numbers, RouteEnds DEF Claimed, InTimeOf, Sending, Typed, DestsTyped
  <2>2. CASE t = Send(p, x)
    BY <2>2, <2>a, Numbers, RouteEnds DEF Claimed, InTimeOf, Send, Typed, DestsTyped
  <2> QED
    BY <2>1, <2>2, <2>a DEF Claimed
<1>8. ASSUME NEW p \in Procs, Drop(p)
      PROVE  InTimeOf(t)'
  BY <1>8 DEF Drop, InTimeOf, InTime, Typed, RestTyped, Sending, RowsTyped, Row
<1>9. ASSUME NEW s \in sends, Accept(s)
      PROVE  InTimeOf(t)'
  BY <1>9 DEF Accept, InTimeOf, InTime, Typed, RestTyped, Sending, RowsTyped, Row
<1>10. ASSUME NEW s \in sends, Answer(s)
      PROVE  InTimeOf(t)'
  <2>1. CASE t \in sends
    BY <2>1, <1>10 DEF Answer, InTime, InTimeOf
  <2>2. CASE \E a \in Answers : t = [s EXCEPT !.answer = a]
    <3>1. t.answer # None
      BY <2>2, NoAnswer DEF Typed, RestTyped, Sending
    <3> QED
      BY <3>1 DEF InTimeOf
  <2> QED
    BY <1>10, <2>1, <2>2 DEF Answer
<1>11. ASSUME NEW s \in sends, SettleAnswered(s)
      PROVE  InTimeOf(t)'
  <2>a. Acknowledged(s, s.token[1])
    BY <1>11, SettleMoves
  <2>1. t \in sends /\ t.token # s.token
    BY <2>a DEF Acknowledged, Single
  <2>0. ASSUME t \in sends PROVE /\ t \in Sending /\ t.token[1] \in Routes /\ t.token[1][2] \in Dests
                            /\ t.token = <<t.token[1], t.token[2]>> /\ InTimeOf(t)
    BY <2>0, RouteEnds DEF Typed, RestTyped, Sending, InTime
  <2> QED
    BY <2>0, <2>1, <2>a DEF Acknowledged, Alone, Recorded, InTimeOf, Sending
<1>12. ASSUME NEW s \in sends, SettleRetry(s)
      PROVE  InTimeOf(t)'
  <2>a. Acknowledged(s, s.token[1])
    BY <1>12, SettleMoves
  <2>1. t \in sends /\ t.token # s.token
    BY <2>a DEF Acknowledged, Single
  <2>0. ASSUME t \in sends PROVE /\ t \in Sending /\ t.token[1] \in Routes /\ t.token[1][2] \in Dests
                            /\ t.token = <<t.token[1], t.token[2]>> /\ InTimeOf(t)
    BY <2>0, RouteEnds DEF Typed, RestTyped, Sending, InTime
  <2> QED
    BY <2>0, <2>1, <2>a DEF Acknowledged, Alone, Recorded, InTimeOf, Sending
<1>13. ASSUME NEW s \in sends, Unsettled(s)
      PROVE  InTimeOf(t)'
  BY <1>13 DEF Unsettled, InTimeOf, InTime, Typed, RestTyped, Sending, RowsTyped, Row
<1>14. ASSUME NEW x \in Routes, View(x)
      PROVE  InTimeOf(t)'
  BY <1>14 DEF View, InTimeOf, InTime, Typed, RestTyped, Sending, RowsTyped, Row
<1>15. ASSUME NEW x \in Routes, Retry(x)
      PROVE  InTimeOf(t)'
  <2>0. ASSUME t \in sends PROVE /\ t \in Sending /\ t.token[1] \in Routes /\ t.token[1][2] \in Dests
                            /\ t.token = <<t.token[1], t.token[2]>> /\ InTimeOf(t)
    BY <2>0, RouteEnds DEF Typed, RestTyped, Sending, InTime
  <2> QED
    BY <2>0, <1>15, Numbers DEF Retry, Typed, RowsTyped, Row, InTimeOf, Sending
<1>16. ASSUME NEW x \in Routes, Dismiss(x)
      PROVE  InTimeOf(t)'
  <2>0. ASSUME t \in sends PROVE /\ t \in Sending /\ t.token[1] \in Routes /\ t.token[1][2] \in Dests
                            /\ t.token = <<t.token[1], t.token[2]>> /\ InTimeOf(t)
    BY <2>0, RouteEnds DEF Typed, RestTyped, Sending, InTime
  <2> QED
    BY <2>0, <1>16, Numbers DEF Dismiss, Typed, RowsTyped, Row, InTimeOf, Sending
<1>17. ASSUME NEW x \in Routes, Prune(x)
      PROVE  InTimeOf(t)'
  <2>0. ASSUME t \in sends PROVE /\ t \in Sending /\ t.token[1] \in Routes /\ t.token[1][2] \in Dests
                            /\ t.token = <<t.token[1], t.token[2]>> /\ InTimeOf(t)
    BY <2>0, RouteEnds DEF Typed, RestTyped, Sending, InTime
  <2> QED
    BY <2>0, <1>17, Numbers, NoAnswer DEF Prune, Typed, DestsTyped, InTimeOf, Sending
<1>18. ASSUME Tick
      PROVE  InTimeOf(t)'
  <2>a. Ticked
    BY <1>18, TickMoves
  <2>1. PICK s \in sends : /\ t.token = s.token /\ t.answer = s.answer
                           /\ s.age <= Timeout => t.age = s.age + 1
                           /\ s.age > Timeout => t.age = s.age
    BY <2>a DEF Ticked
  <2>2. s \in Sending /\ InTimeOf(s) /\ s.token[1] \in Routes /\ s.token[1][2] \in Dests
    BY RouteEnds DEF Typed, RestTyped, InTime, Sending
  <2>3. row[s.token[1]] \in Row /\ dest[s.token[1][2]] \in Destination
    BY <2>2 DEF Typed, RowsTyped, DestsTyped
  <2>4. dest'[s.token[1][2]].lease \in Int /\ row'[s.token[1]].lease \in Int
    BY StepDestsTyped, StepRowsTyped, <2>2 DEF DestsTyped, RowsTyped, Row, Destination
  <2> SUFFICES ASSUME t.answer = None, t.age <= Timeout PROVE InTimeOf(t)'
    BY DEF InTimeOf
  <2>5. s.answer = None /\ s.age <= Timeout /\ t.age = s.age + 1 /\ s.age \in Nat
    BY <2>1, <2>2, Numbers DEF Sending
  <2>6. /\ row[s.token[1]].state = "in_flight" /\ Len(log[s.token[1]]) = s.token[2]
        /\ row[s.token[1]].lease + s.age >= Lease
        /\ dest[s.token[1][2]].claim = s.token /\ dest[s.token[1][2]].lease + s.age >= Lease
    BY <2>2, <2>5 DEF InTimeOf
  <2>7. /\ row'[s.token[1]].state = "in_flight" /\ Len(log'[s.token[1]]) = s.token[2]
        /\ dest'[s.token[1][2]].claim = s.token
        /\ row'[s.token[1]].lease >= row[s.token[1]].lease - 1
        /\ dest'[s.token[1][2]].lease >= dest[s.token[1][2]].lease - 1
    BY <2>a, <2>2, <2>6 DEF Ticked
  <2>8. row'[s.token[1]].lease + t.age >= Lease /\ dest'[s.token[1][2]].lease + t.age >= Lease
    <3>1. row[s.token[1]].lease \in Int /\ dest[s.token[1][2]].lease \in Int
      BY <2>3 DEF Row, Destination
    <3>2. \A a, b, u, v \in Int : a + u >= Lease /\ b >= a - 1 /\ v = u + 1 => b + v >= Lease
      BY Numbers
    <3>3. s.age \in Int /\ t.age \in Int
      BY <2>5
    <3> DEFINE a == row[s.token[1]].lease
               b == row'[s.token[1]].lease
               f == dest[s.token[1][2]].lease
               g == dest'[s.token[1][2]].lease
    <3>4. a + s.age >= Lease /\ b >= a - 1 /\ f + s.age >= Lease /\ g >= f - 1
      BY <2>6, <2>7
    <3>5. a \in Int /\ b \in Int /\ f \in Int /\ g \in Int
      BY <2>4, <3>1
    <3> HIDE DEF a, b, f, g
    <3>6. b + t.age >= Lease /\ g + t.age >= Lease
      BY <2>5, <3>2, <3>3, <3>4, <3>5
    <3> QED
      BY <3>6 DEF b, g
  <2> QED
    BY <2>1, <2>7, <2>8 DEF InTimeOf
<1>19. ASSUME UNCHANGED vars PROVE InTimeOf(t)'
  BY <1>19 DEF vars, Typed, InTimeOf, InTime
<1> QED
  BY <1>1, <1>2, <1>3, <1>4, <1>5, <1>6, <1>7, <1>8, <1>9, <1>10, <1>11, <1>12, <1>13, <1>14, <1>15,
     <1>16, <1>17, <1>18, <1>19 DEF Next, RunStep, PassStep, SendStep, OperatorStep

(* What an operator looks at is what is there, or is behind it. *)
LEMMA StepSeen ==
    ASSUME Typed, Logged, Begun, Seen, NEW y \in Routes, [Next]_vars
    PROVE  SeenAt(y)'
<1>1. ASSUME NEW r \in Runs, Create(r)
      PROVE  SeenAt(y)'
  BY <1>1 DEF Create, SeenAt, Seen, Shown, Typed, RowsTyped, LogsTyped, Row
<1>2. ASSUME NEW r \in Runs, Finish(r)
      PROVE  SeenAt(y)'
  BY <1>2 DEF Finish, SeenAt, Seen, Shown, Begun, BegunAt
<1>3. ASSUME NEW p \in Procs, NEW x \in Routes, Lapse(p, x)
      PROVE  SeenAt(y)'
  <2>a. Lapsed(x)
    BY <1>3, LapseMoves
  <2>1. CASE y # x
    BY <2>a, <2>1 DEF Lapsed, Alone, SeenAt, Seen, Shown
  <2>2. CASE y = x
    <3>1. row[x].gen \in Nat /\ row'[x].gen \in Nat
      BY StepRowsTyped DEF Typed, RowsTyped, Row
    <3>2. view' = view /\ row'[x].gen > row[x].gen /\ row[x].state # "none"
      BY <2>a, <3>1 DEF Lapsed, Alone
    <3> QED
      BY <2>2, <3>1, <3>2 DEF SeenAt, Seen
  <2> QED
    BY <2>1, <2>2
<1>4. ASSUME NEW p \in Procs, NEW x \in Routes, Block(p, x)
      PROVE  SeenAt(y)'
  BY <1>4 DEF Block, SeenAt, Seen, Shown, Typed, RowsTyped, LogsTyped, Row
<1>5. ASSUME NEW p \in Procs, NEW x \in Routes, Unblock(p, x)
      PROVE  SeenAt(y)'
  BY <1>5 DEF Unblock, SeenAt, Seen, Shown, Typed, RowsTyped, LogsTyped, Row
<1>6. ASSUME NEW p \in Procs, NEW x \in Routes, Claim(p, x)
      PROVE  SeenAt(y)'
  <2>a. Claimed(p, x)
    BY <1>6, ClaimMoves
  <2>1. CASE y # x
    BY <2>a, <2>1 DEF Claimed, Alone, SeenAt, Seen, Shown
  <2>2. CASE y = x
    <3>1. row[x].gen \in Nat /\ row'[x].gen \in Nat
      BY StepRowsTyped DEF Typed, RowsTyped, Row
    <3>2. view' = view /\ row'[x].gen > row[x].gen /\ row[x].state # "none"
      BY <2>a, <3>1 DEF Claimed, Alone
    <3> QED
      BY <2>2, <3>1, <3>2 DEF SeenAt, Seen
  <2> QED
    BY <2>1, <2>2
<1>7. ASSUME NEW p \in Procs, NEW x \in Routes, ClaimUnheard(p, x)
      PROVE  SeenAt(y)'
  <2>a. Claimed(p, x)
    BY <1>7, ClaimMoves
  <2>1. CASE y # x
    BY <2>a, <2>1 DEF Claimed, Alone, SeenAt, Seen, Shown
  <2>2. CASE y = x
    <3>1. row[x].gen \in Nat /\ row'[x].gen \in Nat
      BY StepRowsTyped DEF Typed, RowsTyped, Row
    <3>2. view' = view /\ row'[x].gen > row[x].gen /\ row[x].state # "none"
      BY <2>a, <3>1 DEF Claimed, Alone
    <3> QED
      BY <2>2, <3>1, <3>2 DEF SeenAt, Seen
  <2> QED
    BY <2>1, <2>2
<1>8. ASSUME NEW p \in Procs, Drop(p)
      PROVE  SeenAt(y)'
  BY <1>8 DEF Drop, SeenAt, Seen, Shown, Typed, RowsTyped, LogsTyped, Row
<1>9. ASSUME NEW s \in sends, Accept(s)
      PROVE  SeenAt(y)'
  BY <1>9 DEF Accept, SeenAt, Seen, Shown, Typed, RowsTyped, LogsTyped, Row
<1>10. ASSUME NEW s \in sends, Answer(s)
      PROVE  SeenAt(y)'
  BY <1>10 DEF Answer, SeenAt, Seen, Shown, Typed, RowsTyped, LogsTyped, Row
<1>11. ASSUME NEW s \in sends, SettleAnswered(s)
      PROVE  SeenAt(y)'
  <2>a. Acknowledged(s, s.token[1])
    BY <1>11, SettleMoves
  <2> DEFINE x == s.token[1]
  <2>1. CASE y # x
    BY <2>a, <2>1 DEF Acknowledged, Alone, SeenAt, Seen, Shown
  <2>2. CASE y = x
    <3>0. x \in Routes
      BY <2>a DEF Acknowledged
    <3>1. row[x].gen \in Nat /\ row'[x].gen \in Nat
      BY <3>0, StepRowsTyped DEF Typed, RowsTyped, Row
    <3>2. view' = view /\ row'[x].gen > row[x].gen /\ row[x].state # "none"
      BY <2>a, <3>1 DEF Acknowledged, Alone
    <3> QED
      BY <2>2, <3>0, <3>1, <3>2 DEF SeenAt, Seen
  <2> QED
    BY <2>1, <2>2
<1>12. ASSUME NEW s \in sends, SettleRetry(s)
      PROVE  SeenAt(y)'
  <2>a. Acknowledged(s, s.token[1])
    BY <1>12, SettleMoves
  <2> DEFINE x == s.token[1]
  <2>1. CASE y # x
    BY <2>a, <2>1 DEF Acknowledged, Alone, SeenAt, Seen, Shown
  <2>2. CASE y = x
    <3>0. x \in Routes
      BY <2>a DEF Acknowledged
    <3>1. row[x].gen \in Nat /\ row'[x].gen \in Nat
      BY <3>0, StepRowsTyped DEF Typed, RowsTyped, Row
    <3>2. view' = view /\ row'[x].gen > row[x].gen /\ row[x].state # "none"
      BY <2>a, <3>1 DEF Acknowledged, Alone
    <3> QED
      BY <2>2, <3>0, <3>1, <3>2 DEF SeenAt, Seen
  <2> QED
    BY <2>1, <2>2
<1>13. ASSUME NEW s \in sends, Unsettled(s)
      PROVE  SeenAt(y)'
  BY <1>13 DEF Unsettled, SeenAt, Seen, Shown, Typed, RowsTyped, LogsTyped, Row
<1>14. ASSUME NEW x \in Routes, View(x)
      PROVE  SeenAt(y)'
  BY <1>14 DEF View, SeenAt, Seen, Shown, Typed, RowsTyped, LogsTyped, Row
<1>15. ASSUME NEW x \in Routes, Retry(x)
      PROVE  SeenAt(y)'
  BY <1>15 DEF Retry, SeenAt, Seen, Shown, Typed, RowsTyped, LogsTyped, Row
<1>16. ASSUME NEW x \in Routes, Dismiss(x)
      PROVE  SeenAt(y)'
  BY <1>16 DEF Dismiss, SeenAt, Seen, Shown, Typed, RowsTyped, LogsTyped, Row
<1>17. ASSUME NEW x \in Routes, Prune(x)
      PROVE  SeenAt(y)'
  BY <1>17 DEF Prune, NoRow, SeenAt, Seen, Shown, Typed, RowsTyped
<1>18. ASSUME Tick
      PROVE  SeenAt(y)'
  <2>a. Ticked
    BY <1>18, TickMoves
  <2> QED
    BY <2>a DEF Ticked, SeenAt, Seen, Shown
<1>19. ASSUME UNCHANGED vars PROVE SeenAt(y)'
  BY <1>19 DEF vars, Typed, SeenAt, Seen, Shown
<1> QED
  BY <1>1, <1>2, <1>3, <1>4, <1>5, <1>6, <1>7, <1>8, <1>9, <1>10, <1>11, <1>12, <1>13, <1>14, <1>15,
     <1>16, <1>17, <1>18, <1>19 DEF Next, RunStep, PassStep, SendStep, OperatorStep

(* Of an attempt that is answered for, nothing changes that is counted; one*)
(* that is made counts in the cycle there is.                              *)
LEMMA TallyKept ==
    ASSUME NEW x \in Routes, NEW o, Recorded(x, o), NEW y \in Routes, NEW c \in Nat
    PROVE  Tally(y, c)' = Tally(y, c)
BY DEF Tally, Recorded

(* A claim counts against the budget of its own cycle, and of no other.    *)
LEMMA TallyGrows ==
    ASSUME NEW p \in Procs, NEW x \in Routes, Claimed(p, x), NEW y \in Routes, NEW c \in Nat
    PROVE  Tally(y, c)' = IF y = x /\ c = row[x].cycle
                          THEN Tally(y, c) \cup {Len(log[x]) + 1} ELSE Tally(y, c)
BY SMTT(30) DEF Tally, Claimed

(* A delivery begins, and ends, with no attempt. *)
LEMMA NoTally ==
    ASSUME NEW x \in Routes, Len(log[x]) = 0, NEW c \in Nat
    PROVE  IsFiniteSet(Tally(x, c)) /\ Cardinality(Tally(x, c)) = 0
<1>1. Tally(x, c) = {}
  BY DEF Tally
<1> QED
  BY <1>1, FS_EmptySet

(* The attempts of a cycle are counted. *)
LEMMA StepBudget ==
    ASSUME Typed, Logged, Begun, Budget, NEW y \in Routes, [Next]_vars
    PROVE  BudgetAt(y)'
<1>1. ASSUME NEW r \in Runs, Create(r)
      PROVE  BudgetAt(y)'
  <2>1. \A c \in Nat : Tally(y, c)' = Tally(y, c)
    BY <1>1 DEF Create, Tally
  <2> QED
    BY <1>1, <2>1 DEF Create, BudgetAt, Budget, Typed, RowsTyped, LogsTyped, Row
<1>2. ASSUME NEW r \in Runs, Finish(r)
      PROVE  BudgetAt(y)'
  <2>1. \A c \in Nat : Tally(y, c)' = Tally(y, c)
    BY <1>2 DEF Finish, Tally
  <2>2. CASE row'[y] = row[y]
    BY <2>1, <2>2, <1>2 DEF Finish, BudgetAt, Budget
  <2>3. CASE row'[y].used = 0 /\ run[y[1]] # "ended"
    <3>1. Len(log[y]) = 0 /\ log' = log
      BY <2>3, <1>2 DEF Finish, Begun, BegunAt
    <3>2. \A c \in Nat : IsFiniteSet(Tally(y, c)) /\ Cardinality(Tally(y, c)) = 0
      BY <3>1, NoTally
    <3> QED
      BY <2>1, <2>3, <3>1, <3>2, Numbers DEF BudgetAt
  <2> QED
    BY <2>2, <2>3, <1>2 DEF Finish, NoRow
<1>3. ASSUME NEW p \in Procs, NEW x \in Routes, Lapse(p, x)
      PROVE  BudgetAt(y)'
  <2>a. Lapsed(x)
    BY <1>3, LapseMoves
  <2> DEFINE w == x
  <2>0. w \in Routes /\ \E o : Recorded(w, o)
    BY <2>a DEF Lapsed
  <2>1. \A c \in Nat : Tally(y, c)' = Tally(y, c)
    BY <2>0, TallyKept
  <2>2. row'[y].used = row[y].used /\ row'[y].cycle = row[y].cycle
    BY <2>a DEF Lapsed, Alone
  <2>3. \A n \in 1..Len(log'[y]) : n \in 1..Len(log[y]) /\ log'[y][n].cycle = log[y][n].cycle
    BY <2>a DEF Lapsed, Recorded
  <2>4. row'[y].state \in {"pending", "blocked"} => row[y].used < Attempts
    BY <2>a DEF Lapsed, Alone, Budget, BudgetAt
  <2> QED
    BY <2>1, <2>2, <2>3, <2>4 DEF Budget, BudgetAt
<1>4. ASSUME NEW p \in Procs, NEW x \in Routes, Block(p, x)
      PROVE  BudgetAt(y)'
  <2>1. \A c \in Nat : Tally(y, c)' = Tally(y, c)
    BY <1>4 DEF Block, Tally
  <2> QED
    BY <1>4, <2>1 DEF Block, BudgetAt, Budget, Typed, RowsTyped, LogsTyped, Row
<1>5. ASSUME NEW p \in Procs, NEW x \in Routes, Unblock(p, x)
      PROVE  BudgetAt(y)'
  <2>1. \A c \in Nat : Tally(y, c)' = Tally(y, c)
    BY <1>5 DEF Unblock, Tally
  <2> QED
    BY <1>5, <2>1 DEF Unblock, BudgetAt, Budget, Typed, RowsTyped, LogsTyped, Row
<1>6. ASSUME NEW p \in Procs, NEW x \in Routes, Claim(p, x)
      PROVE  BudgetAt(y)'
  <2>a. Claimed(p, x)
    BY <1>6, ClaimMoves
  <2>1. CASE y # x
    <3>1. \A c \in Nat : Tally(y, c)' = Tally(y, c)
      BY <2>a, <2>1, TallyGrows
    <3>2. log'[y] = log[y] /\ row'[y] = row[y]
      BY <2>a, <2>1 DEF Claimed
    <3> QED
      BY <3>1, <3>2 DEF Budget, BudgetAt
  <2>2. CASE y = x
    <3>1. /\ row[x].used < Attempts /\ row'[x].used = row[x].used + 1 /\ row[x].used \in Nat
          /\ row'[x].cycle = row[x].cycle /\ row[x].cycle \in Nat /\ row'[x].state = "in_flight"
      BY <2>a DEF Claimed, Budget, BudgetAt, Typed, RowsTyped, Row
    <3>2. \A n \in 1..Len(log'[x]) : log'[x][n].cycle <= row[x].cycle
      BY SMTT(30), <2>a, <3>1 DEF Claimed, Budget, BudgetAt
    <3>3. ASSUME NEW c \in Nat
          PROVE  /\ IsFiniteSet(Tally(x, c)') /\ Cardinality(Tally(x, c)') <= Attempts
                 /\ c = row[x].cycle => Cardinality(Tally(x, c)') <= row[x].used + 1
      <4>1. IsFiniteSet(Tally(x, c)) /\ Cardinality(Tally(x, c)) \in Nat
        BY FS_CardinalityType DEF Budget, BudgetAt
      <4>2. CASE c # row[x].cycle
        BY <2>a, <4>1, <4>2, TallyGrows DEF Budget, BudgetAt
      <4>3. CASE c = row[x].cycle
        <5>1. Tally(x, c)' = Tally(x, c) \cup {Len(log[x]) + 1}
          BY <2>a, <4>3, TallyGrows
        <5>2. /\ IsFiniteSet(Tally(x, c) \cup {Len(log[x]) + 1})
              /\ \/ Cardinality(Tally(x, c) \cup {Len(log[x]) + 1}) = Cardinality(Tally(x, c))
                 \/ Cardinality(Tally(x, c) \cup {Len(log[x]) + 1}) = Cardinality(Tally(x, c)) + 1
          BY <4>1, FS_AddElement
        <5>3. Cardinality(Tally(x, c)) <= row[x].used
          BY <4>3 DEF Budget, BudgetAt
        <5> QED
          BY <3>1, <4>1, <5>1, <5>2, <5>3, Numbers
      <4> QED
        BY <4>2, <4>3
    <3> QED
      BY <2>2, <3>1, <3>2, <3>3, Numbers DEF BudgetAt
  <2> QED
    BY <2>1, <2>2
<1>7. ASSUME NEW p \in Procs, NEW x \in Routes, ClaimUnheard(p, x)
      PROVE  BudgetAt(y)'
  <2>a. Claimed(p, x)
    BY <1>7, ClaimMoves
  <2>1. CASE y # x
    <3>1. \A c \in Nat : Tally(y, c)' = Tally(y, c)
      BY <2>a, <2>1, TallyGrows
    <3>2. log'[y] = log[y] /\ row'[y] = row[y]
      BY <2>a, <2>1 DEF Claimed
    <3> QED
      BY <3>1, <3>2 DEF Budget, BudgetAt
  <2>2. CASE y = x
    <3>1. /\ row[x].used < Attempts /\ row'[x].used = row[x].used + 1 /\ row[x].used \in Nat
          /\ row'[x].cycle = row[x].cycle /\ row[x].cycle \in Nat /\ row'[x].state = "in_flight"
      BY <2>a DEF Claimed, Budget, BudgetAt, Typed, RowsTyped, Row
    <3>2. \A n \in 1..Len(log'[x]) : log'[x][n].cycle <= row[x].cycle
      BY SMTT(30), <2>a, <3>1 DEF Claimed, Budget, BudgetAt
    <3>3. ASSUME NEW c \in Nat
          PROVE  /\ IsFiniteSet(Tally(x, c)') /\ Cardinality(Tally(x, c)') <= Attempts
                 /\ c = row[x].cycle => Cardinality(Tally(x, c)') <= row[x].used + 1
      <4>1. IsFiniteSet(Tally(x, c)) /\ Cardinality(Tally(x, c)) \in Nat
        BY FS_CardinalityType DEF Budget, BudgetAt
      <4>2. CASE c # row[x].cycle
        BY <2>a, <4>1, <4>2, TallyGrows DEF Budget, BudgetAt
      <4>3. CASE c = row[x].cycle
        <5>1. Tally(x, c)' = Tally(x, c) \cup {Len(log[x]) + 1}
          BY <2>a, <4>3, TallyGrows
        <5>2. /\ IsFiniteSet(Tally(x, c) \cup {Len(log[x]) + 1})
              /\ \/ Cardinality(Tally(x, c) \cup {Len(log[x]) + 1}) = Cardinality(Tally(x, c))
                 \/ Cardinality(Tally(x, c) \cup {Len(log[x]) + 1}) = Cardinality(Tally(x, c)) + 1
          BY <4>1, FS_AddElement
        <5>3. Cardinality(Tally(x, c)) <= row[x].used
          BY <4>3 DEF Budget, BudgetAt
        <5> QED
          BY <3>1, <4>1, <5>1, <5>2, <5>3, Numbers
      <4> QED
        BY <4>2, <4>3
    <3> QED
      BY <2>2, <3>1, <3>2, <3>3, Numbers DEF BudgetAt
  <2> QED
    BY <2>1, <2>2
<1>8. ASSUME NEW p \in Procs, Drop(p)
      PROVE  BudgetAt(y)'
  <2>1. \A c \in Nat : Tally(y, c)' = Tally(y, c)
    BY <1>8 DEF Drop, Tally
  <2> QED
    BY <1>8, <2>1 DEF Drop, BudgetAt, Budget, Typed, RowsTyped, LogsTyped, Row
<1>9. ASSUME NEW s \in sends, Accept(s)
      PROVE  BudgetAt(y)'
  <2>1. \A c \in Nat : Tally(y, c)' = Tally(y, c)
    BY <1>9 DEF Accept, Tally
  <2> QED
    BY <1>9, <2>1 DEF Accept, BudgetAt, Budget, Typed, RowsTyped, LogsTyped, Row
<1>10. ASSUME NEW s \in sends, Answer(s)
      PROVE  BudgetAt(y)'
  <2>1. \A c \in Nat : Tally(y, c)' = Tally(y, c)
    BY <1>10 DEF Answer, Tally
  <2> QED
    BY <1>10, <2>1 DEF Answer, BudgetAt, Budget, Typed, RowsTyped, LogsTyped, Row
<1>11. ASSUME NEW s \in sends, SettleAnswered(s)
      PROVE  BudgetAt(y)'
  <2>a. Acknowledged(s, s.token[1])
    BY <1>11, SettleMoves
  <2> DEFINE w == s.token[1]
  <2>0. w \in Routes /\ \E o : Recorded(w, o)
    BY <2>a DEF Acknowledged
  <2>1. \A c \in Nat : Tally(y, c)' = Tally(y, c)
    BY <2>0, TallyKept
  <2>2. row'[y].used = row[y].used /\ row'[y].cycle = row[y].cycle
    BY <2>a DEF Acknowledged, Alone
  <2>3. \A n \in 1..Len(log'[y]) : n \in 1..Len(log[y]) /\ log'[y][n].cycle = log[y][n].cycle
    BY <2>a DEF Acknowledged, Recorded
  <2>4. row'[y].state \in {"pending", "blocked"} => row[y].used < Attempts
    BY <2>a DEF Acknowledged, Alone, Budget, BudgetAt
  <2> QED
    BY <2>1, <2>2, <2>3, <2>4 DEF Budget, BudgetAt
<1>12. ASSUME NEW s \in sends, SettleRetry(s)
      PROVE  BudgetAt(y)'
  <2>a. Acknowledged(s, s.token[1])
    BY <1>12, SettleMoves
  <2> DEFINE w == s.token[1]
  <2>0. w \in Routes /\ \E o : Recorded(w, o)
    BY <2>a DEF Acknowledged
  <2>1. \A c \in Nat : Tally(y, c)' = Tally(y, c)
    BY <2>0, TallyKept
  <2>2. row'[y].used = row[y].used /\ row'[y].cycle = row[y].cycle
    BY <2>a DEF Acknowledged, Alone
  <2>3. \A n \in 1..Len(log'[y]) : n \in 1..Len(log[y]) /\ log'[y][n].cycle = log[y][n].cycle
    BY <2>a DEF Acknowledged, Recorded
  <2>4. row'[y].state \in {"pending", "blocked"} => row[y].used < Attempts
    BY <2>a DEF Acknowledged, Alone, Budget, BudgetAt
  <2> QED
    BY <2>1, <2>2, <2>3, <2>4 DEF Budget, BudgetAt
<1>13. ASSUME NEW s \in sends, Unsettled(s)
      PROVE  BudgetAt(y)'
  <2>1. \A c \in Nat : Tally(y, c)' = Tally(y, c)
    BY <1>13 DEF Unsettled, Tally
  <2> QED
    BY <1>13, <2>1 DEF Unsettled, BudgetAt, Budget, Typed, RowsTyped, LogsTyped, Row
<1>14. ASSUME NEW x \in Routes, View(x)
      PROVE  BudgetAt(y)'
  <2>1. \A c \in Nat : Tally(y, c)' = Tally(y, c)
    BY <1>14 DEF View, Tally
  <2> QED
    BY <1>14, <2>1 DEF View, BudgetAt, Budget, Typed, RowsTyped, LogsTyped, Row
<1>15. ASSUME NEW x \in Routes, Retry(x)
      PROVE  BudgetAt(y)'
  <2>1. CASE y # x
    <3>1. \A c \in Nat : Tally(y, c)' = Tally(y, c)
      BY <1>15 DEF Retry, Tally
    <3> QED
      BY <1>15, <2>1, <3>1 DEF Retry, BudgetAt, Budget, Typed, RowsTyped
  <2>2. CASE y = x
    <3>1. row'[x].used = 0 /\ row'[x].cycle = row[x].cycle + 1 /\ row[x].cycle \in Nat /\ log' = log
      BY <1>15 DEF Retry, Typed, RowsTyped, Row
    <3>2. \A c \in Nat : Tally(x, c)' = Tally(x, c)
      BY <3>1 DEF Tally
    <3>3. \A n \in 1..Len(log[x]) : log[x][n].cycle <= row[x].cycle /\ log[x][n].cycle \in Nat
      <4>1. log[x] \in Seq(Entries)
        BY DEF Typed, LogsTyped
      <4>2. \A n \in 1..Len(log[x]) : log[x][n] \in Entries
        BY <4>1
      <4> QED
        BY <4>2 DEF Budget, BudgetAt, Entries
    <3>4. Tally(x, row[x].cycle + 1) = {}
      BY <3>1, <3>3 DEF Tally
    <3>5. Cardinality(Tally(x, row[x].cycle + 1)) = 0
      BY <3>4, FS_EmptySet
    <3>6. \A n \in 1..Len(log[x]) : log[x][n].cycle <= row[x].cycle + 1
      BY <3>1, <3>3
    <3> QED
      BY <2>2, <3>1, <3>2, <3>5, <3>6, Numbers DEF Budget, BudgetAt
  <2> QED
    BY <2>1, <2>2
<1>16. ASSUME NEW x \in Routes, Dismiss(x)
      PROVE  BudgetAt(y)'
  <2>1. \A c \in Nat : Tally(y, c)' = Tally(y, c)
    BY <1>16 DEF Dismiss, Tally
  <2> QED
    BY <1>16, <2>1 DEF Dismiss, BudgetAt, Budget, Typed, RowsTyped, LogsTyped, Row
<1>17. ASSUME NEW x \in Routes, Prune(x)
      PROVE  BudgetAt(y)'
  <2>1. CASE y # x
    <3>1. \A c \in Nat : Tally(y, c)' = Tally(y, c)
      BY <2>1, <1>17 DEF Prune, Tally, Typed, LogsTyped
    <3> QED
      BY <1>17, <2>1, <3>1 DEF Prune, BudgetAt, Budget, Typed, RowsTyped, LogsTyped
  <2>2. CASE y = x
    <3>1. row'[x] = NoRow /\ log'[x] = <<>>
      BY <1>17 DEF Prune, Typed, RowsTyped, LogsTyped
    <3>2. Len(log'[x]) = 0
      BY <3>1, EmptySeq
    <3>3. \A c \in Nat : Tally(x, c)' = {}
      BY <3>2 DEF Tally
    <3>4. \A c \in Nat : IsFiniteSet(Tally(x, c)') /\ Cardinality(Tally(x, c)') = 0
      BY <3>3, FS_EmptySet
    <3> QED
      BY <2>2, <3>1, <3>2, <3>4, Numbers DEF BudgetAt, NoRow
  <2> QED
    BY <2>1, <2>2
<1>18. ASSUME Tick
      PROVE  BudgetAt(y)'
  <2>a. Ticked
    BY <1>18, TickMoves
  <2>1. \A c \in Nat : Tally(y, c)' = Tally(y, c)
    BY <2>a DEF Ticked, Tally
  <2> QED
    BY <2>a, <2>1 DEF Ticked, BudgetAt, Budget
<1>19. ASSUME UNCHANGED vars PROVE BudgetAt(y)'
  <2>1. \A c \in Nat : Tally(y, c)' = Tally(y, c)
    BY <1>19 DEF vars, Tally
  <2> QED
    BY <1>19, <2>1 DEF vars, BudgetAt, Budget
<1> QED
  BY <1>1, <1>2, <1>3, <1>4, <1>5, <1>6, <1>7, <1>8, <1>9, <1>10, <1>11, <1>12, <1>13, <1>14, <1>15,
     <1>16, <1>17, <1>18, <1>19 DEF Next, RunStep, PassStep, SendStep, OperatorStep

-----------------------------------------------------------------------------
(* The invariant and the theorems. *)
Inv == Typed /\ Logged /\ Begun /\ Known /\ Single /\ Open /\ Records /\ InTime /\ Seen /\ Budget

(* The invariant holds at the start, *)
LEMMA InitInv == Init => Inv
<1> SUFFICES ASSUME Init PROVE Inv
  OBVIOUS
<1>1. Typed
  <2>1. NoRow \in Row /\ Fresh \in Destination /\ <<>> \in Seq(Entries)
    BY EmptySeq DEF NoRow, Row, States, Fresh, Destination
  <2> QED
    BY <2>1 DEF Init, Typed, RowsTyped, DestsTyped, LogsTyped, RestTyped
<1>2. \A x \in Routes : Len(log[x]) = 0 /\ row[x] = NoRow
  BY EmptySeq DEF Init
<1>3. \A x \in Routes : row[x].state = "none" /\ row[x].cycle = 0 /\ row[x].used = 0
  BY <1>2 DEF NoRow
<1>4. Logged /\ Seen /\ Known
  BY <1>2, <1>3 DEF Logged, LoggedAt, Seen, SeenAt, Known, KnownOf
<1>5. Begun
  BY <1>2, <1>3 DEF Init, Begun, BegunAt
<1>6. Single /\ Open /\ InTime /\ Records
  BY <1>2 DEF Init, Single, Open, InTime, Records
<1>7. Budget
  <2>1. ASSUME NEW x \in Routes PROVE BudgetAt(x)
    <3>1. \A c \in Nat : IsFiniteSet(Tally(x, c)) /\ Cardinality(Tally(x, c)) = 0
      BY <1>2, NoTally
    <3> QED
      BY <1>2, <1>3, <3>1, Numbers DEF BudgetAt
  <2> QED
    BY <2>1 DEF Budget
<1> QED
  BY <1>1, <1>4, <1>5, <1>6, <1>7 DEF Inv

(* ...and no step breaks it. *)
LEMMA StepInv == Inv /\ [Next]_vars => Inv'
<1> SUFFICES ASSUME Inv, [Next]_vars PROVE Inv'
  OBVIOUS
<1> USE DEF Inv
<1>1. Typed'
  BY StepRowsTyped, StepDestsTyped, StepLogsTyped, StepRestTyped DEF Typed
<1>2. Logged' /\ Begun'
  BY StepLogged, StepBegun DEF Logged, Begun
<1>3. Known' /\ Single'
  BY StepKnown, StepSingle DEF Known
<1>4. Open' /\ Records'
  BY StepOpen, StepRecords DEF Open, Records
<1>5. InTime' /\ Seen' /\ Budget'
  BY StepInTime, StepSeen, StepBudget DEF InTime, Seen, Budget
<1> QED
  BY <1>1, <1>2, <1>3, <1>4, <1>5

(* The invariant holds of every state that is reached. *)
THEOREM Invariant == Spec => []Inv
BY InitInv, StepInv, PTL DEF Spec

(* What is recorded is what happened: an attempt recorded as accepted was  *)
(* accepted, is the last one, and its delivery is delivered; one recorded  *)
(* as refused was refused.                                                 *)
THEOREM RecordsAreTrue == Spec => []RecordsTrue
<1>1. Inv => RecordsTrue
  <2> SUFFICES ASSUME Inv, NEW x \in Routes, NEW n \in DOMAIN log[x]
               PROVE  RecordOf(x, n)
    BY DEF RecordsTrue, RecordOf
  <2>1. n \in 1..Len(log[x])
    BY DEF Inv, Typed, LogsTyped
  <2> QED
    BY <2>1 DEF Inv, Records
<1> QED
  BY <1>1, Invariant, PTL

(* Of two sends that keep their timeout no two are under way to the same   *)
(* destination, whatever processes make them and however they fail.        *)
THEOREM DestinationsTakeOne == Spec => []OneAtATime
<1>1. Inv => OneAtATime
  BY DEF Inv, InTime, InTimeOf, Single, OneAtATime
<1> QED
  BY <1>1, Invariant, PTL

(* A cycle makes no more attempts than the policy allows. *)
THEOREM AttemptsAreCounted == Spec => []BudgetKept
<1>1. Inv => BudgetKept
  <2> SUFFICES ASSUME Inv, NEW x \in Routes, NEW c \in 1..MaxCycles
               PROVE  Cardinality({n \in DOMAIN log[x] : log[x][n].cycle = c}) <= Attempts
    BY DEF BudgetKept
  <2>1. DOMAIN log[x] = 1..Len(log[x])
    BY DEF Inv, Typed, LogsTyped
  <2>2. {n \in DOMAIN log[x] : log[x][n].cycle = c} = Tally(x, c)
    BY <2>1 DEF Tally
  <2>3. c \in Nat
    BY Numbers
  <2> QED
    BY <2>2, <2>3 DEF Inv, Budget, BudgetAt
<1> QED
  BY <1>1, Invariant, PTL

(* An operator retries or dismisses the delivery that was shown, as it was *)
(* shown, or nothing.                                                      *)
Asked(x) ==
    \/ row'[x].state = "dismissed" /\ row[x].state # "dismissed"
    \/ row'[x].cycle > row[x].cycle /\ row[x].cycle > 0


(* Only a retry and a dismissal do that, and they compare generations. *)
LEMMA OnlyWhatIsSeen ==
    ASSUME Typed, Logged, Begun, Seen, NEW y \in Routes, [Next]_vars
    PROVE  (Asked(y) => view # None /\ view = Shown(y))
<1>1. ASSUME NEW r \in Runs, Create(r)
      PROVE  (Asked(y) => view # None /\ view = Shown(y))
  BY <1>1 DEF Create, Asked, Typed, RowsTyped, LogsTyped, Row
<1>2. ASSUME NEW r \in Runs, Finish(r)
      PROVE  (Asked(y) => view # None /\ view = Shown(y))
  BY <1>2 DEF Finish, NoRow, Asked, Begun, BegunAt, Typed, RowsTyped, Row
<1>3. ASSUME NEW p \in Procs, NEW x \in Routes, Lapse(p, x)
      PROVE  (Asked(y) => view # None /\ view = Shown(y))
  <2>a. Lapsed(x)
    BY <1>3, LapseMoves
  <2>1. row[y].cycle \in Nat /\ ~(row[y].cycle > row[y].cycle)
    BY DEF Typed, RowsTyped, Row
  <2>2. y # x => row'[y] = row[y]
    BY <2>a DEF Lapsed, Alone
  <2>3. row'[x].cycle = row[x].cycle /\ row'[x].state # "dismissed"
    BY <2>a DEF Lapsed, Alone
  <2> QED
    BY <2>1, <2>2, <2>3 DEF Asked
<1>4. ASSUME NEW p \in Procs, NEW x \in Routes, Block(p, x)
      PROVE  (Asked(y) => view # None /\ view = Shown(y))
  BY <1>4 DEF Block, Asked, Typed, RowsTyped, LogsTyped, Row
<1>5. ASSUME NEW p \in Procs, NEW x \in Routes, Unblock(p, x)
      PROVE  (Asked(y) => view # None /\ view = Shown(y))
  BY <1>5 DEF Unblock, Asked, Typed, RowsTyped, LogsTyped, Row
<1>6. ASSUME NEW p \in Procs, NEW x \in Routes, Claim(p, x)
      PROVE  (Asked(y) => view # None /\ view = Shown(y))
  <2>a. Claimed(p, x)
    BY <1>6, ClaimMoves
  <2>1. row[y].cycle \in Nat /\ ~(row[y].cycle > row[y].cycle)
    BY DEF Typed, RowsTyped, Row
  <2>2. y # x => row'[y] = row[y]
    BY <2>a DEF Claimed, Alone
  <2>3. row'[x].cycle = row[x].cycle /\ row'[x].state # "dismissed"
    BY <2>a DEF Claimed, Alone
  <2> QED
    BY <2>1, <2>2, <2>3 DEF Asked
<1>7. ASSUME NEW p \in Procs, NEW x \in Routes, ClaimUnheard(p, x)
      PROVE  (Asked(y) => view # None /\ view = Shown(y))
  <2>a. Claimed(p, x)
    BY <1>7, ClaimMoves
  <2>1. row[y].cycle \in Nat /\ ~(row[y].cycle > row[y].cycle)
    BY DEF Typed, RowsTyped, Row
  <2>2. y # x => row'[y] = row[y]
    BY <2>a DEF Claimed, Alone
  <2>3. row'[x].cycle = row[x].cycle /\ row'[x].state # "dismissed"
    BY <2>a DEF Claimed, Alone
  <2> QED
    BY <2>1, <2>2, <2>3 DEF Asked
<1>8. ASSUME NEW p \in Procs, Drop(p)
      PROVE  (Asked(y) => view # None /\ view = Shown(y))
  BY <1>8 DEF Drop, Asked, Typed, RowsTyped, LogsTyped, Row
<1>9. ASSUME NEW s \in sends, Accept(s)
      PROVE  (Asked(y) => view # None /\ view = Shown(y))
  BY <1>9 DEF Accept, Asked, Typed, RowsTyped, LogsTyped, Row
<1>10. ASSUME NEW s \in sends, Answer(s)
      PROVE  (Asked(y) => view # None /\ view = Shown(y))
  BY <1>10 DEF Answer, Asked, Typed, RowsTyped, LogsTyped, Row
<1>11. ASSUME NEW s \in sends, SettleAnswered(s)
      PROVE  (Asked(y) => view # None /\ view = Shown(y))
  <2>a. Acknowledged(s, s.token[1])
    BY <1>11, SettleMoves
  <2> QED
    BY SMTT(30), <2>a DEF Acknowledged, Asked, Alone, Typed, RowsTyped, Row
<1>12. ASSUME NEW s \in sends, SettleRetry(s)
      PROVE  (Asked(y) => view # None /\ view = Shown(y))
  <2>a. Acknowledged(s, s.token[1])
    BY <1>12, SettleMoves
  <2> QED
    BY SMTT(30), <2>a DEF Acknowledged, Asked, Alone, Typed, RowsTyped, Row
<1>13. ASSUME NEW s \in sends, Unsettled(s)
      PROVE  (Asked(y) => view # None /\ view = Shown(y))
  BY <1>13 DEF Unsettled, Asked, Typed, RowsTyped, LogsTyped, Row
<1>14. ASSUME NEW x \in Routes, View(x)
      PROVE  (Asked(y) => view # None /\ view = Shown(y))
  BY <1>14 DEF View, Asked, Typed, RowsTyped, LogsTyped, Row
<1>15. ASSUME NEW x \in Routes, Retry(x)
      PROVE  (Asked(y) => view # None /\ view = Shown(y))
  BY <1>15 DEF Retry, Asked, Seen, SeenAt, Typed, RowsTyped, Row
<1>16. ASSUME NEW x \in Routes, Dismiss(x)
      PROVE  (Asked(y) => view # None /\ view = Shown(y))
  BY <1>16 DEF Dismiss, Asked, Seen, SeenAt, Typed, RowsTyped, Row
<1>17. ASSUME NEW x \in Routes, Prune(x)
      PROVE  (Asked(y) => view # None /\ view = Shown(y))
  BY <1>17 DEF Prune, NoRow, Asked, Typed, RowsTyped, Row
<1>18. ASSUME Tick
      PROVE  (Asked(y) => view # None /\ view = Shown(y))
  <2>a. Ticked
    BY <1>18, TickMoves
  <2> QED
    BY <2>a DEF Ticked, Asked, Typed, RowsTyped, Row
<1>19. ASSUME UNCHANGED vars PROVE (Asked(y) => view # None /\ view = Shown(y))
  BY <1>19 DEF vars, Asked, Typed, RowsTyped, Row
<1> QED
  BY <1>1, <1>2, <1>3, <1>4, <1>5, <1>6, <1>7, <1>8, <1>9, <1>10, <1>11, <1>12, <1>13, <1>14, <1>15,
     <1>16, <1>17, <1>18, <1>19 DEF Next, RunStep, PassStep, SendStep, OperatorStep

(* A retry, a pause or an unblocking an operator asked for is done only to *)
(* the row as it was shown, generation and state: else it is refused.      *)
THEOREM OperatorActsOnWhatIsThere == Spec => OperatorSawIt
<1>1. Inv /\ [Next]_vars => [\A x \in Routes : Asked(x) => view # None /\ view = Shown(x)]_vars
  <2> SUFFICES ASSUME Inv, [Next]_vars, NEW x \in Routes
               PROVE  Asked(x) => view # None /\ view = Shown(x)
    OBVIOUS
  <2> QED
    BY OnlyWhatIsSeen DEF Inv
<1>2. (\A x \in Routes : Asked(x) => view # None /\ view = Shown(x))
      <=> (\A x \in Routes : \/ row'[x].state = "dismissed" /\ row[x].state # "dismissed"
                             \/ row'[x].cycle > row[x].cycle /\ row[x].cycle > 0
                             => view # None /\ view = Shown(x))
  BY DEF Asked
<1> QED
  BY <1>1, <1>2, Invariant, PTL DEF Spec, OperatorSawIt
=============================================================================
