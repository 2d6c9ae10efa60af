---------------------------- MODULE BuildsProofs ----------------------------
(***************************************************************************)
(* What holds of Builds for any graph of assets, any number of askers,     *)
(* runs and backfills, and any bodies, sources and policies.               *)
(***************************************************************************)
EXTENDS Builds, FiniteSetTheorems, TLAPS

-----------------------------------------------------------------------------
(* Shapes: of rows and runs what the arguments need; what a run captured   *)
(* and what a probe saw are left out of them.                              *)
BfStatus == {"unmade", "running", "complete", "failed", "canceled"}
RunStatus == {"absent", "queued", "running"} \cup Ended
Row == [b : Backfills, launched : Nat, last : Slots \cup {NoRun}]
RunFields == {"status", "builds", "bounded", "took", "done", "asked", "b", "upto"}
AskFields == {"step", "seen", "plan", "bounded", "rows", "run"}

RunsShaped ==
    /\ DOMAIN run = Slots
    /\ \A r \in Slots :
         DOMAIN run[r] = RunFields /\ run[r].upto \in Nat /\ run[r].status \in RunStatus
BfShaped == bf \in [Backfills -> [status : BfStatus, keys : Seq(Nat), launched : Nat, last : Slots \cup {NoRun}]]
AskShaped ==
    /\ DOMAIN ask = Askers
    /\ \A a \in Askers :
         DOMAIN ask[a] = AskFields /\ ask[a].rows \in Seq(Row) /\ ask[a].run \in Slots \cup {NoRun}
Shaped == RunsShaped /\ BfShaped /\ AskShaped /\ DOMAIN built = Backfills /\ up \in Deployments

(* The backfills are numbered, from 1. *)
LEMMA Numbered == IsFiniteSet(Backfills) /\ \A b \in Backfills : b \in Nat /\ b > 0
<1>1. IsFiniteSet(Backfills) /\ Backfills = 1..Cardinality(Backfills)
  BY BuildsAssumption
<1>2. Cardinality(Backfills) \in Nat
  BY <1>1, FS_CardinalityType
<1> QED
  BY <1>1, <1>2

(* A row with a chunk before it, or a whole one. *)
LEMMA ChunkEnds ==
    ASSUME Shaped, NEW row \in Row
    PROVE  /\ Limit[Filled] \in Nat \ {0}
           /\ Len(bf[row.b].keys) \in Nat /\ row.b \in Backfills /\ row.launched \in Nat
           /\ Upto(row) \in Nat /\ Upto(row) <= Len(bf[row.b].keys) /\ Upto(row) <= row.launched + Limit[Filled]
           /\ Upto(row) = Len(bf[row.b].keys) \/ Upto(row) = row.launched + Limit[Filled]
<1>1. Limit[Filled] \in Nat \ {0}
  BY BuildsAssumption, AssetsAssumption
<1>2. row.b \in Backfills /\ row.launched \in Nat
  BY DEF Row
<1>3. Len(bf[row.b].keys) \in Nat
  <2>1. bf[row.b].keys \in Seq(Nat)
    BY <1>2 DEF Shaped, BfShaped
  <2> QED
    BY <2>1
<1> QED
  BY <1>1, <1>2, <1>3 DEF Upto

(* The row an asker goes on to is one it had. *)
LEMMA NextRowShaped ==
    ASSUME Shaped, NEW a \in Askers
    PROVE  /\ DOMAIN NextRow(a) = AskFields /\ NextRow(a).rows \in Seq(Row) /\ NextRow(a).run = NoRun
           /\ \/ NextRow(a).step = "idle" /\ NextRow(a).rows = <<>>
              \/ NextRow(a).step = "row" /\ Len(ask[a].rows) > 1 /\ NextRow(a).rows = Tail(ask[a].rows)
<1>1. ask[a].rows \in Seq(Row)
  BY DEF Shaped, AskShaped
<1>2. CASE Len(ask[a].rows) <= 1
  BY <1>2 DEF NextRow, Idle, AskFields
<1>3. CASE ~(Len(ask[a].rows) <= 1)
  <2>1. ask[a].rows # <<>> /\ Len(ask[a].rows) > 1
    BY <1>1, <1>3
  <2>2. Tail(ask[a].rows) \in Seq(Row)
    BY <1>1, <2>1
  <2>3. NextRow(a) = [Idle EXCEPT !.step = "row", !.rows = Tail(ask[a].rows)]
    BY <1>3 DEF NextRow
  <2> QED
    BY <2>1, <2>2, <2>3 DEF Idle, AskFields
<1> QED
  BY <1>2, <1>3

(* A set in order is a sequence. *)
LEMMA InOrderIs ==
    ASSUME NEW S, IsFiniteSet(S), NEW seq \in InOrder(S)
    PROVE  /\ seq \in Seq(S) /\ Len(seq) = Cardinality(S) /\ Cardinality(S) \in Nat
           /\ \A i, j \in 1..Len(seq) : i < j => seq[i] < seq[j]
<1>1. Cardinality(S) \in Nat
  BY FS_CardinalityType
<1>2. seq \in [1..Cardinality(S) -> S]
  BY DEF InOrder
<1>3. seq \in Seq(S) /\ Len(seq) = Cardinality(S)
  BY <1>1, <1>2
<1> QED
  BY <1>1, <1>3 DEF InOrder

-----------------------------------------------------------------------------
(* Kinds of step.  An asker that is not about a backfill, or not yet.      *)
Plainly(a) ==
    \E e :
      /\ Becomes(a, e) /\ UNCHANGED <<run, bf, built>>
      /\ DOMAIN e = AskFields /\ e.rows \in Seq(Row) /\ e.run \in Slots \cup {NoRun}
      /\ \/ e.step \in {"idle", "write", "pass"}
         \/ e.step = "create" /\ "start" \in Does[a]
         \/ e.step = "launch" /\ e.rows = <<>>

(* One that has rows in hand to launch from. *)
Holds(a) == ask[a].step \in {"reread", "row", "launch", "record"}

(* One that is done with a row, and may have closed a backfill. *)
Prefix(b, upto) == \A i \in 1..Len(bf[b].keys) : i <= upto => bf[b].keys[i] \in built[b]
Leaves(a) ==
    /\ Becomes(a, Idle) \/ (Becomes(a, NextRow(a)) /\ Holds(a))
    /\ Keeps(run) /\ UNCHANGED built
    /\ \/ UNCHANGED bf
       \/ \E b \in Backfills : \E s \in {"complete", "failed", "canceled"} :
            /\ bf' = Closed(b, s)
            /\ s = "complete" => Prefix(b, Len(bf[b].keys))

(* One that goes on to launch the next chunk of the first of its rows. *)
Sends(a) ==
    /\ UNCHANGED <<run, bf, built>>
    /\ ask[a].rows # <<>> /\ ask[a].step \in {"reread", "row"}
    /\ Prefix(ask[a].rows[1].b, ask[a].rows[1].launched)
    /\ \E e :
         /\ Becomes(a, e) /\ DOMAIN e = AskFields /\ e.step = "launch" /\ e.run = NoRun
         /\ e.rows \in Seq(Row) /\ Len(e.rows) = Len(ask[a].rows)
         /\ \A i \in 1..Len(e.rows) : e.rows[i] = ask[a].rows[i]
         /\ Chunk(ask[a].rows[1]) \subseteq e.plan

(* One whose launch lands: in a slot of its own, and of what it asked for. *)
Lands(a) ==
    /\ ask[a].step = "launch" /\ UNCHANGED <<bf, built>>
    /\ ask[a].bounded => Overlaps(ask[a].plan) = {}
    /\ \E r \in Slots :
         /\ run[r].status = "absent"
         /\ \E new : /\ run' = [run EXCEPT ![r] = new] /\ DOMAIN new = RunFields
                     /\ new.status = "queued" /\ new.builds = ask[a].plan /\ new.done = {}
                     /\ new.bounded = ask[a].bounded
                     /\ IF ask[a].rows = <<>> THEN new.b = 0 /\ new.upto = 0
                        ELSE new.b = ask[a].rows[1].b /\ new.upto = Upto(ask[a].rows[1])
         /\ Becomes(a, IF ask[a].rows = <<>> THEN Idle ELSE [ask[a] EXCEPT !.step = "record", !.run = r])

(* A run that is worked on. *)
Turns(r) ==
    /\ UNCHANGED <<ask, bf>> /\ Active(r) /\ DOMAIN run' = Slots /\ DOMAIN run'[r] = RunFields
    /\ \A x \in Slots \ {r} : run'[x] = run[x]
    /\ run'[r].status \in {"queued", "running"}
    /\ run'[r].b = run[r].b /\ run'[r].upto = run[r].upto /\ run'[r].builds = run[r].builds
    /\ run'[r].bounded = run[r].bounded
    /\ DOMAIN built' = Backfills /\ \A b \in Backfills : built[b] \subseteq built'[b]
    /\ \A n \in run'[r].done \ run[r].done : run[r].b \in Backfills /\ n[1] = Filled => n[2] \in built'[run[r].b]

(* One that ends, and may be forgotten at once. *)
Finishes(r) ==
    /\ UNCHANGED <<ask, bf, built>> /\ run[r].status = "running"
    /\ \E s \in {"success", "failed", "canceled"} :
         /\ Keeps([run EXCEPT ![r] = Over(r, s)])
         /\ s = "success" => run[r].done = run[r].builds

-----------------------------------------------------------------------------
(* The invariant.  A chunk's run builds its keys, those before them have   *)
(* been built, and one that succeeded has built all up to its last.        *)
Begun(b) == bf[b].status # "unmade"
RunOk(r) ==
    LET b == run[r].b IN
    b # 0 =>
      /\ b \in Backfills /\ Begun(b)
      /\ run[r].status = "success" => Prefix(b, run[r].upto)
      /\ Active(r) =>
           /\ \A i \in 1..Len(bf[b].keys) : i <= run[r].upto =>
                bf[b].keys[i] \in built[b] \/ <<Filled, bf[b].keys[i]>> \in run[r].builds
           /\ \A i \in 1..Len(bf[b].keys) : i + Limit[Filled] <= run[r].upto => bf[b].keys[i] \in built[b]
           /\ \A n \in run[r].done : n[1] = Filled => n[2] \in built[b]

(* A backfill knows its last run, and how far that reaches. *)
LastRun(r, b, upto) == r \in Slots /\ run[r].status # "absent" /\ run[r].b = b /\ run[r].upto = upto
BfOk(b) ==
    /\ IF bf[b].last = NoRun THEN bf[b].launched = 0 ELSE LastRun(bf[b].last, b, bf[b].launched)
    /\ bf[b].status = "complete" => Prefix(b, Len(bf[b].keys))

(* What an asker holds of backfills is as their rows say, and nobody else  *)
(* holds it. *)
Current(row) == Begun(row.b) /\ row.launched = bf[row.b].launched /\ row.last = bf[row.b].last
AskOk(a) ==
    LET e == ask[a]  first == e.rows[1] IN
    /\ e.step = "create" => "start" \in Does[a]
    /\ e.step \in {"reread", "row", "record", "ask", "close"} => e.rows # <<>>
    /\ e.step = "reread" => Len(e.rows) = 1 /\ first.launched = 0
    /\ Holds(a) =>
         /\ e.rows # <<>> => "tick" \in Does[a] \/ ("start" \in Does[a] /\ e.step # "row" /\ Len(e.rows) = 1)
         /\ \A i \in 1..Len(e.rows) : Current(e.rows[i])
         /\ \A i, j \in 1..Len(e.rows) : i # j => e.rows[i].b # e.rows[j].b
    /\ e.step \in {"launch", "record"} /\ e.rows # <<>> => Prefix(first.b, first.launched)
    /\ e.step = "launch" /\ e.rows # <<>> => Chunk(first) \subseteq e.plan
    /\ e.step = "record" => LastRun(e.run, first.b, Upto(first))
Apart ==
    \A a, c \in Askers : a # c /\ Holds(a) /\ Holds(c) =>
      \A i \in 1..Len(ask[a].rows), j \in 1..Len(ask[c].rows) : ask[a].rows[i].b # ask[c].rows[j].b

Inv ==
    /\ Shaped /\ Apart
    /\ \A r \in Slots : RunOk(r)
    /\ \A b \in Backfills : BfOk(b)
    /\ \A a \in Askers : AskOk(a)

-----------------------------------------------------------------------------
(* What each action is. *)

(* An asker about a row has one, and it is a row of a backfill. *)
LEMMA FirstRow ==
    ASSUME Inv, NEW a \in Askers, ask[a].rows # <<>>
    PROVE  /\ Len(ask[a].rows) \in Nat /\ Len(ask[a].rows) >= 1 /\ ask[a].rows[1] \in Row
           /\ Tail(ask[a].rows) \in Seq(Row) /\ Len(Tail(ask[a].rows)) = Len(ask[a].rows) - 1
           /\ \A i \in 1..Len(Tail(ask[a].rows)) : Tail(ask[a].rows)[i] = ask[a].rows[i + 1]
<1>1. ask[a].rows \in Seq(Row)
  BY DEF Inv, Shaped, AskShaped
<1> QED
  BY <1>1

(* launch_next sends a chunk, or nothing is left of the backfill. *)
LEMMA SendNextMoves ==
    ASSUME Inv, NEW a \in Askers, ask[a].rows # <<>>, ask[a].step \in {"reread", "row"},
           Prefix(ask[a].rows[1].b, ask[a].rows[1].launched),
           NEW rest \in Seq(Row), Len(rest) = Len(ask[a].rows) - 1,
           \A i \in 1..Len(rest) : rest[i] = ask[a].rows[i + 1],
           SendNext(a, ask[a].rows[1], rest)
    PROVE  Sends(a) \/ Leaves(a)
<1> DEFINE row == ask[a].rows[1]
           keys == bf[row.b].keys
<1>1. row \in Row /\ row.b \in Backfills /\ row.launched \in Nat
  BY FirstRow DEF Row
<1>2. /\ Limit[Filled] \in Nat \ {0} /\ Len(keys) \in Nat
      /\ Upto(row) = Len(keys) \/ Upto(row) = row.launched + Limit[Filled]
  BY <1>1, ChunkEnds DEF Inv
<1>3. CASE Chunk(row) = {}
  <2>1. \A i \in row.launched + 1 .. Upto(row) : FALSE
    BY <1>3 DEF Chunk
  <2>2. Len(keys) <= row.launched
    <3>1. ~(row.launched + 1 <= Upto(row))
      <4>1. Upto(row) \in Nat
        BY <1>1, ChunkEnds DEF Inv
      <4>2. row.launched + 1 <= Upto(row) => row.launched + 1 \in row.launched + 1 .. Upto(row)
        BY <4>1, <1>1
      <4> QED
        BY <4>2, <2>1
    <3> HIDE DEF row, keys
    <3> QED
      BY <3>1, <1>1, <1>2
  <2>3. Prefix(row.b, Len(keys))
    <3>1. \A i \in 1..Len(keys) : i <= row.launched
      <4> HIDE DEF row, keys
      <4> QED
        BY <1>1, <1>2, <2>2
    <3>2. Prefix(row.b, row.launched)
      OBVIOUS
    <3> QED
      BY ZenonT(60), <3>1, <3>2 DEF Prefix
  <2>4. bf' = Closed(row.b, "complete") /\ Becomes(a, NextRow(a)) /\ Keeps(run) /\ UNCHANGED built
    BY <1>3 DEF SendNext
  <2> QED
    BY <1>1, <2>3, <2>4 DEF Leaves, Holds
<1>4. CASE Chunk(row) # {}
  <2> DEFINE plan == Plan(mats, {Filled}, [x \in {Filled} |-> Chunk(row)])
             rows == <<row>> \o rest
             e == [Idle EXCEPT !.step = "launch", !.rows = rows, !.plan = plan]
  <2>1. Becomes(a, e) /\ UNCHANGED <<run, bf, built>>
    BY <1>4 DEF SendNext
  <2>2. rows \in Seq(Row) /\ Len(rows) = Len(ask[a].rows) /\ \A i \in 1..Len(rows) : rows[i] = ask[a].rows[i]
    <3> HIDE DEF row
    <3>1. <<row>> \in Seq(Row) /\ Len(<<row>>) = 1
      BY <1>1
    <3>2. rows \in Seq(Row) /\ Len(rows) = 1 + Len(rest) /\ Len(rest) \in Nat
      BY <3>1
    <3>3. ASSUME NEW i \in 1..Len(rows) PROVE rows[i] = ask[a].rows[i]
      <4>1. CASE i = 1
        BY <4>1, <3>1, <3>2 DEF row
      <4>2. CASE i # 1
        <5>1. i - 1 \in 1..Len(rest) /\ rows[i] = rest[i - 1]
          BY <4>2, <3>1, <3>2, <3>3
        <5> QED
          BY <5>1, <3>2, <3>3
      <4> QED
        BY <4>1, <4>2
    <3> QED
      BY <3>2, <3>3, FirstRow
  <2>3. Chunk(row) \subseteq plan
    <3> DEFINE named == [x \in {Filled} |-> Chunk(row)]
    <3>1. Filled \in PlannedOps(mats, {Filled})
      BY DEF PlannedOps
    <3>2. Asked(mats, {Filled}, named, Filled) = Chunk(row)
      BY BuildsAssumption DEF Asked
    <3> HIDE DEF named
    <3>3. Chunk(row) \subseteq Plan(mats, {Filled}, named)
      BY <3>1, <3>2 DEF Plan
    <3> QED
      BY <3>3 DEF named
  <2> HIDE DEF rows, plan
  <2>4. DOMAIN e = AskFields /\ e.step = "launch" /\ e.run = NoRun /\ e.rows = rows /\ e.plan = plan
    BY DEF Idle, AskFields
  <2> HIDE DEF e
  <2>5. Sends(a)
    BY <2>1, <2>2, <2>3, <2>4 DEF Sends
  <2> QED
    BY <2>5
<1> QED
  BY <1>3, <1>4

(* What asks without a row in hand. *)
LEMMA PlainMoves ==
    ASSUME Inv, NEW a \in Askers,
           \/ \E s \in Sources : See(a, s)
           \/ ProbeWrites(a) \/ ProbePass(a) \/ PolicyPass(a)
           \/ \E t \in Assets : Request(a, t) \/ RequestWhole(a, t)
           \/ \E n \in Derived : RequestKey(a, n)
           \/ RequestAll(a) \/ Start(a)
    PROVE  Plainly(a)
<1>1. ASSUME NEW e, Becomes(a, e), UNCHANGED <<run, bf, built>>, DOMAIN e = AskFields,
             e.rows \in Seq(Row), e.run \in Slots \cup {NoRun},
             \/ e.step \in {"idle", "write", "pass"}
             \/ e.step = "create" /\ "start" \in Does[a]
             \/ e.step = "launch" /\ e.rows = <<>>
      PROVE  Plainly(a)
  BY <1>1 DEF Plainly
<1>2. /\ DOMAIN Idle = AskFields /\ Idle.rows = <<>> /\ Idle.rows \in Seq(Row) /\ Idle.run = NoRun /\ Idle.step = "idle"
  BY DEF Idle, AskFields
<1>3. ASSUME NEW plan, NEW bounded, AsksFor(a, plan, bounded), UNCHANGED <<run, bf, built>>
      PROVE  Plainly(a)
  <2> DEFINE e == [Idle EXCEPT !.step = "launch", !.plan = plan, !.bounded = bounded]
  <2>1. DOMAIN e = AskFields /\ e.step = "launch" /\ e.rows = <<>> /\ e.run = NoRun /\ e.rows \in Seq(Row)
    BY DEF Idle, AskFields
  <2>2. Becomes(a, e)
    BY <1>3 DEF AsksFor
  <2> HIDE DEF e
  <2> QED
    BY <2>1, <2>2, <1>1, <1>3
<1>4. ASSUME NEW s \in Sources, See(a, s)
      PROVE  Plainly(a)
  <2> DEFINE e == [Idle EXCEPT !.step = "write", !.seen = <<s, world[s]>>]
  <2>1. DOMAIN e = AskFields /\ e.step = "write" /\ e.rows = <<>> /\ e.run = NoRun /\ e.rows \in Seq(Row)
    BY DEF Idle, AskFields
  <2>2. Becomes(a, e) /\ UNCHANGED <<run, bf, built>>
    BY <1>4 DEF See
  <2> HIDE DEF e
  <2> QED
    BY <2>1, <2>2, <1>1
<1>5. ASSUME ProbeWrites(a)
      PROVE  Plainly(a)
  <2> DEFINE e == [ask[a] EXCEPT !.step = "pass"]
  <2>1. DOMAIN e = AskFields /\ e.step = "pass" /\ e.rows \in Seq(Row) /\ e.run \in Slots \cup {NoRun}
    BY DEF Inv, Shaped, AskShaped, AskFields
  <2>2. Becomes(a, e) /\ UNCHANGED <<run, bf, built>>
    BY <1>5 DEF ProbeWrites
  <2> HIDE DEF e
  <2> QED
    BY <2>1, <2>2, <1>1
<1>6. ASSUME NEW only, NEW due, PassOver(a, only, due)
      PROVE  Plainly(a)
  <2> DEFINE plan == PolicyPlan(mats, only, due)
  <2>1. Becomes(a, Idle) \/ AsksFor(a, plan, TRUE)
    BY <1>6 DEF PassOver
  <2>2. UNCHANGED <<run, bf, built>>
    BY <1>6 DEF PassOver
  <2> HIDE DEF plan
  <2> QED
    BY <2>1, <2>2, <1>1, <1>2, <1>3
<1>7. CASE ProbePass(a) \/ PolicyPass(a)
  BY <1>6, <1>7 DEF ProbePass, PolicyPass
<1>8. ASSUME NEW t \in Assets, Request(a, t) \/ RequestWhole(a, t)
      PROVE  Plainly(a)
  BY <1>3, <1>8 DEF Request, RequestWhole
<1>9. ASSUME NEW n \in Derived, RequestKey(a, n)
      PROVE  Plainly(a)
  BY <1>3, <1>9 DEF RequestKey
<1>10. CASE RequestAll(a)
  BY <1>3, <1>10 DEF RequestAll
<1>11. ASSUME Start(a)
       PROVE  Plainly(a)
  <2> DEFINE e == [Idle EXCEPT !.step = "create"]
  <2>1. DOMAIN e = AskFields /\ e.step = "create" /\ e.rows = <<>> /\ e.run = NoRun /\ e.rows \in Seq(Row)
    BY DEF Idle, AskFields
  <2>2. Becomes(a, e) /\ UNCHANGED <<run, bf, built>> /\ "start" \in Does[a]
    BY <1>11 DEF Start, Free
  <2> HIDE DEF e
  <2> QED
    BY <2>1, <2>2, <1>1
<1> QED
  BY <1>4, <1>5, <1>7, <1>8, <1>9, <1>10, <1>11

(* What goes through rows. *)
LEMMA RowMoves ==
    ASSUME Inv, NEW a \in Askers, Reread(a) \/ Judge(a) \/ CancelCloses(a) \/ Die(a)
    PROVE  Plainly(a) \/ Sends(a) \/ Leaves(a)
<1>1. CASE Reread(a)
  <2>1. /\ ask[a].step = "reread" /\ ask[a].rows # <<>> /\ Len(ask[a].rows) = 1
        /\ ask[a].rows[1].launched = 0 /\ Current(ask[a].rows[1])
    BY <1>1 DEF Reread, Inv, AskOk, Holds
  <2>2. ask[a].rows[1] \in Row
    BY <2>1, FirstRow
  <2>3. RowOf(ask[a].rows[1].b) = ask[a].rows[1]
    BY <2>1, <2>2 DEF RowOf, Current, Row
  <2>4. Prefix(ask[a].rows[1].b, ask[a].rows[1].launched)
    <3>1. \A i \in 1..Len(bf[ask[a].rows[1].b].keys) : ~(i <= 0)
      OBVIOUS
    <3> QED
      BY <2>1, <3>1 DEF Prefix
  <2>5. CASE SendNext(a, RowOf(ask[a].rows[1].b), <<>>)
    <3>1. <<>> \in Seq(Row) /\ Len(<<>>) = Len(ask[a].rows) - 1
      BY <2>1
    <3>2. SendNext(a, ask[a].rows[1], <<>>)
      BY <2>3, <2>5
    <3>3. \A i \in 1..Len(<<>>) : <<>>[i] = ask[a].rows[i + 1]
      OBVIOUS
    <3> QED
      BY <2>1, <2>4, <3>1, <3>2, <3>3, SendNextMoves
  <2>6. CASE Becomes(a, Idle) /\ UNCHANGED <<world, mats, run, bf, events, built>>
    <3>1. /\ DOMAIN Idle = AskFields /\ Idle.rows \in Seq(Row) /\ Idle.run = NoRun /\ Idle.step = "idle"
      BY DEF Idle, AskFields
    <3> QED
      BY <2>6, <3>1 DEF Plainly
  <2> QED
    BY <1>1, <2>5, <2>6 DEF Reread
<1>2. CASE Judge(a)
  <2> DEFINE row == ask[a].rows[1]
             status == LastStatus(row)
             more == row.launched < Len(bf[row.b].keys)
  <2>1. ask[a].step = "row" /\ ask[a].rows # <<>> /\ Current(row)
    <3>1. ask[a].step = "row" /\ ask[a].rows # <<>>
      BY <1>2 DEF Judge, Inv, AskOk
    <3> QED
      BY <3>1, FirstRow DEF Inv, AskOk, Holds
  <2>2. row \in Row /\ row.b \in Backfills /\ row.launched \in Nat
    BY <2>1, FirstRow DEF Row
  <2>3. BfOk(row.b) /\ row.launched = bf[row.b].launched /\ row.last = bf[row.b].last
    BY <2>1, <2>2 DEF Inv, Current
  <2>4. status \in {"none", "success"} => Prefix(row.b, row.launched)
    <3>1. CASE row.last = NoRun
      <4>1. row.launched = 0
        BY <2>3, <3>1 DEF BfOk
      <4>2. \A i \in 1..Len(bf[row.b].keys) : ~(i <= 0)
        OBVIOUS
      <4> QED
        BY <4>1, <4>2 DEF Prefix
    <3>2. CASE row.last # NoRun /\ run[row.last].status = "success"
      <4>1. LastRun(row.last, row.b, row.launched)
        BY <2>3, <3>2 DEF BfOk
      <4>2. RunOk(row.last) /\ run[row.last].b = row.b /\ run[row.last].upto = row.launched
        BY <4>1 DEF LastRun, Inv
      <4>3. row.b # 0
        BY <2>2, Numbered
      <4> QED
        BY <3>2, <4>2, <4>3 DEF RunOk
    <3>3. CASE row.last # NoRun /\ run[row.last].status # "success"
      <4>1. run[row.last].status # "none"
        <5>1. LastRun(row.last, row.b, row.launched)
          BY <2>3, <3>3 DEF BfOk
        <5> QED
          BY <5>1 DEF LastRun, Inv, Shaped, RunsShaped, RunStatus, Ended
      <4> QED
        BY <3>3, <4>1 DEF LastStatus
    <3> QED
      BY <3>1, <3>2, <3>3
  <2>5. CASE status \in {"none", "success"} /\ SendNext(a, row, Tail(ask[a].rows))
    BY <2>1, <2>4, <2>5, FirstRow, SendNextMoves
  <2>6. CASE status = "success" /\ ~more /\ bf' = Closed(row.b, "complete")
             /\ Becomes(a, NextRow(a)) /\ Keeps(run) /\ UNCHANGED built
    <3>0. Holds(a)
      BY <2>1 DEF Holds
    <3>1. Prefix(row.b, Len(bf[row.b].keys))
      <4>1. Len(bf[row.b].keys) \in Nat
        BY <2>2, ChunkEnds DEF Inv
      <4>2. ~more /\ Prefix(row.b, row.launched)
        BY <2>4, <2>6
      <4>3. \A i \in 1..Len(bf[row.b].keys) : i <= row.launched
        <5>1. Len(bf[row.b].keys) <= row.launched
          BY <2>2, <4>1, <4>2
        <5> HIDE DEF row
        <5> QED
          BY <2>2, <4>1, <5>1
      <4> QED
        BY ZenonT(60), <4>2, <4>3 DEF Prefix
    <3> QED
      BY <2>2, <2>6, <3>0, <3>1 DEF Leaves
  <2>7. CASE \E s \in {"failed", "canceled"} : bf' = Closed(row.b, s)
             /\ Becomes(a, NextRow(a)) /\ Keeps(run) /\ UNCHANGED built
    BY <2>1, <2>2, <2>7 DEF Leaves, Holds
  <2>8. CASE UNCHANGED bf /\ Becomes(a, NextRow(a)) /\ Keeps(run) /\ UNCHANGED built
    BY <2>1, <2>8 DEF Leaves, Holds
  <2> HIDE DEF more, status, row
  <2> QED
    BY <1>2, <2>5, <2>6, <2>7, <2>8 DEF Judge, status, row, more
<1>3. CASE CancelCloses(a)
  <2>1. ask[a].rows # <<>>
    BY <1>3 DEF CancelCloses, Inv, AskOk
  <2>2. ask[a].rows[1].b \in Backfills
    BY <2>1, FirstRow DEF Row
  <2> QED
    BY <1>3, <2>2 DEF CancelCloses, Leaves
<1>4. CASE Die(a)
  BY <1>4 DEF Die, Leaves
<1> QED
  BY <1>1, <1>2, <1>3, <1>4

(* What runs do. *)
LEMMA RunMoves ==
    ASSUME Inv, NEW r \in Slots, Works(r) \/ Fails(r)
    PROVE  Turns(r) \/ Finishes(r)
<1>0. RunsShaped /\ DOMAIN built = Backfills
  BY DEF Inv, Shaped
<1>1. CASE Begin(r)
  BY <1>0, <1>1 DEF Begin, Turns, RunsShaped, RunFields, Active
<1>2. ASSUME NEW n \in Derived, NEW d \in Reads[n], Capture(r, n, d)
      PROVE  Turns(r)
  BY <1>0, <1>2 DEF Capture, Ready, Turns, RunsShaped, RunFields, Active
<1>3. ASSUME NEW n \in Derived, Build(r, n)
      PROVE  Turns(r)
  <2>1. run[r].status = "running" /\ run' = [run EXCEPT ![r].done = @ \cup {n}] /\ UNCHANGED <<ask, bf>>
    BY <1>3 DEF Build, Ready
  <2>2. built' = IF run[r].b # 0 /\ n[1] = Filled
                 THEN [built EXCEPT ![run[r].b] = @ \cup {n[2]}] ELSE built
    BY <1>3 DEF Build
  <2>3. DOMAIN built' = Backfills /\ \A b \in Backfills : built[b] \subseteq built'[b]
    BY <1>0, <2>2
  <2>4. run[r].b \in Backfills /\ n[1] = Filled => n[2] \in built'[run[r].b]
    BY <1>0, <2>2, Numbered
  <2> QED
    BY <1>0, <2>1, <2>3, <2>4 DEF Turns, RunsShaped, RunFields, Active
<1>4. CASE Succeeds(r)
  BY <1>4 DEF Succeeds, Ends, Finishes
<1>5. CASE Fails(r)
  BY <1>5 DEF Fails, Ends, Finishes
<1>6. CASE IsCanceled(r)
  BY <1>6 DEF IsCanceled, Ends, Finishes
<1> QED
  BY <1>1, <1>2, <1>3, <1>4, <1>5, <1>6 DEF Works

(* A launch is refused, or lands. *)
LEMMA LaunchMoves ==
    ASSUME Inv, NEW a \in Askers, Launch(a)
    PROVE  Leaves(a) \/ Lands(a)
<1>1. CASE Becomes(a, NextRow(a)) /\ Keeps(run)
  BY <1>1 DEF Launch, Leaves, Holds
<1>2. CASE ~(Becomes(a, NextRow(a)) /\ Keeps(run))
  <2> DEFINE r == CHOOSE x \in Slots : run[x].status = "absent"
             rows == ask[a].rows
             new == [Absent EXCEPT !.status = "queued", !.builds = ask[a].plan, !.bounded = ask[a].bounded,
                                   !.b = IF rows = <<>> THEN 0 ELSE rows[1].b,
                                   !.upto = IF rows = <<>> THEN 0 ELSE Upto(rows[1])]
  <2>1. /\ ask[a].step = "launch" /\ UNCHANGED <<bf, built>>
        /\ ask[a].bounded => Overlaps(ask[a].plan) = {}
        /\ \E x \in Slots : run[x].status = "absent"
        /\ run' = [run EXCEPT ![r] = new]
        /\ Becomes(a, IF rows = <<>> THEN Idle ELSE [ask[a] EXCEPT !.step = "record", !.run = r])
    BY <1>2 DEF Launch
  <2>2. r \in Slots /\ run[r].status = "absent"
    BY <2>1
  <2>3. /\ DOMAIN new = RunFields
        /\ new.status = "queued" /\ new.builds = ask[a].plan /\ new.done = {}
        /\ new.bounded = ask[a].bounded
        /\ new.b = IF rows = <<>> THEN 0 ELSE rows[1].b
        /\ new.upto = IF rows = <<>> THEN 0 ELSE Upto(rows[1])
    BY DEF Absent, RunFields
  <2> HIDE DEF r, new
  <2>4. Lands(a)
    BY <2>1, <2>2, <2>3 DEF Lands
  <2> QED
    BY <2>4
<1> QED
  BY <1>1, <1>2

(* Every step is one of these. *)
AskerMoves(a) ==
    \/ Plainly(a) \/ Sends(a) \/ Leaves(a) \/ Lands(a)
    \/ Tick(a) \/ CancelAsks(a) \/ Record(a)
    \/ \E b \in Backfills : Create(a, b) \/ CancelReads(a, b)
LEMMA StepMoves ==
    ASSUME Inv, [Next]_vars
    PROVE  /\ up' = up
           /\ \/ \E a \in Askers : AskerMoves(a)
              \/ \E r \in Slots : Turns(r) \/ Finishes(r) \/ Prune(r)
              \/ UNCHANGED <<run, bf, ask, built>>
<1>1. up \subseteq Askers
  BY BuildsAssumption DEF Inv, Shaped
<1>2. ASSUME NEW a \in Askers, Asks(a) \/ Die(a)
      PROVE  AskerMoves(a)
  BY <1>2, PlainMoves, RowMoves, LaunchMoves DEF Asks, AskerMoves
<1>3. CASE \E s \in Sources : Move(s)
  BY <1>3 DEF Move, Next, vars
<1>4. up' = up
  BY DEF Next, vars
<1>5. CASE UNCHANGED vars
  BY <1>5 DEF vars
<1> QED
  BY <1>1, <1>2, <1>3, <1>4, <1>5, RunMoves DEF Next

-----------------------------------------------------------------------------
(* What steps do to shapes. *)

(* An asker that becomes something of the shape keeps the shape. *)
LEMMA BecomesShaped ==
    ASSUME AskShaped, NEW a \in Askers, NEW e, Becomes(a, e), DOMAIN e = AskFields,
           e.rows \in Seq(Row), e.run \in Slots \cup {NoRun}
    PROVE  AskShaped'
BY DEF AskShaped, Becomes

(* An ended run that is forgotten leaves no trace. *)
LEMMA KeepsShaped ==
    ASSUME NEW runs, DOMAIN runs = Slots, Keeps(runs),
           \A r \in Slots : DOMAIN runs[r] = RunFields /\ runs[r].upto \in Nat /\ runs[r].status \in RunStatus
    PROVE  RunsShaped'
<1>1. DOMAIN Absent = RunFields /\ Absent.upto = 0 /\ Absent.status = "absent"
  BY DEF Absent, RunFields
<1>2. DOMAIN run' = Slots /\ \A r \in Slots : run'[r] = Absent \/ run'[r] = runs[r]
  BY DEF Keeps
<1> HIDE DEF Absent
<1> QED
  BY <1>1, <1>2 DEF RunsShaped, RunStatus

(* A run that ended is shaped as it was, about the chunk it was about. *)
LEMMA OverShaped ==
    ASSUME Shaped, NEW r \in Slots, NEW s \in Ended
    PROVE  /\ DOMAIN Over(r, s) = RunFields /\ Over(r, s).status = s /\ Over(r, s).upto = run[r].upto
           /\ Over(r, s).b = run[r].b /\ Over(r, s).upto \in Nat /\ s \in RunStatus
BY DEF Shaped, RunsShaped, Over, Absent, RunFields, RunStatus

(* Every step keeps the shapes. *)
LEMMA StepShaped ==
    ASSUME Inv, [Next]_vars
    PROVE  Shaped'
<1>0. RunsShaped /\ BfShaped /\ AskShaped /\ DOMAIN built = Backfills /\ up \in Deployments /\ Shaped
  BY DEF Inv, Shaped
<1>a. /\ DOMAIN Idle = AskFields /\ Idle.rows \in Seq(Row) /\ Idle.run \in Slots \cup {NoRun}
  BY DEF Idle, AskFields
<1>b. /\ UNCHANGED run => RunsShaped'
      /\ UNCHANGED bf => BfShaped'
      /\ UNCHANGED ask => AskShaped'
      /\ UNCHANGED built => DOMAIN built' = Backfills
  BY <1>0 DEF RunsShaped, BfShaped, AskShaped
<1> DEFINE Rest == AskShaped' /\ BfShaped' /\ RunsShaped' /\ DOMAIN built' = Backfills
<1>1. ASSUME NEW a \in Askers, Plainly(a) PROVE Rest
  BY <1>0, <1>1, <1>b, BecomesShaped DEF Plainly
<1>2. ASSUME NEW a \in Askers, Sends(a) PROVE Rest
  BY <1>0, <1>2, <1>b, BecomesShaped DEF Sends
<1>3. ASSUME NEW a \in Askers, Leaves(a) PROVE Rest
  <2>1. AskShaped'
    BY <1>0, <1>3, <1>a, NextRowShaped, BecomesShaped DEF Leaves
  <2>2. RunsShaped'
    BY <1>0, <1>3, KeepsShaped DEF Leaves, RunsShaped
  <2>3. BfShaped'
    <3>1. \/ UNCHANGED bf
          \/ \E b \in Backfills : \E s \in {"complete", "failed", "canceled"} : bf' = Closed(b, s)
      BY <1>3 DEF Leaves
    <3>2. ASSUME NEW b \in Backfills, NEW s \in {"complete", "failed", "canceled"}, bf' = Closed(b, s)
          PROVE  BfShaped'
      <4>1. bf' = [bf EXCEPT ![b].status = s] \/ bf' = bf
        BY <3>2 DEF Closed
      <4> QED
        BY ZenonT(60), <1>0, <4>1 DEF BfShaped, BfStatus
    <3> QED
      BY <1>b, <3>1, <3>2
  <2> QED
    BY <1>3, <1>b, <2>1, <2>2, <2>3 DEF Leaves
<1>4. ASSUME NEW a \in Askers, Lands(a) PROVE Rest
  <2>1. PICK r \in Slots : \E new :
         /\ run' = [run EXCEPT ![r] = new] /\ DOMAIN new = RunFields /\ new.status = "queued"
         /\ IF ask[a].rows = <<>> THEN new.b = 0 /\ new.upto = 0
            ELSE new.b = ask[a].rows[1].b /\ new.upto = Upto(ask[a].rows[1])
         /\ Becomes(a, IF ask[a].rows = <<>> THEN Idle ELSE [ask[a] EXCEPT !.step = "record", !.run = r])
    BY <1>4 DEF Lands
  <2>2. PICK new :
         /\ run' = [run EXCEPT ![r] = new] /\ DOMAIN new = RunFields /\ new.status = "queued"
         /\ IF ask[a].rows = <<>> THEN new.b = 0 /\ new.upto = 0
            ELSE new.b = ask[a].rows[1].b /\ new.upto = Upto(ask[a].rows[1])
         /\ Becomes(a, IF ask[a].rows = <<>> THEN Idle ELSE [ask[a] EXCEPT !.step = "record", !.run = r])
    BY <2>1
  <2>3. new.upto \in Nat
    BY <1>0, <2>2, FirstRow, ChunkEnds
  <2>4. RunsShaped'
    BY <1>0, <2>2, <2>3 DEF RunsShaped, RunStatus
  <2>5. AskShaped'
    <3> DEFINE e == [ask[a] EXCEPT !.step = "record", !.run = r]
    <3>1. DOMAIN e = AskFields /\ e.rows \in Seq(Row) /\ e.run \in Slots \cup {NoRun}
      BY <1>0 DEF AskShaped, AskFields
    <3>2. Becomes(a, Idle) \/ Becomes(a, e)
      BY <2>2
    <3> HIDE DEF e
    <3> QED
      BY <1>0, <1>a, <3>1, <3>2, BecomesShaped
  <2> QED
    BY <1>4, <1>b, <2>4, <2>5 DEF Lands
<1>5. ASSUME NEW a \in Askers, Tick(a) PROVE Rest
  <2> DEFINE running == {b \in Backfills : bf[b].status = "running"}
  <2>1. PICK bs \in InOrder(running) :
          Becomes(a, [Idle EXCEPT !.step = "row", !.rows = [i \in DOMAIN bs |-> RowOf(bs[i])]])
    BY <1>5 DEF Tick
  <2> DEFINE rows == [i \in DOMAIN bs |-> RowOf(bs[i])]
             e == [Idle EXCEPT !.step = "row", !.rows = rows]
  <2>2. IsFiniteSet(running)
    BY Numbered, FS_Subset
  <2>3. bs \in Seq(running)
    <3> HIDE DEF running
    <3> QED
      BY <2>1, <2>2, InOrderIs
  <2>4. rows \in Seq(Row)
    <3>1. \A i \in 1..Len(bs) : bs[i] \in Backfills
      BY <2>3
    <3>2. \A i \in 1..Len(bs) : RowOf(bs[i]) \in Row
      BY <3>1, <1>0 DEF RowOf, Row, BfShaped
    <3>3. rows = [i \in 1..Len(bs) |-> RowOf(bs[i])] /\ Len(bs) \in Nat
      BY <2>3
    <3> QED
      BY <3>2, <3>3
  <2> HIDE DEF rows
  <2>5. DOMAIN e = AskFields /\ e.rows \in Seq(Row) /\ e.run \in Slots \cup {NoRun}
    BY <2>4 DEF Idle, AskFields
  <2>6. Becomes(a, e)
    BY <2>1 DEF rows
  <2> HIDE DEF e
  <2>7. AskShaped'
    BY <1>0, <2>5, <2>6, BecomesShaped
  <2>8. UNCHANGED <<run, bf, built>>
    BY <1>5 DEF Tick
  <2> QED
    BY <1>b, <2>7, <2>8
<1>6. ASSUME NEW a \in Askers, CancelAsks(a) PROVE Rest
  <2> DEFINE e == [ask[a] EXCEPT !.step = "close"]
             r == ask[a].rows[1].last
  <2>1. DOMAIN e = AskFields /\ e.rows \in Seq(Row) /\ e.run \in Slots \cup {NoRun}
    BY <1>0 DEF AskShaped, AskFields
  <2>2. Becomes(a, e)
    BY <1>6 DEF CancelAsks
  <2>3. ask[a].rows # <<>>
    BY <1>6 DEF CancelAsks, Inv, AskOk
  <2>4. r \in Slots \cup {NoRun}
    BY <2>3, FirstRow DEF Row
  <2>5. RunsShaped'
    <3>1. CASE r \in Slots /\ run' = [run EXCEPT ![r] = Over(r, "canceled")]
      <4> HIDE DEF r
      <4>1. "canceled" \in Ended
        BY DEF Ended
      <4> QED
        BY <1>0, <3>1, <4>1, OverShaped DEF RunsShaped
    <3>2. CASE r \in Slots /\ run' = [run EXCEPT ![r].asked = TRUE]
      <4> HIDE DEF r
      <4> QED
        BY <1>0, <3>2 DEF RunsShaped, RunFields
    <3> QED
      BY <1>6, <1>b, <2>4, <3>1, <3>2 DEF CancelAsks
  <2> HIDE DEF e
  <2>6. AskShaped' /\ UNCHANGED <<bf, built>>
    BY <1>0, <1>6, <2>1, <2>2, BecomesShaped DEF CancelAsks
  <2> QED
    BY <1>b, <2>5, <2>6
<1>7. ASSUME NEW a \in Askers, Record(a) PROVE Rest
  <2> DEFINE row == ask[a].rows[1]
  <2>1. ask[a].rows # <<>>
    BY <1>7 DEF Record, Inv, AskOk
  <2>2. row \in Row
    BY <2>1, FirstRow
  <2>3. row.b \in Backfills /\ Upto(row) \in Nat /\ ask[a].run \in Slots \cup {NoRun}
    BY <1>0, <2>2, ChunkEnds DEF AskShaped
  <2>4. bf' = [bf EXCEPT ![row.b].launched = Upto(row), ![row.b].last = ask[a].run]
    BY <1>7 DEF Record
  <2>5. BfShaped'
    <3> HIDE DEF row
    <3> QED
      BY <1>0, <2>3, <2>4 DEF BfShaped
  <2>6. Becomes(a, NextRow(a)) /\ Keeps(run) /\ UNCHANGED built
    BY <1>7 DEF Record
  <2>7. AskShaped'
    BY <1>0, <2>6, NextRowShaped, BecomesShaped
  <2>8. RunsShaped'
    BY <1>0, <2>6, KeepsShaped DEF RunsShaped
  <2> QED
    BY <1>b, <2>5, <2>6, <2>7, <2>8
<1>8. ASSUME NEW a \in Askers, NEW b \in Backfills, Create(a, b) PROVE Rest
  <2> DEFINE range(missing) == {k \in 1..Count[Filled] : missing => Stale(mats)[<<Filled, k>>]}
  <2>1. PICK missing \in BOOLEAN : \E keys \in InOrder(range(missing)) :
         /\ bf' = [bf EXCEPT ![b] = [status |-> IF keys = <<>> THEN "complete" ELSE "running",
                                     keys |-> keys, launched |-> 0, last |-> NoRun]]
         /\ IF keys = <<>> THEN Becomes(a, Idle)
            ELSE Becomes(a, [Idle EXCEPT !.step = "reread",
                                         !.rows = <<[b |-> b, launched |-> 0, last |-> NoRun]>>])
    BY <1>8 DEF Create
  <2>2. range(missing) \subseteq Nat /\ IsFiniteSet(range(missing))
    <3>1. Count[Filled] \in Nat
      BY BuildsAssumption, AssetsAssumption
    <3>2. IsFiniteSet(1..Count[Filled]) /\ 1..Count[Filled] \subseteq Nat
      BY <3>1, FS_Interval
    <3>3. range(missing) \subseteq 1..Count[Filled]
      OBVIOUS
    <3> HIDE DEF range
    <3> QED
      BY <3>2, <3>3, FS_Subset
  <2> HIDE DEF range
  <2>3. PICK keys \in InOrder(range(missing)) :
         /\ bf' = [bf EXCEPT ![b] = [status |-> IF keys = <<>> THEN "complete" ELSE "running",
                                     keys |-> keys, launched |-> 0, last |-> NoRun]]
         /\ IF keys = <<>> THEN Becomes(a, Idle)
            ELSE Becomes(a, [Idle EXCEPT !.step = "reread",
                                         !.rows = <<[b |-> b, launched |-> 0, last |-> NoRun]>>])
    BY <2>1
  <2>4. keys \in Seq(Nat)
    BY <2>2, InOrderIs
  <2>5. BfShaped'
    BY <1>0, <2>3, <2>4 DEF BfShaped, BfStatus
  <2> DEFINE e == [Idle EXCEPT !.step = "reread", !.rows = <<[b |-> b, launched |-> 0, last |-> NoRun]>>]
  <2>6. DOMAIN e = AskFields /\ e.rows \in Seq(Row) /\ e.run \in Slots \cup {NoRun}
    BY DEF Idle, AskFields, Row
  <2>7. Becomes(a, Idle) \/ Becomes(a, e)
    BY <2>3
  <2> HIDE DEF e
  <2>8. AskShaped'
    BY <1>0, <1>a, <2>6, <2>7, BecomesShaped
  <2>9. UNCHANGED <<run, built>>
    BY <1>8 DEF Create
  <2> QED
    BY <1>b, <2>5, <2>8, <2>9
<1>9. ASSUME NEW a \in Askers, NEW b \in Backfills, CancelReads(a, b) PROVE Rest
  <2> DEFINE e == [Idle EXCEPT !.step = "ask", !.rows = <<RowOf(b)>>]
  <2>1. RowOf(b) \in Row
    BY <1>0 DEF RowOf, Row, BfShaped
  <2>2. DOMAIN e = AskFields /\ e.rows \in Seq(Row) /\ e.run \in Slots \cup {NoRun}
    BY <2>1 DEF Idle, AskFields
  <2>3. Becomes(a, e) /\ UNCHANGED <<run, bf, built>>
    BY <1>9 DEF CancelReads
  <2> HIDE DEF e
  <2> QED
    BY <1>0, <1>b, <2>2, <2>3, BecomesShaped
<1>10. ASSUME NEW r \in Slots, Turns(r) PROVE Rest
  <2>1. RunsShaped'
    BY <1>0, <1>10 DEF Turns, RunsShaped, RunStatus
  <2> QED
    BY <1>b, <1>10, <2>1 DEF Turns
<1>11. ASSUME NEW r \in Slots, Finishes(r) PROVE Rest
  <2>1. PICK s \in {"success", "failed", "canceled"} : Keeps([run EXCEPT ![r] = Over(r, s)])
    BY <1>11 DEF Finishes
  <2> DEFINE runs == [run EXCEPT ![r] = Over(r, s)]
  <2>2. /\ DOMAIN runs = Slots
        /\ \A x \in Slots : DOMAIN runs[x] = RunFields /\ runs[x].upto \in Nat /\ runs[x].status \in RunStatus
    <3>1. s \in Ended
      BY DEF Ended
    <3> QED
      BY <1>0, <3>1, OverShaped DEF RunsShaped
  <2>3. RunsShaped'
    <3> HIDE DEF runs
    <3> QED
      BY <2>1, <2>2, KeepsShaped DEF runs
  <2> QED
    BY <1>b, <1>11, <2>3 DEF Finishes
<1>12. ASSUME NEW r \in Slots, Prune(r) PROVE Rest
  <2>1. "gone" \in Ended
    BY DEF Ended
  <2>2. RunsShaped'
    BY <1>0, <1>12, <2>1, OverShaped DEF Prune, RunsShaped
  <2> QED
    BY <1>b, <1>12, <2>2 DEF Prune
<1>13. ASSUME UNCHANGED <<run, bf, ask, built>> PROVE Rest
  BY <1>0, <1>13 DEF RunsShaped, BfShaped, AskShaped
<1> QED
  <2>1. ASSUME NEW a \in Askers, AskerMoves(a) PROVE Rest
    <3> HIDE DEF Rest
    <3> QED
      BY <2>1, <1>1, <1>2, <1>3, <1>4, <1>5, <1>6, <1>7, <1>8, <1>9 DEF AskerMoves
  <2>2. up' = up /\ Rest
    <3> HIDE DEF Rest
    <3> QED
      BY StepMoves, <2>1, <1>10, <1>11, <1>12, <1>13
  <2> QED
    BY <1>0, <2>2 DEF Shaped

-----------------------------------------------------------------------------
(* What a step does to each run that is not launched by it. *)
Working(status) == status \in {"queued", "running"}
RunFate(r) ==
    \/ run'[r] = run[r]
    \/ run'[r] = Absent /\ ~Named(r)'
    \/ /\ run[r].status # "absent" /\ run'[r].status # "absent"
       /\ run'[r].b = run[r].b /\ run'[r].upto = run[r].upto
       /\ run'[r].status = "success" => Active(r) /\ run[r].done = run[r].builds
       /\ Working(run'[r].status) =>
            /\ Active(r) /\ run'[r].builds = run[r].builds /\ run'[r].bounded = run[r].bounded
            /\ \A n \in run'[r].done \ run[r].done :
                 run[r].b \in Backfills /\ n[1] = Filled => n[2] \in built'[run[r].b]

(* Forgetting is a fate. *)
LEMMA KeepsFate ==
    ASSUME Keeps(run), RunsShaped, NEW r \in Slots
    PROVE  RunFate(r)
BY DEF Keeps, RunFate

(* So is ending, for one that was there. *)
LEMMA OverFate ==
    ASSUME Shaped, NEW r \in Slots, NEW s \in Ended, run[r].status # "absent",
           s = "success" => Active(r) /\ run[r].done = run[r].builds,
           run'[r] = Over(r, s)
    PROVE  RunFate(r)
BY OverShaped DEF RunFate, Working, Ended

(* Each run that this step does not launch has one of these fates. *)
LEMMA Fates ==
    ASSUME Inv, [Next]_vars, NEW r \in Slots, ~\E a \in Askers : Lands(a)
    PROVE  RunFate(r)
<1>0. RunsShaped /\ Shaped
  BY DEF Inv, Shaped
<1>1. CASE UNCHANGED run
  BY <1>1 DEF RunFate
<1>2. ASSUME NEW a \in Askers, AskerMoves(a) PROVE RunFate(r)
  <2>1. CASE Keeps(run)
    BY <1>0, <2>1, KeepsFate
  <2>2. CASE CancelAsks(a)
    <3> DEFINE x == ask[a].rows[1].last
    <3>1. \/ x # NoRun /\ run[x].status = "queued" /\ run' = [run EXCEPT ![x] = Over(x, "canceled")]
          \/ x # NoRun /\ run[x].status = "running" /\ run' = [run EXCEPT ![x].asked = TRUE]
          \/ UNCHANGED run
      BY <2>2 DEF CancelAsks
    <3> HIDE DEF x
    <3>2. CASE run[x].status = "queued" /\ run' = [run EXCEPT ![x] = Over(x, "canceled")]
      <4>1. "canceled" \in Ended
        BY DEF Ended
      <4>2. CASE r = x
        BY <1>0, <3>2, <4>1, <4>2, OverFate DEF RunsShaped
      <4>3. CASE r # x
        BY <1>0, <3>2, <4>3 DEF RunFate, RunsShaped
      <4> QED
        BY <4>2, <4>3
    <3>3. CASE run[x].status = "running" /\ run' = [run EXCEPT ![x].asked = TRUE]
      <4>1. run'[r] = run[r] \/ (r = x /\ run'[r] = [run[r] EXCEPT !.asked = TRUE])
        BY <1>0, <3>3 DEF RunsShaped
      <4>2. CASE r = x /\ run'[r] = [run[r] EXCEPT !.asked = TRUE]
        BY <1>0, <3>3, <4>2 DEF RunFate, RunsShaped, RunFields, Active
      <4> QED
        BY <4>1, <4>2 DEF RunFate
    <3> QED
      BY <3>1, <3>2, <3>3, <1>1
  <2>3. CASE UNCHANGED run
    BY <2>3, <1>1
  <2>4. Keeps(run) \/ CancelAsks(a) \/ UNCHANGED run
    BY <1>2 DEF AskerMoves, Plainly, Sends, Leaves, Tick, Record, Create, CancelReads
  <2> QED
    BY <2>1, <2>2, <2>3, <2>4
<1>3. ASSUME NEW x \in Slots, Turns(x) PROVE RunFate(r)
  <2>1. CASE r = x
    BY <1>0, <1>3, <2>1 DEF Turns, RunFate, RunsShaped, Active, Working
  <2>2. CASE r # x
    BY <1>3, <2>2 DEF Turns, RunFate
  <2> QED
    BY <2>1, <2>2
<1>4. ASSUME NEW x \in Slots, Finishes(x) PROVE RunFate(r)
  <2>1. PICK s \in {"success", "failed", "canceled"} :
         /\ Keeps([run EXCEPT ![x] = Over(x, s)])
         /\ s = "success" => run[x].done = run[x].builds
    BY <1>4 DEF Finishes
  <2> DEFINE runs == [run EXCEPT ![x] = Over(x, s)]
  <2>2. run'[r] = runs[r] \/ (run'[r] = Absent /\ ~Named(r)')
    <3>1. Keeps(runs)
      BY <2>1
    <3> HIDE DEF runs
    <3> QED
      BY <3>1 DEF Keeps
  <2>3. CASE r = x /\ run'[r] = runs[r]
    <3>1. run'[r] = Over(r, s) /\ s \in Ended
      BY <1>0, <2>3 DEF RunsShaped, Ended
    <3>2. run[r].status # "absent" /\ Active(r) /\ (s = "success" => run[r].done = run[r].builds)
      BY <2>3, <1>4, <2>1 DEF Finishes, Active
    <3> QED
      BY <1>0, <3>1, <3>2, OverFate
  <2>4. CASE r # x /\ run'[r] = runs[r]
    BY <1>0, <2>4 DEF RunFate, RunsShaped
  <2> HIDE DEF runs
  <2> QED
    BY <2>2, <2>3, <2>4 DEF RunFate
<1>5. ASSUME NEW x \in Slots, Prune(x) PROVE RunFate(r)
  <2>1. run' = [run EXCEPT ![x] = Over(x, "gone")] /\ run[x].status # "absent" /\ "gone" \in Ended
    BY <1>5 DEF Prune, Ended
  <2>2. CASE r = x
    BY <1>0, <2>1, <2>2, OverFate DEF RunsShaped
  <2>3. CASE r # x
    BY <1>0, <2>1, <2>3 DEF RunFate, RunsShaped
  <2> QED
    BY <2>2, <2>3
<1> QED
  BY StepMoves, <1>1, <1>2, <1>3, <1>4, <1>5

(* What was built stays so, and what a backfill is to fill never changes. *)
LEMMA StepGrows ==
    ASSUME Inv, [Next]_vars
    PROVE  \A b \in Backfills :
             /\ built[b] \subseteq built'[b]
             /\ Begun(b) => bf'[b].keys = bf[b].keys /\ bf'[b].status # "unmade"
<1>0. BfShaped
  BY DEF Inv, Shaped
<1>a. UNCHANGED bf => \A b \in Backfills : Begun(b) => bf'[b].keys = bf[b].keys /\ bf'[b].status # "unmade"
  BY DEF Begun
<1> SUFFICES ASSUME NEW b \in Backfills
             PROVE  /\ built[b] \subseteq built'[b]
                    /\ Begun(b) => bf'[b].keys = bf[b].keys /\ bf'[b].status # "unmade"
  OBVIOUS
<1>1. ASSUME NEW a \in Askers, AskerMoves(a)
      PROVE  built' = built /\ (Begun(b) => bf'[b].keys = bf[b].keys /\ bf'[b].status # "unmade")
  <2>1. built' = built
    BY <1>1 DEF AskerMoves, Plainly, Sends, Leaves, Lands, Tick, CancelAsks, Record, Create, CancelReads
  <2>2. CASE Leaves(a)
    BY ZenonT(60), <1>0, <2>2 DEF Leaves, Closed, Begun, BfShaped
  <2>3. CASE Record(a)
    <3> DEFINE row == ask[a].rows[1]
    <3>1. bf' = [bf EXCEPT ![row.b].launched = Upto(row), ![row.b].last = ask[a].run]
      BY <2>3 DEF Record
    <3> HIDE DEF row
    <3> QED
      BY <1>0, <2>1, <3>1 DEF Begun, BfShaped
  <2>4. ASSUME NEW c \in Backfills, Create(a, c)
        PROVE  Begun(b) => bf'[b].keys = bf[b].keys /\ bf'[b].status # "unmade"
    BY <1>0, <2>4 DEF Create, Begun, BfShaped
  <2>5. CASE UNCHANGED bf
    BY <1>a, <2>1, <2>5
  <2>6. Leaves(a) \/ Record(a) \/ (\E c \in Backfills : Create(a, c)) \/ UNCHANGED bf
    BY <1>1 DEF AskerMoves, Plainly, Sends, Lands, Tick, CancelAsks, CancelReads
  <2> QED
    BY <2>1, <2>2, <2>3, <2>4, <2>5, <2>6
<1>2. ASSUME NEW r \in Slots, Turns(r) \/ Finishes(r) \/ Prune(r)
      PROVE  built[b] \subseteq built'[b] /\ UNCHANGED bf
  BY <1>2 DEF Turns, Finishes, Prune
<1>3. CASE UNCHANGED <<run, bf, ask, built>>
  BY <1>3, <1>a
<1> QED
  BY StepMoves, <1>1, <1>2, <1>3, <1>a

(* So what was built of a backfill, up to some key, still is. *)
PrefixNext(b, upto) == \A i \in 1..Len(bf'[b].keys) : i <= upto => bf'[b].keys[i] \in built'[b]
LEMMA PrefixStays ==
    ASSUME Inv, [Next]_vars, NEW b \in Backfills, Begun(b), NEW upto, Prefix(b, upto)
    PROVE  PrefixNext(b, upto)
BY StepGrows DEF Prefix, PrefixNext

(* A run that goes on, or ends, is about its backfill as it was. *)
LEMMA FateOk ==
    ASSUME Inv, [Next]_vars, NEW r \in Slots, RunFate(r)
    PROVE  RunOk(r)'
<1> DEFINE b == run[r].b
           keys == bf[b].keys
<1>0. RunOk(r)
  BY DEF Inv
<1>1. CASE run'[r].b = 0
  BY <1>1 DEF RunOk
<1>2. CASE run'[r].b = b /\ run'[r].upto = run[r].upto /\ b # 0
  <2>1. b \in Backfills /\ Begun(b) /\ built[b] \subseteq built'[b] /\ bf'[b].keys = keys /\ bf'[b].status # "unmade"
    BY <1>0, <1>2, StepGrows DEF RunOk
  <2>2. run[r].status = "success" => PrefixNext(b, run[r].upto)
    BY <1>0, <1>2, <2>1, PrefixStays DEF RunOk
  <2>3. Active(r) =>
           /\ \A i \in 1..Len(keys) : i <= run[r].upto => keys[i] \in built'[b] \/ <<Filled, keys[i]>> \in run[r].builds
           /\ \A i \in 1..Len(keys) : i + Limit[Filled] <= run[r].upto => keys[i] \in built'[b]
           /\ \A n \in run[r].done : n[1] = Filled => n[2] \in built'[b]
    BY <1>0, <1>2, <2>1 DEF RunOk
  <2>4. CASE run'[r] = run[r]
    <3> HIDE DEF b, keys
    <3> QED
      BY <1>2, <2>1, <2>2, <2>3, <2>4 DEF RunOk, Prefix, PrefixNext, Begun, Active
  <2>5. CASE /\ run'[r].status = "success" => Active(r) /\ run[r].done = run[r].builds
             /\ Working(run'[r].status) =>
                  /\ Active(r) /\ run'[r].builds = run[r].builds
                  /\ \A n \in run'[r].done \ run[r].done :
                       b \in Backfills /\ n[1] = Filled => n[2] \in built'[b]
    <3>1. run'[r].status = "success" => PrefixNext(b, run[r].upto)
      <4> SUFFICES ASSUME run'[r].status = "success", NEW i \in 1..Len(keys), i <= run[r].upto
                   PROVE  keys[i] \in built'[b]
        BY <2>1 DEF PrefixNext
      <4>1. Active(r) /\ run[r].done = run[r].builds
        BY <2>5
      <4>2. keys[i] \in built'[b] \/ <<Filled, keys[i]>> \in run[r].done
        BY <2>3, <4>1
      <4> HIDE DEF b, keys
      <4>3. ASSUME NEW n, n = <<Filled, keys[i]>>, n \in run[r].done PROVE keys[i] \in built'[b]
        BY <2>3, <4>1, <4>3
      <4> QED
        BY <4>2, <4>3
    <3> HIDE DEF b, keys
    <3> QED
      BY <1>2, <2>1, <2>3, <2>5, <3>1 DEF RunOk, Prefix, PrefixNext, Begun, Active, Working
  <2> QED
    BY <1>2, <2>4, <2>5 DEF RunFate, Absent
<1> QED
  BY <1>1, <1>2 DEF RunFate, Absent

(* A run that is launched builds its chunk, and comes after the others. *)
LEMMA LandsOk ==
    ASSUME Inv, [Next]_vars, NEW a \in Askers, Lands(a), NEW r \in Slots
    PROVE  RunOk(r)'
<1>0. RunsShaped
  BY DEF Inv, Shaped
<1>1. PICK x \in Slots : run[x].status = "absent" /\ \E new :
         /\ run' = [run EXCEPT ![x] = new] /\ DOMAIN new = RunFields
         /\ new.status = "queued" /\ new.builds = ask[a].plan /\ new.done = {}
         /\ IF ask[a].rows = <<>> THEN new.b = 0 /\ new.upto = 0
            ELSE new.b = ask[a].rows[1].b /\ new.upto = Upto(ask[a].rows[1])
  BY DEF Lands
<1>2. PICK new :
         /\ run' = [run EXCEPT ![x] = new] /\ DOMAIN new = RunFields
         /\ new.status = "queued" /\ new.builds = ask[a].plan /\ new.done = {}
         /\ IF ask[a].rows = <<>> THEN new.b = 0 /\ new.upto = 0
            ELSE new.b = ask[a].rows[1].b /\ new.upto = Upto(ask[a].rows[1])
  BY <1>1
<1>3. ask[a].step = "launch" /\ UNCHANGED <<bf, built>>
  BY DEF Lands
<1>4. CASE r # x
  <2>1. RunFate(r)
    BY <1>0, <1>2, <1>4 DEF RunFate, RunsShaped
  <2> QED
    BY <2>1, FateOk
<1>5. CASE r = x /\ ask[a].rows = <<>>
  BY <1>0, <1>2, <1>5 DEF RunOk, RunsShaped
<1>6. CASE r = x /\ ask[a].rows # <<>>
  <2> DEFINE row == ask[a].rows[1]
             keys == bf[row.b].keys
  <2>1. row \in Row /\ row.b \in Backfills
    BY <1>6, FirstRow DEF Row
  <2>2. AskOk(a)
    BY DEF Inv
  <2>3. Prefix(row.b, row.launched) /\ Chunk(row) \subseteq ask[a].plan
    BY <1>3, <1>6, <2>2 DEF AskOk
  <2>4. Begun(row.b)
    <3>1. 1 \in 1..Len(ask[a].rows)
      BY <1>6, FirstRow
    <3> QED
      BY <1>3, <2>2, <3>1 DEF AskOk, Holds, Current
  <2>5. /\ Limit[Filled] \in Nat \ {0} /\ Upto(row) \in Nat /\ row.launched \in Nat
        /\ Upto(row) <= row.launched + Limit[Filled]
    BY <2>1, ChunkEnds DEF Inv
  <2>6. ASSUME NEW i \in 1..Len(keys), i <= Upto(row)
        PROVE  keys[i] \in built[row.b] \/ <<Filled, keys[i]>> \in ask[a].plan
    <3>1. CASE i <= row.launched
      BY <2>3, <3>1 DEF Prefix
    <3>2. CASE ~(i <= row.launched)
      <4>1. i \in row.launched + 1 .. Upto(row)
        <5> HIDE DEF row, keys
        <5> QED
          BY <2>5, <2>6, <3>2
      <4>2. <<Filled, keys[i]>> \in Chunk(row)
        BY <4>1 DEF Chunk
      <4> QED
        BY <4>2, <2>3
    <3> QED
      BY <3>1, <3>2
  <2>7. ASSUME NEW i \in 1..Len(keys), i + Limit[Filled] <= Upto(row)
        PROVE  keys[i] \in built[row.b]
    <3>1. i <= row.launched
      <4> HIDE DEF row, keys
      <4> QED
        BY <2>5, <2>7
    <3> QED
      BY <2>3, <3>1 DEF Prefix
  <2>8. run'[r] = new
    BY <1>0, <1>2, <1>6 DEF RunsShaped
  <2>9. new.b = row.b /\ new.upto = Upto(row)
    BY <1>2, <1>6
  <2> HIDE DEF row, keys
  <2> QED
    BY <1>2, <1>3, <2>1, <2>4, <2>6, <2>7, <2>8, <2>9 DEF RunOk, Begun, Active, keys
<1> QED
  BY <1>4, <1>5, <1>6

(* A run that is still asked about is as it was. *)
LastRunNext(r, b, upto) == r \in Slots /\ run'[r].status # "absent" /\ run'[r].b = b /\ run'[r].upto = upto
LEMMA LastStays ==
    ASSUME Inv, [Next]_vars, NEW r, NEW b, NEW upto, LastRun(r, b, upto), Named(r)'
    PROVE  LastRunNext(r, b, upto)
<1>1. r \in Slots /\ run[r].status # "absent" /\ run[r].b = b /\ run[r].upto = upto
  BY DEF LastRun
<1>2. CASE \E a \in Askers : Lands(a)
  <2>1. PICK x \in Slots : run[x].status = "absent" /\ \E new : run' = [run EXCEPT ![x] = new]
    BY <1>2 DEF Lands
  <2>2. run'[r] = run[r]
    BY <1>1, <2>1 DEF Inv, Shaped, RunsShaped
  <2> QED
    BY <1>1, <2>2 DEF LastRunNext
<1>3. CASE ~\E a \in Askers : Lands(a)
  <2>1. RunFate(r)
    BY <1>1, <1>3, Fates
  <2> QED
    BY <1>1, <2>1 DEF RunFate, LastRunNext
<1> QED
  BY <1>2, <1>3

(* A backfill whose row keeps its last run is as sound as it was. *)
LEMMA BfStays ==
    ASSUME Inv, [Next]_vars, NEW b \in Backfills,
           bf'[b].last = bf[b].last, bf'[b].launched = bf[b].launched,
           bf'[b].status = "complete" =>
             Begun(b) /\ (bf[b].status = "complete" \/ Prefix(b, Len(bf[b].keys)))
    PROVE  BfOk(b)'
<1>1. BfOk(b)
  BY DEF Inv
<1>2. bf[b].last # NoRun => LastRunNext(bf[b].last, b, bf[b].launched)
  <2>1. ASSUME bf[b].last # NoRun PROVE LastRunNext(bf[b].last, b, bf[b].launched)
    <3>1. LastRun(bf[b].last, b, bf[b].launched)
      BY <1>1, <2>1 DEF BfOk
    <3>2. \E c \in Backfills : bf'[c].last = bf[b].last
      OBVIOUS
    <3>3. ASSUME NEW r, r = bf[b].last PROVE Named(r)'
      BY <3>2, <3>3 DEF Named
    <3>4. ASSUME NEW r, r = bf[b].last PROVE LastRunNext(r, b, bf[b].launched)
      BY <3>1, <3>3, <3>4, LastStays
    <3> QED
      BY <3>4
  <2> QED
    BY <2>1
<1>3. bf'[b].status = "complete" => PrefixNext(b, Len(bf[b].keys)) /\ bf'[b].keys = bf[b].keys
  <2>1. ASSUME bf'[b].status = "complete" PROVE PrefixNext(b, Len(bf[b].keys)) /\ bf'[b].keys = bf[b].keys
    <3>1. Begun(b) /\ Prefix(b, Len(bf[b].keys))
      BY <1>1, <2>1 DEF BfOk
    <3> QED
      BY <3>1, PrefixStays, StepGrows
  <2> QED
    BY <2>1
<1> QED
  BY <1>1, <1>2, <1>3 DEF BfOk, LastRun, LastRunNext, Prefix, PrefixNext

(* A row says what is so of its backfill. *)
LEMMA StepBf ==
    ASSUME Inv, [Next]_vars, NEW b \in Backfills
    PROVE  BfOk(b)'
<1>0. BfShaped /\ BfOk(b)
  BY DEF Inv, Shaped
<1>1. CASE UNCHANGED bf
  <2>1. bf'[b].status = "complete" => Begun(b) /\ bf[b].status = "complete"
    BY <1>1 DEF Begun
  <2> QED
    BY <1>1, <2>1, BfStays
<1>2. ASSUME NEW a \in Askers, Leaves(a), ~UNCHANGED bf
      PROVE  BfOk(b)'
  <2>1. PICK c \in Backfills : \E s \in {"complete", "failed", "canceled"} :
          bf' = Closed(c, s) /\ (s = "complete" => Prefix(c, Len(bf[c].keys)))
    BY <1>2 DEF Leaves
  <2>2. PICK s \in {"complete", "failed", "canceled"} :
          bf' = Closed(c, s) /\ (s = "complete" => Prefix(c, Len(bf[c].keys)))
    BY <2>1
  <2>3. bf' = bf \/ (bf[c].status = "running" /\ bf' = [bf EXCEPT ![c].status = s])
    BY <2>2 DEF Closed
  <2>4. /\ bf'[b].last = bf[b].last /\ bf'[b].launched = bf[b].launched
        /\ bf'[b].status = bf[b].status \/ (b = c /\ bf[b].status = "running" /\ bf'[b].status = s)
    BY <1>0, <2>3 DEF BfShaped
  <2>5. bf'[b].status = "complete" =>
          Begun(b) /\ (bf[b].status = "complete" \/ Prefix(b, Len(bf[b].keys)))
    BY <2>2, <2>4 DEF Begun
  <2> QED
    BY <2>4, <2>5, BfStays
<1>3. ASSUME NEW a \in Askers, Record(a)
      PROVE  BfOk(b)'
  <2> DEFINE row == ask[a].rows[1]
  <2>1. ask[a].step = "record" /\ AskOk(a)
    BY <1>3 DEF Record, Inv
  <2>2. ask[a].rows # <<>> /\ LastRun(ask[a].run, row.b, Upto(row))
    BY <2>1 DEF AskOk
  <2>3. row \in Row /\ row.b \in Backfills
    BY <2>2, FirstRow DEF Row
  <2>4. bf' = [bf EXCEPT ![row.b].launched = Upto(row), ![row.b].last = ask[a].run]
    BY <1>3 DEF Record
  <2>5. Begun(row.b)
    <3>1. 1 \in 1..Len(ask[a].rows)
      BY <2>2, FirstRow
    <3> QED
      BY <2>1, <3>1 DEF AskOk, Holds, Current
  <2>6. CASE b # row.b
    <3>1. bf'[b] = bf[b]
      <4> HIDE DEF row
      <4> QED
        BY <1>0, <2>3, <2>4, <2>6 DEF BfShaped
    <3>2. bf'[b].status = "complete" => Begun(b) /\ bf[b].status = "complete"
      BY <3>1 DEF Begun
    <3> QED
      BY <3>1, <3>2, BfStays
  <2>7. CASE b = row.b
    <3>1. /\ bf'[b].last = ask[a].run /\ bf'[b].launched = Upto(row)
          /\ bf'[b].status = bf[b].status /\ bf'[b].keys = bf[b].keys
      <4> HIDE DEF row
      <4> QED
        BY <1>0, <2>4, <2>7 DEF BfShaped
    <3>2. \E c \in Backfills : bf'[c].last = ask[a].run
      BY <3>1
    <3>3. ASSUME NEW r, r = ask[a].run PROVE LastRunNext(r, b, Upto(row)) /\ r # NoRun
      <4>1. Named(r)'
        BY <3>2, <3>3 DEF Named
      <4>2. LastRun(r, b, Upto(row)) /\ r # NoRun
        BY <2>2, <2>7, <3>3, BuildsAssumption DEF LastRun
      <4> HIDE DEF row
      <4> QED
        BY <4>1, <4>2, LastStays
    <3>4. bf[b].status = "complete" => PrefixNext(b, Len(bf[b].keys))
      <4>1. ASSUME bf[b].status = "complete" PROVE PrefixNext(b, Len(bf[b].keys))
        BY <1>0, <2>5, <2>7, <4>1, PrefixStays DEF BfOk
      <4> QED
        BY <4>1
    <3>5. LastRunNext(ask[a].run, b, Upto(row)) /\ ask[a].run # NoRun
      BY <3>3
    <3> HIDE DEF row
    <3> QED
      BY <3>1, <3>4, <3>5 DEF BfOk, LastRun, LastRunNext, Prefix, PrefixNext
  <2> QED
    BY <2>6, <2>7
<1>4. ASSUME NEW a \in Askers, NEW c \in Backfills, Create(a, c)
      PROVE  BfOk(b)'
  <2>1. PICK keys :
          bf' = [bf EXCEPT ![c] = [status |-> IF keys = <<>> THEN "complete" ELSE "running",
                                   keys |-> keys, launched |-> 0, last |-> NoRun]]
    BY <1>4 DEF Create
  <2>2. CASE b = c
    <3>1. /\ bf'[b].last = NoRun /\ bf'[b].launched = 0 /\ bf'[b].keys = keys
          /\ bf'[b].status = "complete" => keys = <<>>
      BY <1>0, <2>1, <2>2 DEF BfShaped
    <3>2. keys = <<>> => Len(keys) = 0
      OBVIOUS
    <3> QED
      BY <3>1, <3>2 DEF BfOk, Prefix
  <2>3. CASE b # c
    <3>1. bf'[b] = bf[b]
      BY <1>0, <2>1, <2>3 DEF BfShaped
    <3>2. bf'[b].status = "complete" => Begun(b) /\ bf[b].status = "complete"
      BY <3>1 DEF Begun
    <3> QED
      BY <3>1, <3>2, BfStays
  <2> QED
    BY <2>2, <2>3
<1>5. \/ UNCHANGED bf
      \/ \E a \in Askers : Leaves(a) \/ Record(a) \/ \E c \in Backfills : Create(a, c)
  BY StepMoves DEF AskerMoves, Plainly, Sends, Lands, Tick, CancelAsks, CancelReads, Turns, Finishes, Prune
<1> QED
  BY <1>1, <1>2, <1>3, <1>4, <1>5

-----------------------------------------------------------------------------
(* What a step does to what askers hold. *)

(* A row in hand is current unless its backfill moves on without it. *)
LEMMA AskStays ==
    ASSUME Inv, [Next]_vars, NEW c \in Askers, ask'[c] = ask[c],
           \A b \in Backfills :
             \/ bf'[b].launched = bf[b].launched /\ bf'[b].last = bf[b].last
             \/ ~Begun(b)
             \/ Holds(c) => \A i \in 1..Len(ask[c].rows) : ask[c].rows[i].b # b
    PROVE  AskOk(c)'
<1> DEFINE e == ask[c]
           first == e.rows[1]
<1>1. AskOk(c) /\ e.rows \in Seq(Row) /\ (e.rows # <<>> => first \in Row)
  <2>1. e.rows \in Seq(Row)
    BY DEF Inv, Shaped, AskShaped
  <2> QED
    BY <2>1 DEF Inv
<1>2. ASSUME Holds(c), NEW i \in 1..Len(e.rows)
      PROVE  /\ e.rows[i].b \in Backfills /\ Begun(e.rows[i].b)
             /\ bf'[e.rows[i].b].status # "unmade" /\ bf'[e.rows[i].b].keys = bf[e.rows[i].b].keys
             /\ e.rows[i].launched = bf'[e.rows[i].b].launched /\ e.rows[i].last = bf'[e.rows[i].b].last
  <2>0. e.rows[i] \in Row
    <3> HIDE DEF e
    <3> QED
      BY <1>1, <1>2
  <2>1. e.rows[i] \in Row /\ e.rows[i].b \in Backfills
    BY <2>0 DEF Row
  <2>2. Current(e.rows[i])
    BY <1>1, <1>2 DEF AskOk
  <2> HIDE DEF e
  <2> QED
    BY <1>2, <2>1, <2>2, StepGrows DEF Current, e
<1>3. ASSUME Holds(c), e.rows # <<>>
      PROVE  /\ bf'[first.b].keys = bf[first.b].keys /\ first \in Row
             /\ Prefix(first.b, first.launched) => PrefixNext(first.b, first.launched)
  <2>1. 1 \in 1..Len(e.rows)
    BY <1>1, <1>3
  <2>2. first.b \in Backfills /\ Begun(first.b) /\ bf'[first.b].keys = bf[first.b].keys
    BY <1>2, <1>3, <2>1
  <2> HIDE DEF first
  <2> QED
    BY <1>1, <1>3, <2>2, PrefixStays
<1>4. e.step = "record" => LastRunNext(e.run, first.b, Upto(first))
  <2>1. ASSUME e.step = "record" PROVE LastRunNext(e.run, first.b, Upto(first))
    <3>1. LastRun(e.run, first.b, Upto(first))
      BY <1>1, <2>1 DEF AskOk
    <3>2. ASSUME NEW r, r = e.run PROVE Named(r)'
      BY <3>2 DEF Named
    <3> HIDE DEF e, first
    <3>3. ASSUME NEW r, r = e.run PROVE LastRunNext(r, first.b, Upto(first))
      BY <3>1, <3>2, <3>3, LastStays
    <3> QED
      BY <3>3
  <2> QED
    BY <2>1
<1>5. CASE ~Holds(c)
  BY <1>1, <1>5 DEF AskOk, Holds
<1>6. CASE Holds(c)
  <2>1. \A i \in 1..Len(e.rows) : Current(e.rows[i])'
    <3> SUFFICES ASSUME NEW i \in 1..Len(e.rows) PROVE Current(e.rows[i])'
      OBVIOUS
    <3> QED
      BY <1>2, <1>6 DEF Current, Begun
  <2>2. /\ e.step = "create" => "start" \in Does[c]
        /\ e.step \in {"reread", "row", "record", "ask", "close"} => e.rows # <<>>
        /\ e.step = "reread" => Len(e.rows) = 1 /\ first.launched = 0
        /\ e.rows # <<>> => "tick" \in Does[c] \/ ("start" \in Does[c] /\ e.step # "row" /\ Len(e.rows) = 1)
        /\ \A i, j \in 1..Len(e.rows) : i # j => e.rows[i].b # e.rows[j].b
    BY <1>1, <1>6 DEF AskOk
  <2>3. e.step \in {"launch", "record"} /\ e.rows # <<>> => PrefixNext(first.b, first.launched)
    BY <1>1, <1>3, <1>6 DEF AskOk
  <2>4. e.rows # <<>> => Chunk(first)' = Chunk(first) /\ Upto(first)' = Upto(first)
    BY <1>3, <1>6 DEF Chunk, Upto
  <2>5. e.step = "launch" /\ e.rows # <<>> => Chunk(first)' \subseteq e.plan
    BY <1>1, <2>4 DEF AskOk
  <2>6. e.step = "record" => LastRunNext(e.run, first.b, Upto(first)')
    BY <1>4, <2>2, <2>4
  <2>7. e' = e /\ first' = first
    OBVIOUS
  <2> QED
    BY <2>1, <2>2, <2>3, <2>5, <2>6, <2>7 DEF AskOk, Holds, Prefix, PrefixNext, LastRun, LastRunNext
<1> QED
  BY <1>5, <1>6

(* What a step makes of one asker, and nothing of the others. *)
LEMMA BecomesIs ==
    ASSUME Shaped, NEW a \in Askers, NEW e, Becomes(a, e)
    PROVE  ask'[a] = e /\ \A c \in Askers \ {a} : ask'[c] = ask[c]
BY DEF Shaped, AskShaped, Becomes

(* Each move is one asker's. *)
LEMMA OthersKeep ==
    ASSUME Inv, NEW a \in Askers, AskerMoves(a), NEW c \in Askers, c # a
    PROVE  ask'[c] = ask[c]
<1>1. \E e : Becomes(a, e)
  BY DEF AskerMoves, Plainly, Sends, Leaves, Lands, Tick, CancelAsks, Record, Create, CancelReads
<1> QED
  BY <1>1, BecomesIs DEF Inv

(* What the others have in hand stays as it is. *)
LEMMA OthersOk ==
    ASSUME Inv, [Next]_vars, NEW a \in Askers, AskerMoves(a), NEW c \in Askers, c # a
    PROVE  AskOk(c)'
<1>0. BfShaped
  BY DEF Inv, Shaped
<1>1. ask'[c] = ask[c]
  BY OthersKeep
<1>2. CASE UNCHANGED bf
  BY <1>1, <1>2, AskStays
<1>3. CASE Leaves(a) /\ ~UNCHANGED bf
  <2>1. PICK b \in Backfills : \E s \in {"complete", "failed", "canceled"} : bf' = Closed(b, s)
    BY <1>3 DEF Leaves
  <2>2. \A x \in Backfills : bf'[x].launched = bf[x].launched /\ bf'[x].last = bf[x].last
    BY <1>0, <2>1 DEF Closed, BfShaped
  <2> QED
    BY <1>1, <2>2, AskStays
<1>4. CASE Record(a)
  <2> DEFINE row == ask[a].rows[1]
  <2>1. ask[a].step = "record" /\ ask[a].rows # <<>> /\ Holds(a)
    BY <1>4 DEF Record, Inv, AskOk, Holds
  <2>2. bf' = [bf EXCEPT ![row.b].launched = Upto(row), ![row.b].last = ask[a].run]
    BY <1>4 DEF Record
  <2>3. \A x \in Backfills : x # row.b => bf'[x] = bf[x]
    <3> HIDE DEF row
    <3> QED
      BY <1>0, <2>2 DEF BfShaped
  <2>4. 1 \in 1..Len(ask[a].rows)
    BY <2>1, FirstRow
  <2>5. Holds(c) => \A i \in 1..Len(ask[c].rows) : ask[c].rows[i].b # row.b
    BY <2>1, <2>4 DEF Inv, Apart
  <2> HIDE DEF row
  <2> QED
    BY <1>1, <2>3, <2>5, AskStays
<1>5. ASSUME NEW b \in Backfills, Create(a, b)
      PROVE  AskOk(c)'
  <2>1. ~Begun(b) /\ \A x \in Backfills : x # b => bf'[x] = bf[x]
    BY <1>0, <1>5 DEF Create, BfShaped, Begun
  <2> QED
    BY <1>1, <2>1, AskStays
<1> QED
  BY <1>2, <1>3, <1>4, <1>5 DEF AskerMoves, Plainly, Sends, Lands, Tick, CancelAsks, CancelReads

(* What is in hand after a row is done with are the others, as they were. *)
LEMMA NextRowOk ==
    ASSUME Inv, [Next]_vars, NEW a \in Askers, Holds(a), Becomes(a, NextRow(a)),
           \A b \in Backfills :
             \/ bf'[b].launched = bf[b].launched /\ bf'[b].last = bf[b].last
             \/ ask[a].rows # <<>> /\ ask[a].rows[1].b = b
    PROVE  AskOk(a)'
<1> DEFINE e == ask[a]
           rest == Tail(e.rows)
<1>1. ask'[a] = NextRow(a)
  BY BecomesIs DEF Inv
<1>2. CASE NextRow(a).step = "idle"
  BY <1>1, <1>2 DEF AskOk, Holds
<1>3. CASE NextRow(a).step = "row" /\ Len(e.rows) > 1 /\ NextRow(a).rows = rest
  <2>1. e.rows # <<>> /\ e.rows \in Seq(Row)
    BY <1>3 DEF Inv, Shaped, AskShaped
  <2>2. /\ Len(rest) = Len(e.rows) - 1 /\ Len(e.rows) \in Nat
        /\ \A i \in 1..Len(rest) : rest[i] = e.rows[i + 1]
    BY <2>1, FirstRow
  <2>3. \A i \in 1..Len(rest) : i + 1 \in 1..Len(e.rows) /\ i + 1 # 1 /\ 1 \in 1..Len(e.rows)
    <3> HIDE DEF rest, e
    <3> QED
      BY <2>2
  <2>4. /\ \A i \in 1..Len(e.rows) : Current(e.rows[i])
        /\ \A i, j \in 1..Len(e.rows) : i # j => e.rows[i].b # e.rows[j].b
        /\ "tick" \in Does[a]
    <3>1. AskOk(a)
      BY DEF Inv
    <3>2. Len(e.rows) # 1
      <4>1. \A n \in Nat : n > 1 => n # 1
        OBVIOUS
      <4> QED
        BY <1>3, <2>2, <4>1
    <3> QED
      BY <2>1, <3>1, <3>2 DEF AskOk
  <2>5. ASSUME NEW i \in 1..Len(rest)
        PROVE  /\ bf'[rest[i].b].status # "unmade"
               /\ rest[i].launched = bf'[rest[i].b].launched /\ rest[i].last = bf'[rest[i].b].last
    <3> DEFINE row == e.rows[i + 1]
    <3>1. rest[i] = row /\ Current(row) /\ row.b # e.rows[1].b
      BY <2>2, <2>3, <2>4
    <3>2. row \in Row
      <4>1. i + 1 \in 1..Len(e.rows)
        BY <2>3
      <4> HIDE DEF e
      <4> QED
        BY <2>1, <4>1
    <3>3. row.b \in Backfills
      BY <3>2 DEF Row
    <3> HIDE DEF row, e, rest
    <3> QED
      BY <3>1, <3>3, StepGrows DEF Current, e
  <2>6. \A i, j \in 1..Len(rest) : i # j => rest[i].b # rest[j].b
    <3> SUFFICES ASSUME NEW i \in 1..Len(rest), NEW j \in 1..Len(rest), i # j
                 PROVE  rest[i].b # rest[j].b
      OBVIOUS
    <3>1. rest[i] = e.rows[i + 1] /\ rest[j] = e.rows[j + 1] /\ i + 1 # j + 1
      <4> HIDE DEF rest, e
      <4> QED
        BY <2>2
    <3> QED
      BY <2>3, <2>4, <3>1
  <2>7. rest # <<>>
    <3>1. Len(rest) # 0
      <4> HIDE DEF rest, e
      <4> QED
        BY <1>3, <2>2
    <3>2. rest = <<>> => Len(rest) = Len(<<>>)
      <4> HIDE DEF rest
      <4> QED
        OBVIOUS
    <3>3. Len(<<>>) = 0
      OBVIOUS
    <3> HIDE DEF rest
    <3> QED
      BY <3>1, <3>2, <3>3
  <2> HIDE DEF rest, e
  <2> QED
    BY <1>1, <1>3, <2>4, <2>5, <2>6, <2>7 DEF AskOk, Holds, Current, Begun
<1> QED
  BY <1>2, <1>3, NextRowShaped DEF Inv

(* What it launched an asker is about to record, as it is. *)
LEMMA LandedOk ==
    ASSUME Inv, [Next]_vars, NEW a \in Askers, Lands(a)
    PROVE  AskOk(a)'
<1> DEFINE e == ask[a]
           first == e.rows[1]
<1>0. AskOk(a) /\ e.step = "launch" /\ UNCHANGED <<bf, built>> /\ RunsShaped
  BY DEF Lands, Inv, Shaped
<1>1. CASE e.rows = <<>>
  <2>1. ask'[a] = Idle
    BY <1>1, BecomesIs DEF Lands, Inv
  <2> QED
    BY <2>1 DEF AskOk, Holds, Idle
<1>2. CASE e.rows # <<>>
  <2>1. PICK r \in Slots :
          /\ \E new : /\ run' = [run EXCEPT ![r] = new] /\ new.status = "queued"
                      /\ new.b = first.b /\ new.upto = Upto(first)
          /\ Becomes(a, [e EXCEPT !.step = "record", !.run = r])
    BY <1>2 DEF Lands
  <2> DEFINE next == [e EXCEPT !.step = "record", !.run = r]
  <2>2. ask'[a] = next
    BY <2>1, BecomesIs DEF Inv
  <2>3. next.step = "record" /\ next.run = r /\ next.rows = e.rows
    BY DEF Inv, Shaped, AskShaped, AskFields
  <2> HIDE DEF next
  <2>4. ask'[a].step = "record" /\ ask'[a].run = r /\ ask'[a].rows = e.rows
    BY <2>2, <2>3
  <2>5. LastRunNext(r, first.b, Upto(first))
    BY <1>0, <2>1 DEF LastRunNext, RunsShaped
  <2>6. Prefix(first.b, first.launched) => PrefixNext(first.b, first.launched)
    BY <1>0 DEF Prefix, PrefixNext
  <2>7. \A i \in 1..Len(e.rows) : Current(e.rows[i]) =>
          /\ bf'[e.rows[i].b].status # "unmade"
          /\ e.rows[i].launched = bf'[e.rows[i].b].launched /\ e.rows[i].last = bf'[e.rows[i].b].last
    BY <1>0 DEF Current, Begun
  <2>8. /\ Prefix(first.b, first.launched)
        /\ "tick" \in Does[a] \/ ("start" \in Does[a] /\ Len(e.rows) = 1)
        /\ \A i \in 1..Len(e.rows) : Current(e.rows[i])
        /\ \A i, j \in 1..Len(e.rows) : i # j => e.rows[i].b # e.rows[j].b
    BY <1>0, <1>2 DEF AskOk, Holds
  <2>9. (Upto(ask[a].rows[1]))' = Upto(first)
    BY <1>0, <2>4 DEF Upto
  <2> HIDE DEF e
  <2>10. Prefix(ask[a].rows[1].b, ask[a].rows[1].launched)'
    BY <2>4, <2>6, <2>8 DEF Prefix, PrefixNext
  <2>11. LastRun(ask[a].run, ask[a].rows[1].b, Upto(ask[a].rows[1]))'
    BY <2>4, <2>5, <2>9 DEF LastRun, LastRunNext
  <2>12. (\A i \in 1..Len(ask[a].rows) : Current(ask[a].rows[i]))'
    BY <2>4, <2>7, <2>8 DEF Current, Begun
  <2>13. (\A i, j \in 1..Len(ask[a].rows) : i # j => ask[a].rows[i].b # ask[a].rows[j].b)'
    BY <2>4, <2>8
  <2> QED
    BY <1>2, <2>4, <2>8, <2>10, <2>11, <2>12, <2>13 DEF AskOk
<1> QED
  BY <1>1, <1>2

(* One that goes on to launch has its rows as it had them. *)
LEMMA SendsOk ==
    ASSUME Inv, [Next]_vars, NEW a \in Askers, Sends(a)
    PROVE  AskOk(a)'
<1>0. UNCHANGED <<run, bf, built>> /\ ask[a].rows # <<>> /\ ask[a].step \in {"reread", "row"} /\ AskOk(a)
  BY DEF Sends, Inv
<1>1. PICK e :
        /\ Becomes(a, e) /\ e.step = "launch" /\ e.rows \in Seq(Row) /\ Len(e.rows) = Len(ask[a].rows)
        /\ \A i \in 1..Len(e.rows) : e.rows[i] = ask[a].rows[i]
        /\ Chunk(ask[a].rows[1]) \subseteq e.plan
  BY DEF Sends
<1>2. ask'[a] = e
  BY <1>1, BecomesIs DEF Inv
<1>3. PICK first : first = ask[a].rows[1]
  OBVIOUS
<1>4. e.rows[1] = first /\ e.rows # <<>>
  <2>1. Len(ask[a].rows) >= 1 /\ Len(ask[a].rows) \in Nat
    BY <1>0, FirstRow
  <2>2. 1 \in 1..Len(e.rows) /\ Len(e.rows) # 0
    BY <1>1, <2>1
  <2>3. \A rows : rows = <<>> => Len(rows) = 0
    OBVIOUS
  <2> QED
    BY <1>1, <1>3, <2>2, <2>3
<1>5. /\ \A i \in 1..Len(e.rows) : Current(e.rows[i])
      /\ \A i, j \in 1..Len(e.rows) : i # j => e.rows[i].b # e.rows[j].b
      /\ "tick" \in Does[a] \/ ("start" \in Does[a] /\ Len(e.rows) = 1)
  BY <1>0, <1>1 DEF AskOk, Holds
<1>6. \A i \in 1..Len(e.rows) : Current(e.rows[i])'
  BY <1>0, <1>5 DEF Current, Begun
<1>7. PrefixNext(first.b, first.launched)
  BY <1>0, <1>3 DEF Sends, Prefix, PrefixNext
<1>8. Chunk(first)' \subseteq e.plan
  BY <1>0, <1>1, <1>3 DEF Chunk, Upto
<1>9. (Chunk(ask[a].rows[1]))' = Chunk(first)'
  BY <1>2, <1>4 DEF Chunk, Upto
<1> QED
  BY <1>1, <1>2, <1>4, <1>5, <1>6, <1>7, <1>8, <1>9 DEF AskOk, Holds, Current, Begun, Prefix, PrefixNext

(* A pass of the chunker has a row of each running backfill. *)
LEMMA TickRows ==
    ASSUME Inv, [Next]_vars, NEW a \in Askers, Tick(a)
    PROVE  /\ AskOk(a)' /\ UNCHANGED <<run, bf, built>>
           /\ ask'[a].step = "row"
<1> DEFINE running == {b \in Backfills : bf[b].status = "running"}
<1>0. UNCHANGED <<run, bf, built>> /\ "tick" \in Does[a] /\ running # {}
  BY DEF Tick, Free
<1>1. PICK bs \in InOrder(running) :
        Becomes(a, [Idle EXCEPT !.step = "row", !.rows = [i \in DOMAIN bs |-> RowOf(bs[i])]])
  BY DEF Tick
<1> DEFINE rows == [i \in DOMAIN bs |-> RowOf(bs[i])]
           e == [Idle EXCEPT !.step = "row", !.rows = rows]
<1>2. IsFiniteSet(running) /\ running \subseteq Backfills
  BY Numbered, FS_Subset
<1>3. /\ bs \in Seq(running) /\ Len(bs) = Cardinality(running) /\ Cardinality(running) # 0
      /\ \A i, j \in 1..Len(bs) : i < j => bs[i] < bs[j]
  <2> HIDE DEF running
  <2>1. Cardinality(running) # 0
    BY <1>0, <1>2, FS_EmptySet
  <2> QED
    BY <1>1, <1>2, <2>1, InOrderIs
<1>4. rows = [i \in 1..Len(bs) |-> RowOf(bs[i])] /\ Len(bs) \in Nat
  BY <1>3
<1>5. DOMAIN rows = 1..Len(bs) /\ Len(rows) = Len(bs) /\ rows # <<>>
  <2>1. DOMAIN rows = 1..Len(bs)
    BY <1>4
  <2>2. Len(rows) = Len(bs)
    BY <1>4
  <2>3. \A x : x = <<>> => Len(x) = 0
    OBVIOUS
  <2> HIDE DEF rows, running
  <2> QED
    BY <1>3, <2>1, <2>2, <2>3
<1>6. ASSUME NEW i \in 1..Len(rows)
      PROVE  rows[i].b = bs[i] /\ bs[i] \in Backfills /\ bs[i] \in Nat /\ Current(rows[i])
  <2>1. bs[i] \in running
    BY <1>3, <1>5, <1>6
  <2>2. rows[i] = RowOf(bs[i])
    BY <1>4, <1>5, <1>6
  <2>3. bs[i] \in Backfills /\ bs[i] \in Nat
    BY <1>2, <2>1, Numbered
  <2> HIDE DEF rows
  <2> QED
    BY <2>1, <2>2, <2>3 DEF RowOf, Current, Begun
<1>7. \A i, j \in 1..Len(rows) : i # j => rows[i].b # rows[j].b
  <2> SUFFICES ASSUME NEW i \in 1..Len(rows), NEW j \in 1..Len(rows), i # j
               PROVE  rows[i].b # rows[j].b
    OBVIOUS
  <2>1. bs[i] # bs[j]
    <3>1. i \in 1..Len(bs) /\ j \in 1..Len(bs) /\ bs[i] \in Nat /\ bs[j] \in Nat
      BY <1>5, <1>6
    <3>2. \/ i < j /\ bs[i] < bs[j]
          \/ j < i /\ bs[j] < bs[i]
      <4> HIDE DEF rows, running
      <4> QED
        BY <3>1, <1>3, <1>4
    <3> HIDE DEF rows, running
    <3> QED
      BY <3>1, <3>2
  <2> QED
    BY <1>6, <2>1
<1> HIDE DEF rows, running
<1>8. e.step = "row" /\ e.rows = rows
  BY DEF Idle
<1>9. ask'[a] = e
  BY <1>1, BecomesIs DEF rows, Inv
<1> HIDE DEF e
<1>10. \A i \in 1..Len(ask[a].rows)' : (Current(ask[a].rows[i]))'
  BY <1>0, <1>6, <1>8, <1>9 DEF Current, Begun
<1> QED
  BY <1>0, <1>5, <1>7, <1>8, <1>9, <1>10 DEF AskOk, Holds

(* A row that was just written is read back as it is. *)
LEMMA CreateRow ==
    ASSUME Inv, [Next]_vars, NEW a \in Askers, NEW b \in Backfills, Create(a, b)
    PROVE  /\ AskOk(a)' /\ UNCHANGED <<run, built>> /\ ~Begun(b)
           /\ \A i \in 1..Len(ask'[a].rows) : ask'[a].rows[i].b = b
           /\ ask'[a].step \in {"idle", "reread"} /\ (ask'[a].step = "idle" => ask'[a].rows = <<>>)
<1> DEFINE row == [b |-> b, launched |-> 0, last |-> NoRun]
           e == [Idle EXCEPT !.step = "reread", !.rows = <<row>>]
<1>0. UNCHANGED <<run, built>> /\ ~Begun(b) /\ ask[a].step = "create" /\ AskOk(a) /\ BfShaped
  BY DEF Create, Begun, Inv, Shaped
<1>1. PICK keys :
       /\ bf' = [bf EXCEPT ![b] = [status |-> IF keys = <<>> THEN "complete" ELSE "running",
                                   keys |-> keys, launched |-> 0, last |-> NoRun]]
       /\ IF keys = <<>> THEN Becomes(a, Idle)
          ELSE Becomes(a, [Idle EXCEPT !.step = "reread",
                                       !.rows = <<[b |-> b, launched |-> 0, last |-> NoRun]>>])
  BY DEF Create
<1>2. "start" \in Does[a]
  BY <1>0 DEF AskOk
<1>3. CASE keys = <<>>
  <2>1. ask'[a] = Idle
    BY <1>1, <1>3, BecomesIs DEF Inv
  <2> QED
    BY <1>0, <2>1 DEF AskOk, Holds, Idle
<1>4. CASE keys # <<>>
  <2>1. e.step = "reread" /\ e.rows = <<row>>
    BY DEF Idle
  <2>2. ask'[a] = e
    BY <1>1, <1>4, BecomesIs DEF Inv
  <2>3. bf'[b].status = "running" /\ bf'[b].launched = 0 /\ bf'[b].last = NoRun
    BY <1>0, <1>1, <1>4 DEF BfShaped
  <2>4. row.b = b /\ row.launched = 0 /\ row.last = NoRun
    OBVIOUS
  <2> HIDE DEF e, row
  <2>5. ask'[a].step = "reread" /\ ask'[a].rows = <<row>>
    BY <2>1, <2>2
  <2>6. Len(<<row>>) = 1 /\ <<row>>[1] = row /\ <<row>> # <<>> /\ \A i \in 1..1 : i = 1
    OBVIOUS
  <2>7. \A i \in 1..Len(<<row>>) : <<row>>[i] = row
    BY <2>6
  <2>8. (\A i \in 1..Len(ask[a].rows) : Current(ask[a].rows[i]))'
    BY <2>3, <2>4, <2>5, <2>7 DEF Current, Begun
  <2>9. (\A i, j \in 1..Len(ask[a].rows) : i # j => ask[a].rows[i].b # ask[a].rows[j].b)'
    BY <2>5, <2>6
  <2>10. ask'[a].rows[1].launched = 0 /\ Len(ask'[a].rows) = 1
    BY <2>4, <2>5, <2>6
  <2>11. ask'[a].rows # <<>>
    BY <2>5, <2>6
  <2>12. AskOk(a)'
    BY <1>2, <2>5, <2>8, <2>9, <2>10, <2>11 DEF AskOk, Holds
  <2> QED
    BY <1>0, <2>4, <2>5, <2>7, <2>12
<1> QED
  BY <1>3, <1>4

(* Every move leaves its asker with what is so. *)
LEMMA ActorOk ==
    ASSUME Inv, [Next]_vars, NEW a \in Askers, AskerMoves(a)
    PROVE  AskOk(a)'
<1>0. BfShaped /\ AskShaped /\ AskOk(a)
  BY DEF Inv, Shaped
<1>a. ASSUME ask'[a] = Idle PROVE AskOk(a)'
  BY <1>a DEF AskOk, Holds, Idle
<1>1. CASE Plainly(a)
  <2>1. PICK e :
         /\ Becomes(a, e)
         /\ \/ e.step \in {"idle", "write", "pass"}
            \/ e.step = "create" /\ "start" \in Does[a]
            \/ e.step = "launch" /\ e.rows = <<>>
    BY <1>1 DEF Plainly
  <2>2. ask'[a] = e
    BY <2>1, BecomesIs DEF Inv
  <2>3. \A i \in 1..Len(<<>>) : FALSE
    OBVIOUS
  <2>4. CASE e.step # "launch"
    BY <2>1, <2>2, <2>4 DEF AskOk, Holds
  <2>5. CASE e.step = "launch"
    BY <2>1, <2>2, <2>3, <2>5 DEF AskOk, Holds
  <2> QED
    BY <2>4, <2>5
<1>2. CASE Sends(a)
  BY <1>2, SendsOk
<1>3. CASE Leaves(a)
  <2>1. Becomes(a, Idle) \/ (Becomes(a, NextRow(a)) /\ Holds(a))
    BY <1>3 DEF Leaves
  <2>2. CASE Becomes(a, Idle)
    BY <1>a, <2>2, BecomesIs DEF Inv
  <2>3. CASE Becomes(a, NextRow(a)) /\ Holds(a)
    <3>1. \A x \in Backfills : bf'[x].launched = bf[x].launched /\ bf'[x].last = bf[x].last
      BY <1>0, <1>3 DEF Leaves, Closed, BfShaped
    <3> QED
      BY <2>3, <3>1, NextRowOk
  <2> QED
    BY <2>1, <2>2, <2>3
<1>4. CASE Lands(a)
  BY <1>4, LandedOk
<1>5. CASE Tick(a)
  BY <1>5, TickRows
<1>6. CASE CancelAsks(a)
  <2> DEFINE e == [ask[a] EXCEPT !.step = "close"]
  <2>1. e.step = "close" /\ e.rows = ask[a].rows
    BY <1>0 DEF AskShaped, AskFields
  <2>2. ask'[a] = e /\ ask[a].rows # <<>>
    BY <1>0, <1>6, BecomesIs DEF CancelAsks, AskOk, Inv
  <2> HIDE DEF e
  <2> QED
    BY <2>1, <2>2 DEF AskOk, Holds
<1>7. CASE Record(a)
  <2> DEFINE row == ask[a].rows[1]
  <2>1. ask[a].step = "record" /\ ask[a].rows # <<>> /\ Holds(a)
    BY <1>0, <1>7 DEF Record, AskOk, Holds
  <2>2. bf' = [bf EXCEPT ![row.b].launched = Upto(row), ![row.b].last = ask[a].run]
    BY <1>7 DEF Record
  <2>3. \A x \in Backfills : x # row.b => bf'[x] = bf[x]
    <3> HIDE DEF row
    <3> QED
      BY <1>0, <2>2 DEF BfShaped
  <2>4. Becomes(a, NextRow(a))
    BY <1>7 DEF Record
  <2> QED
    BY <2>1, <2>3, <2>4, NextRowOk
<1>8. ASSUME NEW b \in Backfills, Create(a, b) PROVE AskOk(a)'
  BY <1>8, CreateRow
<1>9. ASSUME NEW b \in Backfills, CancelReads(a, b) PROVE AskOk(a)'
  <2> DEFINE e == [Idle EXCEPT !.step = "ask", !.rows = <<RowOf(b)>>]
  <2>1. e.step = "ask" /\ e.rows # <<>>
    BY DEF Idle
  <2>2. ask'[a] = e
    BY <1>9, BecomesIs DEF CancelReads, Inv
  <2> HIDE DEF e
  <2> QED
    BY <2>1, <2>2 DEF AskOk, Holds
<1> QED
  BY <1>1, <1>2, <1>3, <1>4, <1>5, <1>6, <1>7, <1>8, <1>9 DEF AskerMoves

(* So what every asker has in hand is as it says. *)
LEMMA StepAsk ==
    ASSUME Inv, [Next]_vars, NEW c \in Askers
    PROVE  AskOk(c)'
<1>1. ASSUME NEW a \in Askers, AskerMoves(a) PROVE AskOk(c)'
  BY <1>1, ActorOk, OthersOk
<1>2. CASE UNCHANGED <<ask, bf>>
  BY <1>2, AskStays
<1>3. ASSUME NEW r \in Slots, Turns(r) \/ Finishes(r) \/ Prune(r) PROVE UNCHANGED <<ask, bf>>
  BY <1>3 DEF Turns, Finishes, Prune
<1> QED
  BY StepMoves, <1>1, <1>2, <1>3

(* And every run about its backfill. *)
LEMMA StepRun ==
    ASSUME Inv, [Next]_vars, NEW r \in Slots
    PROVE  RunOk(r)'
BY LandsOk, Fates, FateOk

-----------------------------------------------------------------------------
(* Nobody takes in hand a backfill that another has: a start takes one that*)
(* nobody knew, and the chunker, of which there is one, takes those there  *)
(* are when no start has one. *)
OneChunker == \A a, c \in Askers : "tick" \in Does[a] /\ "tick" \in Does[c] => a = c

(* What an asker has in hand it had, but for these two. *)
Kept(a) ==
    (Holds(a) => ask[a].rows = <<>>)' \/
    (Holds(a) /\ \A i \in 1..Len(ask'[a].rows) : \E j \in 1..Len(ask[a].rows) :
                   ask'[a].rows[i].b = ask[a].rows[j].b)
LEMMA Hands ==
    ASSUME Inv, [Next]_vars, NEW a \in Askers, AskerMoves(a)
    PROVE  Kept(a) \/ Tick(a) \/ \E b \in Backfills : Create(a, b)
<1>0. AskShaped /\ AskOk(a)
  BY DEF Inv, Shaped
<1>1. CASE Plainly(a)
  <2>1. PICK e : Becomes(a, e) /\ (e.step \in {"idle", "write", "pass", "create"} \/ e.rows = <<>>)
    BY <1>1 DEF Plainly
  <2>2. ask'[a] = e
    BY <2>1, BecomesIs DEF Inv
  <2> QED
    BY <2>1, <2>2 DEF Kept, Holds
<1>2. CASE Sends(a)
  <2>1. PICK e : /\ Becomes(a, e) /\ Len(e.rows) = Len(ask[a].rows)
                 /\ \A i \in 1..Len(e.rows) : e.rows[i] = ask[a].rows[i]
    BY <1>2 DEF Sends
  <2>2. ask'[a] = e /\ Holds(a)
    BY <1>2, <2>1, BecomesIs DEF Inv, Sends, Holds
  <2> QED
    BY <2>1, <2>2 DEF Kept
<1>3. CASE Becomes(a, Idle)
  BY <1>3, BecomesIs DEF Kept, Holds, Idle, Inv
<1>4. CASE Becomes(a, NextRow(a)) /\ Holds(a)
  <2>1. ask'[a] = NextRow(a)
    BY <1>4, BecomesIs DEF Inv
  <2>2. CASE NextRow(a).rows = <<>>
    BY <2>1, <2>2 DEF Kept
  <2>3. CASE Len(ask[a].rows) > 1 /\ NextRow(a).rows = Tail(ask[a].rows)
    <3>1. ask[a].rows # <<>>
      BY <2>3 DEF Inv, Shaped, AskShaped
    <3>2. /\ Len(Tail(ask[a].rows)) = Len(ask[a].rows) - 1 /\ Len(ask[a].rows) \in Nat
          /\ \A i \in 1..Len(Tail(ask[a].rows)) : Tail(ask[a].rows)[i] = ask[a].rows[i + 1]
      BY <3>1, FirstRow
    <3>3. \A m, n \in Nat : n = m - 1 => \A i \in 1..n : i + 1 \in 1..m
      OBVIOUS
    <3>4. \A i \in 1..Len(Tail(ask[a].rows)) : i + 1 \in 1..Len(ask[a].rows)
      <4>1. Len(Tail(ask[a].rows)) \in Nat
        BY <2>3, <3>2
      <4> QED
        BY <3>2, <3>3, <4>1
    <3> QED
      BY <1>4, <2>1, <2>3, <3>2, <3>4 DEF Kept
  <2> QED
    BY <2>2, <2>3, NextRowShaped DEF Inv
<1>5. CASE Lands(a) /\ ~Becomes(a, Idle)
  <2>1. PICK r : Becomes(a, [ask[a] EXCEPT !.step = "record", !.run = r])
    BY <1>5 DEF Lands
  <2> DEFINE e == [ask[a] EXCEPT !.step = "record", !.run = r]
  <2>2. e.rows = ask[a].rows
    BY <1>0 DEF AskShaped, AskFields
  <2>3. ask'[a] = e /\ Holds(a)
    BY <1>5, <2>1, BecomesIs DEF Inv, Lands, Holds
  <2> HIDE DEF e
  <2> QED
    BY <2>2, <2>3 DEF Kept
<1>6. CASE CancelAsks(a)
  <2> DEFINE e == [ask[a] EXCEPT !.step = "close"]
  <2>1. e.step = "close" /\ ask'[a] = e
    BY <1>0, <1>6, BecomesIs DEF CancelAsks, AskShaped, AskFields, Inv
  <2> HIDE DEF e
  <2> QED
    BY <2>1 DEF Kept, Holds
<1>7. ASSUME NEW b \in Backfills, CancelReads(a, b) PROVE Kept(a)
  <2> DEFINE e == [Idle EXCEPT !.step = "ask", !.rows = <<RowOf(b)>>]
  <2>1. e.step = "ask" /\ ask'[a] = e
    BY <1>7, BecomesIs DEF CancelReads, Inv, Idle
  <2> HIDE DEF e
  <2> QED
    BY <2>1 DEF Kept, Holds
<1>8. CASE Record(a)
  <2>1. Holds(a) /\ Becomes(a, NextRow(a))
    BY <1>8 DEF Record, Holds
  <2> QED
    BY <1>4, <2>1
<1> QED
  BY <1>1, <1>2, <1>3, <1>4, <1>5, <1>6, <1>7, <1>8 DEF AskerMoves, Leaves, Lands

(* So the asker that moves ends up with nothing of another's. *)
LEMMA HandsApart ==
    ASSUME Inv, [Next]_vars, Slow = FALSE, OneChunker, NEW a \in Askers, AskerMoves(a),
           NEW c \in Askers, c # a
    PROVE  /\ (Holds(a) /\ Holds(c))' =>
                \A i \in 1..Len(ask'[a].rows), j \in 1..Len(ask'[c].rows) :
                  ask'[a].rows[i].b # ask'[c].rows[j].b
<1> SUFFICES ASSUME Holds(a)', Holds(c)', NEW i \in 1..Len(ask'[a].rows), NEW j \in 1..Len(ask'[c].rows)
             PROVE  ask'[a].rows[i].b # ask'[c].rows[j].b
  OBVIOUS
<1>1. ask'[c] = ask[c] /\ Holds(c) /\ AskOk(c)
  BY OthersKeep DEF Inv, Holds
<1>2. ask[c].rows # <<>> /\ ask[c].rows \in Seq(Row)
  <2>1. \A k \in 1..Len(<<>>) : FALSE
    OBVIOUS
  <2> QED
    BY <1>1, <2>1 DEF Inv, Shaped, AskShaped
<1>3. CASE Kept(a)
  <2>1. ask'[a].rows # <<>>
    <3>1. \A k \in 1..Len(<<>>) : FALSE
      OBVIOUS
    <3> QED
      BY <3>1
  <2>2. Holds(a) /\ \E k \in 1..Len(ask[a].rows) : ask'[a].rows[i].b = ask[a].rows[k].b
    BY <1>3, <2>1 DEF Kept
  <2> QED
    BY <1>1, <2>2 DEF Inv, Apart
<1>4. CASE Tick(a)
  <2>1. ~Starting /\ "tick" \in Does[a]
    BY <1>4 DEF Tick, Free
  <2>2. "tick" \notin Does[c]
    BY <2>1 DEF OneChunker
  <2> QED
    BY <1>1, <1>2, <2>1, <2>2 DEF AskOk, Holds, Starting
<1>5. ASSUME NEW b \in Backfills, Create(a, b)
      PROVE  ask'[a].rows[i].b # ask'[c].rows[j].b
  <2>1. ask'[a].rows[i].b = b /\ ~Begun(b)
    BY <1>5, CreateRow
  <2>2. Begun(ask[c].rows[j].b)
    BY <1>1 DEF AskOk, Current
  <2> QED
    BY <1>1, <2>1, <2>2
<1> QED
  BY <1>3, <1>4, <1>5, Hands

(* Nor does anybody. *)
LEMMA StepApart ==
    ASSUME Inv, [Next]_vars, Slow = FALSE, OneChunker
    PROVE  Apart'
<1>1. CASE UNCHANGED ask
  BY <1>1 DEF Inv, Apart, Holds
<1>2. ASSUME NEW a \in Askers, AskerMoves(a) PROVE Apart'
  <2> SUFFICES ASSUME NEW c \in Askers, NEW d \in Askers, c # d, Holds(c)', Holds(d)',
                      NEW i \in 1..Len(ask'[c].rows), NEW j \in 1..Len(ask'[d].rows)
               PROVE  ask'[c].rows[i].b # ask'[d].rows[j].b
    BY DEF Apart
  <2>1. CASE c = a
    BY <1>2, <2>1, HandsApart
  <2>2. CASE d = a
    BY <1>2, <2>2, HandsApart
  <2>3. CASE c # a /\ d # a
    <3>1. ask'[c] = ask[c] /\ ask'[d] = ask[d]
      BY <1>2, <2>3, OthersKeep
    <3> QED
      BY <3>1 DEF Inv, Apart, Holds
  <2> QED
    BY <2>1, <2>2, <2>3
<1>3. ASSUME NEW r \in Slots, Turns(r) \/ Finishes(r) \/ Prune(r) PROVE UNCHANGED ask
  BY <1>3 DEF Turns, Finishes, Prune
<1> QED
  BY StepMoves, <1>1, <1>2, <1>3

-----------------------------------------------------------------------------
(* It all holds at first. *)
LEMMA InitInv == Init => Inv
<1> SUFFICES ASSUME Init PROVE Inv
  OBVIOUS
<1>1. DOMAIN Absent = RunFields /\ Absent.upto = 0 /\ Absent.status = "absent" /\ Absent.b = 0
  BY DEF Absent, RunFields
<1>2. DOMAIN Idle = AskFields /\ Idle.rows = <<>> /\ Idle.rows \in Seq(Row) /\ Idle.run = NoRun /\ Idle.step = "idle"
  BY DEF Idle, AskFields
<1>3. Unmade \in [status : BfStatus, keys : Seq(Nat), launched : Nat, last : Slots \cup {NoRun}]
  BY DEF Unmade, BfStatus
<1>4. Unmade.status = "unmade" /\ Unmade.last = NoRun /\ Unmade.launched = 0
  BY DEF Unmade
<1> HIDE DEF Absent, Idle, Unmade
<1>5. Shaped
  <2>1. RunsShaped
    BY <1>1 DEF Init, RunsShaped, RunStatus
  <2>2. BfShaped
    BY <1>3 DEF Init, BfShaped
  <2>3. AskShaped
    BY <1>2 DEF Init, AskShaped
  <2> QED
    BY <2>1, <2>2, <2>3 DEF Init, Shaped
<1>6. Apart
  BY <1>2 DEF Init, Apart, Holds
<1>7. \A r \in Slots : RunOk(r)
  BY <1>1 DEF Init, RunOk
<1>8. \A b \in Backfills : BfOk(b)
  BY <1>4 DEF Init, BfOk
<1>9. \A a \in Askers : AskOk(a)
  BY <1>2 DEF Init, AskOk, Holds
<1> QED
  BY <1>5, <1>6, <1>7, <1>8, <1>9 DEF Inv

(* The backfills, the runs that build their chunks and what is in hand of  *)
(* them agree for ever, when no start is overtaken and there is one        *)
(* chunker. *)
THEOREM BackfillsAgree ==
    ASSUME Slow = FALSE, OneChunker
    PROVE  Spec => []Inv
<1>1. Inv /\ [Next]_vars => Inv'
  <2> SUFFICES ASSUME Inv, [Next]_vars PROVE Inv'
    OBVIOUS
  <2> QED
    BY StepShaped, StepApart, StepRun, StepBf, StepAsk DEF Inv
<1> QED
  BY <1>1, InitInv, PTL DEF Spec

(* A backfill that is complete has built every key it was asked for,       *)
(* whatever became of its runs (backfill.rs, tick and launch_next).        *)
THEOREM BackfillCompletes ==
    ASSUME Slow = FALSE, OneChunker
    PROVE  Spec => []CompleteMeansBuilt
<1>1. Inv => CompleteMeansBuilt
  <2> SUFFICES ASSUME Inv, NEW b \in Backfills, bf[b].status = "complete", NEW i \in DOMAIN bf[b].keys
               PROVE  bf[b].keys[i] \in built[b]
    BY DEF CompleteMeansBuilt
  <2>1. bf[b].keys \in Seq(Nat)
    BY DEF Inv, Shaped, BfShaped
  <2>2. i \in 1..Len(bf[b].keys) /\ i <= Len(bf[b].keys)
    BY <2>1
  <2> QED
    BY <2>2 DEF Inv, BfOk, Prefix
<1> QED
  BY <1>1, BackfillsAgree, PTL

(* A chunk is out only when the keys before it have been built             *)
(* (backfill.rs, tick: one chunk at a time). *)
THEOREM BackfillInOrder ==
    ASSUME Slow = FALSE, OneChunker
    PROVE  Spec => []ChunksInOrder
<1>1. Inv => ChunksInOrder
  <2> SUFFICES ASSUME Inv, NEW r \in Slots, Active(r), run[r].b # 0, NEW i \in DOMAIN bf[run[r].b].keys,
                      i + Limit[Filled] <= run[r].upto
               PROVE  bf[run[r].b].keys[i] \in built[run[r].b]
    BY DEF ChunksInOrder
  <2>1. RunOk(r)
    BY DEF Inv
  <2>2. bf[run[r].b].keys \in Seq(Nat)
    BY <2>1 DEF RunOk, Inv, Shaped, BfShaped
  <2>3. i \in 1..Len(bf[run[r].b].keys)
    BY <2>2
  <2> QED
    BY <2>1, <2>3 DEF RunOk
<1> QED
  BY <1>1, BackfillsAgree, PTL

-----------------------------------------------------------------------------
(* That two builds never meet needs none of that: no hypothesis, and of    *)
(* the invariant only what a run is. *)
Table == DOMAIN run = Slots /\ \A r \in Slots : DOMAIN run[r] = RunFields

(* A run that goes on builds what it built. *)
Same(r) ==
    DOMAIN run'[r] = RunFields /\
    (Working(run'[r].status) =>
       Active(r) /\ run'[r].builds = run[r].builds /\ run'[r].bounded = run[r].bounded)

(* A run that ended builds nothing more. *)
LEMMA OverIs ==
    ASSUME NEW r, NEW s \in Ended
    PROVE  DOMAIN Over(r, s) = RunFields /\ ~Working(Over(r, s).status) /\ Over(r, s).status = s
BY DEF Over, Absent, RunFields, Working, Ended

(* Nor does one that is forgotten. *)
LEMMA KeepsSame ==
    ASSUME Table, NEW runs, Keeps(runs), NEW r \in Slots, DOMAIN runs[r] = RunFields,
           Working(runs[r].status) =>
             Active(r) /\ runs[r].builds = run[r].builds /\ runs[r].bounded = run[r].bounded
    PROVE  DOMAIN run' = Slots /\ Same(r)
<1>1. DOMAIN Absent = RunFields /\ ~Working(Absent.status)
  BY DEF Absent, RunFields, Working
<1>2. DOMAIN run' = Slots /\ (run'[r] = Absent \/ run'[r] = runs[r])
  BY DEF Keeps
<1> HIDE DEF Absent
<1> QED
  BY <1>1, <1>2 DEF Same

(* What a step that launches nothing makes of the runs. *)
Changes ==
    \/ UNCHANGED run \/ Keeps(run)
    \/ \E x : \E s \in Ended : run' = [run EXCEPT ![x] = Over(x, s)] \/ Keeps([run EXCEPT ![x] = Over(x, s)])
    \/ \E x : run[x].status = "queued" /\ run' = [run EXCEPT ![x].status = "running"]
    \/ \E x : run' = [run EXCEPT ![x].asked = TRUE]
    \/ \E x, took : run' = [run EXCEPT ![x].took = took]
    \/ \E x, done : run' = [run EXCEPT ![x].done = done]
LEMMA StepChanges ==
    ASSUME [Next]_vars, ~\E a \in up : Launch(a)
    PROVE  Changes
<1>1. ASSUME NEW a \in up, Asks(a) \/ Die(a), ~Launch(a) PROVE Changes
  <2>1. CASE CancelAsks(a)
    <3>1. "canceled" \in Ended
      BY DEF Ended
    <3> QED
      BY <2>1, <3>1 DEF CancelAsks, Changes
  <2>2. CASE \/ \E s \in Sources : See(a, s)
             \/ ProbeWrites(a) \/ ProbePass(a) \/ PolicyPass(a)
             \/ \E t \in Assets : Request(a, t) \/ RequestWhole(a, t)
             \/ \E n \in Derived : RequestKey(a, n)
             \/ RequestAll(a)
    BY <2>2 DEF See, ProbeWrites, ProbePass, PolicyPass, PassOver, Request, RequestWhole,
       RequestKey, RequestAll, Changes
  <2>3. CASE Start(a) \/ Tick(a) \/ (\E b \in Backfills : Create(a, b) \/ CancelReads(a, b))
    BY <2>3 DEF Start, Tick, Create, CancelReads, Changes
  <2>4. CASE Reread(a) \/ Judge(a)
    BY <2>4 DEF Reread, Judge, SendNext, Changes
  <2>5. CASE CancelCloses(a) \/ Record(a) \/ Die(a)
    BY <2>5 DEF CancelCloses, Record, Die, Changes
  <2> QED
    BY <1>1, <2>1, <2>2, <2>3, <2>4, <2>5 DEF Asks
<1>2. ASSUME NEW r \in Slots, Works(r) \/ Fails(r) \/ Prune(r) PROVE Changes
  <2>1. {"success", "failed", "canceled", "gone"} \subseteq Ended
    BY DEF Ended
  <2>2. CASE Succeeds(r) \/ Fails(r) \/ IsCanceled(r) \/ Prune(r)
    BY <2>1, <2>2 DEF Succeeds, Fails, IsCanceled, Prune, Ends, Changes
  <2>3. CASE Begin(r)
    BY <2>3 DEF Begin, Changes
  <2>4. ASSUME NEW n \in Derived, Build(r, n) \/ \E d \in Reads[n] : Capture(r, n, d) PROVE Changes
    BY <2>4 DEF Build, Capture, Changes
  <2> QED
    BY <1>2, <2>2, <2>3, <2>4 DEF Works
<1>3. CASE UNCHANGED vars \/ \E s \in Sources : Move(s)
  BY <1>3 DEF vars, Move, Changes
<1> QED
  BY <1>1, <1>2, <1>3 DEF Next

(* Only a launch changes who builds what. *)
LEMMA OnlyLaunches ==
    ASSUME Table, Changes, NEW r \in Slots
    PROVE  DOMAIN run' = Slots /\ Same(r)
<1>0. DOMAIN run = Slots /\ DOMAIN run[r] = RunFields
  BY DEF Table
<1>1. CASE UNCHANGED run
  BY <1>0, <1>1 DEF Same, Working, Active
<1>2. CASE Keeps(run)
  BY <1>0, <1>2, KeepsSame DEF Working, Active
<1>3. ASSUME NEW x, NEW s \in Ended,
             run' = [run EXCEPT ![x] = Over(x, s)] \/ Keeps([run EXCEPT ![x] = Over(x, s)])
      PROVE  DOMAIN run' = Slots /\ Same(r)
  <2> DEFINE runs == [run EXCEPT ![x] = Over(x, s)]
  <2>1. DOMAIN runs = Slots /\ (runs[r] = run[r] \/ runs[r] = Over(x, s))
    BY <1>0
  <2> HIDE DEF runs
  <2>2. /\ DOMAIN runs[r] = RunFields
        /\ Working(runs[r].status) =>
             Active(r) /\ runs[r].builds = run[r].builds /\ runs[r].bounded = run[r].bounded
    BY <1>0, <2>1, OverIs DEF Working, Active
  <2>3. run' = runs \/ Keeps(runs)
    BY <1>3 DEF runs
  <2> QED
    BY <2>1, <2>2, <2>3, KeepsSame DEF Same
<1>4. ASSUME NEW x, run[x].status = "queued", run' = [run EXCEPT ![x].status = "running"]
      PROVE  DOMAIN run' = Slots /\ Same(r)
  BY <1>0, <1>4 DEF Same, Working, Active, RunFields
<1>5. ASSUME NEW x, run' = [run EXCEPT ![x].asked = TRUE]
      PROVE  DOMAIN run' = Slots /\ Same(r)
  BY <1>0, <1>5 DEF Same, Working, Active, RunFields
<1>6. ASSUME NEW x, NEW took, run' = [run EXCEPT ![x].took = took]
      PROVE  DOMAIN run' = Slots /\ Same(r)
  BY <1>0, <1>6 DEF Same, Working, Active, RunFields
<1>7. ASSUME NEW x, NEW done, run' = [run EXCEPT ![x].done = done]
      PROVE  DOMAIN run' = Slots /\ Same(r)
  BY <1>0, <1>7 DEF Same, Working, Active, RunFields
<1> QED
  BY <1>1, <1>2, <1>3, <1>4, <1>5, <1>6, <1>7 DEF Changes

(* And a launch that says what it builds meets nobody. *)
LEMMA LaunchIs ==
    ASSUME NEW a, Launch(a)
    PROVE  \/ Keeps(run)
           \/ \E x \in Slots : \E new :
                /\ run[x].status = "absent" /\ run' = [run EXCEPT ![x] = new] /\ DOMAIN new = RunFields
                /\ new.bounded => Overlaps(new.builds) = {}
<1> DEFINE r == CHOOSE x \in Slots : run[x].status = "absent"
           rows == ask[a].rows
           new == [Absent EXCEPT !.status = "queued", !.builds = ask[a].plan, !.bounded = ask[a].bounded,
                                 !.b = IF rows = <<>> THEN 0 ELSE rows[1].b,
                                 !.upto = IF rows = <<>> THEN 0 ELSE Upto(rows[1])]
<1>1. CASE ~Keeps(run)
  <2>1. /\ ask[a].bounded => Overlaps(ask[a].plan) = {}
        /\ \E x \in Slots : run[x].status = "absent"
        /\ run' = [run EXCEPT ![r] = new]
    BY <1>1 DEF Launch
  <2>2. r \in Slots /\ run[r].status = "absent"
    BY <2>1
  <2>3. DOMAIN new = RunFields /\ new.builds = ask[a].plan /\ new.bounded = ask[a].bounded
    BY DEF Absent, RunFields
  <2> HIDE DEF r, new
  <2> QED
    BY <2>1, <2>2, <2>3
<1> QED
  BY <1>1

(* No two runs that say what they build build the same key, whoever asked  *)
(* for them and however (store.rs, the scan of create_run_keyed). *)
THEOREM BuildersApart == Spec => []OneBuilder
<1> DEFINE Safe == Table /\ OneBuilder
<1>1. Init => Safe
  <2>1. DOMAIN Absent = RunFields /\ Absent.status = "absent"
    BY DEF Absent, RunFields
  <2> HIDE DEF Absent
  <2> QED
    BY <2>1 DEF Init, Table, OneBuilder, Active
<1>2. Safe /\ [Next]_vars => Safe'
  <2> SUFFICES ASSUME Table, OneBuilder, [Next]_vars PROVE Table' /\ OneBuilder'
    OBVIOUS
  <2>1. CASE Changes \/ Keeps(run)
    <3>0. Changes
      BY <2>1 DEF Changes
    <3>1. DOMAIN run' = Slots
      BY <3>0 DEF Changes, Keeps, Table
    <3>2. \A r \in Slots : Same(r)
      BY <3>0, OnlyLaunches
    <3> QED
      BY <3>1, <3>2 DEF Same, Working, Active, Table, OneBuilder
  <2>2. ASSUME NEW x \in Slots, NEW new, run[x].status = "absent", run' = [run EXCEPT ![x] = new],
               DOMAIN new = RunFields, new.bounded => Overlaps(new.builds) = {}
        PROVE  Table' /\ OneBuilder'
    <3>1. Table'
      BY <2>2 DEF Table
    <3>2. \A r \in Slots : run'[r] = IF r = x THEN new ELSE run[r]
      BY <2>2 DEF Table
    <3>3. ASSUME NEW r \in Slots, r # x, Active(r), run[r].bounded, new.bounded
          PROVE  run[r].builds \cap new.builds = {}
      BY <2>2, <3>3 DEF Overlaps
    <3> QED
      BY <3>1, <3>2, <3>3 DEF Active, OneBuilder
  <2> QED
    BY <2>1, <2>2, StepChanges, LaunchIs
<1>3. Safe => OneBuilder
  OBVIOUS
<1> HIDE DEF Safe
<1> QED
  BY <1>1, <1>2, <1>3, PTL DEF Spec

-----------------------------------------------------------------------------
(* The graph of the nodes.  Any set of them has one that reads none of the *)
(* others, for the assets have no cycle. *)
LEMMA FirstNode ==
    ASSUME NEW T \in SUBSET Nodes, T # {}
    PROVE  \E n \in T : Reads[n] \cap T = {}
<1> DEFINE S == {n[1] : n \in T}
<1>1. \A n \in Nodes : n[1] \in Sources \cup Assets /\ n \in NodesOf(n[1])
  BY DEF Nodes, NodesOf
<1>2. S \in SUBSET (Sources \cup Assets) /\ S # {}
  BY <1>1
<1>3. PICK a \in S : DepsOf[a] \cap S = {}
  <2> HIDE DEF S
  <2> QED
    BY <1>2, AssetsAssumption DEF AcyclicAssets
<1>4. PICK n \in T : n[1] = a
  BY <1>3
<1>5. ASSUME NEW d \in Reads[n], d \in T PROVE FALSE
  <2>1. d[1] \in S
    BY <1>5
  <2>2. d[1] \in DepsOf[a]
    BY <1>1, <1>2, <1>4, <1>5 DEF DepsOf
  <2> QED
    BY <2>1, <2>2, <1>3
<1> QED
  BY <1>4, <1>5

(* What a table would hold if everything were built of the sources it has. *)
Valued(m, g) ==
    g = [n \in Nodes |-> IF n \in Derived THEN Compute[n][[d \in Reads[n] |-> g[d]]] ELSE m[n].fp]

(* Such a table of some nodes, of which no more is read. *)
ValuedOn(m, D, g) ==
    /\ D \subseteq Nodes /\ \A n \in D : Reads[n] \subseteq D
    /\ g = [n \in D |-> IF n \in Derived THEN Compute[n][[d \in Reads[n] |-> g[d]]] ELSE m[n].fp]

(* Two of them agree where they meet. *)
LEMMA ValuedAgree ==
    ASSUME NEW m, NEW D, NEW g, ValuedOn(m, D, g), NEW E, NEW h, ValuedOn(m, E, h),
           NEW x \in D \cap E
    PROVE  g[x] = h[x]
<1> DEFINE T == {n \in D \cap E : g[n] # h[n]}
<1>1. SUFFICES ASSUME T # {} PROVE FALSE
  OBVIOUS
<1>2. T \in SUBSET Nodes
  BY DEF ValuedOn
<1>3. PICK n \in T : Reads[n] \cap T = {}
  <2> HIDE DEF T
  <2> QED
    BY <1>1, <1>2, FirstNode
<1>4. n \in D /\ n \in E /\ g[n] # h[n]
  BY <1>3
<1>5. \A d \in Reads[n] : g[d] = h[d]
  BY <1>3, <1>4 DEF ValuedOn
<1>6. /\ g[n] = IF n \in Derived THEN Compute[n][[d \in Reads[n] |-> g[d]]] ELSE m[n].fp
      /\ h[n] = IF n \in Derived THEN Compute[n][[d \in Reads[n] |-> h[d]]] ELSE m[n].fp
  BY <1>4 DEF ValuedOn
<1>7. [d \in Reads[n] |-> g[d]] = [d \in Reads[n] |-> h[d]]
  BY <1>5
<1> QED
  BY <1>4, <1>6, <1>7

(* There is one of all nodes: what the nodes that have one have is one, and*)
(* a first node that had none could be added to it. *)
LEMMA ValuedExists ==
    ASSUME NEW m
    PROVE  \E g : Valued(m, g)
<1> DEFINE Has(n) == \E D : n \in D /\ \E g : ValuedOn(m, D, g)
           G == {n \in Nodes : Has(n)}
           tab(n) == CHOOSE g : \E D : n \in D /\ ValuedOn(m, D, g)
           f == [n \in G |-> tab(n)[n]]
           e(g, n) == IF n \in Derived THEN Compute[n][[d \in Reads[n] |-> g[d]]] ELSE m[n].fp
<1>1. ASSUME NEW n \in G PROVE \E D : n \in D /\ ValuedOn(m, D, tab(n))
  OBVIOUS
<1>2. ASSUME NEW n \in G, NEW D, n \in D, NEW g, ValuedOn(m, D, g)
      PROVE  D \subseteq G /\ \A x \in D : g[x] = f[x]
  <2>1. D \subseteq G
    BY <1>2 DEF ValuedOn
  <2>2. ASSUME NEW x \in D PROVE g[x] = f[x]
    <3>1. x \in G
      BY <2>1
    <3>2. PICK E : x \in E /\ ValuedOn(m, E, tab(x))
      BY <3>1, <1>1
    <3>3. g[x] = tab(x)[x]
      <4> HIDE DEF tab, G
      <4> QED
        BY <3>2, <1>2, ValuedAgree
    <3> QED
      BY <3>1, <3>3
  <2> QED
    BY <2>1, <2>2
<1>3. ASSUME NEW n \in G PROVE Reads[n] \subseteq G /\ f[n] = e(f, n)
  <2>1. PICK D : n \in D /\ ValuedOn(m, D, tab(n))
    BY <1>1
  <2>2. D \subseteq G /\ \A x \in D : tab(n)[x] = f[x]
    <3> HIDE DEF tab, G, f
    <3> QED
      BY <1>2, <2>1
  <2>3. Reads[n] \subseteq D /\ tab(n)[n] = e(tab(n), n)
    <3> HIDE DEF tab, G, f
    <3> QED
      BY <2>1 DEF ValuedOn
  <2> HIDE DEF tab, G, f
  <2>4. [d \in Reads[n] |-> tab(n)[d]] = [d \in Reads[n] |-> f[d]]
    BY <2>2, <2>3
  <2> QED
    BY <2>1, <2>2, <2>3, <2>4
<1>4. G \subseteq Nodes /\ DOMAIN f = G
  OBVIOUS
<1>5. f = [n \in G |-> f[n]]
  OBVIOUS
<1>6. G = Nodes
  <2> SUFFICES ASSUME Nodes \ G # {} PROVE FALSE
    BY <1>4
  <2>1. PICK n \in Nodes \ G : Reads[n] \cap (Nodes \ G) = {}
    <3> HIDE DEF G
    <3> QED
      BY FirstNode
  <2>2. Reads[n] \subseteq G
    <3>1. Reads[n] \subseteq Nodes
      BY AssetsAssumption
    <3> HIDE DEF G
    <3> QED
      BY <2>1, <3>1
  <2> DEFINE h == [x \in G \cup {n} |-> IF x = n THEN e(f, n) ELSE f[x]]
  <2>3. ASSUME NEW x \in G \cup {n} PROVE Reads[x] \subseteq G /\ h[x] = e(h, x)
    <3> HIDE DEF G, f
    <3>1. Reads[x] \subseteq G /\ (x # n => f[x] = e(f, x))
      BY <1>3, <2>2
    <3>2. [d \in Reads[x] |-> h[d]] = [d \in Reads[x] |-> f[d]]
      BY <3>1, <2>1
    <3>3. e(h, x) = e(f, x)
      <4> HIDE DEF h
      <4> QED
        BY <3>2
    <3>4. h[x] = e(f, x)
      BY <3>1
    <3> QED
      BY <3>1, <3>3, <3>4
  <2>4. h = [x \in G \cup {n} |-> h[x]]
    OBVIOUS
  <2>5. ValuedOn(m, G \cup {n}, h)
    <3>1. h = [x \in G \cup {n} |-> e(h, x)]
      <4> HIDE DEF h, e, G
      <4> QED
        BY <2>3, <2>4
    <3> HIDE DEF h, G
    <3> QED
      BY <1>4, <2>1, <2>3, <3>1 DEF ValuedOn
  <2>6. n \in G
    <3> HIDE DEF h
    <3> QED
      BY <2>1, <2>5
  <2> QED
    BY <2>1, <2>6
<1>7. f = [n \in Nodes |-> e(f, n)]
  <2> HIDE DEF f, e, G
  <2> QED
    BY <1>3, <1>5, <1>6
<1> QED
  BY <1>7 DEF Valued

(* A stale node is one of the least set that one_staleness fills. *)
Staled(m, g) ==
    g = [n \in Nodes |->
           \/ m[n].fp = None
           \/ \E d \in Reads[n] : g[d] \/ m[d].fp = None \/ m[n].ins[d] # m[d].fp]
LEMMA StaledExists ==
    ASSUME NEW m
    PROVE  \E g : Staled(m, g)
<1> DEFINE Off(n) == m[n].fp = None \/ \E d \in Reads[n] : m[d].fp = None \/ m[n].ins[d] # m[d].fp
           Spreads(T) == \A n \in Nodes : Off(n) \/ Reads[n] \cap T # {} => n \in T
           S == {n \in Nodes : \A T \in SUBSET Nodes : Spreads(T) => n \in T}
           g == [n \in Nodes |-> n \in S]
<1>1. S \in SUBSET Nodes
  OBVIOUS
<1>2. Spreads(S)
  <2> SUFFICES ASSUME NEW n \in Nodes, Off(n) \/ Reads[n] \cap S # {}, NEW T \in SUBSET Nodes, Spreads(T)
               PROVE  n \in T
    OBVIOUS
  <2>1. S \subseteq T
    OBVIOUS
  <2> HIDE DEF S
  <2> QED
    BY <2>1
<1>3. ASSUME NEW n \in S PROVE Off(n) \/ Reads[n] \cap S # {}
  <2> SUFFICES ASSUME ~(Off(n) \/ Reads[n] \cap S # {}) PROVE FALSE
    OBVIOUS
  <2>1. Spreads(S \ {n})
    <3> HIDE DEF S, Off
    <3> QED
      BY <1>2
  <2>2. S \ {n} \in SUBSET Nodes
    OBVIOUS
  <2>3. n \in S \ {n}
    <3> HIDE DEF Spreads
    <3> QED
      BY <2>1, <2>2
  <2> QED
    BY <2>3
<1>4. ASSUME NEW n \in Nodes PROVE n \in S <=> (Off(n) \/ \E d \in Reads[n] : g[d])
  <2>1. Reads[n] \subseteq Nodes
    BY AssetsAssumption
  <2>2. (\E d \in Reads[n] : g[d]) <=> Reads[n] \cap S # {}
    <3> HIDE DEF S
    <3> QED
      BY <2>1
  <2> HIDE DEF S, Off
  <2> QED
    BY <1>2, <1>3, <2>2
<1>5. Staled(m, g)
  <2>1. ASSUME NEW n \in Nodes
        PROVE  (n \in S) = (\/ m[n].fp = None
                            \/ \E d \in Reads[n] : g[d] \/ m[d].fp = None \/ m[n].ins[d] # m[d].fp)
    <3>1. Off(n) \/ (\E d \in Reads[n] : g[d])
            <=> \/ m[n].fp = None
                \/ \E d \in Reads[n] : g[d] \/ m[d].fp = None \/ m[n].ins[d] # m[d].fp
      <4> HIDE DEF g
      <4> QED
        BY Zenon
    <3>2. n \in S <=> Off(n) \/ (\E d \in Reads[n] : g[d])
      BY <1>4
    <3> DEFINE A == n \in S
               B == \/ m[n].fp = None
                    \/ \E d \in Reads[n] : g[d] \/ m[d].fp = None \/ m[n].ins[d] # m[d].fp
    <3>3. A <=> B
      <4> HIDE DEF S, g, Off
      <4> QED
        BY Zenon, <3>1, <3>2
    <3>4. A \in BOOLEAN
      OBVIOUS
    <3>5. B \in BOOLEAN
      <4> HIDE DEF g
      <4> QED
        OBVIOUS
    <3>6. A = B
      <4> HIDE DEF A, B
      <4> QED
        BY <3>3, <3>4, <3>5
    <3> QED
      BY <3>6
  <2> HIDE DEF S
  <2> QED
    BY <2>1 DEF Staled
<1> QED
  BY <1>5

LEMMA StaleIs ==
    ASSUME NEW m
    PROVE  Staled(m, Stale(m))
BY StaledExists DEF Staled, Stale

-----------------------------------------------------------------------------
(* What is recorded.  Whoever built it and whenever, what a node holds is  *)
(* what its body makes of what it says it read; and a probe writes sources.*)
Honest(n) ==
    mats[n].fp # None =>
      DOMAIN mats[n].ins = Reads[n] /\ mats[n].fp = Compute[n][[d \in Reads[n] |-> mats[n].ins[d]]]
Probing(e) == DOMAIN e = AskFields /\ (e.step = "write" => e.seen[1] \in Sources)
Recorded ==
    /\ DOMAIN mats = Nodes /\ \A n \in Derived : Honest(n)
    /\ DOMAIN ask = Askers /\ \A a \in Askers : Probing(ask[a])

(* What an asker does but write what it saw leaves what is recorded alone. *)
LEMMA OthersTell ==
    ASSUME Recorded, NEW a \in Askers, NEW e, Becomes(a, e), UNCHANGED mats, Probing(e)
    PROVE  Recorded'
<1>1. DOMAIN ask' = Askers /\ \A c \in Askers : Probing(ask'[c])
  BY DEF Recorded, Becomes
<1>2. DOMAIN mats' = Nodes /\ \A n \in Derived : Honest(n)'
  BY DEF Recorded, Honest
<1> QED
  BY <1>1, <1>2 DEF Recorded, Probing

(* One goes on to see nothing but sources. *)
LEMMA NextRowProbes == ASSUME NEW a PROVE Probing(NextRow(a))
BY DEF NextRow, Idle, AskFields, Probing
LEMMA AsksProbes ==
    ASSUME Recorded, NEW a \in Askers, NEW plan, NEW bounded, AsksFor(a, plan, bounded), UNCHANGED mats
    PROVE  Recorded'
<1> DEFINE e == [Idle EXCEPT !.step = "launch", !.plan = plan, !.bounded = bounded]
<1>1. Probing(e)
  BY DEF Idle, AskFields, Probing
<1>2. Becomes(a, e)
  BY DEF AsksFor
<1> HIDE DEF e
<1> QED
  BY <1>1, <1>2, OthersTell

(* An asker at work. *)
LEMMA AskerTells ==
    ASSUME Recorded, NEW a \in Askers, Asks(a) \/ Die(a)
    PROVE  Recorded'
<1>1. Probing(Idle)
  BY DEF Idle, AskFields, Probing
<1>2. Probing(ask[a])
  BY DEF Recorded
<1>3. ASSUME NEW e, Becomes(a, e), UNCHANGED mats, Probing(e) PROVE Recorded'
  BY <1>3, OthersTell
<1>4. ASSUME NEW rows PROVE Probing([Idle EXCEPT !.step = "row", !.rows = rows])
  BY DEF Idle, AskFields, Probing
<1>5. ASSUME NEW row, NEW rest, SendNext(a, row, rest) PROVE Recorded'
  <2>1. ASSUME NEW plan PROVE Probing([Idle EXCEPT !.step = "launch", !.rows = <<row>> \o rest, !.plan = plan])
    BY DEF Idle, AskFields, Probing
  <2>2. CASE Becomes(a, NextRow(a)) /\ UNCHANGED mats
    BY <2>2, <1>3, NextRowProbes
  <2>3. CASE /\ Becomes(a, [Idle EXCEPT !.step = "launch", !.rows = <<row>> \o rest,
                            !.plan = Plan(mats, {Filled}, [x \in {Filled} |-> Chunk(row)])])
             /\ UNCHANGED mats
    BY <2>1, <2>3, <1>3
  <2> QED
    BY <1>5, <2>2, <2>3 DEF SendNext
<1>6. CASE \E s \in Sources : See(a, s)
  <2>1. PICK s \in Sources : See(a, s)
    BY <1>6
  <2> DEFINE e == [Idle EXCEPT !.step = "write", !.seen = <<s, world[s]>>]
  <2>2. Probing(e)
    BY DEF Idle, AskFields, Probing
  <2>3. Becomes(a, e) /\ UNCHANGED mats
    BY <2>1 DEF See
  <2> HIDE DEF e
  <2> QED
    BY <2>2, <2>3, <1>3
<1>7. CASE ProbeWrites(a)
  <2> DEFINE n == <<ask[a].seen[1], 1>>
             e == [ask[a] EXCEPT !.step = "pass"]
  <2>1. Becomes(a, e)
    BY <1>7 DEF ProbeWrites
  <2>2. Probing(e)
    BY <1>2 DEF AskFields, Probing
  <2>3. ask[a].step = "write" /\ n \notin Derived
    <3>1. ask[a].step = "write" /\ ask[a].seen[1] \in Sources
      BY <1>2, <1>7 DEF ProbeWrites, Probing
    <3> QED
      BY <3>1, AssetsAssumption DEF Derived
  <2>4. DOMAIN mats' = Nodes /\ \A x \in Derived : mats'[x] = mats[x]
    <3>1. UNCHANGED mats \/ mats' = [mats EXCEPT ![n] = [fp |-> ask[a].seen[2], ins |-> <<>>]]
      BY <1>7 DEF ProbeWrites
    <3> HIDE DEF n
    <3> QED
      BY <3>1, <2>3 DEF Recorded, Derived
  <2>5. DOMAIN ask' = Askers /\ \A c \in Askers : Probing(ask'[c])
    <3> HIDE DEF e
    <3> QED
      BY <2>1, <2>2 DEF Recorded, Becomes
  <2> QED
    BY <2>4, <2>5 DEF Recorded, Honest, Probing
<1>8. ASSUME NEW only, NEW due, PassOver(a, only, due) PROVE Recorded'
  <2>1. CASE Becomes(a, Idle)
    BY <1>8, <2>1, <1>1, <1>3 DEF PassOver
  <2>2. CASE AsksFor(a, PolicyPlan(mats, only, due), TRUE)
    BY <1>8, <2>2, AsksProbes DEF PassOver
  <2> QED
    BY <1>8, <2>1, <2>2 DEF PassOver
<1>9. CASE ProbePass(a) \/ PolicyPass(a)
  BY <1>8, <1>9 DEF ProbePass, PolicyPass
<1>10. CASE \/ \E t \in Assets : Request(a, t) \/ RequestWhole(a, t)
            \/ \E n \in Derived : RequestKey(a, n)
            \/ RequestAll(a)
  BY <1>10, AsksProbes DEF Request, RequestWhole, RequestKey, RequestAll
<1>11. CASE Start(a)
  <2>1. Probing([Idle EXCEPT !.step = "create"])
    BY DEF Idle, AskFields, Probing
  <2> QED
    BY <1>11, <2>1, <1>3 DEF Start
<1>12. CASE \E b \in Backfills : Create(a, b)
  <2>1. PICK b \in Backfills : Create(a, b)
    BY <1>12
  <2>2. ASSUME NEW rows PROVE Probing([Idle EXCEPT !.step = "reread", !.rows = rows])
    BY DEF Idle, AskFields, Probing
  <2> QED
    BY <2>1, <2>2, <1>1, <1>3 DEF Create
<1>13. CASE \E b \in Backfills : CancelReads(a, b)
  <2>1. PICK b \in Backfills : CancelReads(a, b)
    BY <1>13
  <2>2. ASSUME NEW rows PROVE Probing([Idle EXCEPT !.step = "ask", !.rows = rows])
    BY DEF Idle, AskFields, Probing
  <2> QED
    BY <2>1, <2>2, <1>3 DEF CancelReads
<1>14. CASE Reread(a)
  BY <1>14, <1>1, <1>3, <1>5 DEF Reread
<1>15. CASE Tick(a)
  BY <1>15, <1>3, <1>4 DEF Tick
<1>16. CASE Judge(a)
  <2>1. \/ Becomes(a, NextRow(a)) /\ UNCHANGED mats
        \/ \E row, rest : SendNext(a, row, rest)
    BY <1>16 DEF Judge
  <2> QED
    BY <2>1, <1>3, <1>5, NextRowProbes
<1>17. CASE CancelAsks(a)
  <2>1. Probing([ask[a] EXCEPT !.step = "close"])
    BY <1>2 DEF AskFields, Probing
  <2> QED
    BY <1>17, <2>1, <1>3 DEF CancelAsks
<1>18. CASE CancelCloses(a) \/ Die(a)
  BY <1>18, <1>1, <1>3 DEF CancelCloses, Die
<1>19. CASE Launch(a)
  <2>1. ASSUME NEW r PROVE Probing([ask[a] EXCEPT !.step = "record", !.run = r])
    BY <1>2 DEF AskFields, Probing
  <2>2. UNCHANGED mats /\ \E e : Becomes(a, e) /\ Probing(e)
    BY <1>19, <2>1, <1>1, NextRowProbes DEF Launch
  <2> QED
    BY <2>2, <1>3
<1>20. CASE Record(a)
  BY <1>20, <1>3, NextRowProbes DEF Record
<1> QED
  BY <1>6, <1>7, <1>9, <1>10, <1>11, <1>12, <1>13, <1>14, <1>15, <1>16, <1>17, <1>18, <1>19, <1>20 DEF Asks

(* Every step: a build is the only one that writes what an asset holds.    *)
LEMMA StepRecorded ==
    ASSUME Recorded, [Next]_vars, up \in Deployments
    PROVE  Recorded'
<1>1. CASE UNCHANGED <<mats, ask>>
  BY <1>1 DEF Recorded, Honest, Probing
<1>2. up \subseteq Askers
  BY BuildsAssumption
<1>3. ASSUME NEW a \in up, Asks(a) \/ Die(a) PROVE Recorded'
  BY <1>2, <1>3, AskerTells
<1>4. ASSUME NEW r \in Slots, NEW n \in Derived, Build(r, n) PROVE Recorded'
  <2>1. mats' = [mats EXCEPT ![n] = Made(r, n)] /\ UNCHANGED ask
    BY <1>4 DEF Build
  <2>2. Made(r, n).ins = Took(r, n) /\ Made(r, n).fp = Compute[n][Took(r, n)]
    BY DEF Made
  <2>3. DOMAIN Took(r, n) = Reads[n] /\ Took(r, n) = [d \in Reads[n] |-> Took(r, n)[d]]
    BY DEF Took
  <2>4. n \in Nodes
    BY DEF Derived
  <2>5. DOMAIN mats' = Nodes /\ \A x \in Derived : Honest(x)'
    <3>1. mats'[n] = Made(r, n) /\ \A x \in Derived \ {n} : mats'[x] = mats[x]
      BY <2>1, <2>4 DEF Recorded, Derived
    <3>2. Honest(n)'
      <4> HIDE DEF None
      <4> QED
        BY <3>1, <2>2, <2>3 DEF Honest
    <3> QED
      BY <2>1, <3>1, <3>2 DEF Recorded, Honest
  <2> QED
    BY <2>1, <2>5 DEF Recorded, Probing
<1>5. ASSUME NEW r \in Slots, Works(r) \/ Fails(r) \/ Prune(r), ~\E n \in Derived : Build(r, n)
      PROVE  UNCHANGED <<mats, ask>>
  BY <1>5 DEF Works, Begin, Succeeds, IsCanceled, Capture, Ends, Fails, Prune
<1>6. CASE UNCHANGED vars \/ \E s \in Sources : Move(s)
  BY <1>1, <1>6 DEF vars, Move
<1> QED
  BY <1>1, <1>3, <1>4, <1>5, <1>6 DEF Next

(* So what is fresh is right: the first node that is not was computed of   *)
(* what its inputs hold, and they are right. *)
LEMMA RecordedIsRight ==
    ASSUME Recorded
    PROVE  FreshIsRight
<1> DEFINE right == CHOOSE g : Valued(mats, g)
           Wrong == {n \in Derived : ~Stale(mats)[n] /\ mats[n].fp # right[n]}
<1>1. Valued(mats, right)
  BY ValuedExists
<1>2. Staled(mats, Stale(mats))
  BY StaleIs
<1> HIDE DEF right
<1>3. Wrong = {}
  <2> SUFFICES ASSUME Wrong # {} PROVE FALSE
    OBVIOUS
  <2>1. Wrong \in SUBSET Nodes
    BY DEF Derived
  <2>2. PICK n \in Wrong : Reads[n] \cap Wrong = {}
    <3> HIDE DEF Wrong
    <3> QED
      BY <2>1, FirstNode
  <2>3. n \in Nodes /\ n \in Derived /\ ~Stale(mats)[n] /\ mats[n].fp # right[n] /\ Reads[n] \subseteq Nodes
    BY <2>1, <2>2, AssetsAssumption
  <2>4. /\ mats[n].fp # None
        /\ \A d \in Reads[n] : ~Stale(mats)[d] /\ mats[n].ins[d] = mats[d].fp
    BY <1>2, <2>3 DEF Staled
  <2>5. ASSUME NEW d \in Reads[n] PROVE mats[n].ins[d] = right[d]
    <3>1. CASE d \in Derived
      BY <3>1, <2>2, <2>4
    <3>2. CASE d \notin Derived
      <4>1. right[d] = mats[d].fp
        BY <1>1, <2>3, <3>2 DEF Valued
      <4> QED
        BY <4>1, <2>4
    <3> QED
      BY <3>1, <3>2
  <2>6. [d \in Reads[n] |-> mats[n].ins[d]] = [d \in Reads[n] |-> right[d]]
    BY <2>5
  <2>7. right[n] = Compute[n][[d \in Reads[n] |-> right[d]]]
    BY <1>1, <2>3 DEF Valued
  <2>8. mats[n].fp = Compute[n][[d \in Reads[n] |-> mats[n].ins[d]]]
    BY <2>3, <2>4 DEF Recorded, Honest
  <2> QED
    BY <2>3, <2>6, <2>7, <2>8
<1> QED
  BY <1>3 DEF FreshIsRight, right, Valued

(* An asset that is fresh holds what would be computed from the sources as *)
(* they are recorded: whoever built it, whatever moved meanwhile, and with *)
(* any number of builds at once. *)
THEOREM WhatIsFreshIsRight == Spec => []FreshIsRight
<1>1. Init => Recorded /\ up \in Deployments
  <2> SUFFICES ASSUME Init PROVE Recorded /\ up \in Deployments
    OBVIOUS
  <2>1. Probing(Idle) /\ Unbuilt.fp = None
    BY DEF Idle, AskFields, Probing, Unbuilt
  <2> QED
    BY <2>1 DEF Init, Recorded, Honest, Derived
<1>2. Recorded /\ up \in Deployments /\ [Next]_vars => (Recorded /\ up \in Deployments)'
  BY StepRecorded DEF Next, vars
<1>3. Recorded => FreshIsRight
  BY RecordedIsRight
<1> QED
  BY <1>1, <1>2, <1>3, PTL DEF Spec
=============================================================================
