--------------------------- MODULE SchedulesProofs ---------------------------
(***************************************************************************)
(* What holds of Schedules for any declarations, any number of processes   *)
(* and terms, any faults and any skew of their clocks.                     *)
(***************************************************************************)
EXTENDS Schedules, Extremes, TLAPS

Wheres == {"idle", "catchup", "queueing", "draining", "asleep", "firing", "done"}
Hows == {"none", "look"} \cup Outcomes
Row(C) == [paused : SUBSET Schedules, cursor : C]
Decided == [of : Occurrences \cup {<<>>}, how : Hows, under : Nat]

(* The types of the tables, of the lease, and of what processes keep. *)
TablesTyped ==
    /\ clock \in Nat /\ entries \in Declarations /\ paused \subseteq Schedules
    /\ pausedAt \in [Schedules -> Nat]
    /\ tick \in [Occurrences -> {"none"} \cup Outcomes]
    /\ run \in [Occurrences -> {"none", "active", "over"}]
    /\ made \in [Occurrences -> Nat]
LeaseTyped == term \in Nat /\ mine \in [Procs -> Nat]
PassTyped ==
    /\ pc \in [Procs -> Wheres] /\ now \in [Procs -> Nat]
    /\ here \in [Procs -> SUBSET Schedules]
RowsTyped == \E C : rows \in [Procs -> Row(C)]
TodoTyped == todo \in [Procs -> SUBSET Occurrences]
DoingTyped == doing \in [Procs -> Decided]
Typed == TablesTyped /\ LeaseTyped /\ PassTyped /\ RowsTyped /\ TodoTyped /\ DoingTyped

(* An occurrence that may fire: it came, and its schedule is not paused    *)
(* since before it did. *)
Free(o) == o[2] <= clock /\ ~(o[1] \in paused /\ pausedAt[o[1]] < o[2])

(* What process p has in hand. *)
PassSound(p) ==
    /\ pc[p] = "idle" => todo[p] = {}
    /\ pc[p] \in {"catchup", "queueing", "draining"} => \A o \in todo[p] : Free(o)
    /\ pc[p] = "firing" => \A o \in todo[p] : o[1] \notin rows[p].paused => Free(o)
    /\ pc[p] \in {"catchup", "queueing"} =>
         /\ \A o \in Occurrences : o[1] \notin rows[p].paused /\ o[2] <= now[p] => Free(o)
         /\ \A s \in here[p] : rows[p].cursor[s] # Never => Missed(p, s) # {}
    /\ doing[p].how \in {"look", "fired", "deferred"} => doing[p].of \in Occurrences /\ Free(doing[p].of)

(* The occurrences that are held, those that never fired, and what a launch*)
(* that is to be was decided on.                                           *)
HeldFree == \A o \in Occurrences : tick[o] = "deferred" => Free(o)
Unmade == \A o \in Occurrences : run[o] = "none" => made[o] = 0
Believed(p) == mine[p] <= term /\ doing[p].under <= term
Clear(p) ==
    LET j == TargetOf(doing[p].of) IN
    doing[p].how = "fired" /\ Overlap[j] # "allow" /\ j \notin Assets
      /\ holder = p /\ mine[p] = doing[p].under /\ term = mine[p]
    => \A v \in Occurrences : TargetOf(v) = j => run[v] # "active"

Inv ==
    /\ Typed /\ HeldFree /\ Unmade
    /\ \A p \in Procs : PassSound(p) /\ Believed(p) /\ Clear(p)

-----------------------------------------------------------------------------
(* Lemmas. *)

(* An occurrence is of a schedule, at a moment. *)
LEMMA OccurrenceOf ==
    /\ \A o \in Occurrences : o[1] \in Schedules /\ o[2] \in Nat /\ o[2] \in Due[o[1]] /\ TargetOf(o) \in Targets
    /\ \A s \in Schedules : \A t \in Due[s] : <<s, t>> \in Occurrences /\ t \in Nat /\ t > 0 /\ t <= Horizon
    /\ Horizon \in Nat
<1>1. Horizon \in Nat /\ Due \in [Schedules -> SUBSET (1..Horizon)] /\ Fires \in [Schedules -> Targets]
  BY SchedulesAssumption
<1>2. \A s \in Schedules : \A t \in Due[s] : t \in Nat /\ t > 0 /\ t <= Horizon
  BY <1>1
<1>3. \A s \in Schedules : \A t \in Due[s] : <<s, t>> \in Occurrences
  BY DEF Occurrences
<1>4. ASSUME NEW o \in Occurrences
      PROVE  o[1] \in Schedules /\ o[2] \in Due[o[1]]
  BY DEF Occurrences
<1> QED
  BY <1>1, <1>2, <1>3, <1>4 DEF TargetOf

(* What a deployment declares is schedules. *)
LEMMA DeclaredAreSchedules ==
    ASSUME NEW d \in Declarations
    PROVE  Range(d) \subseteq Schedules
BY DEF Schedules

(* What a pass missed is numbers up to when it took the time. *)
LEMMA MissedOf ==
    ASSUME Typed, NEW p \in Procs, NEW s \in Schedules, Missed(p, s) # {}
    PROVE  /\ Max(Missed(p, s)) \in Missed(p, s)
           /\ \A t \in Missed(p, s) : t \in Nat /\ t <= now[p] /\ <<s, t>> \in Occurrences
<1> DEFINE M == Missed(p, s)
<1>1. now[p] \in Int
  BY DEF Typed, PassTyped
<1>2. ASSUME NEW y \in M PROVE y \in Nat /\ y \in Int /\ y <= now[p] /\ <<s, y>> \in Occurrences
  <2>1. y \in Due[s] /\ y <= now[p]
    BY DEF Missed
  <2> QED
    BY <2>1, OccurrenceOf
<1>3. M # {}
  OBVIOUS
<1> HIDE DEF M
<1>4. Max(M) \in M
  BY <1>1, <1>2, <1>3, MaxIsGreatest
<1> QED
  BY <1>2, <1>4 DEF M

(* Time and pauses are moved by nobody who decides. *)
QuietStep ==
    \/ UNCHANGED <<clock, paused, pausedAt>>
    \/ Come \/ \E s \in Schedules : Pause(s) \/ Resume(s)

(* Who moves them. *)
LEMMA TimeAndPauses ==
    ASSUME TRUE, [Next]_vars
    PROVE  QuietStep
<1>1. ASSUME NEW p \in Procs, Begin(p)
      PROVE  QuietStep
  BY <1>1 DEF Begin, tables, Goes, leaseVars, QuietStep
<1>2. ASSUME NEW p \in Procs, CatchUp(p)
      PROVE  QuietStep
  BY <1>2 DEF CatchUp, Goes, Advance, Ticks, leaseVars, QuietStep
<1>3. ASSUME NEW p \in Procs, QueueFire(p)
      PROVE  QuietStep
  BY <1>3 DEF QueueFire, Decides, tables, leaseVars, QuietStep
<1>4. ASSUME NEW p \in Procs, CaughtUp(p)
      PROVE  QuietStep
  BY <1>4 DEF CaughtUp, Advance, Goes, leaseVars, QuietStep
<1>5. ASSUME NEW p \in Procs, Drain(p)
      PROVE  QuietStep
  BY <1>5 DEF Drain, Goes, tables, leaseVars, QuietStep
<1>6. ASSUME NEW p \in Procs, DrainNext(p)
      PROVE  QuietStep
  BY <1>6 DEF DrainNext, Decides, tables, leaseVars, QuietStep
<1>7. ASSUME NEW p \in Procs, NoteRunless(p)
      PROVE  QuietStep
  BY <1>7 DEF NoteRunless, Ticks, Settles, leaseVars, QuietStep
<1>8. ASSUME NEW p \in Procs, Launch(p)
      PROVE  QuietStep
  BY <1>8 DEF Launch, Settles, Lands, Refused, leaseVars, QuietStep
<1>9. ASSUME NEW p \in Procs, Sleep(p)
      PROVE  QuietStep
  BY <1>9 DEF Sleep, Goes, Rests, tables, leaseVars, QuietStep
<1>10. ASSUME NEW p \in Procs, Wake(p)
      PROVE  QuietStep
  BY <1>10 DEF Wake, Goes, tables, leaseVars, QuietStep
<1>11. ASSUME NEW p \in Procs, FireNext(p)
      PROVE  QuietStep
  BY <1>11 DEF FireNext, Advance, Decides, leaseVars, QuietStep
<1>12. ASSUME NEW p \in Procs, FireLook(p)
      PROVE  QuietStep
  BY <1>12 DEF FireLook, Decides, tables, leaseVars, QuietStep
<1>13. ASSUME NEW p \in Procs, Fired(p)
      PROVE  QuietStep
  BY <1>13 DEF Fired, Goes, Rests, tables, leaseVars, QuietStep
<1>14. ASSUME NEW p \in Procs, Stop(p)
      PROVE  QuietStep
  BY <1>14 DEF Stop, HandBack, tables, leaseVars, QuietStep
<1>15. ASSUME NEW p \in Procs, Crash(p)
      PROVE  QuietStep
  BY <1>15 DEF Crash, Die, Goes, Rests, tables, leaseVars, QuietStep
<1>16. ASSUME Leases
      PROVE  QuietStep
  BY <1>16 DEF Leases, tables, passVars, leaseVars, QuietStep
<1>17. ASSUME Come
      PROVE  QuietStep
  BY <1>17 DEF Come, tables, passVars, leaseVars, QuietStep
<1>18. ASSUME NEW s \in Schedules, Pause(s)
      PROVE  QuietStep
  BY <1>18 DEF Pause, passVars, leaseVars, QuietStep
<1>19. ASSUME NEW s \in Schedules, Resume(s)
      PROVE  QuietStep
  BY <1>19 DEF Resume, passVars, leaseVars, QuietStep
<1>20. ASSUME NEW j \in Targets, Submit(j)
      PROVE  QuietStep
  BY <1>20 DEF Submit, passVars, leaseVars, QuietStep
<1>21. ASSUME NEW j \in Targets, ManualEnds(j)
      PROVE  QuietStep
  BY <1>21 DEF ManualEnds, passVars, leaseVars, QuietStep
<1>22. ASSUME NEW o \in Occurrences, RunEnds(o)
      PROVE  QuietStep
  BY <1>22 DEF RunEnds, passVars, leaseVars, QuietStep
<1>23. ASSUME UNCHANGED vars PROVE QuietStep
  BY <1>23 DEF vars, tables, leaseVars, QuietStep
<1> QED
  BY <1>1, <1>2, <1>3, <1>4, <1>5, <1>6, <1>7, <1>8, <1>9, <1>10, <1>11, <1>12, <1>13, <1>14, <1>15,
     <1>16, <1>17, <1>18, <1>19, <1>20, <1>21, <1>22, <1>23 DEF Next, Pass

(* What may fire may go on doing so: a pause that begins is no earlier.    *)
LEMMA FreeStays ==
    ASSUME Typed, [Next]_vars, NEW o \in Occurrences, Free(o)
    PROVE  Free(o)'
<1>1. o[1] \in Schedules /\ o[2] \in Nat /\ clock \in Nat /\ pausedAt \in [Schedules -> Nat]
  BY OccurrenceOf DEF Typed, TablesTyped
<1>2. CASE UNCHANGED <<clock, paused, pausedAt>>
  BY <1>2 DEF Free
<1>3. CASE Come
  BY <1>1, <1>3 DEF Come, tables, Free
<1>4. ASSUME NEW s \in Schedules, Pause(s) PROVE Free(o)'
  BY <1>1, <1>4 DEF Pause, Free
<1>5. ASSUME NEW s \in Schedules, Resume(s) PROVE Free(o)'
  BY <1>1, <1>5 DEF Resume, Free
<1> QED
  BY <1>2, <1>3, <1>4, <1>5, TimeAndPauses DEF QuietStep

(* No step takes a table out of its type, *)
LEMMA StepTables ==
    ASSUME Typed, \A p \in Procs : PassSound(p), [Next]_vars
    PROVE  TablesTyped'
<1>1. ASSUME NEW p \in Procs, Begin(p)
      PROVE  TablesTyped'
  BY <1>1 DEF Begin, tables, Goes, leaseVars, Typed, TablesTyped
<1>2. ASSUME NEW p \in Procs, CatchUp(p)
      PROVE  TablesTyped'
  <2>1. /\ tick' = tick \/ \E o : Ticks(o, "skipped")
        /\ UNCHANGED <<clock, entries, paused, run, pausedAt, made>>
    BY <1>2 DEF CatchUp
  <2> QED
    BY <2>1 DEF Ticks, Outcomes, Typed, TablesTyped
<1>3. ASSUME NEW p \in Procs, QueueFire(p)
      PROVE  TablesTyped'
  BY <1>3 DEF QueueFire, Decides, tables, leaseVars, Typed, TablesTyped
<1>4. ASSUME NEW p \in Procs, CaughtUp(p)
      PROVE  TablesTyped'
  BY <1>4 DEF CaughtUp, Advance, Goes, leaseVars, Typed, TablesTyped
<1>5. ASSUME NEW p \in Procs, Drain(p)
      PROVE  TablesTyped'
  BY <1>5 DEF Drain, Goes, tables, leaseVars, Typed, TablesTyped
<1>6. ASSUME NEW p \in Procs, DrainNext(p)
      PROVE  TablesTyped'
  BY <1>6 DEF DrainNext, Decides, tables, leaseVars, Typed, TablesTyped
<1>7. ASSUME NEW p \in Procs, NoteRunless(p)
      PROVE  TablesTyped'
  BY <1>7 DEF NoteRunless, Ticks, Outcomes, Typed, TablesTyped
<1>8. ASSUME NEW p \in Procs, Launch(p)
      PROVE  TablesTyped'
  <2>1. mine[p] \in Nat
    BY DEF Typed, LeaseTyped
  <2> QED
    BY <1>8, <2>1 DEF Launch, Lands, Outcomes, Typed, TablesTyped
<1>9. ASSUME NEW p \in Procs, Sleep(p)
      PROVE  TablesTyped'
  BY <1>9 DEF Sleep, Goes, Rests, tables, leaseVars, Typed, TablesTyped
<1>10. ASSUME NEW p \in Procs, Wake(p)
      PROVE  TablesTyped'
  BY <1>10 DEF Wake, Goes, tables, leaseVars, Typed, TablesTyped
<1>11. ASSUME NEW p \in Procs, FireNext(p)
      PROVE  TablesTyped'
  BY <1>11 DEF FireNext, Advance, Decides, leaseVars, Typed, TablesTyped
<1>12. ASSUME NEW p \in Procs, FireLook(p)
      PROVE  TablesTyped'
  BY <1>12 DEF FireLook, Decides, tables, leaseVars, Typed, TablesTyped
<1>13. ASSUME NEW p \in Procs, Fired(p)
      PROVE  TablesTyped'
  BY <1>13 DEF Fired, Goes, Rests, tables, leaseVars, Typed, TablesTyped
<1>14. ASSUME NEW p \in Procs, Stop(p)
      PROVE  TablesTyped'
  BY <1>14 DEF Stop, HandBack, tables, leaseVars, Typed, TablesTyped
<1>15. ASSUME NEW p \in Procs, Crash(p)
      PROVE  TablesTyped'
  BY <1>15 DEF Crash, Die, Goes, Rests, tables, leaseVars, Typed, TablesTyped
<1>16. ASSUME Leases
      PROVE  TablesTyped'
  BY <1>16 DEF Leases, tables, passVars, leaseVars, Typed, TablesTyped
<1>17. ASSUME Come
      PROVE  TablesTyped'
  BY <1>17 DEF Come, tables, passVars, leaseVars, Typed, TablesTyped
<1>18. ASSUME NEW s \in Schedules, Pause(s)
      PROVE  TablesTyped'
  BY <1>18 DEF Pause, passVars, leaseVars, Typed, TablesTyped
<1>19. ASSUME NEW s \in Schedules, Resume(s)
      PROVE  TablesTyped'
  BY <1>19 DEF Resume, passVars, leaseVars, Typed, TablesTyped
<1>20. ASSUME NEW j \in Targets, Submit(j)
      PROVE  TablesTyped'
  BY <1>20 DEF Submit, passVars, leaseVars, Typed, TablesTyped
<1>21. ASSUME NEW j \in Targets, ManualEnds(j)
      PROVE  TablesTyped'
  BY <1>21 DEF ManualEnds, passVars, leaseVars, Typed, TablesTyped
<1>22. ASSUME NEW o \in Occurrences, RunEnds(o)
      PROVE  TablesTyped'
  BY <1>22 DEF RunEnds, passVars, leaseVars, Typed, TablesTyped
<1>23. ASSUME UNCHANGED vars PROVE TablesTyped'
  BY <1>23 DEF vars, tables, leaseVars, Typed, TablesTyped
<1> QED
  BY <1>1, <1>2, <1>3, <1>4, <1>5, <1>6, <1>7, <1>8, <1>9, <1>10, <1>11, <1>12, <1>13, <1>14, <1>15,
     <1>16, <1>17, <1>18, <1>19, <1>20, <1>21, <1>22, <1>23 DEF Next, Pass

(* ...the lease, *)
LEMMA StepLease ==
    ASSUME Typed, [Next]_vars
    PROVE  LeaseTyped'
<1>1. ASSUME NEW p \in Procs, Begin(p)
      PROVE  LeaseTyped'
  BY <1>1 DEF Begin, leaseVars, Typed, LeaseTyped
<1>2. ASSUME NEW p \in Procs, CatchUp(p)
      PROVE  LeaseTyped'
  BY <1>2 DEF CatchUp, leaseVars, Typed, LeaseTyped
<1>3. ASSUME NEW p \in Procs, QueueFire(p)
      PROVE  LeaseTyped'
  BY <1>3 DEF QueueFire, leaseVars, Typed, LeaseTyped
<1>4. ASSUME NEW p \in Procs, CaughtUp(p)
      PROVE  LeaseTyped'
  BY <1>4 DEF CaughtUp, leaseVars, Typed, LeaseTyped
<1>5. ASSUME NEW p \in Procs, Drain(p)
      PROVE  LeaseTyped'
  BY <1>5 DEF Drain, leaseVars, Typed, LeaseTyped
<1>6. ASSUME NEW p \in Procs, DrainNext(p)
      PROVE  LeaseTyped'
  BY <1>6 DEF DrainNext, leaseVars, Typed, LeaseTyped
<1>7. ASSUME NEW p \in Procs, NoteRunless(p)
      PROVE  LeaseTyped'
  BY <1>7 DEF NoteRunless, leaseVars, Typed, LeaseTyped
<1>8. ASSUME NEW p \in Procs, Launch(p)
      PROVE  LeaseTyped'
  BY <1>8 DEF Launch, leaseVars, Typed, LeaseTyped
<1>9. ASSUME NEW p \in Procs, Sleep(p)
      PROVE  LeaseTyped'
  BY <1>9 DEF Sleep, leaseVars, Typed, LeaseTyped
<1>10. ASSUME NEW p \in Procs, Wake(p)
      PROVE  LeaseTyped'
  BY <1>10 DEF Wake, leaseVars, Typed, LeaseTyped
<1>11. ASSUME NEW p \in Procs, FireNext(p)
      PROVE  LeaseTyped'
  BY <1>11 DEF FireNext, leaseVars, Typed, LeaseTyped
<1>12. ASSUME NEW p \in Procs, FireLook(p)
      PROVE  LeaseTyped'
  BY <1>12 DEF FireLook, leaseVars, Typed, LeaseTyped
<1>13. ASSUME NEW p \in Procs, Fired(p)
      PROVE  LeaseTyped'
  BY <1>13 DEF Fired, leaseVars, Typed, LeaseTyped
<1>14. ASSUME NEW p \in Procs, Stop(p)
      PROVE  LeaseTyped'
  BY <1>14 DEF Stop, HandBack, Die, Typed, LeaseTyped
<1>15. ASSUME NEW p \in Procs, Crash(p)
      PROVE  LeaseTyped'
  BY <1>15 DEF Crash, HandBack, Die, Typed, LeaseTyped
<1>16. ASSUME Leases
      PROVE  LeaseTyped'
  BY <1>16 DEF Leases, Take, RowTaken, Renew, RenewErrs, Tick, Typed, LeaseTyped
<1>17. ASSUME Come
      PROVE  LeaseTyped'
  BY <1>17 DEF Come, leaseVars, Typed, LeaseTyped
<1>18. ASSUME NEW s \in Schedules, Pause(s)
      PROVE  LeaseTyped'
  BY <1>18 DEF Pause, leaseVars, Typed, LeaseTyped
<1>19. ASSUME NEW s \in Schedules, Resume(s)
      PROVE  LeaseTyped'
  BY <1>19 DEF Resume, leaseVars, Typed, LeaseTyped
<1>20. ASSUME NEW j \in Targets, Submit(j)
      PROVE  LeaseTyped'
  BY <1>20 DEF Submit, leaseVars, Typed, LeaseTyped
<1>21. ASSUME NEW j \in Targets, ManualEnds(j)
      PROVE  LeaseTyped'
  BY <1>21 DEF ManualEnds, leaseVars, Typed, LeaseTyped
<1>22. ASSUME NEW o \in Occurrences, RunEnds(o)
      PROVE  LeaseTyped'
  BY <1>22 DEF RunEnds, leaseVars, Typed, LeaseTyped
<1>23. ASSUME UNCHANGED vars PROVE LeaseTyped'
  BY <1>23 DEF vars, tables, leaseVars, Typed, LeaseTyped
<1> QED
  BY <1>1, <1>2, <1>3, <1>4, <1>5, <1>6, <1>7, <1>8, <1>9, <1>10, <1>11, <1>12, <1>13, <1>14, <1>15,
     <1>16, <1>17, <1>18, <1>19, <1>20, <1>21, <1>22, <1>23 DEF Next, Pass

(* ...where a process is, *)
LEMMA StepPass ==
    ASSUME Typed, \A p \in Procs : PassSound(p), [Next]_vars
    PROVE  PassTyped'
<1>1. ASSUME NEW p \in Procs, Begin(p)
      PROVE  PassTyped'
  <2>1. clock \in Nat /\ Range(entries) \subseteq Schedules
    BY DeclaredAreSchedules DEF Typed, TablesTyped
  <2> QED
    BY <1>1, <2>1 DEF Begin, Goes, Wheres, Typed, PassTyped
<1>2. ASSUME NEW p \in Procs, CatchUp(p)
      PROVE  PassTyped'
  <2>1. /\ here' = here \/ \E s \in here[p] : here' = [here EXCEPT ![p] = @ \ {s}]
        /\ now' = now /\ (pc' = pc \/ pc' = [pc EXCEPT ![p] = "queueing"])
    BY <1>2 DEF CatchUp, Goes
  <2> QED
    BY <2>1 DEF Typed, PassTyped, Wheres
<1>3. ASSUME NEW p \in Procs, CaughtUp(p)
      PROVE  PassTyped'
  BY <1>3 DEF CaughtUp, Advance, Goes, Typed, PassTyped, Wheres
<1>4. ASSUME NEW p \in Procs, Drain(p)
      PROVE  PassTyped'
  BY <1>4 DEF Drain, Goes, tables, Typed, PassTyped, Wheres
<1>5. ASSUME NEW p \in Procs, Sleep(p)
      PROVE  PassTyped'
  <2>1. pc' = [pc EXCEPT ![p] = "done"] \/ pc' = [pc EXCEPT ![p] = "asleep"]
    BY <1>5 DEF Sleep, Goes
  <2> QED
    BY <1>5, <2>1 DEF Sleep, Rests, Typed, PassTyped, Wheres
<1>6. ASSUME NEW p \in Procs, Wake(p)
      PROVE  PassTyped'
  BY <1>6 DEF Wake, Goes, tables, Typed, PassTyped, Wheres
<1>7. ASSUME NEW p \in Procs, Fired(p)
      PROVE  PassTyped'
  BY <1>7 DEF Fired, Goes, Rests, tables, Typed, PassTyped, Wheres
<1>8. ASSUME NEW p \in Procs, Crash(p)
      PROVE  PassTyped'
  BY <1>8 DEF Crash, Die, Goes, Rests, tables, Typed, PassTyped, Wheres
<1>9. ASSUME 
                \/ (\E p \in Procs : QueueFire(p) \/ DrainNext(p) \/ NoteRunless(p) \/ Launch(p) \/ FireNext(p) \/ FireLook(p) \/ Stop(p))
                \/ Leases \/ Come
                \/ (\E s \in Schedules : Pause(s) \/ Resume(s))
                \/ (\E j \in Targets : Submit(j) \/ ManualEnds(j))
                \/ (\E o \in Occurrences : RunEnds(o))
      PROVE  PassTyped'
  BY ZenonT(60), <1>9 DEF QueueFire, Decides, tables, DrainNext, NoteRunless, Ticks, Settles,
     Launch, Lands, Refused, FireNext, Advance, FireLook, Stop, HandBack, Leases, passVars, Come,
     Pause, Resume, Submit, ManualEnds, RunEnds, leaseVars, Typed, PassTyped
<1>10. ASSUME UNCHANGED vars PROVE PassTyped'
  BY <1>10 DEF vars, tables, leaseVars, Typed, PassTyped
<1> QED
  BY <1>1, <1>2, <1>3, <1>4, <1>5, <1>6, <1>7, <1>8, <1>9, <1>10 DEF Next, Pass

(* ...what it read, *)
LEMMA StepRows ==
    ASSUME Typed, [Next]_vars
    PROVE  RowsTyped'
<1>1. ASSUME NEW p \in Procs, CatchUp(p)
      PROVE  RowsTyped'
  BY <1>1 DEF CatchUp, Goes, Advance, Ticks, leaseVars, Typed, RowsTyped
<1>2. ASSUME NEW p \in Procs, Begin(p)
      PROVE  RowsTyped'
  <2>1. PICK C : rows \in [Procs -> Row(C)]
    BY DEF Typed, RowsTyped
  <2>2. [paused |-> paused, cursor |-> cursor] \in Row(C \cup {cursor})
    BY DEF Typed, TablesTyped, Row
  <2>3. rows' \in [Procs -> Row(C \cup {cursor})]
    BY <1>2, <2>1, <2>2 DEF Begin, Row
  <2> QED
    BY <2>3 DEF RowsTyped
<1>3. ASSUME NEW p \in Procs, Drain(p)
      PROVE  RowsTyped'
  <2>1. PICK C : rows \in [Procs -> Row(C)]
    BY DEF Typed, RowsTyped
  <2>2. rows[p] \in Row(C) /\ paused \in SUBSET Schedules
    BY <2>1 DEF Typed, TablesTyped
  <2> DEFINE D == C \cup {Unread.cursor}
             r == [rows[p] EXCEPT !.cursor = Unread.cursor]
  <2>3. r \in Row(D)
    BY <2>2 DEF Row
  <2>4. rows' = rows \/ rows' = [rows EXCEPT ![p] = r]
    BY <1>3, <2>1 DEF Drain
  <2>5. rows' \in [Procs -> Row(D)]
    <3> HIDE DEF r
    <3>1. rows \in [Procs -> Row(D)]
      BY <2>1 DEF Row
    <3> QED
      BY <2>3, <2>4, <3>1
  <2> QED
    BY <2>5 DEF RowsTyped
<1>4. ASSUME NEW p \in Procs, Sleep(p)
      PROVE  RowsTyped'
  <2>1. PICK C : rows \in [Procs -> Row(C)]
    BY DEF Typed, RowsTyped
  <2> DEFINE D == C \cup {Unread.cursor}
  <2>2. Unread \in Row(D)
    BY DEF Unread, Row
  <2>3. rows' \in [Procs -> Row(D)]
    BY <1>4, <2>1, <2>2 DEF Sleep, Rests, Row
  <2> QED
    BY <2>3 DEF RowsTyped
<1>5. ASSUME NEW p \in Procs, Wake(p)
      PROVE  RowsTyped'
  <2>1. PICK C : rows \in [Procs -> Row(C)]
    BY DEF Typed, RowsTyped
  <2>2. rows[p] \in Row(C) /\ paused \in SUBSET Schedules
    BY <2>1 DEF Typed, TablesTyped
  <2> DEFINE D == C \cup {Unread.cursor}
             r == [rows[p] EXCEPT !.paused = paused]
  <2>3. r \in Row(D)
    BY <2>2 DEF Row
  <2>4. rows' = rows \/ rows' = [rows EXCEPT ![p] = r]
    BY <1>5, <2>1 DEF Wake
  <2>5. rows' \in [Procs -> Row(D)]
    <3> HIDE DEF r
    <3>1. rows \in [Procs -> Row(D)]
      BY <2>1 DEF Row
    <3> QED
      BY <2>3, <2>4, <3>1
  <2> QED
    BY <2>5 DEF RowsTyped
<1>6. ASSUME NEW p \in Procs, Fired(p)
      PROVE  RowsTyped'
  <2>1. PICK C : rows \in [Procs -> Row(C)]
    BY DEF Typed, RowsTyped
  <2> DEFINE D == C \cup {Unread.cursor}
  <2>2. Unread \in Row(D)
    BY DEF Unread, Row
  <2>3. rows' \in [Procs -> Row(D)]
    BY <1>6, <2>1, <2>2 DEF Fired, Rests, Row
  <2> QED
    BY <2>3 DEF RowsTyped
<1>7. ASSUME NEW p \in Procs, Crash(p)
      PROVE  RowsTyped'
  <2>1. PICK C : rows \in [Procs -> Row(C)]
    BY DEF Typed, RowsTyped
  <2> DEFINE D == C \cup {Unread.cursor}
  <2>2. Unread \in Row(D)
    BY DEF Unread, Row
  <2>3. rows' \in [Procs -> Row(D)]
    BY <1>7, <2>1, <2>2 DEF Crash, Rests, Row
  <2> QED
    BY <2>3 DEF RowsTyped
<1>8. ASSUME 
                \/ (\E p \in Procs : QueueFire(p) \/ CaughtUp(p) \/ DrainNext(p) \/ NoteRunless(p) \/ Launch(p) \/ FireNext(p) \/ FireLook(p) \/ Stop(p))
                \/ Leases \/ Come
                \/ (\E s \in Schedules : Pause(s) \/ Resume(s))
                \/ (\E j \in Targets : Submit(j) \/ ManualEnds(j))
                \/ (\E o \in Occurrences : RunEnds(o))
      PROVE  RowsTyped'
  BY ZenonT(60), <1>8 DEF QueueFire, Decides, tables, CaughtUp, Advance, Goes, DrainNext,
     NoteRunless, Ticks, Settles, Launch, Lands, Refused, FireNext, FireLook, Stop, HandBack,
     Leases, passVars, Come, Pause, Resume, Submit, ManualEnds, RunEnds, leaseVars, Typed, RowsTyped
<1>9. ASSUME UNCHANGED vars PROVE RowsTyped'
  BY <1>9 DEF vars, tables, leaseVars, Typed, RowsTyped
<1> QED
  BY <1>1, <1>2, <1>3, <1>4, <1>5, <1>6, <1>7, <1>8, <1>9 DEF Next, Pass

(* ...what it has to deal with, *)
LEMMA StepTodo ==
    ASSUME Typed, \A p \in Procs : PassSound(p), [Next]_vars
    PROVE  TodoTyped'
<1>1. ASSUME NEW p \in Procs, CatchUp(p)
      PROVE  TodoTyped'
  <2>1. todo' = todo \/ \E s \in here[p] :
          /\ rows[p].cursor[s] # Never
          /\ todo' = [todo EXCEPT ![p] =
                IF Catchup[s] = "one" THEN {<<s, Max(Missed(p, s))>>} ELSE {s} \X Newest(p, s)]
    BY <1>1 DEF CatchUp
  <2>2. ASSUME NEW s \in here[p], rows[p].cursor[s] # Never
        PROVE  {<<s, Max(Missed(p, s))>>} \subseteq Occurrences /\ {s} \X Newest(p, s) \subseteq Occurrences
    <3>1. s \in Schedules /\ Missed(p, s) # {}
      BY <2>2, <1>1 DEF CatchUp, PassSound, Typed, PassTyped
    <3>2. \A t \in Missed(p, s) : <<s, t>> \in Occurrences
      BY <3>1, MissedOf
    <3>3. Max(Missed(p, s)) \in Missed(p, s)
      BY <3>1, MissedOf
    <3> QED
      BY <3>2, <3>3 DEF Newest
  <2> QED
    BY ZenonT(60), <2>1, <2>2 DEF Typed, TodoTyped
<1>2. ASSUME NEW p \in Procs, Drain(p)
      PROVE  TodoTyped'
  BY <1>2 DEF Drain, Pending, Typed, TodoTyped
<1>3. ASSUME NEW p \in Procs, DrainNext(p)
      PROVE  TodoTyped'
  BY <1>3 DEF DrainNext, Decides, tables, Typed, TodoTyped
<1>4. ASSUME NEW p \in Procs, NoteRunless(p)
      PROVE  TodoTyped'
  BY <1>4 DEF NoteRunless, Ticks, Settles, Typed, TodoTyped
<1>5. ASSUME NEW p \in Procs, Launch(p)
      PROVE  TodoTyped'
  BY <1>5 DEF Launch, Settles, Lands, Refused, Typed, TodoTyped
<1>6. ASSUME NEW p \in Procs, Sleep(p)
      PROVE  TodoTyped'
  <2> DEFINE Coming(s) == {t \in Due[s] : t > clock}
             live == Range(entries) \ gone[p]
  <2>1. todo' = [todo EXCEPT ![p] = {<<s, Min(Coming(s))>> : s \in {e \in live : Coming(e) # {}}}]
    BY <1>6 DEF Sleep
  <2>2. ASSUME NEW s \in Range(entries), Coming(s) # {} PROVE <<s, Min(Coming(s))>> \in Occurrences
    <3>1. s \in Schedules
      BY DeclaredAreSchedules DEF Typed, TablesTyped
    <3>2. Coming(s) \subseteq Nat
      BY <3>1, OccurrenceOf
    <3>3. Min(Coming(s)) \in Coming(s)
      BY <2>2, <3>2, MinIsLeast
    <3> QED
      BY <3>1, <3>3, OccurrenceOf
  <2> HIDE DEF Coming
  <2> QED
    BY <2>1, <2>2 DEF Typed, TodoTyped
<1>7. ASSUME NEW p \in Procs, Wake(p)
      PROVE  TodoTyped'
  BY <1>7 DEF Wake, Overdue, Typed, TodoTyped
<1>8. ASSUME NEW p \in Procs, FireNext(p)
      PROVE  TodoTyped'
  BY <1>8 DEF FireNext, Advance, Decides, Typed, TodoTyped
<1>9. ASSUME NEW p \in Procs, Stop(p)
      PROVE  TodoTyped'
  BY <1>9 DEF Stop, HandBack, tables, Typed, TodoTyped
<1>10. ASSUME NEW p \in Procs, Crash(p)
      PROVE  TodoTyped'
  BY <1>10 DEF Crash, Die, Goes, Rests, tables, Typed, TodoTyped
<1>11. ASSUME 
                \/ (\E p \in Procs : Begin(p) \/ QueueFire(p) \/ CaughtUp(p) \/ FireLook(p) \/ Fired(p))
                \/ Leases \/ Come
                \/ (\E s \in Schedules : Pause(s) \/ Resume(s))
                \/ (\E j \in Targets : Submit(j) \/ ManualEnds(j))
                \/ (\E o \in Occurrences : RunEnds(o))
      PROVE  TodoTyped'
  BY <1>11 DEF Begin, tables, Goes, QueueFire, Decides, CaughtUp, Advance, FireLook, Fired, Rests,
     Leases, passVars, Come, Pause, Resume, Submit, ManualEnds, RunEnds, leaseVars, Typed, TodoTyped
<1>12. ASSUME UNCHANGED vars PROVE TodoTyped'
  BY <1>12 DEF vars, tables, leaseVars, Typed, TodoTyped
<1> QED
  BY <1>1, <1>2, <1>3, <1>4, <1>5, <1>6, <1>7, <1>8, <1>9, <1>10, <1>11, <1>12 DEF Next, Pass

(* ...and what it is at. *)
LEMMA StepDoing ==
    ASSUME Typed, \A p \in Procs : PassSound(p), [Next]_vars
    PROVE  DoingTyped'
<1>1. ASSUME NEW p \in Procs, QueueFire(p)
      PROVE  DoingTyped'
  <2>0. mine[p] \in Nat /\ todo[p] \subseteq Occurrences
    BY DEF Typed, LeaseTyped, TodoTyped
  <2>1. doing' = doing \/ \E o \in Occurrences, how \in Hows :
          doing' = [doing EXCEPT ![p] = [of |-> o, how |-> how, under |-> mine[p]]]
    BY <1>1, <2>0 DEF QueueFire, Decides, Oldest, Hows, Outcomes
  <2> QED
    BY <2>0, <2>1 DEF Typed, DoingTyped, Decided
<1>2. ASSUME NEW p \in Procs, DrainNext(p)
      PROVE  DoingTyped'
  <2>0. mine[p] \in Nat /\ todo[p] \subseteq Occurrences
    BY DEF Typed, LeaseTyped, TodoTyped
  <2>1. doing' = doing \/ \E o \in Occurrences, how \in Hows :
          doing' = [doing EXCEPT ![p] = [of |-> o, how |-> how, under |-> mine[p]]]
    BY <1>2, <2>0 DEF DrainNext, Decides, Oldest, Hows, Outcomes
  <2> QED
    BY <2>0, <2>1 DEF Typed, DoingTyped, Decided
<1>3. ASSUME NEW p \in Procs, NoteRunless(p)
      PROVE  DoingTyped'
  <2>0. Nothing \in Decided
    BY DEF Nothing, Decided, Hows
  <2> QED
    BY <1>3, <2>0 DEF NoteRunless, Settles, Typed, DoingTyped
<1>4. ASSUME NEW p \in Procs, Launch(p)
      PROVE  DoingTyped'
  <2>0. Nothing \in Decided
    BY DEF Nothing, Decided, Hows
  <2>1. doing[p] \in Decided
    BY DEF Typed, DoingTyped
  <2>2. \/ doing' = [doing EXCEPT ![p] = Nothing]
        \/ \E how \in Hows : doing' = [doing EXCEPT ![p].how = how]
    BY <1>4 DEF Launch, Settles, Refused, Hows, Outcomes
  <2>3. ASSUME NEW how \in Hows, doing' = [doing EXCEPT ![p].how = how] PROVE DoingTyped'
    <3>1. [doing[p] EXCEPT !.how = how] \in Decided
      BY <2>1 DEF Decided
    <3>2. doing' = [doing EXCEPT ![p] = [doing[p] EXCEPT !.how = how]]
      BY <2>3 DEF Typed, DoingTyped
    <3> QED
      BY <3>1, <3>2 DEF Typed, DoingTyped
  <2> QED
    BY <2>0, <2>2, <2>3 DEF Typed, DoingTyped
<1>5. ASSUME NEW p \in Procs, FireNext(p)
      PROVE  DoingTyped'
  <2>0. mine[p] \in Nat /\ todo[p] \subseteq Occurrences
    BY DEF Typed, LeaseTyped, TodoTyped
  <2>1. doing' = doing \/ \E o \in Occurrences, how \in Hows :
          doing' = [doing EXCEPT ![p] = [of |-> o, how |-> how, under |-> mine[p]]]
    BY <1>5, <2>0 DEF FireNext, Decides, Oldest, Hows, Outcomes
  <2> QED
    BY <2>0, <2>1 DEF Typed, DoingTyped, Decided
<1>6. ASSUME NEW p \in Procs, FireLook(p)
      PROVE  DoingTyped'
  <2>0. mine[p] \in Nat /\ doing[p].of \in Occurrences
    BY <1>6 DEF FireLook, PassSound, Typed, LeaseTyped
  <2>1. \E how \in Hows : doing' = [doing EXCEPT ![p] = [of |-> doing[p].of, how |-> how, under |-> mine[p]]]
    BY <1>6 DEF FireLook, Decides, Hows, Outcomes
  <2> QED
    BY <2>0, <2>1 DEF Typed, DoingTyped, Decided
<1>7. ASSUME NEW p \in Procs, Crash(p)
      PROVE  DoingTyped'
  <2>0. Nothing \in Decided
    BY DEF Nothing, Decided, Hows
  <2> QED
    BY <1>7, <2>0 DEF Crash, Typed, DoingTyped
<1>8. ASSUME 
                \/ (\E p \in Procs : Begin(p) \/ CatchUp(p) \/ CaughtUp(p) \/ Drain(p) \/ Sleep(p) \/ Wake(p) \/ Fired(p) \/ Stop(p))
                \/ Leases \/ Come
                \/ (\E s \in Schedules : Pause(s) \/ Resume(s))
                \/ (\E j \in Targets : Submit(j) \/ ManualEnds(j))
                \/ (\E o \in Occurrences : RunEnds(o))
      PROVE  DoingTyped'
  BY ZenonT(60), <1>8 DEF Begin, tables, Goes, CatchUp, Advance, Ticks, CaughtUp, Drain, Sleep,
     Rests, Wake, Fired, Stop, HandBack, Leases, passVars, Come, Pause, Resume, Submit, ManualEnds,
     RunEnds, leaseVars, Typed, DoingTyped
<1>9. ASSUME UNCHANGED vars PROVE DoingTyped'
  BY <1>9 DEF vars, tables, leaseVars, Typed, DoingTyped
<1> QED
  BY <1>1, <1>2, <1>3, <1>4, <1>5, <1>6, <1>7, <1>8, <1>9 DEF Next, Pass

(* What is held may fire. *)
LEMMA StepHeld ==
    ASSUME Typed, HeldFree, \A p \in Procs : PassSound(p), [Next]_vars
    PROVE  HeldFree'
<1>1. ASSUME NEW p \in Procs, Begin(p)
      PROVE  HeldFree'
  <2>1. UNCHANGED tick
    BY <1>1 DEF Begin, tables, Goes
  <2> QED
    BY <2>1, FreeStays DEF HeldFree
<1>2. ASSUME NEW p \in Procs, CatchUp(p)
      PROVE  HeldFree'
  <2>1. \A o \in Occurrences : tick'[o] = "deferred" => tick[o] = "deferred"
    BY <1>2 DEF CatchUp, Ticks, Typed, TablesTyped
  <2> QED
    BY <2>1, FreeStays DEF HeldFree
<1>3. ASSUME NEW p \in Procs, QueueFire(p)
      PROVE  HeldFree'
  <2>1. UNCHANGED tick
    BY <1>3 DEF QueueFire, Decides, tables
  <2> QED
    BY <2>1, FreeStays DEF HeldFree
<1>4. ASSUME NEW p \in Procs, CaughtUp(p)
      PROVE  HeldFree'
  <2>1. UNCHANGED tick
    BY <1>4 DEF CaughtUp, Advance, Goes
  <2> QED
    BY <2>1, FreeStays DEF HeldFree
<1>5. ASSUME NEW p \in Procs, Drain(p)
      PROVE  HeldFree'
  <2>1. UNCHANGED tick
    BY <1>5 DEF Drain, Goes, tables
  <2> QED
    BY <2>1, FreeStays DEF HeldFree
<1>6. ASSUME NEW p \in Procs, DrainNext(p)
      PROVE  HeldFree'
  <2>1. UNCHANGED tick
    BY <1>6 DEF DrainNext, Decides, tables
  <2> QED
    BY <2>1, FreeStays DEF HeldFree
<1>7. ASSUME NEW p \in Procs, NoteRunless(p)
      PROVE  HeldFree'
  <2>1. \A o \in Occurrences : tick'[o] = "deferred" =>
          tick[o] = "deferred" \/ (doing[p].of = o /\ doing[p].how = "deferred")
    BY <1>7 DEF NoteRunless, Ticks, Typed, TablesTyped
  <2> QED
    BY <2>1, FreeStays DEF HeldFree, PassSound
<1>8. ASSUME NEW p \in Procs, Launch(p)
      PROVE  HeldFree'
  <2>1. \A o \in Occurrences : tick'[o] = "deferred" => tick[o] = "deferred"
    BY <1>8 DEF Launch, Lands, Typed, TablesTyped
  <2> QED
    BY <2>1, FreeStays DEF HeldFree
<1>9. ASSUME NEW p \in Procs, Sleep(p)
      PROVE  HeldFree'
  <2>1. UNCHANGED tick
    BY <1>9 DEF Sleep, Goes, Rests, tables
  <2> QED
    BY <2>1, FreeStays DEF HeldFree
<1>10. ASSUME NEW p \in Procs, Wake(p)
      PROVE  HeldFree'
  <2>1. UNCHANGED tick
    BY <1>10 DEF Wake, Goes, tables
  <2> QED
    BY <2>1, FreeStays DEF HeldFree
<1>11. ASSUME NEW p \in Procs, FireNext(p)
      PROVE  HeldFree'
  <2>1. UNCHANGED tick
    BY <1>11 DEF FireNext, Advance, Decides
  <2> QED
    BY <2>1, FreeStays DEF HeldFree
<1>12. ASSUME NEW p \in Procs, FireLook(p)
      PROVE  HeldFree'
  <2>1. UNCHANGED tick
    BY <1>12 DEF FireLook, Decides, tables
  <2> QED
    BY <2>1, FreeStays DEF HeldFree
<1>13. ASSUME NEW p \in Procs, Fired(p)
      PROVE  HeldFree'
  <2>1. UNCHANGED tick
    BY <1>13 DEF Fired, Goes, Rests, tables
  <2> QED
    BY <2>1, FreeStays DEF HeldFree
<1>14. ASSUME NEW p \in Procs, Stop(p)
      PROVE  HeldFree'
  <2>1. UNCHANGED tick
    BY <1>14 DEF Stop, HandBack, tables
  <2> QED
    BY <2>1, FreeStays DEF HeldFree
<1>15. ASSUME NEW p \in Procs, Crash(p)
      PROVE  HeldFree'
  <2>1. UNCHANGED tick
    BY <1>15 DEF Crash, Die, Goes, Rests, tables
  <2> QED
    BY <2>1, FreeStays DEF HeldFree
<1>16. ASSUME Leases
      PROVE  HeldFree'
  <2>1. UNCHANGED tick
    BY <1>16 DEF Leases, tables, passVars
  <2> QED
    BY <2>1, FreeStays DEF HeldFree
<1>17. ASSUME Come
      PROVE  HeldFree'
  <2>1. UNCHANGED tick
    BY <1>17 DEF Come, tables, passVars
  <2> QED
    BY <2>1, FreeStays DEF HeldFree
<1>18. ASSUME NEW s \in Schedules, Pause(s)
      PROVE  HeldFree'
  <2>1. UNCHANGED tick
    BY <1>18 DEF Pause, passVars
  <2> QED
    BY <2>1, FreeStays DEF HeldFree
<1>19. ASSUME NEW s \in Schedules, Resume(s)
      PROVE  HeldFree'
  <2>1. UNCHANGED tick
    BY <1>19 DEF Resume, passVars
  <2> QED
    BY <2>1, FreeStays DEF HeldFree
<1>20. ASSUME NEW j \in Targets, Submit(j)
      PROVE  HeldFree'
  <2>1. UNCHANGED tick
    BY <1>20 DEF Submit, passVars
  <2> QED
    BY <2>1, FreeStays DEF HeldFree
<1>21. ASSUME NEW j \in Targets, ManualEnds(j)
      PROVE  HeldFree'
  <2>1. UNCHANGED tick
    BY <1>21 DEF ManualEnds, passVars
  <2> QED
    BY <2>1, FreeStays DEF HeldFree
<1>22. ASSUME NEW o \in Occurrences, RunEnds(o)
      PROVE  HeldFree'
  <2>1. UNCHANGED tick
    BY <1>22 DEF RunEnds, passVars
  <2> QED
    BY <2>1, FreeStays DEF HeldFree
<1>23. ASSUME UNCHANGED vars PROVE HeldFree'
  <2>1. UNCHANGED tick
    BY <1>23 DEF vars, tables
  <2> QED
    BY <2>1, FreeStays DEF HeldFree
<1> QED
  BY <1>1, <1>2, <1>3, <1>4, <1>5, <1>6, <1>7, <1>8, <1>9, <1>10, <1>11, <1>12, <1>13, <1>14, <1>15,
     <1>16, <1>17, <1>18, <1>19, <1>20, <1>21, <1>22, <1>23 DEF Next, Pass

(* What a process has in hand stays sound while nothing it has changes. *)
Untouched(q) ==
    /\ pc'[q] = pc[q] /\ now'[q] = now[q] /\ rows'[q] = rows[q] /\ here'[q] = here[q]
    /\ todo'[q] = todo[q] /\ doing'[q] = doing[q]

(* A process no step of which is taken keeps what is sound in its hands.   *)
LEMMA SoundStays ==
    ASSUME Typed, [Next]_vars, NEW q \in Procs, PassSound(q), Untouched(q)
    PROVE  PassSound(q)'
<1>1. todo[q] \subseteq Occurrences
  BY DEF Typed, TodoTyped
<1>2. \A o \in Occurrences : Free(o) => Free(o)'
  BY FreeStays
<1>3. \A s : Missed(q, s)' = Missed(q, s)
  BY DEF Untouched, Missed
<1> QED
  BY <1>1, <1>2, <1>3 DEF Untouched, PassSound

(* What each step leaves a process with. *)
LEMMA StepSound ==
    ASSUME Typed, HeldFree, NEW q \in Procs, PassSound(q), [Next]_vars
    PROVE  PassSound(q)'
<1>1. ASSUME NEW p \in Procs, Begin(p)
      PROVE  PassSound(q)'
  <2>1. \A o \in Occurrences : Free(o) => Free(o)'
    BY FreeStays
  <2>2. CASE q = p
    <3>1. /\ pc'[p] = "catchup" /\ pc[p] = "idle" /\ todo' = todo /\ doing' = doing
          /\ now'[p] = clock /\ rows'[p] = [paused |-> paused, cursor |-> cursor]
          /\ clock' = clock /\ paused' = paused /\ pausedAt' = pausedAt
          /\ here'[p] = {s \in Range(entries) \ gone[p] :
               cursor[s] = Never \/ \E t \in Due[s] : cursor[s] < t /\ t <= clock}
      BY <2>2, <1>1 DEF Begin, Goes, tables, Typed, PassTyped, RowsTyped
    <3>2. \A s \in here'[p] : rows'[p].cursor[s] # Never => Missed(p, s)' # {}
      BY <2>2, <3>1 DEF Missed
    <3>3. \A o \in Occurrences : o[1] \notin rows'[p].paused /\ o[2] <= now'[p] => Free(o)'
      BY <2>2, <3>1 DEF Free
    <3>4. todo'[p] = {}
      BY <2>2, <3>1 DEF PassSound
    <3> QED
      BY <2>2, <3>1, <3>2, <3>3, <3>4, <2>1 DEF PassSound
  <2>3. CASE q # p
    <3>1. Untouched(q)
      BY <2>3, <1>1 DEF Begin, tables, Goes, Untouched, Typed, PassTyped, RowsTyped, TodoTyped, DoingTyped
    <3> QED
      BY <3>1, SoundStays
  <2> QED
    BY <2>2, <2>3
<1>2. ASSUME NEW p \in Procs, CatchUp(p)
      PROVE  PassSound(q)'
  <2>1. \A o \in Occurrences : Free(o) => Free(o)'
    BY FreeStays
  <2>2. CASE q = p
    <3>1. PICK s \in here[p] :
            /\ pc[p] = "catchup" /\ UNCHANGED <<now, rows, doing>>
            /\ \/ here' = [here EXCEPT ![p] = @ \ {s}] /\ pc' = pc /\ todo' = todo
               \/ /\ rows[p].cursor[s] # Never /\ s \notin rows[p].paused /\ here' = here
                  /\ pc' = [pc EXCEPT ![p] = "queueing"]
                  /\ todo' = [todo EXCEPT ![p] =
                       IF Catchup[s] = "one" THEN {<<s, Max(Missed(p, s))>>} ELSE {s} \X Newest(p, s)]
      BY <2>2, <1>2 DEF CatchUp, Goes
    <3>2. \A e \in Schedules : Missed(p, e)' = Missed(p, e)
      BY <2>2, <3>1 DEF Missed
    <3>3. here[p] \subseteq Schedules
      BY <2>2 DEF Typed, PassTyped
    <3>4. CASE here' = [here EXCEPT ![p] = @ \ {s}] /\ pc' = pc /\ todo' = todo
      BY <2>2, <2>1, <3>1, <3>2, <3>3, <3>4 DEF PassSound, Typed, PassTyped, TodoTyped
    <3>5. CASE /\ rows[p].cursor[s] # Never /\ s \notin rows[p].paused /\ here' = here
               /\ pc' = [pc EXCEPT ![p] = "queueing"]
               /\ todo' = [todo EXCEPT ![p] =
                    IF Catchup[s] = "one" THEN {<<s, Max(Missed(p, s))>>} ELSE {s} \X Newest(p, s)]
      <4>1. Missed(p, s) # {} /\ s \in Schedules
        BY <2>2, <3>1, <3>3, <3>5 DEF PassSound
      <4>2. ASSUME NEW t \in Missed(p, s) PROVE <<s, t>> \in Occurrences /\ Free(<<s, t>>)'
        <5>1. <<s, t>> \in Occurrences /\ t <= now[p]
          BY <2>2, <4>1, MissedOf
        <5>2. <<s, t>>[1] = s /\ <<s, t>>[2] = t
          OBVIOUS
        <5>3. Free(<<s, t>>)
          BY <2>2, <5>1, <5>2, <3>1, <3>5 DEF PassSound
        <5> QED
          BY <2>2, <5>1, <5>3, FreeStays
      <4>3. \A o \in todo'[p] : \E t \in Missed(p, s) : o = <<s, t>>
        <5>1. Max(Missed(p, s)) \in Missed(p, s) /\ Newest(p, s) \subseteq Missed(p, s)
          BY <2>2, <4>1, MissedOf DEF Newest
        <5> QED
          BY <2>2, <3>5, <5>1 DEF Typed, TodoTyped
      <4>4. \A o \in todo'[p] : Free(o)'
        BY <2>2, <4>2, <4>3
      <4>5. pc'[p] = "queueing"
        BY <2>2, <3>5 DEF Typed, PassTyped
      <4> QED
        BY <2>2, <2>1, <3>1, <3>2, <3>3, <3>5, <4>4, <4>5 DEF PassSound
    <3> QED
      BY <2>2, <3>1, <3>4, <3>5
  <2>3. CASE q # p
    <3>1. Untouched(q)
      BY <2>3, <1>2 DEF CatchUp, Goes, Advance, Ticks, Untouched, Typed, PassTyped, RowsTyped,
         TodoTyped, DoingTyped
    <3> QED
      BY <3>1, SoundStays
  <2> QED
    BY <2>2, <2>3
<1>3. ASSUME NEW p \in Procs, QueueFire(p)
      PROVE  PassSound(q)'
  <2>1. \A o \in Occurrences : Free(o) => Free(o)'
    BY FreeStays
  <2>2. CASE q = p
    <3>1. PICK o \in todo[p], how \in Hows :
            /\ UNCHANGED <<pc, now, rows, here, todo>> /\ pc[p] = "queueing"
            /\ doing' = [doing EXCEPT ![p] = [of |-> o, how |-> how, under |-> mine[p]]]
      BY <2>2, <1>3 DEF QueueFire, Decides, Oldest, tables, Hows, Outcomes
    <3>2. o \in Occurrences /\ Free(o)'
      BY <2>2, <2>1, <3>1 DEF PassSound, Typed, TodoTyped
    <3>3. doing'[p] = [of |-> o, how |-> how, under |-> mine[p]]
      BY <2>2, <3>1 DEF Typed, DoingTyped
    <3>4. \A s : Missed(p, s)' = Missed(p, s)
      BY <2>2, <3>1 DEF Missed
    <3> QED
      BY <2>2, <2>1, <3>1, <3>2, <3>3, <3>4 DEF PassSound, Typed, TodoTyped
  <2>3. CASE q # p
    <3>1. Untouched(q)
      BY <2>3, <1>3 DEF QueueFire, Decides, tables, Untouched, Typed, PassTyped, RowsTyped,
         TodoTyped, DoingTyped
    <3> QED
      BY <3>1, SoundStays
  <2> QED
    BY <2>2, <2>3
<1>4. ASSUME NEW p \in Procs, CaughtUp(p)
      PROVE  PassSound(q)'
  <2>1. \A o \in Occurrences : Free(o) => Free(o)'
    BY FreeStays
  <2>2. CASE q = p
    <3>1. PICK s \in here[p] : /\ UNCHANGED <<now, rows, todo, doing>> /\ pc[p] = "queueing"
                               /\ pc' = [pc EXCEPT ![p] = "catchup"] /\ here' = [here EXCEPT ![p] = @ \ {s}]
      BY <2>2, <1>4 DEF CaughtUp, Goes
    <3>2. \A e : Missed(p, e)' = Missed(p, e)
      BY <2>2, <3>1 DEF Missed
    <3>3. pc'[p] = "catchup" /\ here'[p] \subseteq here[p]
      BY <2>2, <3>1 DEF Typed, PassTyped
    <3> QED
      BY <2>2, <2>1, <3>1, <3>2, <3>3 DEF PassSound, Typed, TodoTyped
  <2>3. CASE q # p
    <3>1. Untouched(q)
      BY <2>3, <1>4 DEF CaughtUp, Advance, Goes, Untouched, Typed, PassTyped, RowsTyped, TodoTyped, DoingTyped
    <3> QED
      BY <3>1, SoundStays
  <2> QED
    BY <2>2, <2>3
<1>5. ASSUME NEW p \in Procs, Drain(p)
      PROVE  PassSound(q)'
  <2>1. \A o \in Occurrences : Free(o) => Free(o)'
    BY FreeStays
  <2>2. CASE q = p
    <3>1. /\ pc'[p] = "draining" /\ pc[p] = "catchup" /\ doing' = doing
          /\ todo'[p] = Pending \/ todo'[p] = todo[p]
      BY <2>2, <1>5 DEF Drain, Goes, Typed, PassTyped, TodoTyped
    <3>2. \A o \in Pending : o \in Occurrences /\ Free(o)
      BY <2>2 DEF Pending, HeldFree
    <3>3. \A o \in todo'[p] : Free(o)'
      BY <2>2, <2>1, <3>1, <3>2 DEF PassSound, Typed, TodoTyped
    <3> QED
      BY <2>2, <2>1, <3>1, <3>3 DEF PassSound
  <2>3. CASE q # p
    <3>1. Untouched(q)
      BY <2>3, <1>5 DEF Drain, Goes, tables, Untouched, Typed, PassTyped, RowsTyped, TodoTyped, DoingTyped
    <3> QED
      BY <3>1, SoundStays
  <2> QED
    BY <2>2, <2>3
<1>6. ASSUME NEW p \in Procs, DrainNext(p)
      PROVE  PassSound(q)'
  <2>1. \A o \in Occurrences : Free(o) => Free(o)'
    BY FreeStays
  <2>2. CASE q = p
    <3>1. PICK o \in todo[p] :
            /\ UNCHANGED <<pc, now, rows, here>> /\ pc[p] = "draining"
            /\ \/ todo' = [todo EXCEPT ![p] = @ \ {o}] /\ doing' = doing
               \/ \E how \in Hows : /\ doing' = [doing EXCEPT ![p] = [of |-> o, how |-> how, under |-> mine[p]]]
                                    /\ todo' = todo
      BY <2>2, <1>6 DEF DrainNext, Decides, Oldest, tables, Hows, Outcomes
    <3>2. o \in Occurrences /\ Free(o)'
      BY <2>2, <2>1, <3>1 DEF PassSound, Typed, TodoTyped
    <3>3. todo'[p] \subseteq todo[p] /\ (doing'[p] = doing[p] \/ doing'[p].of = o)
      BY <2>2, <3>1 DEF Typed, TodoTyped, DoingTyped
    <3> QED
      BY <2>2, <2>1, <3>1, <3>2, <3>3 DEF PassSound, Typed, TodoTyped
  <2>3. CASE q # p
    <3>1. Untouched(q)
      BY <2>3, <1>6 DEF DrainNext, Decides, tables, Untouched, Typed, PassTyped, RowsTyped,
         TodoTyped, DoingTyped
    <3> QED
      BY <3>1, SoundStays
  <2> QED
    BY <2>2, <2>3
<1>7. ASSUME NEW p \in Procs, NoteRunless(p)
      PROVE  PassSound(q)'
  <2>1. \A o \in Occurrences : Free(o) => Free(o)'
    BY FreeStays
  <2>2. CASE q = p
    <3>1. /\ UNCHANGED <<pc, now, rows, here>> /\ todo'[p] \subseteq todo[p]
          /\ doing'[p].how \in {"look", "fired", "deferred"} =>
               /\ doing[p].how \in {"look", "fired", "deferred"} /\ doing'[p].of = doing[p].of
      BY <2>2, <1>7 DEF NoteRunless, Settles, Nothing, Typed, TodoTyped, DoingTyped, Decided
    <3>2. \A s : Missed(p, s)' = Missed(p, s)
      BY <2>2, <3>1 DEF Missed
    <3> QED
      BY <2>2, <2>1, <3>1, <3>2 DEF PassSound, Typed, TodoTyped
  <2>3. CASE q # p
    <3>1. Untouched(q)
      BY <2>3, <1>7 DEF NoteRunless, Ticks, Settles, Untouched, Typed, PassTyped, RowsTyped,
         TodoTyped, DoingTyped
    <3> QED
      BY <3>1, SoundStays
  <2> QED
    BY <2>2, <2>3
<1>8. ASSUME NEW p \in Procs, Launch(p)
      PROVE  PassSound(q)'
  <2>1. \A o \in Occurrences : Free(o) => Free(o)'
    BY FreeStays
  <2>2. CASE q = p
    <3>1. /\ UNCHANGED <<pc, now, rows, here>> /\ todo'[p] \subseteq todo[p]
          /\ doing'[p].how \in {"look", "fired", "deferred"} =>
               /\ doing[p].how \in {"look", "fired", "deferred"} /\ doing'[p].of = doing[p].of
      BY <2>2, <1>8 DEF Launch, Settles, Refused, Nothing, Typed, TodoTyped, DoingTyped, Decided
    <3>2. \A s : Missed(p, s)' = Missed(p, s)
      BY <2>2, <3>1 DEF Missed
    <3> QED
      BY <2>2, <2>1, <3>1, <3>2 DEF PassSound, Typed, TodoTyped
  <2>3. CASE q # p
    <3>1. Untouched(q)
      BY <2>3, <1>8 DEF Launch, Settles, Lands, Refused, Untouched, Typed, PassTyped, RowsTyped,
         TodoTyped, DoingTyped
    <3> QED
      BY <3>1, SoundStays
  <2> QED
    BY <2>2, <2>3
<1>9. ASSUME NEW p \in Procs, Sleep(p)
      PROVE  PassSound(q)'
  <2>1. \A o \in Occurrences : Free(o) => Free(o)'
    BY FreeStays
  <2>2. CASE q = p
    <3>1. pc'[p] \in {"done", "asleep"} /\ doing' = doing
      BY <2>2, <1>9 DEF Sleep, Goes, Typed, PassTyped
    <3> QED
      BY <2>2, <2>1, <3>1 DEF PassSound
  <2>3. CASE q # p
    <3>1. Untouched(q)
      BY <2>3, <1>9 DEF Sleep, Goes, Rests, tables, Untouched, Typed, PassTyped, RowsTyped,
         TodoTyped, DoingTyped
    <3> QED
      BY <3>1, SoundStays
  <2> QED
    BY <2>2, <2>3
<1>10. ASSUME NEW p \in Procs, Wake(p)
      PROVE  PassSound(q)'
  <2>1. \A o \in Occurrences : Free(o) => Free(o)'
    BY FreeStays
  <2>2. CASE q = p
    <3>1. /\ doing' = doing /\ UNCHANGED <<clock, paused, pausedAt>>
          /\ \/ pc'[p] = "idle" /\ todo'[p] = {}
             \/ pc'[p] = "firing" /\ todo'[p] = Overdue(p) /\ rows'[p].paused = paused
      BY <2>2, <1>10 DEF Wake, Goes, tables, Typed, PassTyped, TodoTyped, RowsTyped, Row
    <3>2. \A o \in Overdue(p) : o[1] \notin paused => Free(o)'
      BY <2>2, <3>1 DEF Overdue, Free
    <3> QED
      BY <2>2, <2>1, <3>1, <3>2 DEF PassSound
  <2>3. CASE q # p
    <3>1. Untouched(q)
      BY <2>3, <1>10 DEF Wake, Goes, tables, Untouched, Typed, PassTyped, RowsTyped, TodoTyped, DoingTyped
    <3> QED
      BY <3>1, SoundStays
  <2> QED
    BY <2>2, <2>3
<1>11. ASSUME NEW p \in Procs, FireNext(p)
      PROVE  PassSound(q)'
  <2>1. \A o \in Occurrences : Free(o) => Free(o)'
    BY FreeStays
  <2>2. CASE q = p
    <3>1. PICK o \in todo[p] :
            /\ UNCHANGED <<pc, now, rows, here>> /\ pc[p] = "firing"
            /\ \/ todo' = [todo EXCEPT ![p] = @ \ {o}] /\ doing' = doing
               \/ /\ o[1] \notin rows[p].paused /\ todo' = todo
                  /\ \E how \in Hows : doing' = [doing EXCEPT ![p] = [of |-> o, how |-> how, under |-> mine[p]]]
      BY <2>2, <1>11 DEF FireNext, Decides, Hows, Outcomes
    <3>2. o \in Occurrences /\ (o[1] \notin rows[p].paused => Free(o)')
      BY <2>2, <2>1, <3>1 DEF PassSound, Typed, TodoTyped
    <3>3. todo'[p] \subseteq todo[p]
      BY <2>2, <3>1 DEF Typed, TodoTyped
    <3>4. doing'[p] = doing[p] \/ (doing'[p].of = o /\ o[1] \notin rows[p].paused)
      BY <2>2, <3>1 DEF Typed, DoingTyped
    <3> QED
      BY <2>2, <2>1, <3>1, <3>2, <3>3, <3>4 DEF PassSound, Typed, TodoTyped
  <2>3. CASE q # p
    <3>1. Untouched(q)
      BY <2>3, <1>11 DEF FireNext, Advance, Decides, Untouched, Typed, PassTyped, RowsTyped,
         TodoTyped, DoingTyped
    <3> QED
      BY <3>1, SoundStays
  <2> QED
    BY <2>2, <2>3
<1>12. ASSUME NEW p \in Procs, FireLook(p)
      PROVE  PassSound(q)'
  <2>1. \A o \in Occurrences : Free(o) => Free(o)'
    BY FreeStays
  <2>2. CASE q = p
    <3>1. /\ UNCHANGED <<pc, now, rows, here>> /\ todo'[p] \subseteq todo[p]
          /\ doing'[p].how \in {"look", "fired", "deferred"} =>
               /\ doing[p].how \in {"look", "fired", "deferred"} /\ doing'[p].of = doing[p].of
      BY <2>2, <1>12 DEF FireLook, Decides, tables, Nothing, Typed, TodoTyped, DoingTyped, Decided
    <3>2. \A s : Missed(p, s)' = Missed(p, s)
      BY <2>2, <3>1 DEF Missed
    <3> QED
      BY <2>2, <2>1, <3>1, <3>2 DEF PassSound, Typed, TodoTyped
  <2>3. CASE q # p
    <3>1. Untouched(q)
      BY <2>3, <1>12 DEF FireLook, Decides, tables, Untouched, Typed, PassTyped, RowsTyped,
         TodoTyped, DoingTyped
    <3> QED
      BY <3>1, SoundStays
  <2> QED
    BY <2>2, <2>3
<1>13. ASSUME NEW p \in Procs, Fired(p)
      PROVE  PassSound(q)'
  <2>1. \A o \in Occurrences : Free(o) => Free(o)'
    BY FreeStays
  <2>2. CASE q = p
    <3>1. pc'[p] = "idle" /\ todo'[p] = {} /\ doing' = doing
      BY <2>2, <1>13 DEF Fired, Goes, Typed, PassTyped
    <3> QED
      BY <2>2, <2>1, <3>1 DEF PassSound
  <2>3. CASE q # p
    <3>1. Untouched(q)
      BY <2>3, <1>13 DEF Fired, Goes, Rests, tables, Untouched, Typed, PassTyped, RowsTyped,
         TodoTyped, DoingTyped
    <3> QED
      BY <3>1, SoundStays
  <2> QED
    BY <2>2, <2>3
<1>14. ASSUME NEW p \in Procs, Stop(p)
      PROVE  PassSound(q)'
  <2>1. \A o \in Occurrences : Free(o) => Free(o)'
    BY FreeStays
  <2>2. CASE q = p
    <3>1. UNCHANGED <<pc, now, rows, here, doing>> /\ todo'[p] \subseteq todo[p]
      BY <2>2, <1>14 DEF Stop, Typed, TodoTyped
    <3>2. \A s : Missed(p, s)' = Missed(p, s)
      BY <2>2, <3>1 DEF Missed
    <3> QED
      BY <2>2, <2>1, <3>1, <3>2 DEF PassSound, Typed, TodoTyped
  <2>3. CASE q # p
    <3>1. Untouched(q)
      BY <2>3, <1>14 DEF Stop, HandBack, tables, Untouched, Typed, PassTyped, RowsTyped, TodoTyped, DoingTyped
    <3> QED
      BY <3>1, SoundStays
  <2> QED
    BY <2>2, <2>3
<1>15. ASSUME NEW p \in Procs, Crash(p)
      PROVE  PassSound(q)'
  <2>1. \A o \in Occurrences : Free(o) => Free(o)'
    BY FreeStays
  <2>2. CASE q = p
    <3>1. pc'[p] = "idle" /\ todo'[p] = {} /\ doing'[p] = Nothing
      BY <2>2, <1>15 DEF Crash, Goes, Typed, PassTyped, TodoTyped, DoingTyped
    <3> QED
      BY <2>2, <3>1 DEF PassSound, Nothing
  <2>3. CASE q # p
    <3>1. Untouched(q)
      BY <2>3, <1>15 DEF Crash, Die, Goes, Rests, tables, Untouched, Typed, PassTyped, RowsTyped,
         TodoTyped, DoingTyped
    <3> QED
      BY <3>1, SoundStays
  <2> QED
    BY <2>2, <2>3
<1>16. ASSUME 
                \/ Leases \/ Come
                \/ (\E s \in Schedules : Pause(s) \/ Resume(s))
                \/ (\E j \in Targets : Submit(j) \/ ManualEnds(j))
                \/ (\E o \in Occurrences : RunEnds(o))
      PROVE  PassSound(q)'
  <2>1. Untouched(q)
    BY <1>16 DEF Leases, tables, passVars, Come, Pause, Resume, Submit, ManualEnds, RunEnds, Untouched
  <2> QED
    BY <2>1, SoundStays
<1>17. ASSUME UNCHANGED vars PROVE PassSound(q)'
  <2>1. Untouched(q)
    BY <1>17 DEF vars, Untouched
  <2> QED
    BY <2>1, SoundStays
<1> QED
  BY <1>1, <1>2, <1>3, <1>4, <1>5, <1>6, <1>7, <1>8, <1>9, <1>10, <1>11, <1>12, <1>13, <1>14, <1>15,
     <1>16, <1>17 DEF Next, Pass

(* What did not fire was fired in no term. *)
LEMMA StepUnmade ==
    ASSUME Typed, Unmade, [Next]_vars
    PROVE  Unmade'
<1>1. ASSUME NEW p \in Procs, Launch(p)
      PROVE  Unmade'
  BY <1>1 DEF Launch, Lands, Unmade, Typed, TablesTyped
<1>2. ASSUME NEW o \in Occurrences, RunEnds(o)
      PROVE  Unmade'
  BY <1>2 DEF RunEnds, Unmade, Typed, TablesTyped
<1>3. ASSUME NEW p \in Procs, Begin(p)
      PROVE  Unmade'
  <2>1. UNCHANGED <<run, made>>
    BY <1>3 DEF Begin, tables, Goes
  <2> QED
    BY <2>1 DEF Unmade
<1>4. ASSUME NEW p \in Procs, CatchUp(p)
      PROVE  Unmade'
  <2>1. UNCHANGED <<run, made>>
    BY <1>4 DEF CatchUp, Goes, Advance, Ticks
  <2> QED
    BY <2>1 DEF Unmade
<1>5. ASSUME NEW p \in Procs, QueueFire(p)
      PROVE  Unmade'
  <2>1. UNCHANGED <<run, made>>
    BY <1>5 DEF QueueFire, Decides, tables
  <2> QED
    BY <2>1 DEF Unmade
<1>6. ASSUME NEW p \in Procs, CaughtUp(p)
      PROVE  Unmade'
  <2>1. UNCHANGED <<run, made>>
    BY <1>6 DEF CaughtUp, Advance, Goes
  <2> QED
    BY <2>1 DEF Unmade
<1>7. ASSUME NEW p \in Procs, Drain(p)
      PROVE  Unmade'
  <2>1. UNCHANGED <<run, made>>
    BY <1>7 DEF Drain, Goes, tables
  <2> QED
    BY <2>1 DEF Unmade
<1>8. ASSUME NEW p \in Procs, DrainNext(p)
      PROVE  Unmade'
  <2>1. UNCHANGED <<run, made>>
    BY <1>8 DEF DrainNext, Decides, tables
  <2> QED
    BY <2>1 DEF Unmade
<1>9. ASSUME NEW p \in Procs, NoteRunless(p)
      PROVE  Unmade'
  <2>1. UNCHANGED <<run, made>>
    BY <1>9 DEF NoteRunless, Ticks, Settles
  <2> QED
    BY <2>1 DEF Unmade
<1>10. ASSUME NEW p \in Procs, Sleep(p)
      PROVE  Unmade'
  <2>1. UNCHANGED <<run, made>>
    BY <1>10 DEF Sleep, Goes, Rests, tables
  <2> QED
    BY <2>1 DEF Unmade
<1>11. ASSUME NEW p \in Procs, Wake(p)
      PROVE  Unmade'
  <2>1. UNCHANGED <<run, made>>
    BY <1>11 DEF Wake, Goes, tables
  <2> QED
    BY <2>1 DEF Unmade
<1>12. ASSUME NEW p \in Procs, FireNext(p)
      PROVE  Unmade'
  <2>1. UNCHANGED <<run, made>>
    BY <1>12 DEF FireNext, Advance, Decides
  <2> QED
    BY <2>1 DEF Unmade
<1>13. ASSUME NEW p \in Procs, FireLook(p)
      PROVE  Unmade'
  <2>1. UNCHANGED <<run, made>>
    BY <1>13 DEF FireLook, Decides, tables
  <2> QED
    BY <2>1 DEF Unmade
<1>14. ASSUME NEW p \in Procs, Fired(p)
      PROVE  Unmade'
  <2>1. UNCHANGED <<run, made>>
    BY <1>14 DEF Fired, Goes, Rests, tables
  <2> QED
    BY <2>1 DEF Unmade
<1>15. ASSUME NEW p \in Procs, Stop(p)
      PROVE  Unmade'
  <2>1. UNCHANGED <<run, made>>
    BY <1>15 DEF Stop, HandBack, tables
  <2> QED
    BY <2>1 DEF Unmade
<1>16. ASSUME NEW p \in Procs, Crash(p)
      PROVE  Unmade'
  <2>1. UNCHANGED <<run, made>>
    BY <1>16 DEF Crash, Die, Goes, Rests, tables
  <2> QED
    BY <2>1 DEF Unmade
<1>17. ASSUME Leases
      PROVE  Unmade'
  <2>1. UNCHANGED <<run, made>>
    BY <1>17 DEF Leases, tables, passVars
  <2> QED
    BY <2>1 DEF Unmade
<1>18. ASSUME Come
      PROVE  Unmade'
  <2>1. UNCHANGED <<run, made>>
    BY <1>18 DEF Come, tables, passVars
  <2> QED
    BY <2>1 DEF Unmade
<1>19. ASSUME NEW s \in Schedules, Pause(s)
      PROVE  Unmade'
  <2>1. UNCHANGED <<run, made>>
    BY <1>19 DEF Pause, passVars
  <2> QED
    BY <2>1 DEF Unmade
<1>20. ASSUME NEW s \in Schedules, Resume(s)
      PROVE  Unmade'
  <2>1. UNCHANGED <<run, made>>
    BY <1>20 DEF Resume, passVars
  <2> QED
    BY <2>1 DEF Unmade
<1>21. ASSUME NEW j \in Targets, Submit(j)
      PROVE  Unmade'
  <2>1. UNCHANGED <<run, made>>
    BY <1>21 DEF Submit, passVars
  <2> QED
    BY <2>1 DEF Unmade
<1>22. ASSUME NEW j \in Targets, ManualEnds(j)
      PROVE  Unmade'
  <2>1. UNCHANGED <<run, made>>
    BY <1>22 DEF ManualEnds, passVars
  <2> QED
    BY <2>1 DEF Unmade
<1>23. ASSUME UNCHANGED vars PROVE Unmade'
  BY <1>23 DEF vars, tables, Unmade
<1> QED
  BY <1>1, <1>2, <1>3, <1>4, <1>5, <1>6, <1>7, <1>8, <1>9, <1>10, <1>11, <1>12, <1>13, <1>14, <1>15,
     <1>16, <1>17, <1>18, <1>19, <1>20, <1>21, <1>22, <1>23 DEF Next, Pass

(* No process knows of a term that has not begun. *)
LEMMA StepBelieved ==
    ASSUME Typed, NEW q \in Procs, Believed(q), [Next]_vars
    PROVE  Believed(q)'
<1>1. ASSUME NEW p \in Procs, Begin(p)
      PROVE  Believed(q)'
  <2>1. UNCHANGED <<term, mine, doing>>
    BY <1>1 DEF Begin, tables, Goes, leaseVars
  <2> QED
    BY <2>1 DEF Believed
<1>2. ASSUME NEW p \in Procs, CatchUp(p)
      PROVE  Believed(q)'
  <2>1. UNCHANGED <<term, mine, doing>>
    BY <1>2 DEF CatchUp, Goes, Advance, Ticks, leaseVars
  <2> QED
    BY <2>1 DEF Believed
<1>3. ASSUME NEW p \in Procs, QueueFire(p)
      PROVE  Believed(q)'
  <2>1. UNCHANGED <<term, mine>> /\ (doing'[q] = doing[q] \/ doing'[q].under = mine[q])
    BY <1>3 DEF QueueFire, Decides, leaseVars, Typed, DoingTyped
  <2> QED
    BY <2>1 DEF Believed
<1>4. ASSUME NEW p \in Procs, CaughtUp(p)
      PROVE  Believed(q)'
  <2>1. UNCHANGED <<term, mine, doing>>
    BY <1>4 DEF CaughtUp, Advance, Goes, leaseVars
  <2> QED
    BY <2>1 DEF Believed
<1>5. ASSUME NEW p \in Procs, Drain(p)
      PROVE  Believed(q)'
  <2>1. UNCHANGED <<term, mine, doing>>
    BY <1>5 DEF Drain, Goes, tables, leaseVars
  <2> QED
    BY <2>1 DEF Believed
<1>6. ASSUME NEW p \in Procs, DrainNext(p)
      PROVE  Believed(q)'
  <2>1. UNCHANGED <<term, mine>> /\ (doing'[q] = doing[q] \/ doing'[q].under = mine[q])
    BY <1>6 DEF DrainNext, Decides, leaseVars, Typed, DoingTyped
  <2> QED
    BY <2>1 DEF Believed
<1>7. ASSUME NEW p \in Procs, NoteRunless(p)
      PROVE  Believed(q)'
  <2>1. UNCHANGED <<term, mine>> /\ (doing'[q].under = doing[q].under \/ doing'[q].under = 0)
    BY <1>7 DEF NoteRunless, Settles, Refused, Nothing, leaseVars, Typed, DoingTyped, Decided
  <2> QED
    BY <2>1 DEF Believed, Typed, LeaseTyped, DoingTyped, Decided
<1>8. ASSUME NEW p \in Procs, Launch(p)
      PROVE  Believed(q)'
  <2>1. UNCHANGED <<term, mine>> /\ (doing'[q].under = doing[q].under \/ doing'[q].under = 0)
    BY <1>8 DEF Launch, Settles, Refused, Nothing, leaseVars, Typed, DoingTyped, Decided
  <2> QED
    BY <2>1 DEF Believed, Typed, LeaseTyped, DoingTyped, Decided
<1>9. ASSUME NEW p \in Procs, Sleep(p)
      PROVE  Believed(q)'
  <2>1. UNCHANGED <<term, mine, doing>>
    BY <1>9 DEF Sleep, Goes, Rests, tables, leaseVars
  <2> QED
    BY <2>1 DEF Believed
<1>10. ASSUME NEW p \in Procs, Wake(p)
      PROVE  Believed(q)'
  <2>1. UNCHANGED <<term, mine, doing>>
    BY <1>10 DEF Wake, Goes, tables, leaseVars
  <2> QED
    BY <2>1 DEF Believed
<1>11. ASSUME NEW p \in Procs, FireNext(p)
      PROVE  Believed(q)'
  <2>1. UNCHANGED <<term, mine>> /\ (doing'[q] = doing[q] \/ doing'[q].under = mine[q])
    BY <1>11 DEF FireNext, Decides, leaseVars, Typed, DoingTyped
  <2> QED
    BY <2>1 DEF Believed
<1>12. ASSUME NEW p \in Procs, FireLook(p)
      PROVE  Believed(q)'
  <2>1. UNCHANGED <<term, mine>> /\ (doing'[q] = doing[q] \/ doing'[q].under = mine[q])
    BY <1>12 DEF FireLook, Decides, leaseVars, Typed, DoingTyped
  <2> QED
    BY <2>1 DEF Believed
<1>13. ASSUME NEW p \in Procs, Fired(p)
      PROVE  Believed(q)'
  <2>1. UNCHANGED <<term, mine, doing>>
    BY <1>13 DEF Fired, Goes, Rests, tables, leaseVars
  <2> QED
    BY <2>1 DEF Believed
<1>14. ASSUME NEW p \in Procs, Stop(p)
      PROVE  Believed(q)'
  <2>1. UNCHANGED <<term, doing>> /\ (mine'[q] = mine[q] \/ mine'[q] = 0)
    BY <1>14 DEF Stop, HandBack, Typed, LeaseTyped
  <2> QED
    BY <2>1 DEF Believed, Typed, LeaseTyped, DoingTyped, Decided
<1>15. ASSUME NEW p \in Procs, Crash(p)
      PROVE  Believed(q)'
  <2>1. /\ UNCHANGED term /\ (mine'[q] = mine[q] \/ mine'[q] = 0)
        /\ doing'[q].under = doing[q].under \/ doing'[q].under = 0
    BY <1>15 DEF Crash, Die, Nothing, Typed, LeaseTyped, DoingTyped, Decided
  <2> QED
    BY <2>1 DEF Believed, Typed, LeaseTyped, DoingTyped, Decided
<1>16. ASSUME Leases
      PROVE  Believed(q)'
  <2>1. UNCHANGED doing
    BY <1>16 DEF Leases, passVars
  <2>2. \/ term' = term + 1 /\ (mine'[q] = mine[q] \/ mine'[q] = term + 1)
        \/ term' = term /\ (mine'[q] = mine[q] \/ mine'[q] = 0)
    BY <1>16 DEF Leases, Take, RowTaken, Renew, RenewErrs, Tick, Typed, LeaseTyped
  <2> QED
    BY <2>1, <2>2 DEF Believed, Typed, LeaseTyped, DoingTyped, Decided
<1>17. ASSUME Come
      PROVE  Believed(q)'
  <2>1. UNCHANGED <<term, mine, doing>>
    BY <1>17 DEF Come, tables, passVars, leaseVars
  <2> QED
    BY <2>1 DEF Believed
<1>18. ASSUME NEW s \in Schedules, Pause(s)
      PROVE  Believed(q)'
  <2>1. UNCHANGED <<term, mine, doing>>
    BY <1>18 DEF Pause, passVars, leaseVars
  <2> QED
    BY <2>1 DEF Believed
<1>19. ASSUME NEW s \in Schedules, Resume(s)
      PROVE  Believed(q)'
  <2>1. UNCHANGED <<term, mine, doing>>
    BY <1>19 DEF Resume, passVars, leaseVars
  <2> QED
    BY <2>1 DEF Believed
<1>20. ASSUME NEW j \in Targets, Submit(j)
      PROVE  Believed(q)'
  <2>1. UNCHANGED <<term, mine, doing>>
    BY <1>20 DEF Submit, passVars, leaseVars
  <2> QED
    BY <2>1 DEF Believed
<1>21. ASSUME NEW j \in Targets, ManualEnds(j)
      PROVE  Believed(q)'
  <2>1. UNCHANGED <<term, mine, doing>>
    BY <1>21 DEF ManualEnds, passVars, leaseVars
  <2> QED
    BY <2>1 DEF Believed
<1>22. ASSUME NEW o \in Occurrences, RunEnds(o)
      PROVE  Believed(q)'
  <2>1. UNCHANGED <<term, mine, doing>>
    BY <1>22 DEF RunEnds, passVars, leaseVars
  <2> QED
    BY <2>1 DEF Believed
<1>23. ASSUME UNCHANGED vars PROVE Believed(q)'
  BY <1>23 DEF vars, leaseVars, Believed
<1> QED
  BY <1>1, <1>2, <1>3, <1>4, <1>5, <1>6, <1>7, <1>8, <1>9, <1>10, <1>11, <1>12, <1>13, <1>14, <1>15,
     <1>16, <1>17, <1>18, <1>19, <1>20, <1>21, <1>22, <1>23 DEF Next, Pass

(* What a launch was decided on holds as long as its term does. *)
LEMMA StepClear ==
    ASSUME Typed, NEW q \in Procs, Believed(q), Clear(q), [Next]_vars
    PROVE  Clear(q)'
<1>1. ASSUME NEW p \in Procs, Begin(p)
      PROVE  Clear(q)'
  <2>1. UNCHANGED <<holder, term, mine, doing, run>>
    BY <1>1 DEF Begin, tables, Goes, leaseVars
  <2> QED
    BY <2>1 DEF Clear, TargetOf
<1>2. ASSUME NEW p \in Procs, CatchUp(p)
      PROVE  Clear(q)'
  <2>1. UNCHANGED <<holder, term, mine, doing, run>>
    BY <1>2 DEF CatchUp, Goes, Advance, Ticks, leaseVars
  <2> QED
    BY <2>1 DEF Clear, TargetOf
<1>3. ASSUME NEW p \in Procs, QueueFire(p)
      PROVE  Clear(q)'
  <2>1. UNCHANGED <<holder, term, mine, run>>
    BY <1>3 DEF QueueFire, Decides, tables, leaseVars
  <2>2. CASE doing'[q] = doing[q]
    BY <2>1, <2>2 DEF Clear, TargetOf
  <2>3. CASE doing'[q] # doing[q]
    <3>1. p = q
      BY <2>3, <1>3 DEF QueueFire, Decides, Typed, DoingTyped
    <3>2. PICK o : /\ doing'[q].of = o
                   /\ doing'[q].how = "fired" => ~Busy(TargetOf(o))
      BY <2>3, <3>1, <1>3 DEF QueueFire, Decides, Typed, DoingTyped
    <3> QED
      BY <2>1, <3>2 DEF Clear, Busy, Active, TargetOf
  <2> QED
    BY <2>2, <2>3
<1>4. ASSUME NEW p \in Procs, CaughtUp(p)
      PROVE  Clear(q)'
  <2>1. UNCHANGED <<holder, term, mine, doing, run>>
    BY <1>4 DEF CaughtUp, Advance, Goes, leaseVars
  <2> QED
    BY <2>1 DEF Clear, TargetOf
<1>5. ASSUME NEW p \in Procs, Drain(p)
      PROVE  Clear(q)'
  <2>1. UNCHANGED <<holder, term, mine, doing, run>>
    BY <1>5 DEF Drain, Goes, tables, leaseVars
  <2> QED
    BY <2>1 DEF Clear, TargetOf
<1>6. ASSUME NEW p \in Procs, DrainNext(p)
      PROVE  Clear(q)'
  <2>1. UNCHANGED <<holder, term, mine, run>>
    BY <1>6 DEF DrainNext, Decides, tables, leaseVars
  <2>2. CASE doing'[q] = doing[q]
    BY <2>1, <2>2 DEF Clear, TargetOf
  <2>3. CASE doing'[q] # doing[q]
    <3>1. p = q
      BY <2>3, <1>6 DEF DrainNext, Decides, Typed, DoingTyped
    <3>2. PICK o : /\ doing'[q].of = o
                   /\ doing'[q].how = "fired" => ~Busy(TargetOf(o))
      BY <2>3, <3>1, <1>6 DEF DrainNext, Decides, Typed, DoingTyped
    <3> QED
      BY <2>1, <3>2 DEF Clear, Busy, Active, TargetOf
  <2> QED
    BY <2>2, <2>3
<1>7. ASSUME NEW p \in Procs, NoteRunless(p)
      PROVE  Clear(q)'
  <2>1. UNCHANGED <<holder, term, mine, run>> /\ (doing'[q] = doing[q] \/ doing'[q].how # "fired")
    BY <1>7 DEF NoteRunless, Settles, Nothing, leaseVars, Typed, DoingTyped
  <2> QED
    BY <2>1 DEF Clear, TargetOf
<1>8. ASSUME NEW p \in Procs, Launch(p)
      PROVE  Clear(q)'
  <2>1. /\ UNCHANGED <<holder, term, mine>>
        /\ p = q => doing'[q].how # "fired"
        /\ p # q => doing'[q] = doing[q]
        /\ run' = run \/ holder = p
    BY <1>8 DEF Launch, Lands, FencePasses, Settles, Refused, Nothing, leaseVars, Typed, DoingTyped, Decided
  <2>2. CASE p = q
    BY <2>1, <2>2 DEF Clear
  <2>3. CASE run' = run
    BY <2>1, <2>3 DEF Clear, TargetOf
  <2>4. CASE p # q /\ holder = p
    BY <2>1, <2>4 DEF Clear
  <2> QED
    BY <2>1, <2>2, <2>3, <2>4
<1>9. ASSUME NEW p \in Procs, Sleep(p)
      PROVE  Clear(q)'
  <2>1. UNCHANGED <<holder, term, mine, doing, run>>
    BY <1>9 DEF Sleep, Goes, Rests, tables, leaseVars
  <2> QED
    BY <2>1 DEF Clear, TargetOf
<1>10. ASSUME NEW p \in Procs, Wake(p)
      PROVE  Clear(q)'
  <2>1. UNCHANGED <<holder, term, mine, doing, run>>
    BY <1>10 DEF Wake, Goes, tables, leaseVars
  <2> QED
    BY <2>1 DEF Clear, TargetOf
<1>11. ASSUME NEW p \in Procs, FireNext(p)
      PROVE  Clear(q)'
  <2>1. UNCHANGED <<holder, term, mine, run>> /\ (doing'[q] = doing[q] \/ doing'[q].how # "fired")
    BY <1>11 DEF FireNext, Decides, leaseVars, Typed, DoingTyped
  <2> QED
    BY <2>1 DEF Clear, TargetOf
<1>12. ASSUME NEW p \in Procs, FireLook(p)
      PROVE  Clear(q)'
  <2>1. UNCHANGED <<holder, term, mine, run>>
    BY <1>12 DEF FireLook, Decides, tables, leaseVars
  <2>2. CASE doing'[q] = doing[q]
    BY <2>1, <2>2 DEF Clear, TargetOf
  <2>3. CASE doing'[q] # doing[q]
    <3>1. p = q
      BY <2>3, <1>12 DEF FireLook, Decides, Typed, DoingTyped
    <3> DEFINE o == doing[q].of
    <3>2. PICK held, busy \in BOOLEAN, how \in Hows :
               /\ doing' = [doing EXCEPT ![q] = [of |-> o, how |-> how, under |-> mine[q]]]
               /\ how = "fired" => ~(held \/ busy) \/ Overlap[TargetOf(o)] = "allow"
               /\ Busy(TargetOf(o)) => busy
      BY <3>1, <1>12 DEF FireLook, Decides, Hows, Outcomes, Busy, Active, HasPending
    <3>3. doing'[q] = [of |-> o, how |-> how, under |-> mine[q]]
      BY <3>2 DEF Typed, DoingTyped
    <3>4. doing'[q].of = o /\ (doing'[q].how = "fired" => ~Busy(TargetOf(o)) \/ Overlap[TargetOf(o)] = "allow")
      BY <3>2, <3>3
    <3> QED
      BY <2>1, <3>4 DEF Clear, Busy, Active, TargetOf
  <2> QED
    BY <2>2, <2>3
<1>13. ASSUME NEW p \in Procs, Fired(p)
      PROVE  Clear(q)'
  <2>1. UNCHANGED <<holder, term, mine, doing, run>>
    BY <1>13 DEF Fired, Goes, Rests, tables, leaseVars
  <2> QED
    BY <2>1 DEF Clear, TargetOf
<1>14. ASSUME NEW p \in Procs, Stop(p)
      PROVE  Clear(q)'
  <2>1. /\ UNCHANGED <<term, run>> /\ (holder' = holder \/ holder' # q)
        /\ mine'[q] = mine[q] \/ mine'[q] = 0
        /\ doing'[q] = doing[q] \/ doing'[q].how # "fired"
    BY <1>14, DeciderLeaseAssumption DEF Stop, HandBack, tables, Typed, LeaseTyped, DoingTyped
  <2>2. mine[q] \in Nat /\ mine[q] <= term /\ term \in Nat
    BY DEF Typed, LeaseTyped, Believed
  <2> QED
    BY <2>1, <2>2 DEF Clear, TargetOf
<1>15. ASSUME NEW p \in Procs, Crash(p)
      PROVE  Clear(q)'
  <2>1. /\ UNCHANGED <<term, run>> /\ (holder' = holder \/ holder' # q)
        /\ mine'[q] = mine[q] \/ mine'[q] = 0
        /\ doing'[q] = doing[q] \/ doing'[q].how # "fired"
    BY <1>15 DEF Crash, Die, Nothing, tables, Typed, LeaseTyped, DoingTyped
  <2>2. mine[q] \in Nat /\ mine[q] <= term /\ term \in Nat
    BY DEF Typed, LeaseTyped, Believed
  <2> QED
    BY <2>1, <2>2 DEF Clear, TargetOf
<1>16. ASSUME Leases
      PROVE  Clear(q)'
  <2>1. UNCHANGED <<doing, run>>
    BY <1>16 DEF Leases, tables, passVars
  <2>2. \/ term' = term + 1
        \/ UNCHANGED <<term, holder>> /\ (mine'[q] = mine[q] \/ mine'[q] = 0)
    BY <1>16 DEF Leases, Take, RowTaken, Renew, RenewErrs, Tick, Typed, LeaseTyped
  <2>3. mine[q] \in Nat /\ mine[q] <= term /\ term \in Nat /\ doing[q].under <= term /\ doing[q].under \in Nat
    BY DEF Typed, LeaseTyped, DoingTyped, Decided, Believed
  <2>4. CASE term' = term + 1
    BY <2>1, <2>3, <2>4 DEF Clear
  <2>5. CASE UNCHANGED <<term, holder>> /\ (mine'[q] = mine[q] \/ mine'[q] = 0)
    BY <2>1, <2>3, <2>5 DEF Clear, TargetOf
  <2> QED
    BY <2>2, <2>4, <2>5
<1>17. ASSUME Come
      PROVE  Clear(q)'
  <2>1. UNCHANGED <<holder, term, mine, doing, run>>
    BY <1>17 DEF Come, tables, passVars, leaseVars
  <2> QED
    BY <2>1 DEF Clear, TargetOf
<1>18. ASSUME NEW s \in Schedules, Pause(s)
      PROVE  Clear(q)'
  <2>1. UNCHANGED <<holder, term, mine, doing, run>>
    BY <1>18 DEF Pause, passVars, leaseVars
  <2> QED
    BY <2>1 DEF Clear, TargetOf
<1>19. ASSUME NEW s \in Schedules, Resume(s)
      PROVE  Clear(q)'
  <2>1. UNCHANGED <<holder, term, mine, doing, run>>
    BY <1>19 DEF Resume, passVars, leaseVars
  <2> QED
    BY <2>1 DEF Clear, TargetOf
<1>20. ASSUME NEW j \in Targets, Submit(j)
      PROVE  Clear(q)'
  <2>1. UNCHANGED <<holder, term, mine, doing, run>>
    BY <1>20 DEF Submit, passVars, leaseVars
  <2> QED
    BY <2>1 DEF Clear, TargetOf
<1>21. ASSUME NEW j \in Targets, ManualEnds(j)
      PROVE  Clear(q)'
  <2>1. UNCHANGED <<holder, term, mine, doing, run>>
    BY <1>21 DEF ManualEnds, passVars, leaseVars
  <2> QED
    BY <2>1 DEF Clear, TargetOf
<1>22. ASSUME NEW o \in Occurrences, RunEnds(o)
      PROVE  Clear(q)'
  <2>1. UNCHANGED <<holder, term, mine, doing>> /\ \A v \in Occurrences : run'[v] = "active" => run[v] = "active"
    BY <1>22 DEF RunEnds, passVars, leaseVars, Typed, TablesTyped
  <2> QED
    BY <2>1 DEF Clear, TargetOf
<1>23. ASSUME UNCHANGED vars PROVE Clear(q)'
  <2>1. UNCHANGED <<holder, term, mine, doing, run>>
    BY <1>23 DEF vars, tables, leaseVars
  <2> QED
    BY <2>1 DEF Clear, TargetOf
<1> QED
  BY <1>1, <1>2, <1>3, <1>4, <1>5, <1>6, <1>7, <1>8, <1>9, <1>10, <1>11, <1>12, <1>13, <1>14, <1>15,
     <1>16, <1>17, <1>18, <1>19, <1>20, <1>21, <1>22, <1>23 DEF Next, Pass

(* What each step is to the terms and the decisions made in them. *)
LEMMA StepOfTerms ==
    ASSUME Typed, Unmade, [Next]_vars
    PROVE  [Election!Next]_<<term, holder, made>>
<1>1. ASSUME NEW p \in Procs, Begin(p)
      PROVE  [Election!Next]_<<term, holder, made>>
  BY <1>1 DEF Begin, tables, Goes, leaseVars
<1>2. ASSUME NEW p \in Procs, CatchUp(p)
      PROVE  [Election!Next]_<<term, holder, made>>
  BY <1>2 DEF CatchUp, Goes, Advance, Ticks, leaseVars
<1>3. ASSUME NEW p \in Procs, QueueFire(p)
      PROVE  [Election!Next]_<<term, holder, made>>
  BY <1>3 DEF QueueFire, Decides, tables, leaseVars
<1>4. ASSUME NEW p \in Procs, CaughtUp(p)
      PROVE  [Election!Next]_<<term, holder, made>>
  BY <1>4 DEF CaughtUp, Advance, Goes, leaseVars
<1>5. ASSUME NEW p \in Procs, Drain(p)
      PROVE  [Election!Next]_<<term, holder, made>>
  BY <1>5 DEF Drain, Goes, tables, leaseVars
<1>6. ASSUME NEW p \in Procs, DrainNext(p)
      PROVE  [Election!Next]_<<term, holder, made>>
  BY <1>6 DEF DrainNext, Decides, tables, leaseVars
<1>7. ASSUME NEW p \in Procs, NoteRunless(p)
      PROVE  [Election!Next]_<<term, holder, made>>
  BY <1>7 DEF NoteRunless, Ticks, Settles, leaseVars
<1>8. ASSUME NEW p \in Procs, Launch(p)
      PROVE  [Election!Next]_<<term, holder, made>>
  <2>1. UNCHANGED <<term, holder>>
    BY <1>8 DEF Launch, leaseVars
  <2>2. CASE made' = made
    BY <2>1, <2>2
  <2>3. CASE Lands(p, doing[p].of)
    <3> DEFINE o == doing[p].of
    <3>1. holder = p /\ term = mine[p] /\ run[o] = "none" /\ made' = [made EXCEPT ![o] = mine[p]]
      BY <2>3 DEF Lands, FencePasses
    <3>2. holder # NoProc
      BY <3>1, DeciderLeaseAssumption
    <3>3. CASE o \in Occurrences
      BY <2>1, <3>1, <3>2, <3>3 DEF Unmade, Election!Next, Election!Decide
    <3>4. CASE o \notin Occurrences
      BY <2>1, <3>1, <3>4 DEF Typed, TablesTyped
    <3> QED
      BY <3>3, <3>4
  <2> QED
    BY <1>8, <2>2, <2>3 DEF Launch
<1>9. ASSUME NEW p \in Procs, Sleep(p)
      PROVE  [Election!Next]_<<term, holder, made>>
  BY <1>9 DEF Sleep, Goes, Rests, tables, leaseVars
<1>10. ASSUME NEW p \in Procs, Wake(p)
      PROVE  [Election!Next]_<<term, holder, made>>
  BY <1>10 DEF Wake, Goes, tables, leaseVars
<1>11. ASSUME NEW p \in Procs, FireNext(p)
      PROVE  [Election!Next]_<<term, holder, made>>
  BY <1>11 DEF FireNext, Advance, Decides, leaseVars
<1>12. ASSUME NEW p \in Procs, FireLook(p)
      PROVE  [Election!Next]_<<term, holder, made>>
  BY <1>12 DEF FireLook, Decides, tables, leaseVars
<1>13. ASSUME NEW p \in Procs, Fired(p)
      PROVE  [Election!Next]_<<term, holder, made>>
  BY <1>13 DEF Fired, Goes, Rests, tables, leaseVars
<1>14. ASSUME NEW p \in Procs, Stop(p)
      PROVE  [Election!Next]_<<term, holder, made>>
  BY <1>14 DEF Stop, HandBack, Election!Next, Election!Release
<1>15. ASSUME NEW p \in Procs, Crash(p)
      PROVE  [Election!Next]_<<term, holder, made>>
  BY <1>15 DEF Crash, Die, Goes, Rests, tables, leaseVars
<1>16. ASSUME Leases
      PROVE  [Election!Next]_<<term, holder, made>>
  <2>1. made' = made
    BY <1>16 DEF Leases
  <2>2. ASSUME NEW p \in Procs, Take(p) PROVE Election!Acquire(p)
    BY <2>1, <2>2 DEF Take, RowTaken, Election!Acquire
  <2>3. (\E p \in Procs : Take(p)) \/ UNCHANGED <<term, holder>>
    BY <1>16 DEF Leases, Renew, RenewErrs, Tick
  <2> QED
    BY <2>1, <2>2, <2>3 DEF Election!Next
<1>17. ASSUME Come
      PROVE  [Election!Next]_<<term, holder, made>>
  BY <1>17 DEF Come, tables, passVars, leaseVars
<1>18. ASSUME NEW s \in Schedules, Pause(s)
      PROVE  [Election!Next]_<<term, holder, made>>
  BY <1>18 DEF Pause, passVars, leaseVars
<1>19. ASSUME NEW s \in Schedules, Resume(s)
      PROVE  [Election!Next]_<<term, holder, made>>
  BY <1>19 DEF Resume, passVars, leaseVars
<1>20. ASSUME NEW j \in Targets, Submit(j)
      PROVE  [Election!Next]_<<term, holder, made>>
  BY <1>20 DEF Submit, passVars, leaseVars
<1>21. ASSUME NEW j \in Targets, ManualEnds(j)
      PROVE  [Election!Next]_<<term, holder, made>>
  BY <1>21 DEF ManualEnds, passVars, leaseVars
<1>22. ASSUME NEW o \in Occurrences, RunEnds(o)
      PROVE  [Election!Next]_<<term, holder, made>>
  BY <1>22 DEF RunEnds, passVars, leaseVars
<1>23. ASSUME UNCHANGED vars PROVE [Election!Next]_<<term, holder, made>>
  BY <1>23 DEF vars, leaseVars
<1> QED
  BY <1>1, <1>2, <1>3, <1>4, <1>5, <1>6, <1>7, <1>8, <1>9, <1>10, <1>11, <1>12, <1>13, <1>14, <1>15,
     <1>16, <1>17, <1>18, <1>19, <1>20, <1>21, <1>22, <1>23 DEF Next, Pass

(* A scheduled run begins in a launch, and ends by itself. *)
LEMMA RunMoves ==
    ASSUME TRUE, [Next]_vars
    PROVE  UNCHANGED run \/ (\E q \in Procs : Launch(q)) \/ \E w \in Occurrences : RunEnds(w)
<1>1. ASSUME NEW p \in Procs, Begin(p)
      PROVE  UNCHANGED run \/ (\E q \in Procs : Launch(q)) \/ \E w \in Occurrences : RunEnds(w)
  BY <1>1 DEF Begin, tables, Goes
<1>2. ASSUME NEW p \in Procs, CatchUp(p)
      PROVE  UNCHANGED run \/ (\E q \in Procs : Launch(q)) \/ \E w \in Occurrences : RunEnds(w)
  BY <1>2 DEF CatchUp, Goes, Advance, Ticks
<1>3. ASSUME NEW p \in Procs, QueueFire(p)
      PROVE  UNCHANGED run \/ (\E q \in Procs : Launch(q)) \/ \E w \in Occurrences : RunEnds(w)
  BY <1>3 DEF QueueFire, Decides, tables
<1>4. ASSUME NEW p \in Procs, CaughtUp(p)
      PROVE  UNCHANGED run \/ (\E q \in Procs : Launch(q)) \/ \E w \in Occurrences : RunEnds(w)
  BY <1>4 DEF CaughtUp, Advance, Goes
<1>5. ASSUME NEW p \in Procs, Drain(p)
      PROVE  UNCHANGED run \/ (\E q \in Procs : Launch(q)) \/ \E w \in Occurrences : RunEnds(w)
  BY <1>5 DEF Drain, Goes, tables
<1>6. ASSUME NEW p \in Procs, DrainNext(p)
      PROVE  UNCHANGED run \/ (\E q \in Procs : Launch(q)) \/ \E w \in Occurrences : RunEnds(w)
  BY <1>6 DEF DrainNext, Decides, tables
<1>7. ASSUME NEW p \in Procs, NoteRunless(p)
      PROVE  UNCHANGED run \/ (\E q \in Procs : Launch(q)) \/ \E w \in Occurrences : RunEnds(w)
  BY <1>7 DEF NoteRunless, Ticks, Settles
<1>8. ASSUME NEW p \in Procs, Launch(p)
      PROVE  UNCHANGED run \/ (\E q \in Procs : Launch(q)) \/ \E w \in Occurrences : RunEnds(w)
  BY <1>8
<1>9. ASSUME NEW p \in Procs, Sleep(p)
      PROVE  UNCHANGED run \/ (\E q \in Procs : Launch(q)) \/ \E w \in Occurrences : RunEnds(w)
  BY <1>9 DEF Sleep, Goes, Rests, tables
<1>10. ASSUME NEW p \in Procs, Wake(p)
      PROVE  UNCHANGED run \/ (\E q \in Procs : Launch(q)) \/ \E w \in Occurrences : RunEnds(w)
  BY <1>10 DEF Wake, Goes, tables
<1>11. ASSUME NEW p \in Procs, FireNext(p)
      PROVE  UNCHANGED run \/ (\E q \in Procs : Launch(q)) \/ \E w \in Occurrences : RunEnds(w)
  BY <1>11 DEF FireNext, Advance, Decides
<1>12. ASSUME NEW p \in Procs, FireLook(p)
      PROVE  UNCHANGED run \/ (\E q \in Procs : Launch(q)) \/ \E w \in Occurrences : RunEnds(w)
  BY <1>12 DEF FireLook, Decides, tables
<1>13. ASSUME NEW p \in Procs, Fired(p)
      PROVE  UNCHANGED run \/ (\E q \in Procs : Launch(q)) \/ \E w \in Occurrences : RunEnds(w)
  BY <1>13 DEF Fired, Goes, Rests, tables
<1>14. ASSUME NEW p \in Procs, Stop(p)
      PROVE  UNCHANGED run \/ (\E q \in Procs : Launch(q)) \/ \E w \in Occurrences : RunEnds(w)
  BY <1>14 DEF Stop, HandBack, tables
<1>15. ASSUME NEW p \in Procs, Crash(p)
      PROVE  UNCHANGED run \/ (\E q \in Procs : Launch(q)) \/ \E w \in Occurrences : RunEnds(w)
  BY <1>15 DEF Crash, Die, Goes, Rests, tables
<1>16. ASSUME Leases
      PROVE  UNCHANGED run \/ (\E q \in Procs : Launch(q)) \/ \E w \in Occurrences : RunEnds(w)
  BY <1>16 DEF Leases, tables, passVars
<1>17. ASSUME Come
      PROVE  UNCHANGED run \/ (\E q \in Procs : Launch(q)) \/ \E w \in Occurrences : RunEnds(w)
  BY <1>17 DEF Come, tables, passVars
<1>18. ASSUME NEW s \in Schedules, Pause(s)
      PROVE  UNCHANGED run \/ (\E q \in Procs : Launch(q)) \/ \E w \in Occurrences : RunEnds(w)
  BY <1>18 DEF Pause, passVars
<1>19. ASSUME NEW s \in Schedules, Resume(s)
      PROVE  UNCHANGED run \/ (\E q \in Procs : Launch(q)) \/ \E w \in Occurrences : RunEnds(w)
  BY <1>19 DEF Resume, passVars
<1>20. ASSUME NEW j \in Targets, Submit(j)
      PROVE  UNCHANGED run \/ (\E q \in Procs : Launch(q)) \/ \E w \in Occurrences : RunEnds(w)
  BY <1>20 DEF Submit, passVars
<1>21. ASSUME NEW j \in Targets, ManualEnds(j)
      PROVE  UNCHANGED run \/ (\E q \in Procs : Launch(q)) \/ \E w \in Occurrences : RunEnds(w)
  BY <1>21 DEF ManualEnds, passVars
<1>22. ASSUME NEW o \in Occurrences, RunEnds(o)
      PROVE  UNCHANGED run \/ (\E q \in Procs : Launch(q)) \/ \E w \in Occurrences : RunEnds(w)
  BY <1>22
<1>23. ASSUME UNCHANGED vars PROVE UNCHANGED run \/ (\E q \in Procs : Launch(q)) \/ \E w \in Occurrences : RunEnds(w)
  BY <1>23 DEF vars, tables
<1> QED
  BY <1>1, <1>2, <1>3, <1>4, <1>5, <1>6, <1>7, <1>8, <1>9, <1>10, <1>11, <1>12, <1>13, <1>14, <1>15,
     <1>16, <1>17, <1>18, <1>19, <1>20, <1>21, <1>22, <1>23 DEF Next, Pass

(* The claim of a build is looked at in the launch itself. *)
LEMMA AssetsLandAlone ==
    ASSUME Inv, [Next]_vars, NEW o \in Occurrences, run[o] = "none", run'[o] = "active",
           TargetOf(o) \in Assets, NEW v \in Occurrences, TargetOf(v) = TargetOf(o)
    PROVE  run[v] # "active"
<1>1. ASSUME NEW p \in Procs, Launch(p) PROVE run[v] # "active"
  <2>1. Lands(p, doing[p].of)
    BY <1>1 DEF Launch
  <2>2. doing[p].of = o
    BY <2>1 DEF Lands, Inv, Typed, TablesTyped
  <2> QED
    BY <2>1, <2>2 DEF Lands, Active
<1>2. ASSUME NEW w \in Occurrences, RunEnds(w) PROVE FALSE
  BY <1>2 DEF RunEnds, Inv, Typed, TablesTyped
<1> QED
  BY <1>1, <1>2, RunMoves

-----------------------------------------------------------------------------
(* The invariant and the theorems. *)
LEMMA InitInv == Init => Inv
<1> SUFFICES ASSUME Init PROVE Inv
  OBVIOUS
<1>1. Unread \in Row({Unread.cursor}) /\ Nothing \in Decided
  BY DEF Unread, Row, Nothing, Decided, Hows
<1>2. Typed
  <2>1. RowsTyped
    BY <1>1 DEF Init, RowsTyped
  <2> QED
    BY <1>1, <2>1 DEF Init, LeaseInit, Typed, TablesTyped, LeaseTyped, PassTyped, TodoTyped,
       DoingTyped, Wheres
<1>3. HeldFree /\ Unmade
  BY DEF Init, HeldFree, Unmade
<1>4. ASSUME NEW p \in Procs PROVE PassSound(p) /\ Believed(p) /\ Clear(p)
  BY DEF Init, LeaseInit, PassSound, Believed, Clear, Nothing
<1> QED
  BY <1>2, <1>3, <1>4 DEF Inv

(* ...and no step breaks it. *)
LEMMA StepInv == Inv /\ [Next]_vars => Inv'
<1> SUFFICES ASSUME Inv, [Next]_vars PROVE Inv'
  OBVIOUS
<1> USE DEF Inv
<1>1. Typed'
  BY StepTables, StepLease, StepPass, StepRows, StepTodo, StepDoing DEF Typed
<1>2. HeldFree' /\ Unmade'
  BY StepHeld, StepUnmade
<1>3. \A p \in Procs : PassSound(p)' /\ Believed(p)' /\ Clear(p)'
  BY StepSound, StepBelieved, StepClear
<1> QED
  BY <1>1, <1>2, <1>3

(* The invariant holds of every state that is reached. *)
THEOREM Invariant == Spec => []Inv
BY InitInv, StepInv, PTL DEF Spec

(* Each occurrence is decided at most once, in the term in force and by    *)
(* the process whose term it is: the scheduler implements Terms.           *)
THEOREM SchedulerImplementsTerms == Spec => DecidedOnce
<1>1. Init => Election!Init
  BY DEF Init, LeaseInit, Election!Init
<1>2. Inv /\ [Next]_vars => [Election!Next]_<<term, holder, made>>
  BY StepOfTerms DEF Inv
<1> QED
  BY <1>1, <1>2, Invariant, PTL DEF Spec, DecidedOnce, Election!Spec

(* What fires did so in a launch, of something that was free to. *)
LEMMA FiresFree ==
    ASSUME Inv, [Next]_vars, NEW o \in Occurrences, run[o] = "none", run'[o] = "active"
    PROVE  Free(o) /\ \E p \in Procs : holder = p /\ term = mine[p] /\ doing[p].of = o /\ doing[p].how = "fired"
<1>1. ASSUME NEW p \in Procs, Launch(p)
      PROVE  Free(o) /\ holder = p /\ term = mine[p] /\ doing[p].of = o /\ doing[p].how = "fired"
  <2>1. Lands(p, doing[p].of) /\ doing[p].how = "fired"
    BY <1>1 DEF Launch
  <2>2. doing[p].of = o
    BY <2>1 DEF Lands, Inv, Typed, TablesTyped
  <2> QED
    BY <2>1, <2>2 DEF Lands, FencePasses, Inv, PassSound
<1>2. \/ UNCHANGED run
      \/ \E p \in Procs : Launch(p)
      \/ \E v \in Occurrences : RunEnds(v)
  BY RunMoves
<1>3. ASSUME NEW v \in Occurrences, RunEnds(v) PROVE FALSE
  BY <1>3 DEF RunEnds, Inv, Typed, TablesTyped
<1> QED
  BY <1>1, <1>2, <1>3

(* What came due while its schedule was paused does not fire while it is,  *)
(* whoever read the rows, and when.                                        *)
THEOREM PauseIsKept == Spec => PausedNeverFires
<1>1. Inv /\ [Next]_vars =>
        [\A o \in Occurrences : run[o] = "none" /\ run'[o] = "active"
           => ~(o[1] \in paused /\ pausedAt[o[1]] < o[2])]_vars
  BY FiresFree DEF Free
<1> QED
  BY <1>1, Invariant, PTL DEF Spec, PausedNeverFires

(* Within a term no fire lands beside another run of its job, unless its   *)
(* overlap allows it.                                                      *)
THEOREM TermsDoNotOverlapThemselves == Spec => OneRunPerTerm
<1>1. Inv /\ [Next]_vars =>
        [\A o \in Occurrences, p \in Procs :
          /\ doing[p].of = o /\ run[o] = "none" /\ run'[o] = "active"
          /\ holder = p /\ mine[p] = doing[p].under /\ Overlap[TargetOf(o)] # "allow"
          => \A v \in Occurrences : TargetOf(v) = TargetOf(o) => run[v] # "active"]_vars
  <2> SUFFICES ASSUME Inv, [Next]_vars, NEW o \in Occurrences, NEW p \in Procs,
                      doing[p].of = o, run[o] = "none", run'[o] = "active",
                      holder = p, mine[p] = doing[p].under, Overlap[TargetOf(o)] # "allow",
                      NEW v \in Occurrences, TargetOf(v) = TargetOf(o)
               PROVE  run[v] # "active"
    OBVIOUS
  <2>1. term = mine[p] /\ doing[p].how = "fired"
    BY FiresFree
  <2>2. CASE TargetOf(o) \notin Assets
    BY <2>1, <2>2 DEF Inv, Clear
  <2>3. CASE TargetOf(o) \in Assets
    BY <2>3, AssetsLandAlone
  <2> QED
    BY <2>2, <2>3
<1> QED
  BY <1>1, Invariant, PTL DEF Spec, OneRunPerTerm
=============================================================================
