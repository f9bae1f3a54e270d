------------------------ MODULE TrafficWindowsProofs ------------------------
(***************************************************************************)
(* Machine-checked proofs about TrafficWindows, for every set of           *)
(* processes and runs, every window length and every bound.                *)
(*                                                                         *)
(*  - The types, and that the two cursors are safe whatever the            *)
(*    interleaving, the failures and the crashes: no day is collected      *)
(*    twice by one collector (IInv).                                       *)
(*  - The tables and the directory of archives agree at every instant, and *)
(*    an opened window keeps its bounds (TablesInv, which builds on IInv). *)
(*  - Both collectors implement WindowLedger, which partitions the days.   *)
(*                                                                         *)
(* The safety needs the lock, so its theorems assume that no collector is  *)
(* launched without it (Direct = {}). IInv and TablesInv are inductive:    *)
(* one lemma per action of Next.                                           *)
(***************************************************************************)
EXTENDS TrafficWindows, WindowLedger, FiniteSetTheorems, TLAPS

USE ProcsAssumption, RunsAssumption, KindsAssumption, DaysAssumption, BoundsAssumption

(* Types. *)

LEMMA InitTypes == Init => TypeOK
<1> SUFFICES ASSUME Init PROVE TypeOK
  OBVIOUS
<1>1. overtaken \in BOOLEAN
  BY DEF Init
<1>2. job \in [Procs -> Job] /\ pc \in [Procs -> ControlPoints]
  BY DEF Init, NoJob, Job, ControlPoints, Days, None, RunRef, Outcomes
<1>3. /\ today \in Nat /\ lock \in Procs \cup {NoProc} /\ cursor \in CursorRow
      /\ backfill \in BackfillRow /\ windows \in [RunIds -> WindowRow]
      /\ runs \in [RunIds -> RunRow] /\ archives \in [files: SUBSET RunRef, rows: SUBSET RunRef]
      /\ extension \in Days /\ crashes \in Nat /\ failures \in Nat /\ lost \in Nat
  BY DEF Init, RunRef, NoCursor, CursorRow, NoBackfill, BackfillRow, NoWindow, WindowRow,
     NoRunRow, RunRow, Days, None, Outcomes, Kind
<1> QED BY <1>1, <1>2, <1>3 DEF TypeOK

\* NewRun is an unused run identifier, as long as there is one.
LEMMA FreshRun ==
  ASSUME FreshRuns # {}
  PROVE  NewRun \in RunIds /\ runs[NewRun].status = "NONE"
<1>1. PICK x \in FreshRuns : TRUE
  OBVIOUS
<1>2. (CHOOSE r \in FreshRuns : TRUE) \in FreshRuns
  BY <1>1
<1> QED BY <1>2 DEF NewRun, FreshRuns

\* The planning steps keep the types: a fresh run is an element of RunIds.
LEMMA BeginRunTypes ==
  ASSUME TypeOK, NEW p \in Procs, job[p].kind \in Kind, NEW s \in Days, NEW e \in Days,
         BeginRun(p, s, e)
  PROVE  /\ runs' \in [RunIds -> RunRow]
         /\ pc' \in [Procs -> ControlPoints]
         /\ job' \in [Procs -> Job]
         /\ lock' = lock
<1>1. NewRun \in RunIds
  BY FreshRun DEF BeginRun
<1>2. runs' \in [RunIds -> RunRow]
  <2>1. [kind |-> job[p].kind, status |-> "RUNNING"] \in RunRow
    BY DEF RunRow
  <2> QED BY <1>1, <2>1 DEF TypeOK, BeginRun
<1>3. job' \in [Procs -> Job]
  <2>1. [job[p] EXCEPT !.start = s, !.end = e, !.run = NewRun] \in Job
    <3>1. NewRun \in RunRef /\ job[p] \in Job
      BY <1>1 DEF TypeOK, RunRef
    <3> QED BY <3>1 DEF Job
  <2>2. job' = [job EXCEPT ![p] = [job[p] EXCEPT !.start = s, !.end = e, !.run = NewRun]]
    BY DEF TypeOK, BeginRun, Job
  <2> QED BY <2>1, <2>2 DEF TypeOK
<1> QED BY <1>1, <1>2, <1>3 DEF TypeOK, BeginRun, Goto, ControlPoints

LEMMA ExitTypes ==
  ASSUME TypeOK, NEW p \in Procs, Exit(p)
  PROVE  /\ pc' \in [Procs -> ControlPoints]
         /\ job' \in [Procs -> Job]
         /\ lock' \in Procs \cup {NoProc}
  BY DEF TypeOK, Exit, ControlPoints, Job, NoJob, Days, None, Outcomes, RunRef

\* Closing or rolling back the rows of a run keeps their types.
LEMMA ClosingTypes ==
  ASSUME TypeOK, NEW p \in Procs, CloseRows(p) \/ RollBack(p)
  PROVE  /\ windows' \in [RunIds -> WindowRow]
         /\ runs' \in [RunIds -> RunRow]
         /\ archives' \in [files: SUBSET RunRef, rows: SUBSET RunRef]
<1>1. windows' \in [RunIds -> WindowRow]
  BY DEF TypeOK, CloseRows, RollBack, WindowRow
<1>2. runs' \in [RunIds -> RunRow]
  <2>1. runs \in [RunIds -> RunRow] /\ job[p].outcome \in Outcomes
    BY DEF TypeOK, Job
  <2>2. \A row \in RunRow : [row EXCEPT !.status = job[p].outcome] \in RunRow
    BY <2>1 DEF RunRow
  <2>3. \/ runs' = runs
        \/ runs' = [runs EXCEPT ![job[p].run] =
                       [runs[job[p].run] EXCEPT !.status = job[p].outcome]]
    BY DEF CloseRows, RollBack
  <2> QED BY <2>1, <2>2, <2>3
<1>3. archives' \in [files: SUBSET RunRef, rows: SUBSET RunRef]
  BY DEF TypeOK, CloseRows, RollBack, Job
<1> QED BY <1>1, <1>2, <1>3

\* The cursor, the backfill, the windows, the runs and the jobs keep their types
\* in every step (the rows of traffic_cursors, backfill_states, traffic_windows
\* and runs).
LEMMA StepTypes ==
  ASSUME TypeOK, [Next]_vars
  PROVE  TypeOK'
<1>1. CASE NextDay
  BY <1>1 DEF TypeOK, NextDay
<1>2. ASSUME NEW p \in Procs, NEW kind \in Kinds, Launch(p, kind)
      PROVE  TypeOK'
  BY <1>2 DEF TypeOK, Launch, Goto, Job, ControlPoints, Kind
<1>3. ASSUME NEW p \in Procs, NEW initial \in InitialStarts, PlanWeekly(p, initial)
      PROVE  TypeOK'
  <2>1. CASE GiveUp(p)
    BY <1>3, <2>1, ExitTypes DEF TypeOK, PlanWeekly, GiveUp
  <2>2. CASE /\ WeeklyStart(initial) >= 0 /\ WeeklyStart(initial) + WindowDays <= today
             /\ BeginRun(p, WeeklyStart(initial), WeeklyStart(initial) + WindowDays)
    <3>1. WeeklyStart(initial) \in Nat
      BY <2>2 DEF TypeOK, WeeklyStart, CursorStart, CursorRow, Days, None
    <3>2. job[p].kind \in Kind
      BY <1>3 DEF PlanWeekly, Kind
    <3> QED BY <1>3, <2>2, <3>1, <3>2, BeginRunTypes DEF TypeOK, PlanWeekly, Days
  <2> QED BY <1>3, <2>1, <2>2 DEF PlanWeekly
<1>4. ASSUME NEW p \in Procs, PlanBackfill(p)
      PROVE  TypeOK'
  <2>1. CASE GiveUp(p)
    BY <1>4, <2>1, ExitTypes DEF TypeOK, PlanBackfill, GiveUp
  <2>2. CASE BeginRun(p, backfill.next, MinDay(backfill.next + WindowDays, backfill.target))
    <3>1. /\ backfill.next \in Days
          /\ MinDay(backfill.next + WindowDays, backfill.target) \in Days
      BY DEF TypeOK, BackfillRow, Days, None, MinDay
    <3>2. job[p].kind \in Kind
      BY <1>4 DEF PlanBackfill, Kind
    <3> QED BY <1>4, <2>2, <3>1, <3>2, BeginRunTypes DEF TypeOK, PlanBackfill
  <2> QED BY <1>4, <2>1, <2>2 DEF PlanBackfill
<1>5. ASSUME NEW p \in Procs, CheckCursor(p)
      PROVE  TypeOK'
  BY <1>5 DEF TypeOK, CheckCursor, Goto, ControlPoints
<1>6. ASSUME NEW p \in Procs, OpenWeekly(p)
      PROVE  TypeOK'
  BY <1>6 DEF TypeOK, OpenWeekly, Goto, ControlPoints, CursorRow, WindowRow, Job
<1>7. ASSUME NEW p \in Procs, CheckBackfill(p)
      PROVE  TypeOK'
  <2>1. /\ backfill.next \in Days
        /\ MinDay(backfill.next + WindowDays, backfill.target) \in Days
    BY DEF TypeOK, BackfillRow, Days, None, MinDay
  <2>2. job' \in [Procs -> Job]
    BY <1>7, <2>1 DEF TypeOK, CheckBackfill, Job
  <2>3. pc' \in [Procs -> ControlPoints]
    BY <1>7 DEF TypeOK, CheckBackfill, Goto, ControlPoints
  <2> QED BY <1>7, <2>2, <2>3 DEF TypeOK, CheckBackfill
<1>8. ASSUME NEW p \in Procs, OpenBackfill(p)
      PROVE  TypeOK'
  BY <1>8 DEF TypeOK, OpenBackfill, Goto, ControlPoints, BackfillRow, WindowRow, Job
<1>9. ASSUME NEW p \in Procs, Refused(p)
      PROVE  TypeOK'
  BY <1>9, ExitTypes DEF TypeOK, Refused, RunRow, Outcomes
<1>10. ASSUME NEW p \in Procs, NEW outcome \in Outcomes, Collect(p, outcome)
       PROVE  TypeOK'
  BY <1>10 DEF TypeOK, Collect, Goto, ControlPoints, Job
<1>11. ASSUME NEW p \in Procs, PrepareArchive(p)
       PROVE  TypeOK'
  <2>1. job' \in [Procs -> Job]
    BY <1>11 DEF TypeOK, PrepareArchive, Job, Outcomes, Goto
  <2>2. archives' \in [files: SUBSET RunRef, rows: SUBSET RunRef]
    BY <1>11 DEF TypeOK, PrepareArchive, Job
  <2>3. pc' \in [Procs -> ControlPoints] /\ failures' \in Nat
    BY <1>11 DEF TypeOK, PrepareArchive, Goto, ControlPoints
  <2> QED BY <1>11, <2>1, <2>2, <2>3 DEF TypeOK, PrepareArchive
<1>12. ASSUME NEW p \in Procs, FinishWeekly(p)
       PROVE  TypeOK'
  <2>1. cursor' \in CursorRow
    <3>1. job[p].end \in Days /\ job[p].run \in RunRef
      BY DEF TypeOK, Job
    <3>2. CursorAfter(p) \in CursorRow
      BY <3>1 DEF TypeOK, CursorAfter, CursorRow, Days
    <3> QED BY <1>12, <3>2 DEF TypeOK, FinishWeekly
  <2>2. /\ windows' \in [RunIds -> WindowRow]
        /\ runs' \in [RunIds -> RunRow]
        /\ archives' \in [files: SUBSET RunRef, rows: SUBSET RunRef]
    BY <1>12, ClosingTypes DEF FinishWeekly, TypeOK
  <2> QED BY <1>12, <2>1, <2>2, ExitTypes DEF TypeOK, FinishWeekly
<1>13. ASSUME NEW p \in Procs, CheckFinishBackfill(p)
       PROVE  TypeOK'
  <2>1. CASE Exit(p)
    BY <1>13, <2>1, ExitTypes DEF TypeOK, CheckFinishBackfill
  <2>2. CASE /\ Goto(p, "closing")
             /\ job' = [job EXCEPT ![p].reached = job[p].end >= backfill.target]
             /\ UNCHANGED lock
    <3>1. job' \in [Procs -> Job]
      <4>1. job[p].end \in Int /\ backfill.target \in Int
        BY DEF TypeOK, Job, BackfillRow, Days, None
      <4>2. (job[p].end >= backfill.target) \in BOOLEAN
        BY <4>1
      <4>3. PICK b \in BOOLEAN : job' = [job EXCEPT ![p].reached = b]
        BY <2>2, <4>2
      <4>4. [job[p] EXCEPT !.reached = b] \in Job
        BY DEF TypeOK, Job
      <4>5. job' = [job EXCEPT ![p] = [job[p] EXCEPT !.reached = b]]
        BY <4>3
      <4> QED BY <4>4, <4>5 DEF TypeOK
    <3>2. pc' \in [Procs -> ControlPoints]
      BY <2>2 DEF TypeOK, Goto, ControlPoints
    <3> QED BY <1>13, <2>2, <3>1, <3>2 DEF TypeOK, CheckFinishBackfill
  <2> QED BY <1>13, <2>1, <2>2 DEF CheckFinishBackfill
<1>14. ASSUME NEW p \in Procs, FinishBackfill(p)
       PROVE  TypeOK'
  <2>1. backfill' \in BackfillRow
    <3>1. job[p].end \in Days /\ job[p].run \in RunRef
      BY DEF TypeOK, Job
    <3>2. BackfillAfter(p) \in BackfillRow
      BY <3>1 DEF TypeOK, BackfillAfter, BackfillRow
    <3> QED BY <1>14, <3>2 DEF TypeOK, FinishBackfill
  <2>2. /\ windows' \in [RunIds -> WindowRow]
        /\ runs' \in [RunIds -> RunRow]
        /\ archives' \in [files: SUBSET RunRef, rows: SUBSET RunRef]
    BY <1>14, ClosingTypes DEF FinishBackfill, TypeOK
  <2> QED BY <1>14, <2>1, <2>2, ExitTypes DEF TypeOK, FinishBackfill
<1>15. ASSUME NEW target \in Targets, InitializeBackfill(target)
       PROVE  TypeOK'
  BY <1>15 DEF TypeOK, InitializeBackfill, BackfillRow, RunRef, Days
<1>16. ASSUME NEW target \in Targets, CheckExtend(target)
       PROVE  TypeOK'
  BY <1>16 DEF TypeOK, CheckExtend, Days
<1>17. CASE Extend
  BY <1>17 DEF TypeOK, Extend, BackfillRow, Days, None
<1>18. ASSUME NEW p \in Procs, Crash(p)
       PROVE  TypeOK'
  BY <1>18, ExitTypes DEF TypeOK, Crash
<1>19. CASE UNCHANGED vars
  BY <1>19 DEF TypeOK, vars
<1>20. ASSUME NEW p \in Procs, OpeningFails(p)
       PROVE  TypeOK'
  BY <1>20 DEF TypeOK, OpeningFails, Goto, ControlPoints
<1>21. ASSUME NEW p \in Procs, EndIsLost(p)
       PROVE  TypeOK'
  <2>1. archives' \in [files: SUBSET RunRef, rows: SUBSET RunRef]
    BY <1>21 DEF TypeOK, EndIsLost
  <2> QED BY <1>21, <2>1, ExitTypes DEF TypeOK, EndIsLost
<1> QED
  BY <1>1, <1>2, <1>3, <1>4, <1>5, <1>6, <1>7, <1>8, <1>9, <1>10, <1>11, <1>12,
     <1>13, <1>14, <1>15, <1>16, <1>17, <1>18, <1>19, <1>20, <1>21 DEF Next, Step, Operator

\* Type correctness of every reachable state.
THEOREM TypeCorrect == Spec => []TypeOK
<1>1. Init => TypeOK
  BY InitTypes
<1>2. TypeOK /\ [Next]_vars => TypeOK'
  BY StepTypes
<1> QED BY <1>1, <1>2, PTL DEF Spec

-----------------------------------------------------------------------------
(* Processes: at most one is active, so a step concerns one of them. *)

\* The holder of the lock is the only active process.
LEMMA Alone ==
  ASSUME TypeOK, Serial, NEW p \in Procs, pc[p] # "idle"
  PROVE  lock = p /\ \A q \in Procs \ {p} : pc[q] = "idle"
  BY DEF Serial

\* An idle process satisfies its part of the invariant.
LEMMA IdleJob ==
  ASSUME NEW q \in Procs, pc[q] = "idle", job[q].outcome = "ERROR"
  PROVE  JobWellFormed(q) /\ WeeklyJob(q) /\ BackfillJob(q)
  BY DEF JobWellFormed, WeeklyJob, BackfillJob, Opened, Running

\* A process that moves on keeps JobsInv when its own part is kept.
LEMMA MoveJobs ==
  ASSUME TypeOK, JobsInv, NEW p \in Procs, pc[p] # "idle",
         NEW label, pc' = [pc EXCEPT ![p] = label], UNCHANGED lock,
         \A q \in Procs \ {p} : job'[q] = job[q],
         JobWellFormed(p)', WeeklyJob(p)', BackfillJob(p)'
  PROVE  JobsInv'
<1>1. lock = p /\ \A q \in Procs \ {p} : pc[q] = "idle"
  BY Alone DEF JobsInv
<1>2. \A q \in Procs \ {p} : pc'[q] = "idle"
  BY <1>1 DEF TypeOK
<1>3. Serial'
  BY <1>1, <1>2 DEF Serial
<1>4. ASSUME NEW q \in Procs \ {p}
      PROVE  (JobWellFormed(q) /\ WeeklyJob(q) /\ BackfillJob(q))'
  <2>1. job'[q].outcome = "ERROR"
    BY <1>1 DEF JobsInv, JobWellFormed, Opened
  <2> QED BY <1>2, <2>1 DEF JobWellFormed, WeeklyJob, BackfillJob, Opened, Running
<1> QED BY <1>3, <1>4 DEF JobsInv

\* A process that ends leaves every process idle and the lock free.
LEMMA ExitJobs ==
  ASSUME TypeOK, JobsInv, NEW p \in Procs, pc[p] # "idle", Exit(p)
  PROVE  JobsInv'
<1>1. lock = p /\ \A q \in Procs \ {p} : pc[q] = "idle"
  BY Alone DEF JobsInv
<1>2. \A q \in Procs : pc'[q] = "idle"
  BY <1>1 DEF TypeOK, Exit
<1>3. ASSUME NEW q \in Procs
      PROVE  job'[q].outcome = "ERROR"
  <2>1. CASE q = p
    BY <2>1 DEF TypeOK, Exit, NoJob
  <2>2. CASE q # p
    BY <2>2, <1>1 DEF TypeOK, Exit, JobsInv, JobWellFormed, Opened
  <2> QED BY <2>1, <2>2
<1> QED
  BY <1>2, <1>3 DEF JobsInv, Serial, JobWellFormed, WeeklyJob, BackfillJob, Opened, Running

(* Rows: what a step that leaves the successful windows alone preserves. *)

\* The rows of the database are as before.
LEMMA RowsFrame ==
  ASSUME RowsInv, UNCHANGED <<cursor, backfill, windows, runs, extension>>
  PROVE  RowsInv'
  BY DEF RowsInv, WindowsWellFormed, CursorWellFormed, BackfillWellFormed,
         WeeklyDisjoint, BackfillDisjoint, Disjoint, Successes

\* A new or refused run changes one run row that has no successful window.
LEMMA RunFrame ==
  ASSUME TypeOK, RowsInv, NEW r \in RunIds, NEW row \in RunRow, row.status # "NONE",
         row.kind = runs[r].kind \/ windows[r].status = "NONE",
         runs' = [runs EXCEPT ![r] = row],
         UNCHANGED <<cursor, backfill, windows, extension>>
  PROVE  RowsInv'
<1>1. \A kind \in Kind : Successes(kind)' = Successes(kind)
  BY DEF TypeOK, Successes
<1>2. WindowsWellFormed'
  BY DEF TypeOK, RowsInv, WindowsWellFormed
<1> QED BY <1>1, <1>2 DEF RowsInv, CursorWellFormed, BackfillWellFormed, WeeklyDisjoint,
              BackfillDisjoint, Disjoint, Kind

\* Every active collector becomes idle or moves on; the launched one holds the lock.
LEMMA LaunchStep ==
  ASSUME TypeOK, IInv, Direct = {}, NEW p \in Procs, NEW kind \in Kinds, Launch(p, kind)
  PROVE  IInv'
<1>1. \A q \in Procs : pc[q] = "idle"
  BY DEF Launch, IInv, JobsInv, Serial
<1>2. Serial'
  BY <1>1 DEF TypeOK, Launch, Goto, Serial
<1>3. ASSUME NEW q \in Procs
      PROVE  (JobWellFormed(q) /\ WeeklyJob(q) /\ BackfillJob(q))'
  <2>1. job'[q].outcome = "ERROR"
    BY <1>1 DEF TypeOK, Launch, IInv, JobsInv, JobWellFormed, Opened, Job
  <2>2. pc'[q] \in {"idle", "launched"}
    BY <1>1 DEF TypeOK, Launch, Goto
  <2> QED BY <2>1, <2>2 DEF JobWellFormed, WeeklyJob, BackfillJob, Opened, Running
<1>4. RowsInv'
  BY RowsFrame DEF Launch, IInv
<1> QED BY <1>2, <1>3, <1>4 DEF IInv, JobsInv

(* Planning. *)

\* A fresh run for a non-empty window.
LEMMA BeginRunStep ==
  ASSUME TypeOK, IInv, NEW p \in Procs, pc[p] = "launched", job[p].kind \in Kind,
         NEW s \in Nat, NEW e \in Nat, s < e,
         job[p].kind = "BACKFILL" => backfill.status # "NONE",
         BeginRun(p, s, e), UNCHANGED <<cursor, backfill, windows, extension>>
  PROVE  IInv'
<1>1. NewRun \in RunIds /\ runs[NewRun].status = "NONE"
  BY FreshRun DEF BeginRun
<1>2. windows[NewRun].status = "NONE"
  BY <1>1 DEF IInv, RowsInv, WindowsWellFormed
<1>3. runs' = [runs EXCEPT ![NewRun] = [kind |-> job[p].kind, status |-> "RUNNING"]]
  BY DEF BeginRun
<1>4. RowsInv'
  <2>1. [kind |-> job[p].kind, status |-> "RUNNING"] \in RunRow
    BY DEF RunRow
  <2> QED BY <1>1, <1>2, <1>3, <2>1, RunFrame DEF IInv
<1>5. /\ job'[p].kind = job[p].kind /\ job'[p].outcome = "ERROR"
      /\ job'[p].start = s /\ job'[p].end = e /\ job'[p].run = NewRun
      /\ \A q \in Procs \ {p} : job'[q] = job[q]
  <2>1. job[p].outcome = "ERROR"
    BY DEF IInv, JobsInv, JobWellFormed, Opened
  <2> QED BY <2>1 DEF TypeOK, BeginRun, Job
<1>6. pc' = [pc EXCEPT ![p] = "planned"] /\ UNCHANGED lock /\ pc'[p] = "planned"
  BY DEF TypeOK, BeginRun, Goto
<1>7. JobWellFormed(p)'
  BY <1>1, <1>2, <1>3, <1>5, <1>6 DEF TypeOK, JobWellFormed, Opened, Running, Kind
<1>8. WeeklyJob(p)' /\ BackfillJob(p)'
  BY <1>5, <1>6 DEF WeeklyJob, BackfillJob, Opened, Running
<1> QED BY <1>4, <1>5, <1>6, <1>7, <1>8, MoveJobs DEF IInv

\* Every collector that gives up, is refused or is killed leaves the rows as they are.
LEMMA ExitStep ==
  ASSUME TypeOK, IInv, NEW p \in Procs, pc[p] # "idle", Exit(p),
         UNCHANGED <<cursor, backfill, windows, runs, extension>>
  PROVE  IInv'
  BY ExitJobs, RowsFrame DEF IInv

LEMMA PlanWeeklyStep ==
  ASSUME TypeOK, IInv, NEW p \in Procs, NEW initial \in InitialStarts,
         PlanWeekly(p, initial)
  PROVE  IInv'
<1>1. pc[p] = "launched" /\ job[p].kind = "TRAFFIC"
  BY DEF PlanWeekly
<1>2. CASE GiveUp(p)
  BY <1>1, <1>2, ExitStep DEF PlanWeekly, GiveUp
<1>3. CASE /\ WeeklyStart(initial) >= 0
           /\ BeginRun(p, WeeklyStart(initial), WeeklyStart(initial) + WindowDays)
  <2>1. WeeklyStart(initial) \in Nat
    BY <1>3 DEF TypeOK, WeeklyStart, CursorStart, CursorRow, Days, None
  <2> QED BY <1>1, <1>3, <2>1, BeginRunStep DEF PlanWeekly, Kind
<1> QED BY <1>2, <1>3 DEF PlanWeekly

LEMMA PlanBackfillStep ==
  ASSUME TypeOK, IInv, NEW p \in Procs, PlanBackfill(p)
  PROVE  IInv'
<1>1. pc[p] = "launched" /\ job[p].kind = "BACKFILL"
  BY DEF PlanBackfill
<1>2. CASE GiveUp(p)
  BY <1>1, <1>2, ExitStep DEF PlanBackfill, GiveUp
<1>3. CASE /\ backfill.status \notin {"NONE", "COMPLETED"}
           /\ BeginRun(p, backfill.next,
                       MinDay(backfill.next + WindowDays, backfill.target))
  <2>1. /\ backfill.next \in Nat /\ backfill.target \in Nat
        /\ backfill.next < backfill.target
    BY <1>3 DEF TypeOK, BackfillRow, IInv, RowsInv, BackfillWellFormed
  <2>2. /\ MinDay(backfill.next + WindowDays, backfill.target) \in Nat
        /\ backfill.next < MinDay(backfill.next + WindowDays, backfill.target)
    BY <2>1 DEF MinDay
  <2> QED BY <1>1, <1>3, <2>1, <2>2, BeginRunStep DEF PlanBackfill, Kind
<1> QED BY <1>2, <1>3 DEF PlanBackfill

(* Opening. *)

LEMMA CheckCursorStep ==
  ASSUME TypeOK, IInv, NEW p \in Procs, CheckCursor(p)
  PROVE  IInv'
<1>1. pc[p] = "planned" /\ job[p].kind = "TRAFFIC"
  BY DEF CheckCursor
<1> DEFINE label == IF CursorRefuses(job[p].start, job[p].end) THEN "refused" ELSE "opening"
<1>2. pc' = [pc EXCEPT ![p] = label] /\ pc'[p] = label /\ UNCHANGED <<lock, job>>
  BY DEF TypeOK, CheckCursor, Goto
<1>3. RowsInv'
  BY RowsFrame DEF CheckCursor, IInv
<1>4. JobWellFormed(p)' /\ BackfillJob(p)'
  BY <1>1, <1>2 DEF CheckCursor, IInv, JobsInv, JobWellFormed, BackfillJob, Opened, Running
<1>5. WeeklyJob(p)'
  <2>1. pc'[p] = "opening" => cursor.last \in {None, job[p].start}
    BY <1>2 DEF CursorRefuses, IInv, RowsInv, CursorWellFormed
  <2> QED BY <1>1, <1>2, <2>1 DEF CheckCursor, IInv, JobsInv, WeeklyJob, Opened, Running
<1> QED BY <1>1, <1>2, <1>3, <1>4, <1>5, MoveJobs DEF IInv

\* A window row that is not successful, before or after, disturbs no other.
LEMMA WindowFrame ==
  ASSUME TypeOK, RowsInv, NEW r \in RunIds, NEW row \in WindowRow,
         windows[r].status # "SUCCESS", row.status # "SUCCESS",
         runs[r].status # "NONE",
         row.start \in Nat, row.end \in Nat, row.start < row.end,
         windows' = [windows EXCEPT ![r] = row], UNCHANGED runs
  PROVE  /\ WindowsWellFormed'
         /\ \A kind \in Kind : Successes(kind)' = Successes(kind)
         /\ \A kind \in Kind : \A w \in Successes(kind) : windows'[w] = windows[w]
<1>1. WindowsWellFormed'
  BY DEF TypeOK, RowsInv, WindowsWellFormed
<1> QED BY <1>1 DEF TypeOK, Successes

LEMMA OpenWeeklyStep ==
  ASSUME TypeOK, IInv, NEW p \in Procs, OpenWeekly(p)
  PROVE  IInv'
<1> DEFINE r == job[p].run
           row == [start |-> job[p].start, end |-> job[p].end, status |-> "RUNNING"]
<1>1. /\ pc[p] = "opening" /\ job[p].kind = "TRAFFIC" /\ r \in RunIds
      /\ runs[r].status # "NONE" /\ runs[r].kind = "TRAFFIC" /\ windows[r].status = "NONE"
      /\ job[p].start \in Nat /\ job[p].end \in Nat /\ job[p].start < job[p].end
      /\ cursor.last \in {None, job[p].start} /\ job[p].outcome = "ERROR"
  BY DEF OpenWeekly, IInv, JobsInv, JobWellFormed, WeeklyJob, Opened, Running
<1>2. /\ pc' = [pc EXCEPT ![p] = "collecting"] /\ pc'[p] = "collecting"
      /\ UNCHANGED <<lock, job, runs, backfill, extension>>
      /\ windows' = [windows EXCEPT ![r] = row] /\ windows'[r] = row
  BY <1>1 DEF TypeOK, OpenWeekly, Goto
<1>3. cursor'.last = cursor.last /\ cursor'.start = job[p].start
  BY DEF TypeOK, OpenWeekly, CursorRow
<1>4. row \in WindowRow
  BY <1>1 DEF WindowRow, Days
<1>5. /\ WindowsWellFormed'
      /\ \A kind \in Kind : Successes(kind)' = Successes(kind)
      /\ \A kind \in Kind : \A w \in Successes(kind) : windows'[w] = windows[w]
  BY <1>1, <1>2, <1>4, WindowFrame DEF IInv
<1>6. RowsInv'
  BY <1>1, <1>2, <1>3, <1>5 DEF IInv, RowsInv, CursorWellFormed, BackfillWellFormed,
     WeeklyDisjoint, BackfillDisjoint, Disjoint, Kind
<1>7. JobWellFormed(p)'
  BY <1>1, <1>2 DEF JobWellFormed, Opened, Running
<1>8. WeeklyJob(p)' /\ BackfillJob(p)'
  BY <1>1, <1>2, <1>3 DEF WeeklyJob, BackfillJob, Opened, Running
<1> QED BY <1>1, <1>2, <1>6, <1>7, <1>8, MoveJobs DEF IInv

LEMMA CheckBackfillStep ==
  ASSUME TypeOK, IInv, NEW p \in Procs, CheckBackfill(p)
  PROVE  IInv'
<1>1. pc[p] = "planned" /\ job[p].kind = "BACKFILL" /\ job[p].outcome = "ERROR"
  BY DEF CheckBackfill, IInv, JobsInv, JobWellFormed, Opened
<1>2. RowsInv'
  BY RowsFrame DEF CheckBackfill, IInv
<1>3. CASE Goto(p, "refused") /\ UNCHANGED job
  <2>1. pc' = [pc EXCEPT ![p] = "refused"] /\ pc'[p] = "refused"
    BY <1>3 DEF TypeOK, Goto
  <2>2. JobWellFormed(p)' /\ WeeklyJob(p)' /\ BackfillJob(p)'
    BY <1>1, <1>3, <2>1 DEF CheckBackfill, IInv, JobsInv, JobWellFormed, WeeklyJob,
       BackfillJob, Opened, Running
  <2> QED BY <1>1, <1>2, <1>3, <2>1, <2>2, MoveJobs DEF CheckBackfill, IInv
<1>4. CASE backfill.status \notin {"NONE", "COMPLETED", "RUNNING"}
  <2>1. pc' = [pc EXCEPT ![p] = "opening"] /\ pc'[p] = "opening"
    BY <1>4 DEF TypeOK, CheckBackfill, Goto
  <2>2. /\ backfill.next \in Nat /\ backfill.target \in Nat
        /\ backfill.next < backfill.target
    BY <1>4 DEF TypeOK, BackfillRow, IInv, RowsInv, BackfillWellFormed
  <2>3. /\ job'[p].leaseStart = backfill.next
        /\ job'[p].leaseEnd = MinDay(backfill.next + WindowDays, backfill.target)
        /\ job'[p].kind = job[p].kind /\ job'[p].outcome = job[p].outcome
        /\ job'[p].run = job[p].run
        /\ \A q \in Procs \ {p} : job'[q] = job[q]
    BY <1>4 DEF TypeOK, CheckBackfill, Job
  <2>4. backfill.next < job'[p].leaseEnd /\ job'[p].leaseEnd <= backfill.target
    BY <2>2, <2>3 DEF MinDay
  <2>5. JobWellFormed(p)' /\ WeeklyJob(p)'
    BY <1>1, <2>1, <2>3 DEF CheckBackfill, IInv, JobsInv, JobWellFormed, WeeklyJob,
       Opened, Running
  <2>6. BackfillJob(p)'
    BY <1>4, <2>1, <2>3, <2>4 DEF CheckBackfill, BackfillJob, Opened, Running
  <2> QED BY <1>1, <1>2, <2>1, <2>3, <2>5, <2>6, MoveJobs DEF CheckBackfill, IInv
<1> QED BY <1>3, <1>4 DEF CheckBackfill

LEMMA OpenBackfillStep ==
  ASSUME TypeOK, IInv, NEW p \in Procs, OpenBackfill(p)
  PROVE  IInv'
<1> DEFINE r == job[p].run
           row == [start |-> job[p].leaseStart, end |-> job[p].leaseEnd, status |-> "RUNNING"]
           label == IF job[p].leaseStart = job[p].start /\ job[p].leaseEnd = job[p].end
                    THEN "collecting" ELSE "finishing"
<1>1. /\ pc[p] = "opening" /\ job[p].kind = "BACKFILL" /\ r \in RunIds
      /\ runs[r].status # "NONE" /\ runs[r].kind = "BACKFILL" /\ windows[r].status = "NONE"
      /\ job[p].leaseStart = backfill.next /\ job[p].leaseStart < job[p].leaseEnd
      /\ job[p].leaseEnd <= backfill.target /\ job[p].outcome = "ERROR"
      /\ backfill.status # "NONE"
  BY DEF OpenBackfill, IInv, JobsInv, JobWellFormed, BackfillJob, Opened, Running
<1>2. /\ pc' = [pc EXCEPT ![p] = label] /\ pc'[p] = label /\ label # "idle"
      /\ UNCHANGED <<lock, job, runs, cursor, extension>>
      /\ windows' = [windows EXCEPT ![r] = row] /\ windows'[r] = row
  BY <1>1 DEF TypeOK, OpenBackfill, Goto
<1>3. /\ backfill'.next = backfill.next /\ backfill'.target = backfill.target
      /\ backfill'.status = "RUNNING"
  BY DEF TypeOK, OpenBackfill, BackfillRow
<1>4. /\ row \in WindowRow /\ row.start \in Nat /\ row.end \in Nat /\ row.start < row.end
      /\ row.status # "SUCCESS" /\ backfill.next \in Nat /\ backfill.target \in Nat
  <2>1. backfill.next \in Nat /\ backfill.target \in Nat
    BY <1>1 DEF IInv, RowsInv, BackfillWellFormed
  <2>2. job[p].leaseEnd \in Int
    BY DEF TypeOK, Job, Days, None
  <2> QED BY <1>1, <2>1, <2>2 DEF WindowRow, Days
<1>5. /\ WindowsWellFormed'
      /\ \A kind \in Kind : Successes(kind)' = Successes(kind)
      /\ \A kind \in Kind : \A w \in Successes(kind) : windows'[w] = windows[w]
  BY <1>1, <1>2, <1>4, WindowFrame DEF IInv
<1>6. RowsInv'
  BY <1>1, <1>2, <1>3, <1>4, <1>5 DEF IInv, RowsInv, CursorWellFormed,
     BackfillWellFormed, WeeklyDisjoint, BackfillDisjoint, Disjoint, Kind
<1>7. JobWellFormed(p)' /\ WeeklyJob(p)'
  BY <1>1, <1>2 DEF JobWellFormed, WeeklyJob, Opened, Running
<1>8. BackfillJob(p)'
  BY <1>1, <1>2, <1>3 DEF BackfillJob, Opened, Running
<1> QED BY <1>1, <1>2, <1>6, <1>7, <1>8, MoveJobs DEF IInv

LEMMA RefusedStep ==
  ASSUME TypeOK, IInv, NEW p \in Procs, Refused(p)
  PROVE  IInv'
<1> DEFINE r == job[p].run
           row == [runs[r] EXCEPT !.status = "ERROR"]
<1>1. pc[p] = "refused" /\ r \in RunIds
  BY DEF Refused, IInv, JobsInv, JobWellFormed, Opened, Running
<1>2. row \in RunRow /\ row.status # "NONE" /\ row.kind = runs[r].kind
  BY <1>1 DEF TypeOK, RunRow, Outcomes
<1>3. runs' = [runs EXCEPT ![r] = row]
  BY <1>1 DEF TypeOK, Refused
<1>4. RowsInv'
  BY <1>1, <1>2, <1>3, RunFrame DEF Refused, IInv
<1> QED BY <1>1, <1>4, ExitJobs DEF Refused, IInv

(* Collecting and archiving change locals only. *)

LEMMA OpeningFailsStep ==
  ASSUME TypeOK, IInv, NEW p \in Procs, OpeningFails(p)
  PROVE  IInv'
<1>1. /\ pc[p] \in {"planned", "opening"} /\ pc' = [pc EXCEPT ![p] = "refused"]
      /\ UNCHANGED <<lock, cursor, backfill, windows, runs, job, extension>>
  BY DEF OpeningFails, Goto
<1>2. RowsInv'
  BY <1>1, RowsFrame DEF IInv
<1>3. JobsInv'
  BY <1>1 DEF TypeOK, IInv, JobsInv, Serial, JobWellFormed, WeeklyJob, BackfillJob, Opened,
     Running
<1> QED BY <1>2, <1>3 DEF IInv

LEMMA EndIsLostStep ==
  ASSUME TypeOK, IInv, NEW p \in Procs, EndIsLost(p)
  PROVE  IInv'
  BY ExitStep DEF EndIsLost

LEMMA CollectStep ==
  ASSUME TypeOK, IInv, NEW p \in Procs, NEW outcome \in Outcomes, Collect(p, outcome)
  PROVE  IInv'
<1> DEFINE label == IF outcome = "SUCCESS" /\ Archived(p) THEN "archiving" ELSE "finishing"
<1>1. /\ pc[p] = "collecting" /\ pc' = [pc EXCEPT ![p] = label] /\ pc'[p] = label
      /\ label # "idle" /\ UNCHANGED lock
  BY DEF TypeOK, Collect, Goto
<1>2. /\ job'[p].kind = job[p].kind /\ job'[p].run = job[p].run
      /\ job'[p].start = job[p].start /\ job'[p].end = job[p].end
      /\ \A q \in Procs \ {p} : job'[q] = job[q]
  BY DEF TypeOK, Collect, Job
<1>3. RowsInv'
  BY RowsFrame DEF Collect, IInv
<1>4. JobWellFormed(p)'
  BY <1>1, <1>2 DEF Collect, Archived, IInv, JobsInv, JobWellFormed, Opened, Running
<1>5. WeeklyJob(p)' /\ BackfillJob(p)'
  BY <1>1, <1>2 DEF Collect, IInv, JobsInv, WeeklyJob, BackfillJob, Opened, Running
<1> QED BY <1>1, <1>2, <1>3, <1>4, <1>5, MoveJobs DEF IInv

LEMMA PrepareArchiveStep ==
  ASSUME TypeOK, IInv, NEW p \in Procs, PrepareArchive(p)
  PROVE  IInv'
<1>1. /\ pc[p] = "archiving" /\ pc' = [pc EXCEPT ![p] = "finishing"]
      /\ pc'[p] = "finishing" /\ UNCHANGED lock
  BY DEF TypeOK, PrepareArchive, Goto
<1>2. /\ job'[p].kind = job[p].kind /\ job'[p].run = job[p].run
      /\ job'[p].start = job[p].start /\ job'[p].end = job[p].end
      /\ \A q \in Procs \ {p} : job'[q] = job[q]
  BY DEF TypeOK, PrepareArchive, Job
<1>3. RowsInv'
  BY RowsFrame DEF PrepareArchive, IInv
<1>4. JobWellFormed(p)'
  BY <1>1, <1>2 DEF PrepareArchive, IInv, JobsInv, JobWellFormed, Opened, Running
<1>5. WeeklyJob(p)' /\ BackfillJob(p)'
  BY <1>1, <1>2 DEF PrepareArchive, IInv, JobsInv, JobWellFormed, WeeklyJob, BackfillJob,
     Opened, Running
<1> QED BY <1>1, <1>2, <1>3, <1>4, <1>5, MoveJobs DEF IInv

(* Finishing. *)

\* What CloseRows leaves of a run's window and adds to the successful ones.
LEMMA CloseFrame ==
  ASSUME TypeOK, IInv, NEW p \in Procs, job[p].run \in RunIds, CloseRows(p),
         runs[job[p].run].status # "NONE", windows[job[p].run].status = "RUNNING"
  PROVE  /\ WindowsWellFormed'
         /\ \A w \in RunIds : /\ windows'[w].start = windows[w].start
                              /\ windows'[w].end = windows[w].end
         /\ \A kind \in Kind : Successes(kind)' =
              IF job[p].outcome = "SUCCESS" /\ runs[job[p].run].kind = kind
              THEN Successes(kind) \cup {job[p].run} ELSE Successes(kind)
<1> DEFINE r == job[p].run
<1>1. ASSUME NEW w \in RunIds
      PROVE  /\ windows'[w].start = windows[w].start
             /\ windows'[w].end = windows[w].end
             /\ runs'[w].kind = runs[w].kind
  BY DEF TypeOK, CloseRows, WindowRow, RunRow
<1>2. ASSUME NEW w \in RunIds, w # r
      PROVE  windows'[w] = windows[w] /\ runs'[w] = runs[w]
  BY <1>2 DEF TypeOK, CloseRows
<1>3. /\ windows'[r].status = IF job[p].outcome = "SUCCESS" THEN "SUCCESS" ELSE "FAILED"
      /\ runs'[r].status # "NONE"
  <2>1. job[p].outcome \in Outcomes
    BY DEF TypeOK, Job
  <2>2. runs'[r].status = job[p].outcome
    BY DEF TypeOK, CloseRows, RunRow
  <2>3. windows'[r].status = IF job[p].outcome = "SUCCESS" THEN "SUCCESS" ELSE "FAILED"
    BY DEF TypeOK, CloseRows, WindowRow
  <2> QED BY <2>1, <2>2, <2>3 DEF Outcomes
<1>4. WindowsWellFormed'
  <2>1. ASSUME NEW w \in RunIds
        PROVE  /\ runs'[w].status = "NONE" => windows'[w].status = "NONE"
               /\ windows'[w].status # "NONE" => windows[w].status # "NONE"
    BY <1>2, <1>3 DEF IInv, RowsInv, WindowsWellFormed
  <2> QED BY <1>1, <2>1 DEF IInv, RowsInv, WindowsWellFormed
<1>5. ASSUME NEW kind \in Kind
      PROVE  Successes(kind)' = IF job[p].outcome = "SUCCESS" /\ runs[r].kind = kind
                                THEN Successes(kind) \cup {r} ELSE Successes(kind)
  <2>1. ASSUME NEW w \in RunIds, w # r
        PROVE  w \in Successes(kind)' <=> w \in Successes(kind)
    BY <1>2, <2>1 DEF Successes
  <2>2. r \in Successes(kind)' <=> job[p].outcome = "SUCCESS" /\ runs[r].kind = kind
    BY <1>1, <1>3 DEF Successes
  <2>3. r \notin Successes(kind)
    BY DEF Successes
  <2>4. Successes(kind) \subseteq RunIds /\ Successes(kind)' \subseteq RunIds
    BY DEF Successes
  <2> QED BY <2>1, <2>2, <2>3, <2>4
<1> QED BY <1>1, <1>4, <1>5

LEMMA FinishWeeklyStep ==
  ASSUME TypeOK, IInv, NEW p \in Procs, FinishWeekly(p)
  PROVE  IInv'
<1> DEFINE r == job[p].run
<1>1. /\ pc[p] = "finishing" /\ job[p].kind = "TRAFFIC" /\ r \in RunIds
      /\ runs[r].status # "NONE" /\ runs[r].kind = "TRAFFIC"
      /\ job[p].start \in Nat /\ job[p].end \in Nat /\ job[p].start < job[p].end
      /\ cursor.last \in {None, job[p].start}
      /\ windows[r].start = job[p].start /\ windows[r].end = job[p].end
  BY DEF FinishWeekly, IInv, JobsInv, JobWellFormed, WeeklyJob, Opened, Running
<1>2. JobsInv'
  BY <1>1, ExitJobs DEF FinishWeekly, IInv
<1>3. CASE RollBack(p) /\ UNCHANGED cursor
  BY <1>2, <1>3, RowsFrame DEF FinishWeekly, RollBack, IInv
<1>4. CASE windows[r].status = "RUNNING" /\ CloseRows(p) /\ cursor' = CursorAfter(p)
  <2>1. /\ WindowsWellFormed'
        /\ \A w \in RunIds : /\ windows'[w].start = windows[w].start
                             /\ windows'[w].end = windows[w].end
        /\ Successes("BACKFILL")' = Successes("BACKFILL")
        /\ Successes("TRAFFIC")' = IF job[p].outcome = "SUCCESS"
             THEN Successes("TRAFFIC") \cup {r} ELSE Successes("TRAFFIC")
    BY <1>1, <1>4, CloseFrame DEF Kind
  <2>2. Successes("BACKFILL") \subseteq RunIds /\ Successes("TRAFFIC") \subseteq RunIds
    BY DEF Successes
  <2>3. UNCHANGED <<backfill, extension>>
    BY DEF FinishWeekly
  <2>4. BackfillWellFormed' /\ BackfillDisjoint'
    BY <2>1, <2>2, <2>3 DEF IInv, RowsInv, BackfillWellFormed, BackfillDisjoint, Disjoint
  <2>5. \A w \in Successes("TRAFFIC") : /\ windows[w].end <= cursor.last
                                         /\ windows[w].start \in Nat /\ windows[w].end \in Nat
                                         /\ windows[w].end <= job[p].start
    BY <1>1 DEF IInv, RowsInv, CursorWellFormed, WindowsWellFormed, Successes, None
  <2>6. CASE job[p].outcome = "SUCCESS"
    <3>1. cursor'.last = job[p].end /\ cursor'.start = None
      BY <1>4, <2>6 DEF CursorAfter
    <3>2. CursorWellFormed'
      BY <1>1, <2>1, <2>2, <2>5, <2>6, <3>1 DEF CursorWellFormed
    <3>3. WeeklyDisjoint'
      BY <1>1, <2>1, <2>2, <2>5, <2>6, <3>1 DEF IInv, RowsInv, WeeklyDisjoint, Disjoint
    <3> QED BY <1>2, <2>1, <2>4, <3>2, <3>3 DEF IInv, RowsInv
  <2>7. CASE job[p].outcome # "SUCCESS"
    <3>1. cursor'.last = cursor.last /\ cursor'.start = cursor.start
      BY <1>4, <2>7 DEF TypeOK, CursorAfter, CursorRow
    <3>2. CursorWellFormed' /\ WeeklyDisjoint'
      BY <2>1, <2>2, <2>7, <3>1 DEF IInv, RowsInv, CursorWellFormed, WeeklyDisjoint, Disjoint
    <3> QED BY <1>2, <2>1, <2>4, <3>2 DEF IInv, RowsInv
  <2> QED BY <2>6, <2>7
<1> QED BY <1>3, <1>4 DEF FinishWeekly

LEMMA CheckFinishBackfillStep ==
  ASSUME TypeOK, IInv, NEW p \in Procs, CheckFinishBackfill(p)
  PROVE  IInv'
<1>1. pc[p] = "finishing" /\ job[p].kind = "BACKFILL"
  BY DEF CheckFinishBackfill
<1>2. CASE Exit(p)
  BY <1>1, <1>2, ExitStep DEF CheckFinishBackfill
<1>3. CASE /\ Goto(p, "closing")
           /\ job' = [job EXCEPT ![p].reached = job[p].end >= backfill.target]
           /\ UNCHANGED lock
  <2>1. pc' = [pc EXCEPT ![p] = "closing"] /\ pc'[p] = "closing"
    BY <1>3 DEF TypeOK, Goto
  <2>2. job[p].end \in Int /\ backfill.target \in Int
    BY DEF TypeOK, Job, BackfillRow, Days, None
  <2>3. (job[p].end >= backfill.target) \in BOOLEAN
    BY <2>2
  <2>4. /\ job'[p].kind = job[p].kind /\ job'[p].run = job[p].run
        /\ job'[p].start = job[p].start /\ job'[p].end = job[p].end
        /\ job'[p].outcome = job[p].outcome
        /\ \A q \in Procs \ {p} : job'[q] = job[q]
    BY <1>3, <2>3 DEF TypeOK, Job
  <2>5. ~job'[p].reached => job[p].end < backfill.target
    <3>1. CASE job[p].end >= backfill.target
      BY <1>3, <3>1 DEF TypeOK, Job
    <3>2. CASE ~(job[p].end >= backfill.target)
      BY <2>2, <3>2
    <3> QED BY <3>1, <3>2
  <2>7. RowsInv'
    BY RowsFrame DEF CheckFinishBackfill, IInv
  <2>8. JobWellFormed(p)' /\ WeeklyJob(p)'
    BY <1>1, <2>1, <2>4 DEF CheckFinishBackfill, IInv, JobsInv, JobWellFormed, WeeklyJob,
       Opened, Running
  <2>9. BackfillJob(p)'
    BY <1>1, <2>1, <2>4, <2>5 DEF CheckFinishBackfill, IInv, JobsInv, BackfillJob,
       Opened, Running
  <2> QED BY <1>1, <1>3, <2>1, <2>4, <2>7, <2>8, <2>9, MoveJobs DEF IInv
<1> QED BY <1>2, <1>3 DEF CheckFinishBackfill

LEMMA FinishBackfillStep ==
  ASSUME TypeOK, IInv, NEW p \in Procs, FinishBackfill(p)
  PROVE  IInv'
<1> DEFINE r == job[p].run
<1>1. /\ pc[p] = "closing" /\ job[p].kind = "BACKFILL" /\ r \in RunIds
      /\ runs[r].status # "NONE" /\ runs[r].kind = "BACKFILL" /\ backfill.status # "NONE"
      /\ windows[r].start = backfill.next /\ backfill.next < windows[r].end
      /\ windows[r].end <= backfill.target
      /\ job[p].outcome = "SUCCESS" => windows[r].end = job[p].end
      /\ ~job[p].reached => job[p].end < backfill.target
  BY DEF FinishBackfill, IInv, JobsInv, JobWellFormed, BackfillJob, Opened, Running
<1>2. JobsInv'
  BY <1>1, ExitJobs DEF FinishBackfill, IInv
<1>3. CASE RollBack(p) /\ UNCHANGED backfill
  BY <1>2, <1>3, RowsFrame DEF FinishBackfill, RollBack, IInv
<1>4. CASE windows[r].status = "RUNNING" /\ CloseRows(p) /\ backfill' = BackfillAfter(p)
  <2>1. /\ WindowsWellFormed'
        /\ \A w \in RunIds : /\ windows'[w].start = windows[w].start
                             /\ windows'[w].end = windows[w].end
        /\ Successes("TRAFFIC")' = Successes("TRAFFIC")
        /\ Successes("BACKFILL")' = IF job[p].outcome = "SUCCESS"
             THEN Successes("BACKFILL") \cup {r} ELSE Successes("BACKFILL")
    BY <1>1, <1>4, CloseFrame DEF Kind
  <2>2. Successes("BACKFILL") \subseteq RunIds /\ Successes("TRAFFIC") \subseteq RunIds
    BY DEF Successes
  <2>3. UNCHANGED <<cursor, extension>>
    BY DEF FinishBackfill
  <2>4. CursorWellFormed' /\ WeeklyDisjoint'
    BY <2>1, <2>2, <2>3 DEF IInv, RowsInv, CursorWellFormed, WeeklyDisjoint, Disjoint
  <2>5. /\ backfill.next \in Nat /\ backfill.target \in Nat
        /\ backfill.next <= backfill.target
        /\ extension # None => extension > backfill.target
        /\ windows[r].end \in Nat
        /\ \A w \in Successes("BACKFILL") : /\ windows[w].end <= backfill.next
                                             /\ windows[w].end \in Nat
    BY <1>1, <1>4 DEF IInv, RowsInv, BackfillWellFormed, WindowsWellFormed, Successes
  <2>6. CASE job[p].outcome = "SUCCESS"
    <3>1. /\ backfill'.next = windows[r].end /\ backfill'.target = backfill.target
          /\ backfill'.status = IF job[p].reached THEN "COMPLETED" ELSE "PENDING"
      BY <1>1, <1>4, <2>6 DEF TypeOK, BackfillAfter, BackfillRow
    <3>2. BackfillWellFormed'
      BY <1>1, <2>1, <2>2, <2>3, <2>5, <2>6, <3>1 DEF BackfillWellFormed
    <3>3. BackfillDisjoint'
      BY <1>1, <2>1, <2>2, <2>5, <2>6, <3>1 DEF IInv, RowsInv, BackfillDisjoint, Disjoint
    <3> QED BY <1>2, <2>1, <2>4, <3>2, <3>3 DEF IInv, RowsInv
  <2>7. CASE job[p].outcome # "SUCCESS"
    <3>1. /\ backfill'.next = backfill.next /\ backfill'.target = backfill.target
          /\ backfill'.status = "FAILED"
      BY <1>4, <2>7 DEF TypeOK, BackfillAfter, BackfillRow
    <3>2. BackfillWellFormed' /\ BackfillDisjoint'
      BY <1>1, <2>1, <2>2, <2>3, <2>5, <2>7, <3>1 DEF IInv, RowsInv, BackfillWellFormed,
         BackfillDisjoint, Disjoint
    <3> QED BY <1>2, <2>1, <2>4, <3>2 DEF IInv, RowsInv
  <2> QED BY <2>6, <2>7
<1> QED BY <1>3, <1>4 DEF FinishBackfill

(* The operator's commands change the backfill row under the collectors. *)

LEMMA InitializeBackfillStep ==
  ASSUME TypeOK, IInv, NEW target \in Targets, InitializeBackfill(target)
  PROVE  IInv'
<1>1. /\ backfill.status = "NONE" /\ backfill'.status = "PENDING"
      /\ backfill'.next = target - BackfillDays /\ backfill'.target = target
      /\ target - BackfillDays \in Nat /\ target \in Nat
      /\ UNCHANGED <<lock, cursor, windows, runs, pc, job, extension>>
  BY DEF InitializeBackfill
<1>2. Successes("BACKFILL") = {}
  BY <1>1 DEF IInv, RowsInv, BackfillWellFormed, WindowsWellFormed, Successes, None
<1>3. BackfillWellFormed' /\ BackfillDisjoint'
  BY <1>1, <1>2 DEF IInv, RowsInv, BackfillWellFormed, BackfillDisjoint, Disjoint, Successes
<1>4. RowsInv'
  BY <1>1, <1>3 DEF IInv, RowsInv, WindowsWellFormed, CursorWellFormed, WeeklyDisjoint,
     Disjoint, Successes
<1>5. ASSUME NEW q \in Procs
      PROVE  (JobWellFormed(q) /\ WeeklyJob(q) /\ BackfillJob(q))'
  BY <1>1 DEF IInv, JobsInv, JobWellFormed, WeeklyJob, BackfillJob, Opened, Running
<1> QED BY <1>1, <1>4, <1>5 DEF IInv, JobsInv, Serial

LEMMA ExtendStep ==
  ASSUME TypeOK, IInv, Extend
  PROVE  IInv'
<1>1. /\ backfill.status # "NONE" /\ backfill'.status = "PENDING"
      /\ backfill'.next = backfill.next /\ backfill'.target = extension
      /\ backfill.next \in Nat /\ backfill.target \in Nat /\ extension \in Nat
      /\ backfill.next <= backfill.target /\ extension > backfill.target /\ extension' = None
      /\ UNCHANGED <<lock, cursor, windows, runs, pc, job>>
  BY DEF TypeOK, Extend, BackfillRow, Days, None, IInv, RowsInv, BackfillWellFormed
<1>2. RowsInv'
  BY <1>1 DEF IInv, RowsInv, WindowsWellFormed, CursorWellFormed, BackfillWellFormed,
     WeeklyDisjoint, BackfillDisjoint, Disjoint, Successes
<1>3. ASSUME NEW q \in Procs
      PROVE  (JobWellFormed(q) /\ WeeklyJob(q))'
  BY <1>1 DEF IInv, JobsInv, JobWellFormed, WeeklyJob
<1>4. ASSUME NEW q \in Procs
      PROVE  BackfillJob(q)'
  <2>1. job[q].leaseEnd \in Int /\ job[q].end \in Int
    BY DEF TypeOK, Job, Days, None
  <2>2. pc[q] \in Opened /\ job[q].kind = "BACKFILL" => windows[job[q].run].end \in Int
    BY DEF TypeOK, WindowRow, Days, None, IInv, JobsInv, JobWellFormed, Opened, Running
  <2> QED BY <1>1, <2>1, <2>2 DEF IInv, JobsInv, BackfillJob
<1> QED BY <1>1, <1>2, <1>3, <1>4 DEF IInv, JobsInv, Serial

LEMMA CheckExtendStep ==
  ASSUME TypeOK, IInv, NEW target \in Targets, CheckExtend(target)
  PROVE  IInv'
<1>1. /\ backfill.status # "NONE" /\ extension' = target /\ target > backfill.target
      /\ UNCHANGED <<lock, cursor, backfill, windows, runs, pc, job>>
  BY DEF CheckExtend
<1>2. RowsInv'
  BY <1>1 DEF IInv, RowsInv, WindowsWellFormed, CursorWellFormed, BackfillWellFormed,
     WeeklyDisjoint, BackfillDisjoint, Disjoint, Successes
<1>3. JobsInv'
  BY <1>1 DEF IInv, JobsInv, Serial, JobWellFormed, WeeklyJob, BackfillJob
<1> QED BY <1>2, <1>3 DEF IInv

(* The invariant. *)

LEMMA InitIInv == Init => IInv
<1> SUFFICES ASSUME Init PROVE IInv
  OBVIOUS
<1>1. JobsInv
  BY DEF Init, JobsInv, Serial, JobWellFormed, WeeklyJob, BackfillJob, NoJob, Opened, Running
<1>2. RowsInv
  BY DEF Init, RowsInv, WindowsWellFormed, CursorWellFormed, BackfillWellFormed,
     WeeklyDisjoint, BackfillDisjoint, Disjoint, Successes, NoWindow, NoRunRow, NoCursor,
     NoBackfill, None
<1> QED BY <1>1, <1>2 DEF IInv

LEMMA StepIInv ==
  ASSUME TypeOK, IInv, Direct = {}, [Next]_vars
  PROVE  IInv'
<1>1. CASE NextDay \/ UNCHANGED vars
  <2>1. UNCHANGED <<lock, cursor, backfill, windows, runs, pc, job, extension>>
    BY <1>1 DEF NextDay, vars
  <2>2. RowsInv'
    BY <2>1, RowsFrame DEF IInv
  <2>3. JobsInv'
    BY <2>1 DEF IInv, JobsInv, Serial, JobWellFormed, WeeklyJob, BackfillJob
  <2> QED BY <2>2, <2>3 DEF IInv
<1>2. ASSUME NEW p \in Procs, NEW kind \in Kinds, Launch(p, kind)
      PROVE  IInv'
  BY <1>2, LaunchStep
<1>3. ASSUME NEW p \in Procs, Step(p)
      PROVE  IInv'
  BY <1>3, PlanWeeklyStep, PlanBackfillStep, CheckCursorStep, OpenWeeklyStep,
     CheckBackfillStep, OpenBackfillStep, RefusedStep, CollectStep, PrepareArchiveStep,
     FinishWeeklyStep, CheckFinishBackfillStep, FinishBackfillStep, OpeningFailsStep,
     EndIsLostStep DEF Step
<1>4. ASSUME NEW p \in Procs, Crash(p)
      PROVE  IInv'
  BY <1>4, ExitStep DEF Crash
<1>5. CASE Operator
  BY <1>5, InitializeBackfillStep, CheckExtendStep, ExtendStep DEF Operator
<1> QED BY <1>1, <1>2, <1>3, <1>4, <1>5 DEF Next

\* The inductive invariant holds in every reachable state when every collector
\* takes the shared lock.
THEOREM Inductive ==
  ASSUME Direct = {}
  PROVE  Spec => []IInv
<1>1. Init => TypeOK /\ IInv
  BY InitTypes, InitIInv
<1>2. TypeOK /\ IInv /\ [Next]_vars => (TypeOK /\ IInv)'
  BY StepTypes, StepIInv
<1> QED BY <1>1, <1>2, PTL DEF Spec

\* No day is collected twice by the weekly collector (finish_traffic_window).
THEOREM WeeklyNeverOverlaps ==
  ASSUME Direct = {}
  PROVE  Spec => []WeeklyDisjoint
<1>1. IInv => WeeklyDisjoint
  BY DEF IInv, RowsInv
<1> QED BY <1>1, Inductive, PTL

\* No day is collected twice by the backfill, whatever an operator extends while
\* a window is being opened, collected or finished (update_backfill_window).
THEOREM BackfillNeverOverlaps ==
  ASSUME Direct = {}
  PROVE  Spec => []BackfillDisjoint
<1>1. IInv => BackfillDisjoint
  BY DEF IInv, RowsInv
<1> QED BY <1>1, Inductive, PTL

\* What a collector that found the target reached is about to write.
ReachedInv ==
  \A p \in Procs :
    pc[p] = "closing" /\ job[p].reached /\ job[p].outcome = "SUCCESS" =>
      overtaken \/ job[p].end = backfill.target

CompletedInv == CompletedUnlessOvertaken /\ ReachedInv

LEMMA StepCompleted ==
  ASSUME TypeOK, IInv, CompletedInv, [Next]_vars
  PROVE  CompletedInv'
<1>1. ASSUME UNCHANGED <<backfill, overtaken>>,
             \A p \in Procs : pc'[p] = "closing" => pc[p] = "closing" /\ job'[p] = job[p]
      PROVE  CompletedInv'
  BY <1>1 DEF CompletedInv, ReachedInv, CompletedUnlessOvertaken,
     CompletedAtTarget
<1>2. ASSUME NEW p \in Procs, Exit(p), UNCHANGED <<backfill, overtaken>>
      PROVE  CompletedInv'
  BY <1>1, <1>2 DEF TypeOK, Exit
<1>3. ASSUME NEW p \in Procs, NEW label, pc' = [pc EXCEPT ![p] = label], label # "closing",
             \A q \in Procs \ {p} : job'[q] = job[q], UNCHANGED <<backfill, overtaken>>
      PROVE  CompletedInv'
  BY <1>1, <1>3 DEF TypeOK
<1>4. CASE NextDay \/ UNCHANGED vars \/ \E target \in Targets : CheckExtend(target)
  BY <1>1, <1>4 DEF NextDay, vars, CheckExtend
<1>5. ASSUME NEW p \in Procs, NEW kind \in Kinds, Launch(p, kind)
      PROVE  CompletedInv'
  BY <1>3, <1>5 DEF TypeOK, Launch, Goto
<1>6. ASSUME NEW p \in Procs, Crash(p) \/ Refused(p) \/ FinishWeekly(p) \/ EndIsLost(p)
      PROVE  CompletedInv'
  BY <1>2, <1>6 DEF Crash, Refused, FinishWeekly, EndIsLost
<1>7. ASSUME NEW p \in Procs, \/ \E initial \in InitialStarts : PlanWeekly(p, initial)
                              \/ PlanBackfill(p)
      PROVE  CompletedInv'
  <2>1. /\ UNCHANGED <<backfill, overtaken>>
        /\ \/ Exit(p)
           \/ /\ pc' = [pc EXCEPT ![p] = "planned"]
              /\ \A q \in Procs \ {p} : job'[q] = job[q]
    BY <1>7 DEF TypeOK, PlanWeekly, PlanBackfill, GiveUp, BeginRun, Goto
  <2> QED BY <2>1, <1>2, <1>3
<1>8. ASSUME NEW p \in Procs,
             \/ CheckCursor(p) \/ OpenWeekly(p) \/ CheckBackfill(p) \/ OpeningFails(p)
             \/ PrepareArchive(p) \/ \E outcome \in Outcomes : Collect(p, outcome)
      PROVE  CompletedInv'
  <2>1. /\ UNCHANGED <<backfill, overtaken>>
        /\ \A q \in Procs \ {p} : job'[q] = job[q]
        /\ \E label \in ControlPoints \ {"closing"} : pc' = [pc EXCEPT ![p] = label]
    BY <1>8 DEF TypeOK, CheckCursor, OpenWeekly, CheckBackfill, OpeningFails, PrepareArchive,
       Collect, Goto, ControlPoints
  <2> QED BY <2>1, <1>3
<1>9. ASSUME NEW p \in Procs, OpenBackfill(p)
      PROVE  CompletedInv'
  <2>1. /\ backfill'.status = "RUNNING" /\ backfill'.target = backfill.target
        /\ UNCHANGED <<job, overtaken>>
        /\ \A q \in Procs : pc'[q] = "closing" => pc[q] = "closing"
    BY <1>9 DEF TypeOK, OpenBackfill, BackfillRow, Goto
  <2> QED BY <2>1 DEF CompletedInv, ReachedInv, CompletedUnlessOvertaken,
     CompletedAtTarget
<1>10. ASSUME NEW p \in Procs, CheckFinishBackfill(p)
       PROVE  CompletedInv'
  <2>1. CASE Exit(p)
    BY <1>2, <1>10, <2>1 DEF CheckFinishBackfill
  <2>2. CASE /\ Goto(p, "closing")
             /\ job' = [job EXCEPT ![p].reached = job[p].end >= backfill.target]
             /\ job[p].outcome = "SUCCESS" => ~(job[p].end > backfill.target)
    <3>1. job[p].end \in Int /\ backfill.target \in Int
      BY DEF TypeOK, Job, BackfillRow, Days, None
    <3>2. /\ job'[p].end = job[p].end /\ job'[p].outcome = job[p].outcome
          /\ job'[p].reached = (job[p].end >= backfill.target)
          /\ \A q \in Procs \ {p} : job'[q] = job[q] /\ pc'[q] = pc[q]
      BY <2>2 DEF TypeOK, Job, Goto
    <3>3. UNCHANGED <<backfill, overtaken>>
      BY <1>10 DEF CheckFinishBackfill
    <3>4. job[p].outcome = "SUCCESS" /\ job[p].end >= backfill.target =>
            job[p].end = backfill.target
      BY <2>2, <3>1
    <3> QED BY <3>2, <3>3, <3>4 DEF CompletedInv, ReachedInv, CompletedUnlessOvertaken,
     CompletedAtTarget
  <2> QED BY <1>10, <2>1, <2>2 DEF CheckFinishBackfill
<1>11. ASSUME NEW p \in Procs, FinishBackfill(p)
       PROVE  CompletedInv'
  <2>1. /\ pc[p] = "closing" /\ Exit(p) /\ UNCHANGED overtaken
        /\ backfill' = backfill \/ backfill' = BackfillAfter(p)
    BY <1>11 DEF FinishBackfill
  <2>2. backfill'.target = backfill.target
    BY <2>1 DEF TypeOK, BackfillAfter, BackfillRow
  <2>3. ReachedInv'
    BY <2>1, <2>2 DEF TypeOK, Exit, CompletedInv, ReachedInv
  <2>4. CASE backfill' = BackfillAfter(p)
    <3>1. backfill'.status = "COMPLETED" =>
            job[p].reached /\ job[p].outcome = "SUCCESS" /\ backfill'.next = job[p].end
      BY <2>4 DEF TypeOK, BackfillAfter, BackfillRow
    <3> QED BY <2>1, <2>2, <2>3, <3>1 DEF CompletedInv, ReachedInv, CompletedUnlessOvertaken,
     CompletedAtTarget
  <2> QED BY <2>1, <2>3, <2>4 DEF CompletedInv, CompletedUnlessOvertaken, CompletedAtTarget
<1>12. ASSUME NEW target \in Targets, InitializeBackfill(target)
       PROVE  CompletedInv'
  <2>1. backfill.status = "NONE" /\ backfill'.status = "PENDING" /\ UNCHANGED <<pc, job>>
    BY <1>12 DEF InitializeBackfill
  <2>2. \A q \in Procs : pc[q] # "closing"
    BY <2>1 DEF IInv, JobsInv, JobWellFormed, BackfillJob, Opened, Running
  <2> QED BY <2>1, <2>2 DEF CompletedInv, ReachedInv, CompletedUnlessOvertaken,
     CompletedAtTarget
<1>13. CASE Extend
  <2>1. backfill'.status = "PENDING"
    BY <1>13 DEF TypeOK, Extend, BackfillRow
  <2> QED BY <1>13, <2>1 DEF Extend, CompletedInv, ReachedInv, CompletedUnlessOvertaken,
     CompletedAtTarget
<1>14. ASSUME NEW p \in Procs, Step(p)
       PROVE  CompletedInv'
  <2>1. CASE \/ \E initial \in InitialStarts : PlanWeekly(p, initial)
             \/ PlanBackfill(p)
    BY <1>7, <2>1
  <2>2. CASE \/ CheckCursor(p) \/ OpenWeekly(p) \/ CheckBackfill(p) \/ OpeningFails(p)
             \/ PrepareArchive(p) \/ \E outcome \in Outcomes : Collect(p, outcome)
    BY <1>8, <2>2
  <2>3. CASE Refused(p) \/ FinishWeekly(p) \/ EndIsLost(p)
    BY <1>6, <2>3
  <2> QED BY <1>9, <1>10, <1>11, <1>14, <2>1, <2>2, <2>3 DEF Step
<1>15. CASE Operator
  BY <1>4, <1>12, <1>13, <1>15 DEF Operator
<1> QED BY <1>4, <1>5, <1>6, <1>14, <1>15 DEF Next

\* A backfill is COMPLETED only with its cursor at its target, unless an extension
\* was written between the SELECT and the UPDATE of update_backfill_window.
THEOREM CompletedIsCollected ==
  ASSUME Direct = {}
  PROVE  Spec => []CompletedUnlessOvertaken
<1>1. Init => TypeOK /\ IInv /\ CompletedInv
  BY InitTypes, InitIInv DEF Init, NoBackfill, CompletedInv, CompletedUnlessOvertaken,
     CompletedAtTarget, ReachedInv
<1>2. TypeOK /\ IInv /\ CompletedInv /\ [Next]_vars => (TypeOK /\ IInv /\ CompletedInv)'
  BY StepTypes, StepIInv, StepCompleted
<1>3. CompletedInv => CompletedUnlessOvertaken
  BY DEF CompletedInv
<1> QED BY <1>1, <1>2, <1>3, PTL DEF Spec

-----------------------------------------------------------------------------
(* The tables, the archives and the bounds of an opened window. *)

(* Processes and their runs. *)

\* The live run is the one of the active process.
LEMMA OnlyAlive ==
  ASSUME TypeOK, IInv, TablesInv, NEW p \in Procs, pc[p] # "idle"
  PROVE  Alive = {job[p].run} \ {NoRun}
<1>1. \A q \in Procs \ {p} : job[q].run = NoRun
  BY Alone DEF IInv, JobsInv, TablesInv, TablesJob, Running, Opened
<1> QED BY <1>1 DEF Alive

\* A process that moves on: the others are idle and have no run.
LEMMA MoveTables ==
  ASSUME TypeOK, IInv, TablesInv, NEW p \in Procs, pc[p] # "idle",
         NEW label, pc' = [pc EXCEPT ![p] = label],
         \A q \in Procs \ {p} : job'[q] = job[q],
         NoRun \notin archives'.files, TablesJob(p)'
  PROVE  \A q \in Procs : TablesJob(q)'
<1> SUFFICES ASSUME NEW q \in Procs \ {p}
             PROVE  TablesJob(q)'
  OBVIOUS
<1>1. pc'[q] = "idle" /\ job'[q].run = NoRun
  BY Alone DEF TypeOK, IInv, JobsInv, TablesInv, TablesJob, Running, Opened
<1> QED BY <1>1 DEF TablesJob, Running, Opened

LEMMA MoveAlive ==
  ASSUME TypeOK, IInv, TablesInv, NEW p \in Procs, pc[p] # "idle",
         \A q \in Procs \ {p} : job'[q] = job[q]
  PROVE  Alive' = {job'[p].run} \ {NoRun}
<1>1. \A q \in Procs \ {p} : job'[q].run = NoRun
  BY Alone DEF IInv, JobsInv, TablesInv, TablesJob, Running, Opened
<1> QED BY <1>1 DEF Alive

\* A process that ends leaves no live run behind.
LEMMA ExitTables ==
  ASSUME TypeOK, IInv, TablesInv, NEW p \in Procs, pc[p] # "idle", Exit(p),
         NoRun \notin archives'.files
  PROVE  Alive' = {} /\ \A q \in Procs : TablesJob(q)'
<1>1. \A q \in Procs : pc'[q] = "idle" /\ job'[q].run = NoRun
  BY Alone DEF TypeOK, Exit, NoJob, IInv, JobsInv, TablesInv, TablesJob, Running, Opened
<1> QED BY <1>1 DEF Alive, TablesJob, Running, Opened

(* Rows. *)

Orphans == (archives.files \ archives.rows) \ Alive

\* Nothing is orphaned but by a crash or an end that is lost.
LEMMA OrphansKept ==
  ASSUME TypeOK, ArchiveRows, Orphans' \subseteq Orphans, UNCHANGED <<crashes, lost>>
  PROVE  Cardinality(Orphans') <= crashes' + lost'
<1>1. IsFiniteSet(Orphans)
  BY FS_Subset DEF ArchiveRows, Orphans
<1>2. Cardinality(Orphans') <= Cardinality(Orphans)
  BY <1>1, FS_Subset
<1>3. IsFiniteSet(Orphans') /\ Cardinality(Orphans) <= crashes + lost
  BY <1>1, FS_Subset DEF ArchiveRows, ArchivesAgree, Orphans
<1>4. Cardinality(Orphans) \in Nat /\ Cardinality(Orphans') \in Nat
  BY <1>1, <1>3, FS_CardinalityType
<1> QED BY <1>2, <1>3, <1>4 DEF TypeOK

LEMMA CursorFrame ==
  ASSUME CursorRows, UNCHANGED cursor,
         \A r \in RunIds : r \in OpenWindows("TRAFFIC")' <=> r \in OpenWindows("TRAFFIC")
  PROVE  CursorRows'
<1>1. OpenWindows("TRAFFIC")' = OpenWindows("TRAFFIC")
  BY DEF OpenWindows
<1> QED BY <1>1 DEF CursorRows, CursorAgrees

\* The archives stay, their windows are untouched and their runs known.
LEMMA ArchiveFrame ==
  ASSUME TypeOK, ArchiveRows, UNCHANGED <<archives, crashes, lost>>,
         \A r \in RunIds : runs[r].status # "NONE" => runs'[r].status # "NONE",
         \A r \in archives.rows : windows'[r] = windows[r],
         archives.files \cap Alive \subseteq Alive'
  PROVE  ArchiveRows'
<1>1. Orphans' \subseteq Orphans
  BY DEF Orphans
<1>2. Cardinality(Orphans') <= crashes' + lost'
  BY <1>1, OrphansKept
<1> QED BY <1>2 DEF ArchiveRows, ArchivesAgree, Orphans

\* Steps that touch neither the rows nor the collectors.
LEMMA TablesFrame ==
  ASSUME TypeOK, TablesInv, UNCHANGED <<cursor, windows, runs, archives, pc, job, crashes, lost>>
  PROVE  TablesInv'
<1>1. CursorRows'
  BY CursorFrame DEF TablesInv, OpenWindows
<1>2. ArchiveRows'
  BY ArchiveFrame DEF TablesInv, Alive
<1>3. \A p \in Procs : TablesJob(p)'
  BY DEF TablesInv, TablesJob, CursorRefuses, Archived
<1> QED BY <1>1, <1>2, <1>3 DEF TablesInv

(* One lemma per action. *)

LEMMA LaunchTables ==
  ASSUME TypeOK, IInv, TablesInv, Direct = {}, NEW p \in Procs, NEW kind \in Kinds,
         Launch(p, kind)
  PROVE  TablesInv'
<1>1. \A q \in Procs : pc[q] = "idle"
  BY DEF Launch, IInv, JobsInv, Serial
<1>2. \A q \in Procs : pc'[q] \in {"idle", "launched"} /\ job'[q].run = NoRun
  BY <1>1 DEF TypeOK, Launch, Goto, Job, TablesInv, TablesJob, Running, Opened
<1>3. \A q \in Procs : TablesJob(q)'
  BY <1>2 DEF Launch, TablesInv, ArchiveRows, TablesJob, Running, Opened
<1>4. Alive = {}
  BY <1>1 DEF Alive, TablesInv, TablesJob, Running, Opened
<1>5. CursorRows' /\ ArchiveRows'
  BY <1>4, CursorFrame, ArchiveFrame DEF Launch, TablesInv, OpenWindows
<1> QED BY <1>3, <1>5 DEF TablesInv

\* A fresh run has no archive.
LEMMA BeginRunTables ==
  ASSUME TypeOK, IInv, TablesInv, NEW p \in Procs, pc[p] = "launched",
         job[p].kind \in Kind, NEW s \in Days, NEW e \in Days, BeginRun(p, s, e),
         UNCHANGED <<cursor, windows, archives, crashes, lost>>
  PROVE  TablesInv'
<1>1. NewRun \in RunIds /\ runs[NewRun].status = "NONE"
  BY FreshRun DEF BeginRun
<1>2. windows[NewRun].status = "NONE" /\ NewRun \notin archives.files
  BY <1>1 DEF IInv, RowsInv, WindowsWellFormed, TablesInv, ArchiveRows
<1>3. /\ job'[p].kind = job[p].kind /\ job'[p].run = NewRun /\ pc'[p] = "planned"
      /\ pc' = [pc EXCEPT ![p] = "planned"]
      /\ \A q \in Procs \ {p} : job'[q] = job[q]
  BY DEF TypeOK, BeginRun, Job, Goto
<1>4. /\ runs'[NewRun].status = "RUNNING"
      /\ \A r \in RunIds \ {NewRun} : runs'[r] = runs[r]
  BY <1>1 DEF TypeOK, BeginRun
<1>5. CursorRows'
  BY <1>2, <1>4, CursorFrame DEF TablesInv, OpenWindows
<1>6. Alive = {}
  BY OnlyAlive DEF TablesInv, TablesJob, Running, Opened
<1>7. ArchiveRows'
  BY <1>4, <1>6, ArchiveFrame DEF TablesInv
<1>8. TablesJob(p)'
  BY <1>2, <1>3, <1>4 DEF TablesJob, Running, Opened
<1> QED BY <1>3, <1>5, <1>7, <1>8, MoveTables DEF TablesInv, ArchiveRows

\* A command that gives up or is refused has prepared no archive.
LEMMA LeaveTables ==
  ASSUME TypeOK, IInv, TablesInv, NEW p \in Procs, pc[p] # "idle", Exit(p),
         job[p].run \notin archives.files,
         \A r \in RunIds : /\ runs'[r].kind = runs[r].kind
                           /\ runs[r].status # "NONE" => runs'[r].status # "NONE",
         UNCHANGED <<cursor, windows, archives, crashes, lost>>
  PROVE  TablesInv'
<1>1. CursorRows'
  BY CursorFrame DEF TablesInv, OpenWindows
<1>2. archives.files \cap Alive = {}
  BY OnlyAlive
<1>3. ArchiveRows'
  BY <1>2, ArchiveFrame DEF TablesInv
<1>4. \A q \in Procs : TablesJob(q)'
  BY <1>3, ExitTables DEF ArchiveRows
<1> QED BY <1>1, <1>3, <1>4 DEF TablesInv

LEMMA PlanWeeklyTables ==
  ASSUME TypeOK, IInv, TablesInv, NEW p \in Procs, NEW initial \in InitialStarts,
         PlanWeekly(p, initial)
  PROVE  TablesInv'
<1>1. pc[p] = "launched" /\ job[p].kind = "TRAFFIC"
  BY DEF PlanWeekly
<1>2. CASE GiveUp(p)
  <2>1. job[p].run \notin archives.files
    BY <1>1 DEF TablesInv, TablesJob
  <2> QED BY <1>1, <1>2, <2>1, LeaveTables DEF PlanWeekly, GiveUp
<1>3. CASE /\ WeeklyStart(initial) >= 0
           /\ BeginRun(p, WeeklyStart(initial), WeeklyStart(initial) + WindowDays)
  <2>1. WeeklyStart(initial) \in Nat
    BY <1>3 DEF TypeOK, WeeklyStart, CursorStart, CursorRow, Days, None
  <2>2. WeeklyStart(initial) + WindowDays \in Days /\ WeeklyStart(initial) \in Days
    BY <2>1 DEF Days
  <2> QED BY <1>1, <1>3, <2>2, BeginRunTables DEF PlanWeekly, Kind
<1> QED BY <1>2, <1>3 DEF PlanWeekly

LEMMA PlanBackfillTables ==
  ASSUME TypeOK, IInv, TablesInv, NEW p \in Procs, PlanBackfill(p)
  PROVE  TablesInv'
<1>1. pc[p] = "launched" /\ job[p].kind = "BACKFILL"
  BY DEF PlanBackfill
<1>2. CASE GiveUp(p)
  <2>1. job[p].run \notin archives.files
    BY <1>1 DEF TablesInv, TablesJob
  <2> QED BY <1>1, <1>2, <2>1, LeaveTables DEF PlanBackfill, GiveUp
<1>3. CASE BeginRun(p, backfill.next,
                    MinDay(backfill.next + WindowDays, backfill.target))
  <2>1. /\ backfill.next \in Days
        /\ MinDay(backfill.next + WindowDays, backfill.target) \in Days
    BY DEF TypeOK, BackfillRow, Days, None, MinDay
  <2> QED BY <1>1, <1>3, <2>1, BeginRunTables DEF PlanBackfill, Kind
<1> QED BY <1>2, <1>3 DEF PlanBackfill

\* A collector that moves on with its run and leaves the rows as they are.
LEMMA StepTables ==
  ASSUME TypeOK, IInv, TablesInv, NEW p \in Procs, pc[p] # "idle",
         NEW label, pc' = [pc EXCEPT ![p] = label],
         job'[p].run = job[p].run, \A q \in Procs \ {p} : job'[q] = job[q],
         UNCHANGED <<cursor, windows, runs, archives, crashes, lost>>, TablesJob(p)'
  PROVE  TablesInv'
<1>1. CursorRows'
  BY CursorFrame DEF TablesInv, OpenWindows
<1>2. Alive' = Alive
  BY OnlyAlive, MoveAlive
<1>3. ArchiveRows'
  BY <1>2, ArchiveFrame DEF TablesInv
<1> QED BY <1>1, <1>3, MoveTables DEF TablesInv, ArchiveRows

LEMMA CheckCursorTables ==
  ASSUME TypeOK, IInv, TablesInv, NEW p \in Procs, CheckCursor(p)
  PROVE  TablesInv'
<1> DEFINE label == IF CursorRefuses(job[p].start, job[p].end) THEN "refused" ELSE "opening"
<1>1. /\ pc[p] = "planned" /\ pc' = [pc EXCEPT ![p] = label] /\ pc'[p] = label
      /\ UNCHANGED <<job, cursor, windows, runs, archives, crashes, lost>>
  BY DEF TypeOK, CheckCursor, Goto
<1>2. job[p].run \notin archives.files /\ runs[job[p].run].status = "RUNNING"
  BY <1>1 DEF TablesInv, TablesJob, Running
<1>3. CursorRefuses(job[p].start, job[p].end)' <=> CursorRefuses(job[p].start, job[p].end)
  BY <1>1 DEF CursorRefuses
<1>4. TablesJob(p)'
  BY <1>1, <1>2, <1>3 DEF TablesJob, Running, Opened
<1> QED BY <1>1, <1>4, StepTables

LEMMA CheckBackfillTables ==
  ASSUME TypeOK, IInv, TablesInv, NEW p \in Procs, CheckBackfill(p)
  PROVE  TablesInv'
<1>1. PICK label \in {"refused", "opening"} : pc' = [pc EXCEPT ![p] = label]
  BY DEF CheckBackfill, Goto
<1>2. /\ pc[p] = "planned" /\ pc'[p] = label /\ job[p].kind = "BACKFILL"
      /\ UNCHANGED <<cursor, windows, runs, archives, crashes, lost>>
  BY <1>1 DEF TypeOK, CheckBackfill
<1>3. /\ job'[p].run = job[p].run /\ job'[p].kind = job[p].kind
      /\ \A q \in Procs \ {p} : job'[q] = job[q]
  BY DEF TypeOK, CheckBackfill, Job
<1>4. job[p].run \notin archives.files /\ runs[job[p].run].status = "RUNNING"
  BY <1>2 DEF TablesInv, TablesJob, Running
<1>5. TablesJob(p)'
  BY <1>2, <1>3, <1>4 DEF TablesJob, Running, Opened
<1> QED BY <1>1, <1>2, <1>3, <1>5, StepTables

\* Opening a window: the rows of a run without a window are written, and the live
\* run stays the same.
LEMMA OpenArchives ==
  ASSUME TypeOK, IInv, TablesInv, NEW p \in Procs, pc[p] = "opening",
         NEW row, windows' = [windows EXCEPT ![job[p].run] = row],
         UNCHANGED <<runs, archives, job, crashes, lost>>
  PROVE  ArchiveRows'
<1>1. job[p].run \notin archives.files
  BY DEF TablesInv, TablesJob
<1>2. \A r \in archives.rows : windows'[r] = windows[r]
  BY <1>1 DEF TypeOK, TablesInv, ArchiveRows, ArchivesAgree
<1> QED BY <1>2, ArchiveFrame DEF TablesInv, Alive

LEMMA OpenWeeklyTables ==
  ASSUME TypeOK, IInv, TablesInv, NEW p \in Procs, OpenWeekly(p)
  PROVE  TablesInv'
<1> DEFINE r == job[p].run
           row == [start |-> job[p].start, end |-> job[p].end, status |-> "RUNNING"]
<1>1. /\ pc[p] = "opening" /\ job[p].kind = "TRAFFIC" /\ r \in RunIds
      /\ runs[r].kind = "TRAFFIC"
  BY DEF OpenWeekly, IInv, JobsInv, JobWellFormed, Opened, Running
<1>2. /\ pc' = [pc EXCEPT ![p] = "collecting"] /\ pc'[p] = "collecting"
      /\ windows' = [windows EXCEPT ![r] = row] /\ windows'[r].status = "RUNNING"
      /\ \A w \in RunIds \ {r} : windows'[w] = windows[w]
      /\ UNCHANGED <<runs, archives, job, crashes, lost>>
  BY <1>1 DEF TypeOK, OpenWeekly, Goto
<1>3. /\ cursor'.status = "RUNNING" /\ cursor'.run = r
      /\ cursor'.start = job[p].start /\ cursor'.end = job[p].end
  BY DEF TypeOK, OpenWeekly, CursorRow
<1>4. cursor.status # "RUNNING" /\ r \notin archives.files
  BY <1>1 DEF TablesInv, TablesJob, CursorRefuses
<1>5. OpenWindows("TRAFFIC") = {}
  BY <1>4 DEF TablesInv, CursorRows, CursorAgrees
<1>6. OpenWindows("TRAFFIC")' = {r}
  BY <1>1, <1>2, <1>5 DEF OpenWindows
<1>7. CursorRows'
  BY <1>3, <1>6 DEF CursorRows, CursorAgrees
<1>8. ArchiveRows'
  BY <1>1, <1>2, OpenArchives
<1>9. TablesJob(p)'
  <2>1. runs[r].status = "RUNNING"
    BY <1>1 DEF TablesInv, TablesJob, Running
  <2> QED BY <1>1, <1>2, <1>3, <1>4, <2>1 DEF TablesJob, Running, Opened
<1> QED BY <1>1, <1>2, <1>7, <1>8, <1>9, MoveTables DEF TablesInv, ArchiveRows

LEMMA OpenBackfillTables ==
  ASSUME TypeOK, IInv, TablesInv, NEW p \in Procs, OpenBackfill(p)
  PROVE  TablesInv'
<1> DEFINE r == job[p].run
           row == [start |-> job[p].leaseStart, end |-> job[p].leaseEnd, status |-> "RUNNING"]
<1>1. /\ pc[p] = "opening" /\ job[p].kind = "BACKFILL" /\ r \in RunIds
      /\ runs[r].kind = "BACKFILL" /\ runs[r].status = "RUNNING" /\ r \notin archives.files
  BY DEF OpenBackfill, IInv, JobsInv, JobWellFormed, TablesInv, TablesJob, Opened, Running
<1>2. PICK label \in {"collecting", "finishing"} : pc' = [pc EXCEPT ![p] = label]
  BY DEF OpenBackfill, Goto
<1>3. /\ pc'[p] = label /\ windows' = [windows EXCEPT ![r] = row]
      /\ \A w \in RunIds \ {r} : windows'[w] = windows[w]
      /\ UNCHANGED <<cursor, runs, archives, job, crashes, lost>>
  BY <1>1, <1>2 DEF TypeOK, OpenBackfill
<1>4. CursorRows'
  BY <1>1, <1>3, CursorFrame DEF TablesInv, OpenWindows
<1>5. ArchiveRows'
  BY <1>1, <1>3, OpenArchives
<1>6. TablesJob(p)'
  BY <1>1, <1>3 DEF TablesJob, Running, Opened
<1> QED BY <1>1, <1>2, <1>3, <1>4, <1>5, <1>6, MoveTables DEF TablesInv, ArchiveRows

LEMMA RefusedTables ==
  ASSUME TypeOK, IInv, TablesInv, NEW p \in Procs, Refused(p)
  PROVE  TablesInv'
<1>1. pc[p] = "refused" /\ job[p].run \in RunIds /\ job[p].run \notin archives.files
  BY DEF Refused, IInv, JobsInv, JobWellFormed, TablesInv, TablesJob, Opened, Running
<1>2. \A r \in RunIds : /\ runs'[r].kind = runs[r].kind
                        /\ runs[r].status # "NONE" => runs'[r].status # "NONE"
  BY <1>1 DEF TypeOK, Refused, RunRow
<1> QED BY <1>1, <1>2, LeaveTables DEF Refused

LEMMA CollectTables ==
  ASSUME TypeOK, IInv, TablesInv, NEW p \in Procs, NEW outcome \in Outcomes,
         Collect(p, outcome)
  PROVE  TablesInv'
<1> DEFINE label == IF outcome = "SUCCESS" /\ Archived(p) THEN "archiving" ELSE "finishing"
<1>1. /\ pc[p] = "collecting" /\ pc' = [pc EXCEPT ![p] = label] /\ pc'[p] = label
      /\ UNCHANGED <<cursor, windows, runs, archives, crashes, lost>>
  BY DEF TypeOK, Collect, Goto
<1>2. /\ job'[p].kind = job[p].kind /\ job'[p].run = job[p].run
      /\ job'[p].start = job[p].start /\ job'[p].end = job[p].end
      /\ job'[p].outcome = outcome
      /\ \A q \in Procs \ {p} : job'[q] = job[q]
  BY DEF TypeOK, Collect, Job
<1>3. job[p].run \notin archives.files /\ runs[job[p].run].status = "RUNNING"
  BY <1>1 DEF TablesInv, TablesJob, Running, Opened
<1>4. TablesJob(p)'
  BY <1>1, <1>2, <1>3 DEF TablesInv, TablesJob, Archived, Running, Opened
<1> QED BY <1>1, <1>2, <1>4, StepTables

\* The file of the live run appears, or the run fails.
LEMMA PrepareArchiveTables ==
  ASSUME TypeOK, IInv, TablesInv, NEW p \in Procs, PrepareArchive(p)
  PROVE  TablesInv'
<1> DEFINE r == job[p].run
<1>1. /\ pc[p] = "archiving" /\ pc' = [pc EXCEPT ![p] = "finishing"] /\ pc'[p] = "finishing"
      /\ UNCHANGED <<cursor, windows, runs, crashes, lost>>
  BY DEF TypeOK, PrepareArchive, Goto
<1>2. /\ job'[p].kind = job[p].kind /\ job'[p].run = r
      /\ job'[p].start = job[p].start /\ job'[p].end = job[p].end
      /\ \A q \in Procs \ {p} : job'[q] = job[q]
  BY DEF TypeOK, PrepareArchive, Job
<1>3. /\ r \notin archives.files /\ runs[r].status = "RUNNING" /\ r \in RunIds
      /\ job[p].outcome = "SUCCESS" /\ Archived(p)
  BY <1>1 DEF IInv, JobsInv, JobWellFormed, TablesInv, TablesJob, Running, Opened
<1>4. CASE UNCHANGED archives
  <2>1. TablesJob(p)'
    BY <1>1, <1>2, <1>3, <1>4 DEF TablesInv, TablesJob, Archived, Running, Opened
  <2> QED BY <1>1, <1>2, <1>4, <2>1, StepTables
<1>5. CASE archives' = [archives EXCEPT !.files = @ \cup {r}] /\ UNCHANGED job
  <2>1. archives'.files = archives.files \cup {r} /\ archives'.rows = archives.rows
    BY <1>5 DEF TypeOK
  <2>2. CursorRows'
    BY <1>1, CursorFrame DEF TablesInv, OpenWindows
  <2>3. Alive = {r} /\ Alive' = {r}
    BY <1>1, <1>3, <1>5, OnlyAlive DEF Alive
  <2>4. Cardinality(Orphans') <= crashes' + lost'
    BY <1>1, <2>1, <2>3, OrphansKept DEF TablesInv, Orphans
  <2>5. IsFiniteSet(archives'.files)
    BY <2>1, FS_AddElement DEF TablesInv, ArchiveRows
  <2>6. ArchiveRows'
    BY <1>1, <1>3, <2>1, <2>4, <2>5 DEF TablesInv, ArchiveRows, ArchivesAgree, Orphans
  <2>7. TablesJob(p)'
    BY <1>1, <1>3, <1>5, <2>1 DEF TablesInv, TablesJob, Archived, Running, Opened
  <2> QED BY <1>1, <1>2, <2>2, <2>6, <2>7, MoveTables DEF TablesInv, ArchiveRows
<1> QED BY <1>4, <1>5 DEF PrepareArchive

\* The rows of an archive are those of a finished window, so that closing a window
\* disturbs no other; the file of the closed run gets its row.
LEMMA CloseArchives ==
  ASSUME TypeOK, IInv, TablesInv, NEW p \in Procs, pc[p] \in Opened, job[p].run \in RunIds,
         windows[job[p].run].status = "RUNNING", CloseRows(p), Exit(p),
         job[p].kind = "TRAFFIC" => windows[job[p].run].end = job[p].end,
         UNCHANGED <<crashes, lost>>
  PROVE  ArchiveRows'
<1> DEFINE r == job[p].run
<1>1. /\ archives'.files = archives.files
      /\ archives'.rows = IF r \in archives.files THEN archives.rows \cup {r}
                          ELSE archives.rows
  BY DEF TypeOK, CloseRows
<1>2. \A w \in RunIds \ {r} : windows'[w] = windows[w] /\ runs'[w] = runs[w]
  BY DEF TypeOK, CloseRows
<1>3. /\ windows'[r].end = windows[r].end
      /\ job[p].outcome = "SUCCESS" => windows'[r].status = "SUCCESS"
      /\ runs'[r].status # "NONE"
  BY DEF TypeOK, CloseRows, WindowRow, RunRow, Job, Outcomes
<1>4. r \notin archives.rows
  BY DEF TablesInv, ArchiveRows, ArchivesAgree
<1>5. r \in archives.files => job[p].outcome = "SUCCESS" /\ windows[r].end \in Sundays
  BY DEF TablesInv, TablesJob, Archived
<1>6. Alive = {r}
  BY OnlyAlive DEF Opened
<1>7. Orphans' \subseteq Orphans
  BY <1>1, <1>6 DEF Orphans
<1>8. Cardinality(Orphans') <= crashes' + lost'
  BY <1>7, OrphansKept DEF TablesInv
<1>9. archives'.rows \subseteq archives'.files
  BY <1>1 DEF TablesInv, ArchiveRows, ArchivesAgree
<1>10. \A w \in archives'.rows : windows'[w].status = "SUCCESS" /\ windows'[w].end \in Sundays
  BY <1>1, <1>2, <1>3, <1>4, <1>5 DEF TablesInv, ArchiveRows, ArchivesAgree
<1>11. \A w \in archives'.files : w \in RunIds /\ runs'[w].status # "NONE"
  BY <1>1, <1>2, <1>3 DEF TablesInv, ArchiveRows
<1>12. IsFiniteSet(archives'.files)
  BY <1>1 DEF TablesInv, ArchiveRows
<1> QED BY <1>8, <1>9, <1>10, <1>11, <1>12 DEF ArchiveRows, ArchivesAgree, Orphans

LEMMA FinishWeeklyTables ==
  ASSUME TypeOK, IInv, TablesInv, NEW p \in Procs, FinishWeekly(p)
  PROVE  TablesInv'
<1> DEFINE r == job[p].run
<1>1. /\ pc[p] = "finishing" /\ job[p].kind = "TRAFFIC" /\ r \in RunIds
      /\ runs[r].kind = "TRAFFIC" /\ windows[r].end = job[p].end
      /\ cursor.status = "RUNNING" /\ cursor.run = r /\ windows[r].status = "RUNNING"
      /\ cursor.start = job[p].start /\ cursor.end = job[p].end
      /\ runs[r].status = "RUNNING"
  BY DEF FinishWeekly, IInv, JobsInv, JobWellFormed, WeeklyJob, TablesInv, TablesJob,
     Opened, Running
<1>2. CloseRows(p) /\ cursor' = CursorAfter(p) /\ Exit(p) /\ UNCHANGED <<crashes, lost>>
  BY <1>1 DEF FinishWeekly
<1>3. /\ cursor'.status \in {"SUCCESS", "FAILED"}
      /\ cursor'.start # None => cursor'.status = "FAILED"
  BY <1>2 DEF TypeOK, CursorAfter, CursorRow
<1>4. OpenWindows("TRAFFIC") = {r}
  BY <1>1 DEF TablesInv, CursorRows, CursorAgrees
<1>5. /\ \A w \in RunIds \ {r} : windows'[w] = windows[w] /\ runs'[w] = runs[w]
      /\ windows'[r].status # "RUNNING"
  BY <1>1, <1>2 DEF TypeOK, CloseRows, WindowRow
<1>6. OpenWindows("TRAFFIC")' = {}
  BY <1>4, <1>5 DEF OpenWindows
<1>7. CursorRows'
  BY <1>3, <1>6 DEF CursorRows, CursorAgrees
<1>8. ArchiveRows'
  BY <1>1, <1>2, CloseArchives DEF Opened
<1> QED BY <1>1, <1>2, <1>7, <1>8, ExitTables DEF TablesInv, ArchiveRows

LEMMA CheckFinishBackfillTables ==
  ASSUME TypeOK, IInv, TablesInv, NEW p \in Procs, CheckFinishBackfill(p)
  PROVE  TablesInv'
<1>1. /\ pc[p] = "finishing" /\ job[p].kind = "BACKFILL"
      /\ UNCHANGED <<cursor, windows, runs, archives, crashes, lost>>
  BY DEF CheckFinishBackfill
<1>2. job[p].run \notin archives.files /\ runs[job[p].run].status = "RUNNING"
  BY <1>1 DEF TablesInv, TablesJob, Archived, Running, Opened
<1>3. CASE Exit(p)
  BY <1>1, <1>2, <1>3, LeaveTables
<1>4. CASE /\ Goto(p, "closing")
           /\ job' = [job EXCEPT ![p].reached = job[p].end >= backfill.target]
  <2>1. /\ job'[p].kind = job[p].kind /\ job'[p].run = job[p].run
        /\ \A q \in Procs \ {p} : job'[q] = job[q]
    BY <1>4 DEF TypeOK, Job
  <2>2. pc' = [pc EXCEPT ![p] = "closing"] /\ pc'[p] = "closing"
    BY <1>4 DEF TypeOK, Goto
  <2>3. TablesJob(p)'
    BY <1>1, <1>2, <2>1, <2>2 DEF TablesJob, Running, Opened
  <2> QED BY <1>1, <2>1, <2>2, <2>3, StepTables
<1> QED BY <1>3, <1>4 DEF CheckFinishBackfill

LEMMA FinishBackfillTables ==
  ASSUME TypeOK, IInv, TablesInv, NEW p \in Procs, FinishBackfill(p)
  PROVE  TablesInv'
<1> DEFINE r == job[p].run
<1>1. /\ pc[p] = "closing" /\ job[p].kind = "BACKFILL" /\ r \in RunIds
      /\ runs[r].kind = "BACKFILL" /\ r \notin archives.files
      /\ Exit(p) /\ UNCHANGED <<cursor, crashes, lost>>
  BY DEF FinishBackfill, IInv, JobsInv, JobWellFormed, TablesInv, TablesJob, Archived,
     Opened, Running
<1>2. CASE windows[r].status = "RUNNING" /\ CloseRows(p)
  <2>1. \A w \in RunIds : runs'[w].kind = runs[w].kind
    BY <1>2 DEF TypeOK, CloseRows, RunRow
  <2>2. \A w \in RunIds \ {r} : windows'[w] = windows[w]
    BY <1>2 DEF TypeOK, CloseRows
  <2>3. CursorRows'
    BY <1>1, <2>1, <2>2, CursorFrame DEF TablesInv, OpenWindows
  <2>4. ArchiveRows'
    BY <1>1, <1>2, CloseArchives DEF Opened
  <2> QED BY <1>1, <2>3, <2>4, ExitTables DEF TablesInv, ArchiveRows
<1>3. CASE RollBack(p)
  <2>1. archives' = archives
    BY <1>1, <1>3 DEF TypeOK, RollBack
  <2> QED BY <1>1, <1>3, <2>1, LeaveTables DEF RollBack
<1> QED BY <1>2, <1>3 DEF FinishBackfill

\* A collector that ends without recording it leaves at most one more orphan, the
\* archive it had prepared.
LEMMA UnrecordedTables ==
  ASSUME TypeOK, IInv, TablesInv, NEW p \in Procs, pc[p] # "idle", Exit(p),
         crashes' + lost' = crashes + lost + 1, archives'.files \subseteq archives.files,
         archives.files \ {job[p].run} \subseteq archives'.files,
         archives'.rows = archives.rows, UNCHANGED <<cursor, windows, runs>>
  PROVE  TablesInv'
<1>1. CursorRows'
  BY CursorFrame DEF TablesInv, OpenWindows
<1>2. NoRun \notin archives'.files
  BY DEF TablesInv, ArchiveRows
<1>3. Alive' = {} /\ \A q \in Procs : TablesJob(q)'
  BY <1>2, ExitTables
<1>4. Orphans' \subseteq Orphans \cup {job[p].run}
  BY OnlyAlive DEF Orphans
<1>5. IsFiniteSet(Orphans) /\ Cardinality(Orphans) <= crashes + lost
  BY FS_Subset DEF TablesInv, ArchiveRows, ArchivesAgree, Orphans
<1>6. /\ IsFiniteSet(Orphans \cup {job[p].run})
      /\ Cardinality(Orphans \cup {job[p].run}) <= Cardinality(Orphans) + 1
  <2>1. Cardinality(Orphans) \in Nat
    BY <1>5, FS_CardinalityType
  <2>2. /\ IsFiniteSet(Orphans \cup {job[p].run})
        /\ \/ Cardinality(Orphans \cup {job[p].run}) = Cardinality(Orphans)
           \/ Cardinality(Orphans \cup {job[p].run}) = Cardinality(Orphans) + 1
    BY <1>5, FS_AddElement, Zenon
  <2> QED BY <2>1, <2>2
<1>7. /\ IsFiniteSet(Orphans')
      /\ Cardinality(Orphans') <= Cardinality(Orphans \cup {job[p].run})
  BY <1>4, <1>6, FS_Subset
<1>8. Cardinality(Orphans') <= crashes' + lost'
  <2>1. /\ Cardinality(Orphans) \in Nat /\ Cardinality(Orphans') \in Nat
        /\ Cardinality(Orphans \cup {job[p].run}) \in Nat
    BY <1>5, <1>6, <1>7, FS_CardinalityType
  <2> QED BY <1>5, <1>6, <1>7, <2>1 DEF TypeOK
<1>9. archives'.rows \subseteq archives'.files
  <2>1. job[p].run \in archives.files => windows[job[p].run].status = "RUNNING"
    BY DEF TablesInv, TablesJob, Archived, Opened
  <2> QED BY <2>1 DEF TablesInv, ArchiveRows, ArchivesAgree
<1>10. IsFiniteSet(archives'.files)
  BY FS_Subset DEF TablesInv, ArchiveRows
<1>11. ArchiveRows'
  BY <1>8, <1>9, <1>10 DEF TablesInv, ArchiveRows, ArchivesAgree, Orphans
<1> QED BY <1>1, <1>3, <1>11 DEF TablesInv

LEMMA CrashTables ==
  ASSUME TypeOK, IInv, TablesInv, NEW p \in Procs, Crash(p) \/ EndIsLost(p)
  PROVE  TablesInv'
<1>1. /\ pc[p] # "idle" /\ Exit(p) /\ UNCHANGED <<cursor, windows, runs>>
      /\ \/ archives' = archives
         \/ archives' = [archives EXCEPT !.files = @ \ {job[p].run}]
  BY DEF Crash, EndIsLost
<1>2. crashes' + lost' = crashes + lost + 1
  BY DEF TypeOK, Crash, EndIsLost
<1>3. /\ archives'.files \subseteq archives.files
      /\ archives.files \ {job[p].run} \subseteq archives'.files
      /\ archives'.rows = archives.rows
  BY <1>1 DEF TypeOK
<1> QED BY <1>1, <1>2, <1>3, UnrecordedTables

\* A command that cannot open its window is refused.
LEMMA OpeningFailsTables ==
  ASSUME TypeOK, IInv, TablesInv, NEW p \in Procs, OpeningFails(p)
  PROVE  TablesInv'
<1>1. /\ pc[p] \in {"planned", "opening"} /\ pc' = [pc EXCEPT ![p] = "refused"]
      /\ UNCHANGED <<job, cursor, windows, runs, archives, crashes, lost>>
  BY DEF OpeningFails, Goto
<1>2. TablesJob(p)'
  BY <1>1 DEF TypeOK, TablesInv, TablesJob, Running, Opened
<1> QED BY <1>1, <1>2, StepTables

(* The invariant. *)

LEMMA InitTables == Init => TablesInv
<1> SUFFICES ASSUME Init PROVE TablesInv
  OBVIOUS
<1>1. CursorRows
  BY DEF Init, CursorRows, CursorAgrees, OpenWindows, NoCursor, NoRunRow, NoWindow
<1>2. ArchiveRows
  <2>1. Orphans = {} /\ archives.files = {} /\ archives.rows = {}
    BY DEF Init, Orphans
  <2> QED BY <2>1, FS_EmptySet DEF Init, ArchiveRows, ArchivesAgree, Orphans
<1>3. \A p \in Procs : TablesJob(p)
  BY DEF Init, TablesJob, NoJob, Running, Opened
<1> QED BY <1>1, <1>2, <1>3 DEF TablesInv

LEMMA StepTablesInv ==
  ASSUME TypeOK, IInv, TablesInv, Direct = {}, [Next]_vars
  PROVE  TablesInv'
<1>1. CASE NextDay \/ Operator \/ UNCHANGED vars
  BY <1>1, TablesFrame DEF NextDay, Operator, InitializeBackfill, CheckExtend, Extend, vars
<1>2. ASSUME NEW p \in Procs, NEW kind \in Kinds, Launch(p, kind)
      PROVE  TablesInv'
  BY <1>2, LaunchTables
<1>3. ASSUME NEW p \in Procs, Step(p)
      PROVE  TablesInv'
  BY <1>3, PlanWeeklyTables, PlanBackfillTables, CheckCursorTables, OpenWeeklyTables,
     CheckBackfillTables, OpenBackfillTables, RefusedTables, CollectTables,
     PrepareArchiveTables, FinishWeeklyTables, CheckFinishBackfillTables,
     FinishBackfillTables, OpeningFailsTables, CrashTables DEF Step
<1>4. ASSUME NEW p \in Procs, Crash(p)
      PROVE  TablesInv'
  BY <1>4, CrashTables
<1> QED BY <1>1, <1>2, <1>3, <1>4 DEF Next

\* The cursor, the window rows, the archive rows and the files of the archive
\* directory tell one story at every instant, whatever fails or dies, when every
\* collector takes the shared lock.
THEOREM TablesAlwaysAgree ==
  ASSUME Direct = {}
  PROVE  Spec => []TablesAgree
<1>1. Init => TypeOK /\ IInv /\ TablesInv
  BY InitTypes, InitIInv, InitTables
<1>2. TypeOK /\ IInv /\ TablesInv /\ [Next]_vars => (TypeOK /\ IInv /\ TablesInv)'
  BY StepTypes, StepIInv, StepTablesInv
<1>3. TablesInv => TablesAgree
  BY DEF TablesInv, CursorRows, ArchiveRows, TablesAgree
<1> QED BY <1>1, <1>2, <1>3, PTL DEF Spec

\* An opened weekly window keeps its bounds until a run of exactly that window
\* succeeds (begin_traffic_window, finish_traffic_window).
THEOREM BoundsRetained ==
  ASSUME Direct = {}
  PROVE  Spec => ReplayUnchanged
<1> DEFINE Kept == cursor.start # None =>
                     \/ cursor'.start = cursor.start /\ cursor'.end = cursor.end
                     \/ cursor'.last = cursor.end /\ cursor'.start = None
<1>1. Init => TypeOK /\ IInv /\ TablesInv
  BY InitTypes, InitIInv, InitTables
<1>2. TypeOK /\ IInv /\ TablesInv /\ [Next]_vars => (TypeOK /\ IInv /\ TablesInv)'
  BY StepTypes, StepIInv, StepTablesInv
<1>3. TypeOK /\ IInv /\ TablesInv /\ [Next]_vars => [Kept]_cursor
  <2> SUFFICES ASSUME TypeOK, IInv, TablesInv, [Next]_vars, cursor' # cursor
               PROVE  Kept
    OBVIOUS
  <2>1. PICK p \in Procs : OpenWeekly(p) \/ FinishWeekly(p)
    BY DEF Next, Step, Operator, NextDay, Launch, PlanWeekly, PlanBackfill, CheckCursor,
       CheckBackfill, OpenBackfill, OpeningFails, Refused, Collect, PrepareArchive,
       CheckFinishBackfill, FinishBackfill, EndIsLost, InitializeBackfill, CheckExtend, Extend, Crash, vars
  <2>2. CASE OpenWeekly(p)
    <3>1. ~CursorRefuses(job[p].start, job[p].end)
      BY <2>2 DEF OpenWeekly, TablesInv, TablesJob
    <3>2. cursor.start # None => cursor.start = job[p].start /\ cursor.end = job[p].end
      BY <3>1 DEF CursorRefuses, TablesInv, CursorRows
    <3> QED BY <2>2, <3>2 DEF TypeOK, OpenWeekly, CursorRow
  <2>3. CASE FinishWeekly(p)
    <3>1. cursor.start = job[p].start /\ cursor.end = job[p].end
      BY <2>3 DEF FinishWeekly, TablesInv, TablesJob, Opened
    <3>2. cursor' = CursorAfter(p)
      BY <2>3 DEF FinishWeekly
    <3> QED BY <3>1, <3>2 DEF TypeOK, CursorAfter, CursorRow
  <2> QED BY <2>1, <2>2, <2>3
<1> QED BY <1>1, <1>2, <1>3, PTL DEF Spec, ReplayUnchanged

-----------------------------------------------------------------------------
(* The refinement: every step of TrafficWindows is a step of the ledger or leaves it *)
(* unchanged. Only FinishWeekly and FinishBackfill record a window, and only the     *)
(* operator's initialisation opens the backfill's ledger.                            *)

\* The collected windows are as they were.
Quiet ==
  \A kind \in Kind : /\ Successes(kind)' = Successes(kind)
                     /\ \A w \in Successes(kind) : windows'[w] = windows[w]

LEMMA QuietIntervals ==
  ASSUME Quiet, NEW kind \in Kind
  PROVE  Intervals(kind)' = Intervals(kind)
  BY DEF Quiet, Intervals

LEMMA QuietRows ==
  ASSUME UNCHANGED <<windows, runs>>
  PROVE  Quiet
  BY DEF Quiet, Successes

LEMMA QuietRun ==
  ASSUME TypeOK, NEW r \in RunIds, NEW row \in RunRow,
         row.kind = runs[r].kind \/ windows[r].status = "NONE",
         runs' = [runs EXCEPT ![r] = row], UNCHANGED windows
  PROVE  Quiet
  BY DEF TypeOK, Quiet, Successes

LEMMA QuietBeginRun ==
  ASSUME TypeOK, IInv, NEW p \in Procs, job[p].kind \in Kind, NEW s, NEW e,
         BeginRun(p, s, e), UNCHANGED windows
  PROVE  Quiet
<1>1. NewRun \in RunIds /\ windows[NewRun].status = "NONE"
  BY FreshRun DEF BeginRun, IInv, RowsInv, WindowsWellFormed
<1>2. [kind |-> job[p].kind, status |-> "RUNNING"] \in RunRow
  BY DEF RunRow
<1> QED BY <1>1, <1>2, QuietRun DEF BeginRun

LEMMA QuietOpen ==
  ASSUME TypeOK, IInv, NEW p \in Procs, OpenWeekly(p) \/ OpenBackfill(p)
  PROVE  Quiet
<1>1. pc[p] = "opening" /\ job[p].run \in RunIds /\ windows[job[p].run].status = "NONE"
  BY DEF OpenWeekly, OpenBackfill, IInv, JobsInv, JobWellFormed, Opened, Running
<1>2. \A w \in RunIds \ {job[p].run} : windows'[w] = windows[w]
  BY DEF TypeOK, OpenWeekly, OpenBackfill
<1>3. windows'[job[p].run].status = "RUNNING" /\ UNCHANGED runs
  BY <1>1 DEF TypeOK, OpenWeekly, OpenBackfill
<1> QED BY <1>1, <1>2, <1>3 DEF Quiet, Successes

LEMMA QuietRefused ==
  ASSUME TypeOK, IInv, NEW p \in Procs, Refused(p)
  PROVE  Quiet
<1> DEFINE r == job[p].run
           row == [runs[r] EXCEPT !.status = "ERROR"]
<1>1. r \in RunIds
  BY DEF Refused, IInv, JobsInv, JobWellFormed, Opened, Running
<1>2. row \in RunRow /\ row.kind = runs[r].kind
  BY <1>1 DEF TypeOK, RunRow, Outcomes
<1>3. runs' = [runs EXCEPT ![r] = row]
  BY <1>1 DEF TypeOK, Refused
<1> QED BY <1>1, <1>2, <1>3, QuietRun DEF Refused

\* Every step of a collector but the two closing ones is quiet.
LEMMA QuietStep ==
  ASSUME TypeOK, IInv, NEW p \in Procs, Step(p), ~FinishWeekly(p), ~FinishBackfill(p)
  PROVE  Quiet
<1>1. ASSUME NEW initial \in InitialStarts, PlanWeekly(p, initial)
      PROVE  Quiet
  <2>1. job[p].kind \in Kind /\ UNCHANGED windows
    BY <1>1 DEF PlanWeekly, Kind
  <2> QED BY <1>1, <2>1, QuietBeginRun, QuietRows DEF PlanWeekly, GiveUp
<1>2. CASE PlanBackfill(p)
  <2>1. job[p].kind \in Kind /\ UNCHANGED windows
    BY <1>2 DEF PlanBackfill, Kind
  <2> QED BY <1>2, <2>1, QuietBeginRun, QuietRows DEF PlanBackfill, GiveUp
<1>3. CASE CheckCursor(p) \/ CheckBackfill(p) \/ PrepareArchive(p) \/ CheckFinishBackfill(p)
  BY <1>3, QuietRows DEF CheckCursor, CheckBackfill, PrepareArchive, CheckFinishBackfill
<1>4. ASSUME NEW outcome \in Outcomes, Collect(p, outcome)
      PROVE  Quiet
  BY <1>4, QuietRows DEF Collect
<1>5. CASE OpeningFails(p) \/ EndIsLost(p)
  BY <1>5, QuietRows DEF OpeningFails, EndIsLost
<1> QED BY <1>1, <1>2, <1>3, <1>4, <1>5, QuietOpen, QuietRefused DEF Step

\* A closing step is quiet or adds the run's window to the collected ones.
LEMMA ClosingIntervals ==
  ASSUME TypeOK, IInv, NEW p \in Procs, job[p].run \in RunIds,
         runs[job[p].run].status # "NONE", runs[job[p].run].kind = job[p].kind,
         windows[job[p].run].status = "RUNNING", CloseRows(p), NEW kind \in Kind
  PROVE  Intervals(kind)' =
           IF job[p].outcome = "SUCCESS" /\ job[p].kind = kind
           THEN Intervals(kind) \cup {<<windows[job[p].run].start, windows[job[p].run].end>>}
           ELSE Intervals(kind)
<1>1. /\ \A w \in RunIds : /\ windows'[w].start = windows[w].start
                           /\ windows'[w].end = windows[w].end
      /\ Successes(kind)' = IF job[p].outcome = "SUCCESS" /\ job[p].kind = kind
                            THEN Successes(kind) \cup {job[p].run} ELSE Successes(kind)
  BY CloseFrame
<1>2. Successes(kind) \subseteq RunIds
  BY DEF Successes
<1>3. Intervals(kind)' = {<<windows[w].start, windows[w].end>> : w \in Successes(kind)'}
  BY <1>1, <1>2 DEF Intervals
<1> QED BY <1>1, <1>3 DEF Intervals

(* The weekly cursor. *)

\* finish_traffic_window with success records the window at the frontier.
LEMMA FinishWeeklyRecords ==
  ASSUME TypeOK, IInv, NEW p \in Procs, FinishWeekly(p)
  PROVE  /\ WeeklyLedger!Record \/ UNCHANGED <<Intervals("TRAFFIC"), cursor.last>>
         /\ UNCHANGED <<Intervals("BACKFILL"), backfill>>
<1> DEFINE r == job[p].run
           w == <<windows[r].start, windows[r].end>>
<1>1. /\ pc[p] = "finishing" /\ job[p].kind = "TRAFFIC" /\ r \in RunIds
      /\ runs[r].status # "NONE" /\ runs[r].kind = "TRAFFIC"
      /\ job[p].start \in Nat /\ job[p].end \in Nat /\ job[p].start < job[p].end
      /\ cursor.last \in {None, job[p].start}
      /\ windows[r].start = job[p].start /\ windows[r].end = job[p].end
      /\ UNCHANGED backfill
  BY DEF FinishWeekly, IInv, JobsInv, JobWellFormed, WeeklyJob, Opened, Running
<1>2. CASE RollBack(p) /\ UNCHANGED cursor
  BY <1>1, <1>2, QuietRows, QuietIntervals DEF RollBack, Kind
<1>3. CASE windows[r].status = "RUNNING" /\ CloseRows(p) /\ cursor' = CursorAfter(p)
  <2>1. /\ Intervals("BACKFILL")' = Intervals("BACKFILL")
        /\ Intervals("TRAFFIC")' = IF job[p].outcome = "SUCCESS"
             THEN Intervals("TRAFFIC") \cup {w} ELSE Intervals("TRAFFIC")
    BY <1>1, <1>3, ClosingIntervals DEF Kind
  <2>2. CASE job[p].outcome = "SUCCESS"
    <3>1. cursor'.last = job[p].end
      BY <1>3, <2>2 DEF CursorAfter
    <3>2. w \notin Intervals("TRAFFIC")
      <4>1. \A s \in Successes("TRAFFIC") : windows[s].end <= cursor.last
                                           /\ windows[s].end \in Nat
        BY DEF IInv, RowsInv, CursorWellFormed, WindowsWellFormed, Successes
      <4> QED BY <1>1, <4>1 DEF Intervals, None
    <3> QED BY <1>1, <2>1, <2>2, <3>1, <3>2 DEF WeeklyLedger!Record, WeeklyLedger!Unset, None
  <2>3. CASE job[p].outcome # "SUCCESS"
    <3>1. cursor'.last = cursor.last
      BY <1>3, <2>3 DEF TypeOK, CursorAfter, CursorRow
    <3> QED BY <1>1, <2>1, <2>3, <3>1
  <2> QED BY <2>2, <2>3
<1> QED BY <1>2, <1>3 DEF FinishWeekly

(* The backfill. *)

\* update_backfill_window with success records the window at the frontier.
LEMMA FinishBackfillRecords ==
  ASSUME TypeOK, IInv, NEW p \in Procs, FinishBackfill(p)
  PROVE  /\ BackfillLedger!Record \/ UNCHANGED <<Intervals("BACKFILL"), backfill.next>>
         /\ UNCHANGED <<Intervals("TRAFFIC"), cursor>>
<1> DEFINE r == job[p].run
           w == <<windows[r].start, windows[r].end>>
<1>1. /\ pc[p] = "closing" /\ job[p].kind = "BACKFILL" /\ r \in RunIds
      /\ runs[r].status # "NONE" /\ runs[r].kind = "BACKFILL" /\ backfill.status # "NONE"
      /\ windows[r].start = backfill.next /\ backfill.next < windows[r].end
      /\ job[p].outcome = "SUCCESS" => windows[r].end = job[p].end
      /\ UNCHANGED cursor
  BY DEF FinishBackfill, IInv, JobsInv, JobWellFormed, BackfillJob, Opened, Running
<1>2. CASE RollBack(p) /\ UNCHANGED backfill
  BY <1>1, <1>2, QuietRows, QuietIntervals DEF RollBack, Kind
<1>3. CASE windows[r].status = "RUNNING" /\ CloseRows(p) /\ backfill' = BackfillAfter(p)
  <2>1. /\ Intervals("TRAFFIC")' = Intervals("TRAFFIC")
        /\ Intervals("BACKFILL")' = IF job[p].outcome = "SUCCESS"
             THEN Intervals("BACKFILL") \cup {w} ELSE Intervals("BACKFILL")
    BY <1>1, <1>3, ClosingIntervals DEF Kind
  <2>2. CASE job[p].outcome = "SUCCESS"
    <3>1. backfill'.next = windows[r].end
      BY <1>1, <1>3, <2>2 DEF TypeOK, BackfillAfter, BackfillRow
    <3>2. w \notin Intervals("BACKFILL") /\ windows[r].start \in Nat /\ windows[r].end \in Nat
      <4>1. \A s \in Successes("BACKFILL") : windows[s].end <= backfill.next
                                            /\ windows[s].end \in Nat
        BY DEF IInv, RowsInv, BackfillWellFormed, WindowsWellFormed, Successes
      <4>2. windows[r].start \in Nat /\ windows[r].end \in Nat
        BY <1>1, <1>3 DEF IInv, RowsInv, WindowsWellFormed
      <4> QED BY <1>1, <4>1, <4>2 DEF Intervals
    <3> QED BY <1>1, <2>1, <2>2, <3>1, <3>2 DEF BackfillLedger!Record
  <2>3. CASE job[p].outcome # "SUCCESS"
    <3>1. backfill'.next = backfill.next
      BY <1>3, <2>3 DEF TypeOK, BackfillAfter, BackfillRow
    <3> QED BY <1>1, <2>1, <2>3, <3>1
  <2> QED BY <2>2, <2>3
<1> QED BY <1>2, <1>3 DEF FinishBackfill

\* init-backfill-traffic opens the backfill's ledger while nothing is collected.
LEMMA InitializeBackfillOpens ==
  ASSUME TypeOK, IInv, NEW target \in Targets, InitializeBackfill(target)
  PROVE  BackfillLedger!Open
<1>1. /\ backfill.status = "NONE" /\ backfill.next = None
      /\ backfill'.next = target - BackfillDays /\ target - BackfillDays \in Nat
      /\ UNCHANGED <<windows, runs>>
  BY DEF InitializeBackfill, IInv, RowsInv, BackfillWellFormed
<1>2. Successes("BACKFILL") = {}
  BY <1>1 DEF IInv, RowsInv, BackfillWellFormed, WindowsWellFormed, Successes, None
<1>3. Intervals("BACKFILL") = {}
  BY <1>2 DEF Intervals
<1>4. Intervals("BACKFILL")' = Intervals("BACKFILL")
  BY <1>1, QuietRows, QuietIntervals DEF Kind
<1> QED BY <1>1, <1>3, <1>4 DEF BackfillLedger!Open, BackfillLedger!Unset, None

\* The steps that leave both frontiers where they are.
LEMMA FrontiersKept ==
  ASSUME TypeOK, NEW p \in Procs, Step(p), ~FinishWeekly(p), ~FinishBackfill(p)
  PROVE  UNCHANGED <<cursor.last, backfill.next>>
<1>1. CASE OpenWeekly(p) \/ OpenBackfill(p)
  BY <1>1 DEF TypeOK, OpenWeekly, OpenBackfill, CursorRow, BackfillRow
<1> QED BY <1>1 DEF Step, PlanWeekly, PlanBackfill, CheckCursor, CheckBackfill, OpeningFails,
              Refused, Collect, PrepareArchive, CheckFinishBackfill, EndIsLost

(* The two refinements. *)

LEMMA LedgerStep ==
  ASSUME TypeOK, IInv, [Next]_vars
  PROVE  /\ [WeeklyLedger!LedgerNext]_<<Intervals("TRAFFIC"), cursor.last>>
         /\ [BackfillLedger!LedgerNext]_<<Intervals("BACKFILL"), backfill.next>>
<1> DEFINE Stutters == UNCHANGED <<Intervals("TRAFFIC"), cursor.last,
                                   Intervals("BACKFILL"), backfill.next>>
           Goal == /\ [WeeklyLedger!LedgerNext]_<<Intervals("TRAFFIC"), cursor.last>>
                   /\ [BackfillLedger!LedgerNext]_<<Intervals("BACKFILL"), backfill.next>>
<1>1. Quiet => UNCHANGED <<Intervals("TRAFFIC"), Intervals("BACKFILL")>>
  BY QuietIntervals DEF Kind
<1>2. CASE NextDay \/ UNCHANGED vars \/ \E p \in Procs : \E kind \in Kinds : Launch(p, kind)
  BY <1>1, <1>2, QuietRows DEF NextDay, vars, Launch
<1>3. ASSUME NEW p \in Procs, Crash(p)
      PROVE  Goal
  BY <1>1, <1>3, QuietRows DEF Crash
<1>4. ASSUME NEW p \in Procs, FinishWeekly(p)
      PROVE  Goal
  BY <1>4, FinishWeeklyRecords DEF WeeklyLedger!LedgerNext
<1>5. ASSUME NEW p \in Procs, FinishBackfill(p)
      PROVE  Goal
  BY <1>5, FinishBackfillRecords DEF BackfillLedger!LedgerNext
<1>6. ASSUME NEW p \in Procs, Step(p), ~FinishWeekly(p), ~FinishBackfill(p)
      PROVE  Goal
  BY <1>1, <1>6, QuietStep, FrontiersKept
<1>7. ASSUME NEW target \in Targets, InitializeBackfill(target)
      PROVE  Goal
  <2>1. UNCHANGED <<Intervals("TRAFFIC"), cursor.last>>
    BY <1>1, <1>7, QuietRows DEF InitializeBackfill
  <2> QED BY <1>7, <2>1, InitializeBackfillOpens DEF BackfillLedger!LedgerNext
<1>8. CASE Extend \/ \E target \in Targets : CheckExtend(target)
  <2>1. UNCHANGED <<windows, runs, cursor, backfill.next>>
    BY <1>8 DEF TypeOK, Extend, CheckExtend, BackfillRow
  <2> QED BY <1>1, <2>1, QuietRows
<1> QED BY <1>2, <1>3, <1>4, <1>5, <1>6, <1>7, <1>8 DEF Next, Operator

LEMMA LedgerInitially ==
  ASSUME Init
  PROVE  WeeklyLedger!LedgerInit /\ BackfillLedger!LedgerInit
<1>1. Intervals("TRAFFIC") = {} /\ Intervals("BACKFILL") = {}
  BY DEF Init, Intervals, Successes, NoWindow
<1> QED BY <1>1 DEF Init, NoCursor, NoBackfill, None, WeeklyLedger!LedgerInit,
           WeeklyLedger!Unset, BackfillLedger!LedgerInit, BackfillLedger!Unset

\* The weekly collector implements the ledger: a window is collected only at the
\* cursor, which moves exactly to its end (collect_traffic, finish_traffic_window).
THEOREM WeeklyImplementsLedger ==
  ASSUME Direct = {}
  PROVE  Spec => WeeklyRefinesLedger
<1>1. Init => WeeklyLedger!LedgerInit
  BY LedgerInitially
<1>2. TypeOK /\ IInv /\ [Next]_vars =>
        [WeeklyLedger!LedgerNext]_<<Intervals("TRAFFIC"), cursor.last>>
  BY LedgerStep
<1> QED BY <1>1, <1>2, TypeCorrect, Inductive, PTL
        DEF Spec, WeeklyRefinesLedger, WeeklyLedger!LedgerSpec

\* So does the backfill, whose origin an operator chooses first.
THEOREM BackfillImplementsLedger ==
  ASSUME Direct = {}
  PROVE  Spec => BackfillRefinesLedger
<1>1. Init => BackfillLedger!LedgerInit
  BY LedgerInitially
<1>2. TypeOK /\ IInv /\ [Next]_vars =>
        [BackfillLedger!LedgerNext]_<<Intervals("BACKFILL"), backfill.next>>
  BY LedgerStep
<1> QED BY <1>1, <1>2, TypeCorrect, Inductive, PTL
        DEF Spec, BackfillRefinesLedger, BackfillLedger!LedgerSpec

\* Both collectors, the operator and every failure and crash together.
THEOREM LedgersImplemented ==
  ASSUME Direct = {}
  PROVE  Spec => LedgersRefined
BY WeeklyImplementsLedger, BackfillImplementsLedger, PTL DEF LedgersRefined

-----------------------------------------------------------------------------
(* What the ledger promises. *)

\* The recorded windows are non-empty intervals of days, and a ledger without an
\* origin has none.
LedgerInv ==
  /\ frontier \in Nat \cup {Unset}
  /\ \A w \in done : w[1] \in Nat /\ w[2] \in Nat /\ w[1] < w[2]
  /\ frontier = Unset => done = {}
  /\ Partition

LEMMA RecordKeeps ==
  ASSUME LedgerInv, Record
  PROVE  LedgerInv'
<1>1. PICK w \in done' :
        /\ w \notin done /\ done' = done \cup {w} /\ frontier \in {Unset, w[1]}
        /\ w[1] \in Nat /\ w[2] \in Nat /\ w[1] < w[2] /\ frontier' = w[2]
  BY DEF Record
<1>2. \A v \in done : v[1] \in Nat /\ v[2] \in Nat /\ v[1] < v[2] /\ v[2] <= frontier
  BY DEF LedgerInv, Partition
<1>3. \A v \in done : v[2] <= w[1]
  BY <1>1, <1>2 DEF LedgerInv, Unset
<1>4. \A u, v \in done' : u = v \/ u[2] <= v[1] \/ v[2] <= u[1]
  BY <1>1, <1>3 DEF LedgerInv, Partition
<1>5. \A v \in done' : v[2] <= frontier'
  BY <1>1, <1>2, <1>3
<1>6. \A v \in done' : v[2] = frontier' \/ \E u \in done' : u[1] = v[2]
  <2>1. ASSUME NEW v \in done
        PROVE  \E u \in done' : u[1] = v[2]
    <3>1. CASE v[2] = frontier
      BY <1>1, <2>1, <3>1 DEF LedgerInv
    <3>2. CASE \E u \in done : u[1] = v[2]
      BY <1>1, <3>2
    <3> QED BY <2>1, <3>1, <3>2 DEF LedgerInv, Partition
  <2> QED BY <1>1, <2>1
<1> QED BY <1>1, <1>2, <1>4, <1>5, <1>6 DEF LedgerInv, Partition, Unset

\* The windows of the ledger partition the days from the first to the frontier.
THEOREM LedgerPartitions == LedgerSpec => []Partition
<1>1. LedgerInit => LedgerInv
  BY DEF LedgerInit, LedgerInv, Partition, Unset
<1>2. LedgerInv /\ [LedgerNext]_<<done, frontier>> => LedgerInv'
  <2>1. ASSUME LedgerInv, Open PROVE LedgerInv'
    BY <2>1 DEF Open, LedgerInv, Partition, Unset
  <2>2. ASSUME LedgerInv, UNCHANGED <<done, frontier>> PROVE LedgerInv'
    BY <2>2 DEF LedgerInv, Partition
  <2> QED BY <2>1, <2>2, RecordKeeps DEF LedgerNext
<1>3. LedgerInv => Partition
  BY DEF LedgerInv
<1> QED BY <1>1, <1>2, <1>3, PTL DEF LedgerSpec

=============================================================================
