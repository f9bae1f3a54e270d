--------------------------- MODULE TrafficWindows ---------------------------
(***************************************************************************)
(* The durable window life cycle of the traffic collectors: the `weekly`   *)
(* cursor, the oldest-first backfill, the rows of `traffic_windows` and    *)
(* `runs`, and the collector processes that open, collect and finish one   *)
(* window each (collection_engine.py collect_traffic, backfill_traffic and *)
(* _collect_traffic_run; history/database.py).                             *)
(*                                                                         *)
(*  - A collector is launched by a wrapper script, which takes the shared  *)
(*    flock first, or by hand through the CLI (the processes of Direct),   *)
(*    which takes no lock.                                                 *)
(*  - Python's sqlite3 runs a SELECT outside the transaction that the next *)
(*    UPDATE or INSERT opens, so a method that reads, decides and writes   *)
(*    is two steps; the writes of one method are one step and roll back    *)
(*    together when the method raises.                                     *)
(*  - What a run collects is abstracted to its outcome; SUCCESS stands for *)
(*    the two statuses of SUCCESS_STATUSES. A day is a natural number, a   *)
(*    window the half-open interval [start, end).                          *)
(***************************************************************************)
EXTENDS Integers, FiniteSets

CONSTANTS
  Procs,         \* collector processes
  Direct,        \* those launched through the CLI, without the wrapper's lock
  NoProc,        \* the lock is free
  RunIds,        \* identifiers of runs: a run needs a fresh one
  NoRun,
  Kinds,         \* the collectors in use: a subset of {"TRAFFIC", "BACKFILL"}
  WindowDays,    \* settings.traffic_window_days
  BackfillDays,  \* the 92 days of initialize_backfill_traffic
  LastDay,       \* bound on the days that pass
  Sundays,       \* the days whose weekday() is 6
  InitialStarts, \* values of --traffic-start (None when it is absent)
  Targets,       \* values of --target-end, for initialisation and extension
  MaxCrashes,    \* bound on the processes that are killed
  MaxFailures,   \* bound on the runs that end without success
  MaxLost        \* bound on the ends of runs that could not be recorded

None == -1

ASSUME ProcsAssumption == Direct \subseteq Procs /\ NoProc \notin Procs
ASSUME RunsAssumption == NoRun \notin RunIds
ASSUME KindsAssumption == Kinds \subseteq {"TRAFFIC", "BACKFILL"}
ASSUME DaysAssumption ==
  /\ WindowDays \in Nat \ {0}
  /\ BackfillDays \in Nat \ {0}
  /\ LastDay \in Nat
  /\ InitialStarts \subseteq Nat \cup {None}
  /\ Targets \subseteq Nat
  /\ \A t \in Targets : t >= BackfillDays
ASSUME BoundsAssumption ==
  MaxCrashes \in Nat /\ MaxFailures \in Nat /\ MaxLost \in Nat

VARIABLES
  today,       \* the latest exclusive boundary available (--traffic-end)
  lock,        \* the holder of the shared flock
  cursor,      \* the row `weekly` of traffic_cursors
  backfill,    \* the row of backfill_states
  windows,     \* traffic_windows, by the run that inserted the row
  runs,        \* runs
  archives,    \* archive files on disk and rows of run_archives, by run
  pc, job,     \* the control point and the local variables of each collector
  extension,   \* an extend-backfill-traffic command between its two steps
  crashes, failures, lost,  \* the bounded counters
  overtaken    \* history: an extension landed within the end of the last window

vars == <<today, lock, cursor, backfill, windows, runs, archives, pc, job,
          extension, crashes, failures, lost, overtaken>>

-----------------------------------------------------------------------------
(* Types. *)

Days == Nat \cup {None}
RunRef == RunIds \cup {NoRun}
Kind == {"TRAFFIC", "BACKFILL"}

CursorRow == [last: Days, start: Days, end: Days, run: RunRef,
              status: {"NONE", "RUNNING", "SUCCESS", "FAILED"}]
NoCursor == [last |-> None, start |-> None, end |-> None, run |-> NoRun,
             status |-> "NONE"]

BackfillRow == [start: Days, target: Days, next: Days, run: RunRef,
                status: {"NONE", "PENDING", "RUNNING", "FAILED", "COMPLETED"}]
NoBackfill == [start |-> None, target |-> None, next |-> None, run |-> NoRun,
               status |-> "NONE"]

WindowRow == [start: Days, end: Days,
              status: {"NONE", "RUNNING", "SUCCESS", "FAILED"}]
NoWindow == [start |-> None, end |-> None, status |-> "NONE"]

Outcomes == {"SUCCESS", "WARNING", "ERROR"}
RunRow == [kind: Kind \cup {"NONE"}, status: Outcomes \cup {"NONE", "RUNNING"}]
NoRunRow == [kind |-> "NONE", status |-> "NONE"]

ControlPoints == {"idle", "launched", "planned", "opening", "refused",
                  "collecting", "archiving", "finishing", "closing"}
Opened == {"collecting", "archiving", "finishing", "closing"}
Running == {"planned", "opening", "refused"} \cup Opened

Job == [kind: Kind \cup {"NONE"}, start: Days, end: Days,
        run: RunRef, outcome: Outcomes,
        leaseStart: Days, leaseEnd: Days, reached: BOOLEAN]
NoJob == [kind |-> "NONE", start |-> None, end |-> None, run |-> NoRun,
          outcome |-> "ERROR", leaseStart |-> None, leaseEnd |-> None,
          reached |-> FALSE]

TypeOK ==
  /\ today \in Nat
  /\ lock \in Procs \cup {NoProc}
  /\ cursor \in CursorRow
  /\ backfill \in BackfillRow
  /\ windows \in [RunIds -> WindowRow]
  /\ runs \in [RunIds -> RunRow]
  /\ archives \in [files: SUBSET RunRef, rows: SUBSET RunRef]
  /\ pc \in [Procs -> ControlPoints]
  /\ job \in [Procs -> Job]
  /\ extension \in Days
  /\ crashes \in Nat
  /\ failures \in Nat
  /\ lost \in Nat
  /\ overtaken \in BOOLEAN

-----------------------------------------------------------------------------
(* Helpers. *)

MinDay(a, b) == IF a <= b THEN a ELSE b

\* The windows of one kind that finished with success.
Successes(kind) ==
  {r \in RunIds : runs[r].kind = kind /\ windows[r].status = "SUCCESS"}

\* Only the Sunday run of the weekly collector is archived (weekday() = 6).
Archived(p) == job[p].kind = "TRAFFIC" /\ job[p].end \in Sundays

\* A process ends: it leaves its locals behind and the kernel drops its flock.
Exit(p) ==
  /\ pc' = [pc EXCEPT ![p] = "idle"]
  /\ job' = [job EXCEPT ![p] = NoJob]
  /\ lock' = IF lock = p THEN NoProc ELSE lock

Goto(p, label) == pc' = [pc EXCEPT ![p] = label]

\* begin_traffic_window refuses a running cursor, a replay with other bounds
\* and a window that does not start at the cursor.
CursorRefuses(start, end) ==
  LET replay == cursor.status = "FAILED" /\ cursor.start # None
      expected == IF replay THEN cursor.start ELSE cursor.last
  IN \/ cursor.status = "RUNNING"
     \/ replay /\ cursor.end # end
     \/ expected # None /\ expected # start

\* The identifier of a run is random: which of the unused ones is taken does not
\* matter to anything.
FreshRuns == {r \in RunIds : runs[r].status = "NONE"}
NewRun == CHOOSE r \in FreshRuns : TRUE

-----------------------------------------------------------------------------
(* Launching a collector and choosing its window. *)

Init ==
  /\ today \in 0..LastDay
  /\ lock = NoProc
  /\ cursor = NoCursor
  /\ backfill = NoBackfill
  /\ windows = [r \in RunIds |-> NoWindow]
  /\ runs = [r \in RunIds |-> NoRunRow]
  /\ archives = [files |-> {}, rows |-> {}]
  /\ pc = [p \in Procs |-> "idle"]
  /\ job = [p \in Procs |-> NoJob]
  /\ extension = None
  /\ crashes = 0
  /\ failures = 0
  /\ lost = 0
  /\ overtaken = FALSE

NextDay ==
  /\ today < LastDay
  /\ today' = today + 1
  /\ UNCHANGED <<lock, cursor, backfill, windows, runs, archives, pc, job,
                 extension, crashes, failures, lost, overtaken>>

\* Mutant: the wrapper forgets the lock.
LaunchUnlocked(p, kind) ==
  /\ pc[p] = "idle"
  /\ Cardinality(FreshRuns) > Cardinality({q \in Procs : pc[q] = "launched"})
  /\ Goto(p, "launched")
  /\ job' = [job EXCEPT ![p].kind = kind]
  /\ UNCHANGED <<today, lock, cursor, backfill, windows, runs, archives,
                 extension, crashes, failures, lost, overtaken>>

\* rr_lock of the wrappers: flock -n, exit 75 when the lock is held. The guard
\* on FreshRuns is the model's bound on the number of runs.
Launch(p, kind) ==
  /\ pc[p] = "idle"
  /\ Cardinality(FreshRuns) > Cardinality({q \in Procs : pc[q] = "launched"})
  /\ IF p \in Direct THEN UNCHANGED lock ELSE lock = NoProc /\ lock' = p
  /\ Goto(p, "launched")
  /\ job' = [job EXCEPT ![p].kind = kind]
  /\ UNCHANGED <<today, cursor, backfill, windows, runs, archives, extension,
                 crashes, failures, lost, overtaken>>

\* The end of every planning step: the command raises, or the run row of
\* _collect_traffic_run (begin_run) is inserted for the window [start, end).
GiveUp(p) == Exit(p) /\ UNCHANGED runs
BeginRun(p, start, end) ==
  LET r == NewRun
  IN /\ FreshRuns # {}
     /\ runs' = [runs EXCEPT ![r] = [kind |-> job[p].kind, status |-> "RUNNING"]]
     /\ job' = [job EXCEPT ![p].start = start, ![p].end = end, ![p].run = r]
     /\ Goto(p, "planned")
     /\ UNCHANGED lock

\* collect_traffic: the start is the cursor's, else --traffic-start, else seven
\* days before the available boundary.
CursorStart == IF cursor.status = "FAILED" THEN cursor.start ELSE cursor.last
WeeklyStart(initial) ==
  CASE CursorStart # None -> CursorStart
    [] CursorStart = None /\ initial # None -> initial
    [] OTHER -> today - WindowDays

\* (No window starts before day 0, the model's first day.)
PlanWeekly(p, initial) ==
  LET start == WeeklyStart(initial)
      conflict == CursorStart # None /\ initial # None /\ initial # CursorStart
      available == start >= 0 /\ start + WindowDays <= today
  IN /\ pc[p] = "launched" /\ job[p].kind = "TRAFFIC"
     /\ IF conflict \/ ~available THEN GiveUp(p)
        ELSE BeginRun(p, start, start + WindowDays)
     /\ UNCHANGED <<today, cursor, backfill, windows, archives, extension,
                    crashes, failures, lost, overtaken>>

\* backfill_traffic: an unknown backfill raises, a completed one runs nothing.
PlanBackfill(p) ==
  /\ pc[p] = "launched" /\ job[p].kind = "BACKFILL"
  /\ IF backfill.status \in {"NONE", "COMPLETED"} THEN GiveUp(p)
     ELSE BeginRun(p, backfill.next,
                   MinDay(backfill.next + WindowDays, backfill.target))
  /\ UNCHANGED <<today, cursor, backfill, windows, archives, extension,
                 crashes, failures, lost, overtaken>>

-----------------------------------------------------------------------------
(* Opening the window: a SELECT that may refuse, then the transaction. *)

\* The SELECT of begin_traffic_window and its checks.
CheckCursor(p) ==
  /\ pc[p] = "planned" /\ job[p].kind = "TRAFFIC"
  /\ Goto(p, IF CursorRefuses(job[p].start, job[p].end) THEN "refused" ELSE "opening")
  /\ UNCHANGED <<today, lock, cursor, backfill, windows, runs, archives, job,
                 extension, crashes, failures, lost, overtaken>>

\* Its upsert of the cursor (an existing last_successful_end is kept) and its
\* insert of the window row.
OpenWeekly(p) ==
  /\ pc[p] = "opening" /\ job[p].kind = "TRAFFIC"
  /\ cursor' = [cursor EXCEPT !.start = job[p].start, !.end = job[p].end,
                              !.run = job[p].run, !.status = "RUNNING"]
  /\ windows' = [windows EXCEPT ![job[p].run] =
       [start |-> job[p].start, end |-> job[p].end, status |-> "RUNNING"]]
  /\ Goto(p, "collecting")
  /\ UNCHANGED <<today, lock, backfill, runs, archives, job, extension,
                 crashes, failures, lost, overtaken>>

\* The SELECT of begin_backfill_window: the lease is computed from what it read.
CheckBackfill(p) ==
  /\ pc[p] = "planned" /\ job[p].kind = "BACKFILL"
  /\ IF backfill.status \in {"NONE", "COMPLETED", "RUNNING"}
     THEN Goto(p, "refused") /\ UNCHANGED job
     ELSE /\ Goto(p, "opening")
          /\ job' = [job EXCEPT ![p].leaseStart = backfill.next,
                                ![p].leaseEnd = MinDay(backfill.next + WindowDays,
                                                       backfill.target)]
  /\ UNCHANGED <<today, lock, cursor, backfill, windows, runs, archives,
                 extension, crashes, failures, lost, overtaken>>

\* Its update and insert; a lease that is not the planned window fails the run.
OpenBackfill(p) ==
  /\ pc[p] = "opening" /\ job[p].kind = "BACKFILL"
  /\ backfill' = [backfill EXCEPT !.status = "RUNNING", !.run = job[p].run]
  /\ windows' = [windows EXCEPT ![job[p].run] =
       [start |-> job[p].leaseStart, end |-> job[p].leaseEnd, status |-> "RUNNING"]]
  /\ Goto(p, IF job[p].leaseStart = job[p].start /\ job[p].leaseEnd = job[p].end
             THEN "collecting" ELSE "finishing")
  /\ UNCHANGED <<today, lock, cursor, runs, archives, job, extension, crashes,
                 failures, lost, overtaken>>

\* begin_* raises by itself (the database is locked or full): its transaction
\* rolls back.
OpeningFails(p) ==
  /\ pc[p] \in {"planned", "opening"}
  /\ failures < MaxFailures
  /\ failures' = failures + 1
  /\ Goto(p, "refused")
  /\ UNCHANGED <<today, lock, cursor, backfill, windows, runs, archives, job,
                 extension, crashes, lost, overtaken>>

\* begin_* raised: nothing was opened, finish_run records the error.
Refused(p) ==
  /\ pc[p] = "refused"
  /\ runs' = [runs EXCEPT ![job[p].run].status = "ERROR"]
  /\ Exit(p)
  /\ UNCHANGED <<today, cursor, backfill, windows, archives, extension,
                 crashes, failures, lost, overtaken>>

-----------------------------------------------------------------------------
(* Collecting, archiving and finishing. *)

\* The exports, the batch loop and the classification of their outcome.
Collect(p, outcome) ==
  /\ pc[p] = "collecting"
  /\ outcome # "SUCCESS" => failures < MaxFailures
  /\ job' = [job EXCEPT ![p].outcome = outcome]
  /\ failures' = IF outcome = "SUCCESS" THEN failures ELSE failures + 1
  /\ Goto(p, IF outcome = "SUCCESS" /\ Archived(p) THEN "archiving" ELSE "finishing")
  /\ UNCHANGED <<today, lock, cursor, backfill, windows, runs, archives,
                 extension, crashes, lost, overtaken>>

\* prepare_run_archive: the verified file is renamed into place, or the run fails.
PrepareArchive(p) ==
  /\ pc[p] = "archiving"
  /\ Goto(p, "finishing")
  /\ \/ /\ archives' = [archives EXCEPT !.files = @ \cup {job[p].run}]
        /\ UNCHANGED <<job, failures>>
     \/ /\ failures < MaxFailures
        /\ failures' = failures + 1
        /\ job' = [job EXCEPT ![p].outcome = "ERROR"]
        /\ UNCHANGED archives
  /\ UNCHANGED <<today, lock, cursor, backfill, windows, runs, extension,
                 crashes, lost, overtaken>>

\* The writes that finish_traffic_window and update_backfill_window share: the
\* window row, the run row and the archive row, or the file's removal when the
\* transaction raises (discard_prepared_archive).
CloseRows(p) ==
  LET r == job[p].run
      won == job[p].outcome = "SUCCESS"
  IN /\ windows' = [windows EXCEPT ![r].status = IF won THEN "SUCCESS" ELSE "FAILED"]
     /\ runs' = [runs EXCEPT ![r].status = job[p].outcome]
     /\ archives' = [archives EXCEPT !.rows = IF r \in archives.files
                                              THEN @ \cup {r} ELSE @]
RollBack(p) ==
  /\ archives' = [archives EXCEPT !.files = @ \ {job[p].run}]
  /\ UNCHANGED <<windows, runs>>

\* Mutants: a failure leaves the cursor RUNNING, or forgets the window.
CursorStaysRunning(p) ==
  IF job[p].outcome = "SUCCESS"
  THEN [last |-> job[p].end, start |-> None, end |-> None, run |-> job[p].run,
        status |-> "SUCCESS"]
  ELSE cursor
CursorForgets(p) ==
  IF job[p].outcome = "SUCCESS"
  THEN [last |-> job[p].end, start |-> None, end |-> None, run |-> job[p].run,
        status |-> "SUCCESS"]
  ELSE [cursor EXCEPT !.status = "FAILED", !.start = None, !.end = None]

\* The cursor after a finished window: advanced by a success, otherwise FAILED
\* with its in-progress bounds retained.
CursorAfter(p) ==
  IF job[p].outcome = "SUCCESS"
  THEN [last |-> job[p].end, start |-> None, end |-> None, run |-> job[p].run,
        status |-> "SUCCESS"]
  ELSE [cursor EXCEPT !.status = "FAILED", !.run = job[p].run]

\* finish_traffic_window: one transaction, whose updates must each match a row.
FinishWeekly(p) ==
  LET r == job[p].run
      matches == /\ windows[r].status = "RUNNING"
                 /\ cursor.start = job[p].start /\ cursor.end = job[p].end
                 /\ runs[r].status = "RUNNING"
  IN /\ pc[p] = "finishing" /\ job[p].kind = "TRAFFIC"
     /\ \/ /\ matches
           /\ CloseRows(p)
           /\ cursor' = CursorAfter(p)
        \/ ~matches /\ RollBack(p) /\ UNCHANGED cursor
     /\ Exit(p)
     /\ UNCHANGED <<today, backfill, extension, crashes, failures, lost,
                    overtaken>>

\* Mutant: the end is compared with a target one day short.
ReachedADayEarly(p) ==
  LET refused == \/ backfill.status # "RUNNING" \/ backfill.run # job[p].run
                 \/ /\ job[p].outcome = "SUCCESS"
                    /\ job[p].end <= backfill.next \/ job[p].end > backfill.target
  IN /\ pc[p] = "finishing" /\ job[p].kind = "BACKFILL"
     /\ IF refused THEN Exit(p)
        ELSE /\ Goto(p, "closing")
             /\ job' = [job EXCEPT ![p].reached = job[p].end + 1 >= backfill.target]
             /\ UNCHANGED lock
     /\ UNCHANGED <<today, cursor, backfill, windows, runs, archives, extension,
                    crashes, failures, lost, overtaken>>

\* update_backfill_window: the SELECT and the checks that may raise ...
CheckFinishBackfill(p) ==
  LET refused == \/ backfill.status # "RUNNING" \/ backfill.run # job[p].run
                 \/ /\ job[p].outcome = "SUCCESS"
                    /\ job[p].end <= backfill.next \/ job[p].end > backfill.target
  IN /\ pc[p] = "finishing" /\ job[p].kind = "BACKFILL"
     /\ IF refused THEN Exit(p)
        ELSE /\ Goto(p, "closing")
             /\ job' = [job EXCEPT ![p].reached = job[p].end >= backfill.target]
             /\ UNCHANGED lock
     /\ UNCHANGED <<today, cursor, backfill, windows, runs, archives,
                    extension, crashes, failures, lost, overtaken>>

\* Mutant: a failure leaves the state RUNNING.
BackfillStaysRunning(p) ==
  IF job[p].outcome = "SUCCESS"
  THEN [backfill EXCEPT !.next = job[p].end, !.run = job[p].run,
                        !.status = IF job[p].reached THEN "COMPLETED" ELSE "PENDING"]
  ELSE backfill

\* The backfill state after a finished window.
BackfillAfter(p) ==
  IF job[p].outcome = "SUCCESS"
  THEN [backfill EXCEPT !.next = job[p].end, !.run = job[p].run,
                        !.status = IF job[p].reached THEN "COMPLETED" ELSE "PENDING"]
  ELSE [backfill EXCEPT !.status = "FAILED", !.run = job[p].run]

\* ... then its transaction.
FinishBackfill(p) ==
  LET r == job[p].run
      matches == windows[r].status = "RUNNING" /\ runs[r].status = "RUNNING"
  IN /\ pc[p] = "closing"
     /\ \/ /\ matches
           /\ CloseRows(p)
           /\ backfill' = BackfillAfter(p)
        \/ ~matches /\ RollBack(p) /\ UNCHANGED backfill
     /\ Exit(p)
     /\ UNCHANGED <<today, cursor, extension, crashes, failures, lost,
                    overtaken>>

\* The end of a run cannot be recorded: manifest.write_text, a transaction of the
\* finally block or finish_run raises by itself. The transaction rolls back, the
\* prepared archive is discarded, unless its removal fails as well, and the process
\* exits: run, window and cursor or backfill rows stay RUNNING as after a crash.
EndIsLost(p) ==
  /\ pc[p] \in {"refused", "archiving", "finishing", "closing"}
  /\ lost < MaxLost
  /\ lost' = lost + 1
  /\ UNCHANGED archives \/ archives' = [archives EXCEPT !.files = @ \ {job[p].run}]
  /\ Exit(p)
  /\ UNCHANGED <<today, cursor, backfill, windows, runs, extension, crashes, failures,
                 overtaken>>

-----------------------------------------------------------------------------
(* The operator's commands, which take no lock, and the death of a process. *)

\* init-backfill-traffic: insert-only.
InitializeBackfill(target) ==
  /\ backfill.status = "NONE"
  /\ backfill' = [start |-> target - BackfillDays, target |-> target,
                  next |-> target - BackfillDays, run |-> NoRun, status |-> "PENDING"]
  /\ UNCHANGED <<today, lock, cursor, windows, runs, archives, pc, job,
                 extension, crashes, failures, lost, overtaken>>

\* extend-backfill-traffic: the SELECT and its checks, then the UPDATE.
CheckExtend(target) ==
  /\ extension = None
  /\ backfill.status \notin {"NONE", "RUNNING"}
  /\ target > backfill.target /\ target > backfill.next
  /\ extension' = target
  /\ UNCHANGED <<today, lock, cursor, backfill, windows, runs, archives, pc,
                 job, crashes, failures, lost, overtaken>>

\* (overtaken is history: a collector has read the old target and found it reached,
\* and is about to write COMPLETED.)
Extend ==
  /\ extension # None
  /\ backfill' = [backfill EXCEPT !.target = extension, !.status = "PENDING"]
  /\ extension' = None
  /\ overtaken' = \/ overtaken
                  \/ \E p \in Procs : /\ pc[p] = "closing" /\ job[p].reached
                                      /\ job[p].outcome = "SUCCESS"
  /\ UNCHANGED <<today, lock, cursor, windows, runs, archives, pc, job,
                 crashes, failures, lost>>

\* kill -9, a reboot, a lost host: committed rows and files stay as they are.
Crash(p) ==
  /\ pc[p] # "idle"
  /\ crashes < MaxCrashes
  /\ crashes' = crashes + 1
  /\ Exit(p)
  /\ UNCHANGED <<today, cursor, backfill, windows, runs, archives, extension,
                 failures, lost, overtaken>>

-----------------------------------------------------------------------------

Step(p) ==
  \/ \E initial \in InitialStarts : PlanWeekly(p, initial)
  \/ PlanBackfill(p)
  \/ CheckCursor(p)
  \/ OpenWeekly(p)
  \/ CheckBackfill(p)
  \/ OpenBackfill(p)
  \/ OpeningFails(p)
  \/ Refused(p)
  \/ \E outcome \in Outcomes : Collect(p, outcome)
  \/ PrepareArchive(p)
  \/ FinishWeekly(p)
  \/ CheckFinishBackfill(p)
  \/ FinishBackfill(p)
  \/ EndIsLost(p)

Operator ==
  \/ \E target \in Targets : InitializeBackfill(target) \/ CheckExtend(target)
  \/ Extend

Next ==
  \/ NextDay
  \/ \E p \in Procs : (\E kind \in Kinds : Launch(p, kind)) \/ Step(p) \/ Crash(p)
  \/ Operator

Spec == Init /\ [][Next]_vars

-----------------------------------------------------------------------------
(* Properties. *)

Alive == {job[p].run : p \in Procs} \ {NoRun}
Intervals(kind) == {<<windows[r].start, windows[r].end>> : r \in Successes(kind)}

WeeklyLedger == INSTANCE WindowLedger
  WITH done <- Intervals("TRAFFIC"), frontier <- cursor.last
BackfillLedger == INSTANCE WindowLedger
  WITH done <- Intervals("BACKFILL"), frontier <- backfill.next

\* Each collector implements the ledger: whatever the interleaving, failures
\* and crashes, a window is added to the collected ones only at the frontier.
WeeklyRefinesLedger == WeeklyLedger!LedgerSpec
BackfillRefinesLedger == BackfillLedger!LedgerSpec
LedgersRefined == WeeklyRefinesLedger /\ BackfillRefinesLedger

\* Two successful runs of one collector never cover a common day: the rows of
\* traffic_windows that finish_traffic_window and update_backfill_window mark
\* SUCCESS are disjoint and none passes the cursor.
Disjoint(kind, frontier) ==
  /\ \A r \in Successes(kind) : windows[r].end <= frontier
  /\ \A r, s \in Successes(kind) :
       r = s \/ windows[r].end <= windows[s].start \/ windows[s].end <= windows[r].start
WeeklyDisjoint == Disjoint("TRAFFIC", cursor.last)
BackfillDisjoint == Disjoint("BACKFILL", backfill.next)

\* The cursor and the window table agree at every instant, also after a crash:
\* the cursor is RUNNING exactly when one weekly window is, and it names its run
\* and its bounds (begin_traffic_window, finish_traffic_window).
OpenWindows(kind) ==
  {r \in RunIds : runs[r].kind = kind /\ windows[r].status = "RUNNING"}
CursorAgrees ==
  OpenWindows("TRAFFIC") = IF cursor.status = "RUNNING" THEN {cursor.run} ELSE {}

\* A weekly window that was opened is retained with its bounds until a run of
\* exactly that window succeeds (technical-design: "Failed or incomplete windows
\* retain both boundaries for an identical retry").
ReplayUnchanged ==
  [][cursor.start # None =>
       \/ cursor'.start = cursor.start /\ cursor'.end = cursor.end
       \/ cursor'.last = cursor.end /\ cursor'.start = None]_cursor

\* run_archives holds only successful Sunday windows whose file exists, and a
\* file without a row belongs to a live run or was left by a crash or by a removal
\* that failed like the transaction before it.
ArchivesAgree ==
  /\ archives.rows \subseteq archives.files
  /\ \A r \in archives.rows : windows[r].status = "SUCCESS" /\ windows[r].end \in Sundays
  /\ Cardinality((archives.files \ archives.rows) \ Alive) <= crashes + lost

\* Whatever fails, rolls back or dies, the four tables and the directory of archives
\* tell one story.
TablesAgree == CursorAgrees /\ ArchivesAgree

\* A backfill is COMPLETED only with its cursor at its target (technical-design:
\* "reaching the target changes the terminal state to COMPLETED"; how-to: "state is
\* COMPLETED: no window remains").
CompletedAtTarget == backfill.status = "COMPLETED" => backfill.next = backfill.target

\* The code breaks it in one way only: extend_backfill checks the state before the
\* last window is opened, and writes the new target between the SELECT and the UPDATE
\* of update_backfill_window. The days up to the new target are then not collected,
\* and the same extension is refused from then on.
CompletedUnlessOvertaken == overtaken \/ CompletedAtTarget

\* The next window of a collector whose end was never recorded cannot be opened:
\* RUNNING, and no process will finish it. (Its refused runs go on for ever, and use
\* up the identifiers of the model.)
Abandoned(row) == row.status = "RUNNING" /\ row.run \notin Alive
Stuck == crashes + lost > 0 /\ (Abandoned(cursor) \/ Abandoned(backfill))

\* Scheduling: cron launches every wrapper again and again, at hours when the
\* lock is sometimes free, the days pass, and a live process takes its steps. The
\* weekly wrapper gives no --traffic-start; a launch by hand that does may fail
\* every time, but takes turns with those of cron.
Fairness ==
  /\ WF_vars(NextDay)
  /\ \A p \in Procs : WF_vars(Step(p)) /\ SF_vars(PlanWeekly(p, None))
  /\ \A p \in Procs : \A kind \in Kinds : SF_vars(Launch(p, kind))
FairSpec == Spec /\ Fairness

\* An initialised backfill is collected up to its target, however far an operator
\* moves it meanwhile and whatever windows fail, unless an end that was never
\* recorded leaves a row RUNNING or an extension overtakes the last window.
BackfillCompletes ==
  \/ <>Stuck
  \/ (backfill.status # "NONE") ~>
       (backfill.status = "COMPLETED" /\ (overtaken \/ backfill.next = backfill.target))

\* The weekly collector catches up with the days that pass: a backlog of windows
\* (after failures, or a --traffic-start in the past) is collected one by one until
\* less than a window is left, unless an end that was never recorded leaves a row
\* RUNNING.
WeeklyCatchesUp ==
  <>Stuck \/ <>[](cursor.last # None /\ cursor.last + WindowDays > today)

-----------------------------------------------------------------------------
(* The inductive invariant behind the theorems of TrafficWindowsProofs, for   *)
(* collectors that all take the lock (Direct = {}).                           *)

\* Every active collector holds the lock.
Serial == \A p \in Procs : pc[p] # "idle" => lock = p

\* The locals of an active collector: its outcome is ERROR until its window is
\* open, and its run row exists from the end of the planning on.
JobWellFormed(p) ==
  /\ pc[p] \notin Opened => job[p].outcome = "ERROR"
  /\ pc[p] = "archiving" => job[p].kind = "TRAFFIC"
  /\ pc[p] = "closing" => job[p].kind = "BACKFILL"
  /\ pc[p] \in Running => /\ job[p].kind # "NONE"
                          /\ job[p].run \in RunIds
                          /\ runs[job[p].run].kind = job[p].kind
                          /\ runs[job[p].run].status # "NONE"
  /\ pc[p] \in Running \ Opened => windows[job[p].run].status = "NONE"

WindowsWellFormed ==
  \A r \in RunIds :
    /\ runs[r].status = "NONE" => windows[r].status = "NONE"
    /\ windows[r].status # "NONE" =>
         windows[r].start \in Nat /\ windows[r].end \in Nat
         /\ windows[r].start < windows[r].end

\* No success passes the cursor, and an in-progress window starts at it.
CursorWellFormed ==
  /\ cursor.start # None => cursor.last \in {None, cursor.start}
  /\ \A r \in Successes("TRAFFIC") : windows[r].end <= cursor.last

\* The window of a weekly collector starts at the cursor, if there is one.
WeeklyJob(p) ==
  job[p].kind = "TRAFFIC" =>
    /\ pc[p] \in Running => /\ job[p].start \in Nat /\ job[p].end \in Nat
                            /\ job[p].start < job[p].end
    /\ pc[p] \in {"opening"} \cup Opened => cursor.last \in {None, job[p].start}
    /\ pc[p] \in Opened => /\ windows[job[p].run].start = job[p].start
                           /\ windows[job[p].run].end = job[p].end

\* While days are left the cursor is before the target; no success passes it.
BackfillWellFormed ==
  /\ backfill.status = "NONE" => backfill.next = None /\ extension = None
  /\ backfill.status # "NONE" => /\ backfill.next \in Nat /\ backfill.target \in Nat
                                 /\ backfill.next <= backfill.target
  /\ backfill.status \in {"PENDING", "RUNNING", "FAILED"} => backfill.next < backfill.target
  /\ extension # None => extension > backfill.target
  /\ \A r \in Successes("BACKFILL") : windows[r].end <= backfill.next

\* The window of a backfill collector starts at the backfill's cursor and ends
\* no later than its target, which only moves forward.
BackfillJob(p) ==
  job[p].kind = "BACKFILL" =>
    /\ pc[p] \in Running => backfill.status # "NONE"
    /\ pc[p] = "opening" => /\ job[p].leaseStart = backfill.next
                            /\ job[p].leaseStart < job[p].leaseEnd
                            /\ job[p].leaseEnd <= backfill.target
    /\ pc[p] \in Opened => /\ windows[job[p].run].start = backfill.next
                           /\ backfill.next < windows[job[p].run].end
                           /\ windows[job[p].run].end <= backfill.target
    /\ pc[p] \in Opened /\ (pc[p] = "collecting" \/ job[p].outcome = "SUCCESS") =>
         windows[job[p].run].end = job[p].end
    /\ pc[p] = "closing" /\ ~job[p].reached => job[p].end < backfill.target

JobsInv ==
  /\ Serial
  /\ \A p \in Procs : JobWellFormed(p) /\ WeeklyJob(p) /\ BackfillJob(p)

RowsInv ==
  /\ WindowsWellFormed
  /\ CursorWellFormed
  /\ BackfillWellFormed
  /\ WeeklyDisjoint
  /\ BackfillDisjoint

\* Everything the two cursors rely on, at every instant of every interleaving:
\* the rows of the four tables fit together, and every live collector's locals
\* fit the rows it is about to write.
IInv == JobsInv /\ RowsInv

\* The conjuncts that make TablesAgree inductive. In-progress bounds belong to a
\* RUNNING or FAILED cursor, and the archives on disk to known runs.
CursorRows ==
  /\ CursorAgrees
  /\ cursor.start # None => cursor.status \in {"RUNNING", "FAILED"}

ArchiveRows ==
  /\ ArchivesAgree
  /\ IsFiniteSet(archives.files)
  /\ \A r \in archives.files : r \in RunIds /\ runs[r].status # "NONE"

\* What a live collector relies on: the cursor still accepts its window, then names
\* its run and its bounds, and its archive file exists only once it is prepared.
TablesJob(p) ==
  /\ IF pc[p] \in Running THEN runs[job[p].run].status = "RUNNING"
                          ELSE job[p].run = NoRun
  /\ job[p].kind = "TRAFFIC" =>
       /\ pc[p] = "opening" => ~CursorRefuses(job[p].start, job[p].end)
       /\ pc[p] \in Opened =>
            /\ cursor.status = "RUNNING" /\ cursor.run = job[p].run
            /\ cursor.start = job[p].start /\ cursor.end = job[p].end
            /\ windows[job[p].run].status = "RUNNING"
  /\ pc[p] = "archiving" => job[p].outcome = "SUCCESS" /\ Archived(p)
  /\ job[p].run \in archives.files =>
       pc[p] = "finishing" /\ job[p].outcome = "SUCCESS" /\ Archived(p)

TablesInv == CursorRows /\ ArchiveRows /\ \A p \in Procs : TablesJob(p)

=============================================================================
