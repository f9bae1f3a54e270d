------------------------------ MODULE Launchers ------------------------------
(* The production timetable: the wrappers that cron launches, the flock they  *)
(* share, the processes of the command line they start, and the monitor.      *)
(*                                                                            *)
(* Time is counted in hours of the week, from Sunday 00:00 on; what happens   *)
(* within an hour interleaves. Ages are hours and are capped one hour past    *)
(* the limit they are compared with, so the weeks repeat without a horizon.   *)
(*                                                                            *)
(* Simplifications. The server's clock is UTC. A run of the command line is   *)
(* one step that begins it and one that ends it (PolicySnapshot, BatchLoop    *)
(* and TrafficWindows open them up), except for the gap between the two       *)
(* renames of a publication, which the monitor can see. The code bounds no    *)
(* run: one may last any time, and every hour beyond the room that the        *)
(* crontab leaves it counts as something that went wrong. The collector is    *)
(* the Python process: a Workloader command it started may outlive it,        *)
(* without descriptor 9, and still write into the directory of the dead run,  *)
(* which nobody reads. The monitor takes less than an hour; the archive it    *)
(* also looks for is in ArchiveStore.                                         *)
EXTENDS Naturals, FiniteSets

CONSTANTS
    Gate,           \* hours between two backfill attempts: 47
    SnapshotLimit,  \* hours after which the snapshot is stale: 26
    TrafficLimit,   \* hours after which the weekly cursor is stale: 192
    CheckHours,     \* hours of the day in which somebody calls the monitor
    MaxBehind,      \* weeks of delay beyond which they are not counted
    MaxFaults       \* failures, kills, collisions with the monitor, late hours

Kinds == {"POLICY", "TRAFFIC", "BACKFILL"}
Wrappers == {"daily", "weekly", "retry", "backfill"}
Hours == 0..167

ASSUME LaunchersAssumption ==
    /\ {Gate, SnapshotLimit, TrafficLimit, MaxBehind, MaxFaults} \subseteq Nat
    /\ CheckHours \subseteq 0..23

VARIABLES
    hour,      \* hour of the week
    due,       \* launches of this hour that cron has not made yet
    proc,      \* the wrappers and the process each of them waits for
    latest,    \* status of the latest row of runs, by kind
    dead,      \* rows of runs left RUNNING by a process that was killed
    snapshot,  \* age of the published snapshot, and whether its manifest is there
    cursor,    \* last_status of the weekly cursor, and the weeks it is behind
    backfill,  \* status of traffic-92-days, and the age of its latest run
    mon,       \* the monitor
    faults     \* what went wrong so far

vars == <<hour, due, proc, latest, dead, snapshot, cursor, backfill, mon, faults>>
state == <<latest, dead, snapshot, cursor, backfill>>

Capped(n, limit) == IF n > limit THEN limit + 1 ELSE n
Statuses == {"NONE", "RUNNING", "SUCCESS", "ERROR"}
Warnings == {"held", "retry"}
Alarms == {"interrupted", "policy", "traffic", "missing", "age", "failed", "lag"} \union Warnings

TypeOK ==
    /\ hour \in Hours
    /\ due \subseteq Wrappers
    /\ proc \in [Wrappers -> [at : {"off", "start", "gate", "run", "swap", "report"},
                              kind : Kinds, spent : 0..23, shell : BOOLEAN]]
    /\ latest \in [Kinds -> Statuses]
    /\ dead \in 0..faults
    /\ snapshot \in [age : 0..SnapshotLimit + 1, manifest : BOOLEAN]
    /\ cursor \in [status : {"RUNNING", "SUCCESS", "FAILED"}, behind : 0..MaxBehind + 1]
    /\ backfill \in [status : {"PENDING", "RUNNING", "FAILED", "COMPLETED"},
                     age : 0..Gate + 1]
    /\ mon \in [at : {"idle", "probed", "read", "done"}, lock : {"FREE", "HELD"},
                alarms : SUBSET Alarms]
    /\ faults \in 0..MaxFaults

KindOf(w) == CASE w = "daily" -> "POLICY" [] w = "backfill" -> "BACKFILL"
               [] OTHER -> "TRAFFIC"

Off == [at |-> "off", kind |-> "POLICY", spent |-> 0, shell |-> FALSE]
Started == [at |-> "start", kind |-> "POLICY", spent |-> 0, shell |-> TRUE]
QuietMonitor == [at |-> "idle", lock |-> "FREE", alarms |-> {}]

\* Mutant: Sunday has one launch.
LaunchesOnce(h) ==
    {w \in Wrappers : \/ w = "daily" /\ h % 24 = 0
                      \/ w = "weekly" /\ h = 1
                      \/ w = "backfill" /\ h % 24 = 3 /\ h >= 24}

\* The crontab: the policy at 00:10, the weekly traffic on Sunday at 01:00 and
\* at 02:00, the backfill at 03:00 from Monday to Saturday.
Launches(h) ==
    {w \in Wrappers : \/ w = "daily" /\ h % 24 = 0
                      \/ w = "weekly" /\ h = 1
                      \/ w = "retry" /\ h = 2
                      \/ w = "backfill" /\ h % 24 = 3 /\ h >= 24}

\* The hours the crontab leaves a wrapper: the policy run and the bouquets report end
\* before the retry of Sunday 02:00, the others before the policy run of the next day.
Room(w) == CASE w = "daily" -> 1 [] w = "weekly" -> 22 [] w = "retry" -> 21 [] OTHER -> 20

\* The supervised acceptance ran every wrapper by hand before cron was enabled.
Init ==
    /\ hour \in {h \in Hours : h % 24 = 9}
    /\ due = {}
    /\ proc = [w \in Wrappers |-> Off]
    /\ latest = [k \in Kinds |-> IF k = "BACKFILL" THEN "NONE" ELSE "SUCCESS"]
    /\ dead = 0
    /\ snapshot = [age |-> 0, manifest |-> TRUE]
    /\ cursor = [status |-> "SUCCESS", behind |-> 0]
    /\ backfill = [status |-> "PENDING", age |-> Gate]
    /\ mon = QuietMonitor
    /\ faults = 0

-----------------------------------------------------------------------------
(* The lock. File descriptor 9 of a wrapper is inherited by the command it    *)
(* runs: the flock is held until the last process that has it open is gone.   *)
Live == {w \in Wrappers : proc[w].at # "off"}
MonitorHolds == mon.at # "idle" /\ mon.lock = "FREE"
\* Mutants: the command does not inherit the descriptor; the monitor only probes.
HeldByShell == (\E w \in Live : proc[w].shell) \/ MonitorHolds
HeldByWrapper == Live # {}
Held == Live # {} \/ MonitorHolds

Fault == faults < MaxFaults /\ faults' = faults + 1

\* rr_lock succeeds.
Launch(w) ==
    /\ w \in due /\ ~Held
    /\ due' = due \ {w}
    /\ proc' = [proc EXCEPT ![w] = Started]
    /\ UNCHANGED <<hour, state, mon, faults>>

\* rr_lock fails: the wrapper exits with 75 and nothing retries it.
Collide(w) ==
    /\ w \in due /\ Held
    /\ due' = due \ {w}
    /\ IF Live = {} THEN Fault ELSE UNCHANGED faults
    /\ UNCHANGED <<hour, proc, state, mon>>

Goes(w, at) == proc' = [proc EXCEPT ![w].at = at]
Exits(w) == proc' = [proc EXCEPT ![w] = Off]
Begins(w, k) ==
    /\ proc' = [proc EXCEPT ![w] = [@ EXCEPT !.at = "run", !.kind = k]]
    /\ latest' = [latest EXCEPT ![k] = "RUNNING"]

\* Mutant: the latest run of any type counts for the gate.
EnsureAnyType(w) ==
    /\ proc[w].at = "start"
    /\ IF w = "daily" \/ ~snapshot.manifest
       THEN Begins(w, "POLICY") /\ backfill' = [backfill EXCEPT !.age = 0]
       ELSE Goes(w, "gate") /\ UNCHANGED <<latest, backfill>>
    /\ UNCHANGED <<hour, due, dead, snapshot, cursor, mon, faults>>

\* The daily wrapper collects the policy at once, a traffic wrapper only when the
\* manifest of the snapshot is missing (rr_ensure_snapshot).
Ensure(w) ==
    /\ proc[w].at = "start"
    /\ IF w = "daily" \/ ~snapshot.manifest THEN Begins(w, "POLICY")
       ELSE Goes(w, "gate") /\ UNCHANGED latest
    /\ UNCHANGED <<hour, due, dead, snapshot, cursor, backfill, mon, faults>>

\* A process that was killed left the row RUNNING: another window is refused and its
\* run ends with ERROR.
Refused(k) == CASE k = "TRAFFIC" -> cursor.status = "RUNNING"
                [] k = "BACKFILL" -> backfill.status = "RUNNING"
                [] OTHER -> FALSE

WeeklyDue == cursor.behind > 0
BackfillDue == hour >= 24 /\ backfill.status # "COMPLETED" /\ backfill.age >= Gate

\* The cursor of the weekly wrapper, the weekday and the 47 hours of the backfill
\* wrapper; then the run, if one is due.
GateStep(w) ==
    /\ proc[w].at = "gate"
    /\ LET k == KindOf(w)
           isDue == IF k = "TRAFFIC" THEN WeeklyDue ELSE BackfillDue
       IN /\ CASE ~isDue -> Exits(w) /\ UNCHANGED latest
               [] isDue /\ Refused(k) -> Exits(w) /\ latest' = [latest EXCEPT ![k] = "ERROR"]
               [] OTHER -> Begins(w, k)
          /\ cursor' = IF isDue /\ k = "TRAFFIC" THEN [cursor EXCEPT !.status = "RUNNING"]
                       ELSE cursor
          /\ backfill' = IF isDue /\ k = "BACKFILL" THEN [status |-> "RUNNING", age |-> 0]
                         ELSE backfill
    /\ UNCHANGED <<hour, due, dead, snapshot, mon, faults>>

-----------------------------------------------------------------------------
(* The command line.                                                          *)

\* A publication renames the published directory away ...
Swap(w) ==
    /\ proc[w].at = "run" /\ proc[w].kind = "POLICY"
    /\ Goes(w, "swap")
    /\ snapshot' = [snapshot EXCEPT !.manifest = FALSE]
    /\ UNCHANGED <<hour, due, latest, dead, cursor, backfill, mon, faults>>

\* ... and the new one into its place. The shell, when it still lives, goes on:
\* with the bouquets report or with the traffic it bootstrapped the snapshot for.
Publish(w) ==
    /\ proc[w].at = "swap"
    /\ snapshot' = [age |-> 0, manifest |-> TRUE]
    /\ latest' = [latest EXCEPT !["POLICY"] = "SUCCESS"]
    /\ IF proc[w].shell THEN Goes(w, IF w = "daily" THEN "report" ELSE "gate")
       ELSE Exits(w)
    /\ UNCHANGED <<hour, due, dead, cursor, backfill, mon, faults>>

Report(w) ==
    /\ proc[w].at = "report"
    /\ Exits(w)
    /\ UNCHANGED <<hour, due, state, mon, faults>>

Collected(w) ==
    /\ proc[w].at = "run" /\ proc[w].kind # "POLICY"
    /\ Exits(w)
    /\ latest' = [latest EXCEPT ![proc[w].kind] = "SUCCESS"]
    /\ IF proc[w].kind = "TRAFFIC"
       THEN /\ cursor' = [status |-> "SUCCESS", behind |-> cursor.behind - 1]
            /\ UNCHANGED backfill
       ELSE /\ \E s \in {"PENDING", "COMPLETED"} : backfill' = [backfill EXCEPT !.status = s]
            /\ UNCHANGED cursor
    /\ UNCHANGED <<hour, due, dead, snapshot, mon, faults>>

\* A run fails and says so: the cursor is not moved, a publication is undone, the
\* wrapper exits (set -e).
Fails(w) ==
    /\ proc[w].at \in {"run", "swap"} /\ Fault
    /\ Exits(w)
    /\ latest' = [latest EXCEPT ![proc[w].kind] = "ERROR"]
    /\ snapshot' = IF proc[w].at = "swap" THEN [snapshot EXCEPT !.manifest = TRUE] ELSE snapshot
    /\ cursor' = IF proc[w].kind = "TRAFFIC" THEN [cursor EXCEPT !.status = "FAILED"] ELSE cursor
    /\ backfill' = IF proc[w].kind = "BACKFILL" THEN [backfill EXCEPT !.status = "FAILED"]
                   ELSE backfill
    /\ UNCHANGED <<hour, due, dead, mon>>

\* The Python process is killed: its rows stay as they are, the wrapper exits. The
\* lock is free although a Workloader command may run on.
KillRun(w) ==
    /\ proc[w].at \in {"run", "swap"} /\ Fault
    /\ Exits(w)
    /\ dead' = dead + 1
    /\ UNCHANGED <<hour, due, latest, snapshot, cursor, backfill, mon>>

\* The shell is killed: its command goes on, and holds the lock.
KillShell(w) ==
    /\ proc[w].shell /\ Fault
    /\ IF proc[w].at \in {"run", "swap", "report"}
       THEN proc' = [proc EXCEPT ![w].shell = FALSE] ELSE Exits(w)
    /\ UNCHANGED <<hour, due, state, mon>>

\* The operator moves the target of a completed backfill.
Extend ==
    /\ backfill.status = "COMPLETED"
    /\ backfill' = [backfill EXCEPT !.status = "PENDING"]
    /\ UNCHANGED <<hour, due, proc, latest, dead, snapshot, cursor, mon, faults>>

-----------------------------------------------------------------------------
(* The monitor: it tries the lock, keeps it when it was free, and reads.      *)
RunningRows == dead + Cardinality({w \in Live : proc[w].at \in {"run", "swap"}})
CursorAge == 168 * cursor.behind + hour

Probe ==
    /\ mon.at = "idle" /\ hour % 24 \in CheckHours
    /\ mon' = [at |-> "probed", lock |-> IF Held THEN "HELD" ELSE "FREE", alarms |-> {}]
    /\ UNCHANGED <<hour, due, proc, state, faults>>

\* Mutant: a run in progress counts as one that failed.
BadUnlessDone(k) == latest[k] # "SUCCESS"

Bad(k) == /\ latest[k] # "SUCCESS"
          /\ ~(latest[k] = "RUNNING" /\ mon.lock = "HELD")

RunAlarms ==
    {a \in Alarms : \/ a = "held" /\ mon.lock = "HELD"
                    \/ a = "interrupted" /\ mon.lock = "FREE" /\ RunningRows > 0
                    \/ a = "policy" /\ Bad("POLICY")
                    \/ a = "traffic" /\ Bad("TRAFFIC")}

StateAlarms ==
    {a \in Alarms : \/ a = "missing" /\ ~snapshot.manifest
                    \/ a = "age" /\ snapshot.manifest /\ snapshot.age > SnapshotLimit
                    \/ a = "failed" /\ cursor.status = "FAILED"
                    \/ a = "lag" /\ CursorAge > TrafficLimit
                    \/ a = "retry" /\ backfill.status = "FAILED"}

\* The rows of runs and the other tables are read by separate statements.
ReadRuns ==
    /\ mon.at = "probed"
    /\ mon' = [mon EXCEPT !.at = "read", !.alarms = RunAlarms]
    /\ UNCHANGED <<hour, due, proc, state, faults>>

ReadState ==
    /\ mon.at = "read"
    /\ mon' = [mon EXCEPT !.at = "done", !.alarms = @ \union StateAlarms]
    /\ UNCHANGED <<hour, due, proc, state, faults>>

\* The report is printed and the lock, if it was taken, is released.
EndCheck ==
    /\ mon.at = "done"
    /\ mon' = QuietMonitor
    /\ UNCHANGED <<hour, due, proc, state, faults>>

-----------------------------------------------------------------------------
\* An hour passes: cron has made its launches, and a process is still in its run, even
\* beyond the room it had.
Tick ==
    /\ due = {} /\ mon.at = "idle"
    /\ \A w \in Live : proc[w].at = "run"
    /\ IF \E w \in Live : proc[w].spent >= Room(w) THEN Fault ELSE UNCHANGED faults
    /\ hour' = (hour + 1) % 168
    /\ due' = Launches(hour')
    /\ proc' = [w \in Wrappers |-> IF w \in Live
                                   THEN [proc[w] EXCEPT !.spent = Capped(@ + 1, Room(w))]
                                   ELSE proc[w]]
    /\ snapshot' = [snapshot EXCEPT !.age = Capped(@ + 1, SnapshotLimit)]
    /\ cursor' = IF hour' = 0 THEN [cursor EXCEPT !.behind = Capped(@ + 1, MaxBehind)]
                 ELSE cursor
    /\ backfill' = [backfill EXCEPT !.age = Capped(@ + 1, Gate)]
    /\ UNCHANGED <<latest, dead, mon>>

Next ==
    \/ \E w \in Wrappers :
         \/ Launch(w) \/ Collide(w) \/ Ensure(w) \/ GateStep(w)
         \/ Swap(w) \/ Publish(w) \/ Report(w) \/ Collected(w)
         \/ Fails(w) \/ KillRun(w) \/ KillShell(w)
    \/ Extend
    \/ Probe \/ ReadRuns \/ ReadState \/ EndCheck
    \/ Tick

Spec == Init /\ [][Next]_vars

\* Cron makes its launches, the processes go on, the monitor ends, and time passes
\* however often somebody calls the monitor.
FairSpec ==
    /\ Spec
    /\ SF_vars(\E w \in Wrappers : Launch(w) \/ Collide(w))
    /\ \A w \in Wrappers :
          WF_vars(Ensure(w) \/ GateStep(w) \/ Swap(w) \/ Publish(w) \/ Report(w) \/ Collected(w))
    /\ WF_vars(ReadRuns \/ ReadState \/ EndCheck)
    /\ SF_vars(Tick)

-----------------------------------------------------------------------------
(* Properties.                                                                *)

\* Never two collectors: whatever is killed, the shell or the command it waits for,
\* a process started under the lock is gone before another wrapper gets it
\* (collection_common.sh:20-26). The monitor, when it found the lock free, excludes
\* every collector until it has printed its line.
OneCollector ==
    /\ \A v, w \in Live : v = w
    /\ MonitorHolds => Live = {}

\* An OK line is true when it is printed, although the lock, the runs and the other
\* tables were looked at one after the other: nothing runs, nothing was interrupted,
\* and snapshot and cursor are within their limits.
OkIsTrue ==
    mon.at = "done" /\ mon.alarms = {} =>
        /\ RunningRows = 0
        /\ latest["POLICY"] = "SUCCESS" /\ latest["TRAFFIC"] = "SUCCESS"
        /\ snapshot.manifest /\ snapshot.age <= SnapshotLimit
        /\ cursor.status # "FAILED" /\ CursorAge <= TrafficLimit

\* "interrupted_runs" is never a false alarm: a process did die with its row RUNNING,
\* whatever cron launches between the probe of the lock and the count of the rows.
AlarmIsReal == "interrupted" \in mon.alarms => dead > 0

\* A CRITICAL check means that something went wrong, be it a run that outlasted its room:
\* the limits of 26 and 192 hours and the runs in progress never cause one. The one
\* exception is a check that finds the lock held by a publication between its two
\* renames: snapshot=MISSING.
QuietIsHealthy ==
    faults = 0 => mon.alarms \subseteq Warnings
                    \union (IF mon.lock = "HELD" THEN {"missing"} ELSE {})

\* From Monday on the weekly cursor is behind by no more weeks than things went wrong:
\* each failure, collision, killed shell or late hour costs at most one week, also when a
\* backfill or a policy run lasts into the Sunday launches, and the two launches of a
\* Sunday never let the delay grow by themselves. A killed run is
\* excepted: its window stays RUNNING until an operator looks at it.
LagIsBounded == dead = 0 /\ hour >= 24 => cursor.behind <= faults

\* The gate of 47 hours, the weekdays of the crontab and the runs that hold the lock
\* never keep an unfinished backfill waiting for ever, whatever else failed.
BackfillAttempted ==
    backfill.status \in {"PENDING", "FAILED"} ~> backfill.status = "RUNNING"
=============================================================================
