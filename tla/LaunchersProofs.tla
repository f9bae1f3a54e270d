--------------------------- MODULE LaunchersProofs ---------------------------
(* For every limit, number of faults and length of the runs: the wrappers and *)
(* the monitor exclude each other, an OK line is true when it is printed, an  *)
(* interrupted run is never reported without a process that died, the weekly  *)
(* cursor lags by no more weeks than things went wrong, and an alarm is a     *)
(* sign that something did. And for every delay: Polling ends in time and     *)
(* returns nothing finished as pending.                                       *)
EXTENDS Launchers, Polling, FiniteSetTheorems, TLAPS

Proc == [at : {"off", "start", "gate", "run", "swap", "report"},
         kind : Kinds, spent : 0..23, shell : BOOLEAN]
Monitor == [at : {"idle", "probed", "read", "done"}, lock : {"FREE", "HELD"},
            alarms : SUBSET Alarms]

\* A weekly run in progress still has its window to collect.
RunHasWindow ==
    \A w \in Wrappers : proc[w].at = "run" /\ proc[w].kind = "TRAFFIC" => cursor.behind > 0

\* What the monitor read of the runs while it holds the lock is still so.
RunsRead ==
    mon.at \in {"read", "done"} /\ mon.alarms = {} =>
        /\ mon.lock = "FREE" /\ RunningRows = 0
        /\ latest["POLICY"] = "SUCCESS" /\ latest["TRAFFIC"] = "SUCCESS"

IInv == TypeOK /\ OneCollector /\ RunHasWindow /\ AlarmIsReal /\ RunsRead /\ OkIsTrue

-----------------------------------------------------------------------------
\* A number that is capped stays a natural number below its cap.
LEMMA CappedInRange ==
    ASSUME NEW limit \in Nat, NEW n \in Nat
    PROVE  Capped(n, limit) \in 0..limit + 1
BY DEF Capped

LEMMA OffTyped == Off \in Proc /\ Started \in Proc
<1>1. Off \in Proc BY DEF Off, Proc, Kinds
<1>2. Started \in Proc BY DEF Started, Proc, Kinds
<1> QED BY <1>1, <1>2

\* The steps of a wrapper that change its process one field at a time.
LEMMA ProcChanges ==
    ASSUME NEW p \in Proc,
           NEW at \in {"off", "start", "gate", "run", "swap", "report"}
    PROVE  [p EXCEPT !.at = at] \in Proc /\ [p EXCEPT !.shell = FALSE] \in Proc
<1>1. [p EXCEPT !.at = at] \in Proc BY DEF Proc
<1>2. [p EXCEPT !.shell = FALSE] \in Proc BY DEF Proc
<1> QED BY <1>1, <1>2

\* A wrapper that begins a run keeps its hours and its shell.
LEMMA RunChanges ==
    ASSUME NEW p \in Proc, NEW k \in Kinds
    PROVE  LET r == [p EXCEPT !.at = "run", !.kind = k]
           IN /\ r \in Proc /\ r.at = "run" /\ r.kind = k /\ r.spent = p.spent
              /\ r.shell = p.shell
BY DEF Proc

\* The room of a wrapper, and a process that spends an hour more.
LEMMA Rooms ==
    /\ Room("daily") = 1 /\ Room("weekly") = 22 /\ Room("retry") = 21 /\ Room("backfill") = 20
    /\ \A w \in Wrappers : Room(w) \in 1..22
BY DEF Room, Wrappers

LEMMA HourSpent ==
    ASSUME NEW w \in Wrappers, NEW p \in Proc
    PROVE  LET r == [p EXCEPT !.spent = Capped(@ + 1, Room(w))]
           IN /\ r \in Proc /\ r.at = p.at /\ r.kind = p.kind
              /\ p.spent \in Nat /\ r.spent \in Nat
              /\ IF p.spent >= Room(w) THEN r.spent > Room(w)
                 ELSE r.spent = p.spent + 1 /\ r.spent <= Room(w)
<1> DEFINE n == Capped(p.spent + 1, Room(w))
<1>1. p.spent \in Nat /\ Room(w) \in Nat /\ Room(w) <= 22
    BY Rooms DEF Proc
<1>2. /\ n \in 0..23
      /\ IF p.spent >= Room(w) THEN n > Room(w) ELSE n = p.spent + 1 /\ n <= Room(w)
    BY <1>1 DEF Capped
<1> HIDE DEF n
<1>3. LET r == [p EXCEPT !.spent = n]
      IN r \in Proc /\ r.at = p.at /\ r.kind = p.kind /\ r.spent = n
    BY <1>2 DEF Proc
<1> QED BY <1>1, <1>2, <1>3 DEF n

LEMMA KindsOfWrappers == \A w \in Wrappers : KindOf(w) \in Kinds
BY DEF Wrappers, KindOf, Kinds

\* Without a live process no row is RUNNING but those of dead ones.
LEMMA NoneRunning == ASSUME Live = {}, dead \in Nat PROVE RunningRows = dead
<1>1. {w \in Live : proc[w].at \in {"run", "swap"}} = {}
    OBVIOUS
<1>2. Cardinality({w \in Live : proc[w].at \in {"run", "swap"}}) = 0
    BY <1>1, FS_EmptySet
<1> QED BY <1>2 DEF RunningRows

\* The shape of proc and of what begins or ends a run.
LEMMA StepTypes ==
    ASSUME TypeOK, NEW w \in Wrappers, NEW k \in Kinds,
           NEW at \in {"off", "start", "gate", "run", "swap", "report"}
    PROVE  /\ proc \in [Wrappers -> Proc]
           /\ Exits(w) => proc' \in [Wrappers -> Proc]
           /\ Goes(w, at) => proc' \in [Wrappers -> Proc]
           /\ Begins(w, k) => proc' \in [Wrappers -> Proc] /\ latest' \in [Kinds -> Statuses]
<1>1. proc \in [Wrappers -> Proc] /\ latest \in [Kinds -> Statuses]
    BY DEF TypeOK, Proc
<1>2. Exits(w) => proc' \in [Wrappers -> Proc]
    BY <1>1, OffTyped DEF Exits
<1>3. Goes(w, at) => proc' \in [Wrappers -> Proc]
  <2>1. [proc[w] EXCEPT !.at = at] \in Proc BY <1>1, ProcChanges
  <2> QED BY <1>1, <2>1 DEF Goes
<1>4. Begins(w, k) => proc' \in [Wrappers -> Proc] /\ latest' \in [Kinds -> Statuses]
  <2>1. [proc[w] EXCEPT !.at = "run", !.kind = k] \in Proc BY <1>1, RunChanges
  <2> QED BY <1>1, <2>1 DEF Begins, Statuses
<1> QED BY <1>1, <1>2, <1>3, <1>4

LEMMA RunBegins ==
    ASSUME TypeOK, NEW w \in Wrappers, NEW k \in Kinds, Begins(w, k)
    PROVE  /\ proc'[w].at = "run" /\ proc'[w].kind = k /\ proc'[w].spent = proc[w].spent
           /\ \A v \in Wrappers : v # w => proc'[v] = proc[v]
<1>1. proc \in [Wrappers -> Proc]
    BY DEF TypeOK, Proc
<1>2. /\ proc'[w] = [proc[w] EXCEPT !.at = "run", !.kind = k]
      /\ \A v \in Wrappers : v # w => proc'[v] = proc[v]
    BY <1>1 DEF Begins
<1>3. LET r == [proc[w] EXCEPT !.at = "run", !.kind = k]
      IN r.at = "run" /\ r.kind = k /\ r.spent = proc[w].spent
    BY <1>1, RunChanges
<1> QED BY <1>2, <1>3

\* An hour passes for every process.
LEMMA TickKeeps ==
    ASSUME TypeOK, Tick, NEW w \in Wrappers
    PROVE  /\ proc'[w].at = proc[w].at /\ proc'[w].kind = proc[w].kind
           /\ proc[w].spent \in Nat /\ proc'[w].spent \in Nat
           /\ proc[w].at # "off" =>
                 IF proc[w].spent >= Room(w) THEN proc'[w].spent > Room(w)
                 ELSE proc'[w].spent = proc[w].spent + 1 /\ proc'[w].spent <= Room(w)
<1>1. proc[w] \in Proc
    BY DEF TypeOK, Proc
<1>2. proc'[w] = IF proc[w].at # "off" THEN [proc[w] EXCEPT !.spent = Capped(@ + 1, Room(w))]
                 ELSE proc[w]
    BY DEF Tick, Live
<1>3. CASE proc[w].at = "off"
    BY <1>1, <1>2, <1>3, HourSpent
<1>4. CASE proc[w].at # "off"
  <2>1. proc'[w] = [proc[w] EXCEPT !.spent = Capped(@ + 1, Room(w))]
      BY <1>2, <1>4
  <2> QED BY <1>1, <2>1, HourSpent
<1> QED BY <1>3, <1>4

-----------------------------------------------------------------------------
\* The steps of one wrapper keep the types; a run of the weekly traffic ends with a
\* window to take off the delay.
LEMMA WrapperTypes ==
    ASSUME TypeOK, RunHasWindow, NEW w \in Wrappers,
           \/ Launch(w) \/ Collide(w) \/ Ensure(w) \/ GateStep(w)
           \/ Swap(w) \/ Publish(w) \/ Report(w) \/ Collected(w)
           \/ Fails(w) \/ KillRun(w) \/ KillShell(w)
    PROVE  TypeOK'
<1> USE DEF TypeOK, state
<1>0. MaxFaults \in Nat /\ MaxBehind \in Nat /\ SnapshotLimit \in Nat /\ Gate \in Nat
    BY LaunchersAssumption
<1>1. proc \in [Wrappers -> Proc] /\ proc[w] \in Proc
    BY StepTypes, KindsOfWrappers
<1>2. Exits(w) => proc' \in [Wrappers -> Proc]
    BY <1>1, OffTyped DEF Exits
<1>3. \A at \in {"off", "start", "gate", "run", "swap", "report"} :
         Goes(w, at) => proc' \in [Wrappers -> Proc]
    BY StepTypes, KindsOfWrappers
<1>4. \A k \in Kinds : Begins(w, k) => /\ proc' \in [Wrappers -> Proc]
                                       /\ latest' \in [Kinds -> Statuses]
    BY StepTypes
<1>5. \A s \in Statuses, k \in Kinds : [latest EXCEPT ![k] = s] \in [Kinds -> Statuses]
    OBVIOUS
<1>6. proc[w].kind \in Kinds BY <1>1 DEF Proc
<1>7. proc' \in [Wrappers -> Proc]
      => proc' \in [Wrappers -> [at : {"off", "start", "gate", "run", "swap", "report"},
                                 kind : Kinds, spent : 0..23, shell : BOOLEAN]]
    BY DEF Proc
<1>8. CASE Launch(w)
  <2>1. proc' \in [Wrappers -> Proc] BY <1>8, <1>1, OffTyped DEF Launch
  <2> QED BY <1>8, <2>1, <1>7 DEF Launch
<1>9. CASE Collide(w)
  <2>1. faults' \in 0..MaxFaults /\ dead' \in 0..faults'
      BY <1>9, <1>0 DEF Collide, Fault
  <2> QED BY <1>9, <2>1 DEF Collide
<1>10. CASE Ensure(w)
  <2>1. proc' \in [Wrappers -> Proc] /\ latest' \in [Kinds -> Statuses]
      BY <1>10, <1>3, <1>4 DEF Ensure, Kinds
  <2> QED BY <1>10, <2>1, <1>7 DEF Ensure
<1>11. CASE GateStep(w)
  <2>1. proc' \in [Wrappers -> Proc] /\ latest' \in [Kinds -> Statuses]
      BY <1>11, <1>2, <1>4, <1>5, KindsOfWrappers DEF GateStep, Statuses
  <2>2. cursor' \in [status : {"RUNNING", "SUCCESS", "FAILED"}, behind : 0..MaxBehind + 1]
      BY <1>11 DEF GateStep
  <2>3. backfill' \in [status : {"PENDING", "RUNNING", "FAILED", "COMPLETED"}, age : 0..Gate + 1]
      BY <1>11, <1>0 DEF GateStep
  <2> QED BY <1>11, <2>1, <2>2, <2>3, <1>7 DEF GateStep
<1>12. CASE Swap(w)
  <2>1. proc' \in [Wrappers -> Proc] BY <1>12, <1>3 DEF Swap
  <2>2. snapshot' \in [age : 0..SnapshotLimit + 1, manifest : BOOLEAN] BY <1>12 DEF Swap
  <2> QED BY <1>12, <2>1, <2>2, <1>7 DEF Swap
<1>13. CASE Publish(w)
  <2>1. proc' \in [Wrappers -> Proc] BY <1>13, <1>2, <1>3 DEF Publish
  <2>2. snapshot' \in [age : 0..SnapshotLimit + 1, manifest : BOOLEAN]
      BY <1>13, <1>0 DEF Publish
  <2>3. latest' \in [Kinds -> Statuses] BY <1>13, <1>5 DEF Publish, Statuses, Kinds
  <2> QED BY <1>13, <2>1, <2>2, <2>3, <1>7 DEF Publish
<1>14. CASE Report(w)
    BY <1>14, <1>2, <1>7 DEF Report
<1>15. CASE Collected(w)
  <2>1. proc' \in [Wrappers -> Proc] BY <1>15, <1>2 DEF Collected
  <2>2. latest' \in [Kinds -> Statuses] BY <1>15, <1>5, <1>6 DEF Collected, Statuses
  <2>3. cursor' \in [status : {"RUNNING", "SUCCESS", "FAILED"}, behind : 0..MaxBehind + 1]
      BY <1>15, <1>0 DEF Collected, RunHasWindow
  <2>4. backfill' \in [status : {"PENDING", "RUNNING", "FAILED", "COMPLETED"}, age : 0..Gate + 1]
      BY <1>15 DEF Collected
  <2> QED BY <1>15, <2>1, <2>2, <2>3, <2>4, <1>7 DEF Collected
<1>16. CASE Fails(w)
  <2>1. proc' \in [Wrappers -> Proc] BY <1>16, <1>2 DEF Fails
  <2>2. latest' \in [Kinds -> Statuses] BY <1>16, <1>5, <1>6 DEF Fails, Statuses
  <2>3. snapshot' \in [age : 0..SnapshotLimit + 1, manifest : BOOLEAN] BY <1>16 DEF Fails
  <2>4. cursor' \in [status : {"RUNNING", "SUCCESS", "FAILED"}, behind : 0..MaxBehind + 1]
      BY <1>16 DEF Fails
  <2>5. backfill' \in [status : {"PENDING", "RUNNING", "FAILED", "COMPLETED"}, age : 0..Gate + 1]
      BY <1>16 DEF Fails
  <2>6. faults' \in 0..MaxFaults /\ dead' \in 0..faults' BY <1>16, <1>0 DEF Fails, Fault
  <2> QED BY <1>16, <2>1, <2>2, <2>3, <2>4, <2>5, <2>6, <1>7 DEF Fails
<1>17. CASE KillRun(w)
  <2>1. proc' \in [Wrappers -> Proc] BY <1>17, <1>2 DEF KillRun
  <2>2. faults' \in 0..MaxFaults /\ dead' \in 0..faults' BY <1>17, <1>0 DEF KillRun, Fault
  <2> QED BY <1>17, <2>1, <2>2, <1>7 DEF KillRun
<1>18. CASE KillShell(w)
  <2>1. [proc[w] EXCEPT !.shell = FALSE] \in Proc BY <1>1, ProcChanges
  <2>2. proc' \in [Wrappers -> Proc] BY <1>18, <1>1, <1>2, <2>1 DEF KillShell
  <2>3. faults' \in 0..MaxFaults /\ dead' \in 0..faults' BY <1>18, <1>0 DEF KillShell, Fault
  <2> QED BY <1>18, <2>2, <2>3, <1>7 DEF KillShell
<1> QED BY <1>8, <1>9, <1>10, <1>11, <1>12, <1>13, <1>14, <1>15, <1>16, <1>17, <1>18

\* So do the monitor, the operator and the passing of an hour.
LEMMA OtherTypes ==
    ASSUME TypeOK, Extend \/ Probe \/ ReadRuns \/ ReadState \/ EndCheck \/ Tick
    PROVE  TypeOK'
<1> USE DEF TypeOK, state
<1>0. MaxFaults \in Nat /\ MaxBehind \in Nat /\ SnapshotLimit \in Nat /\ Gate \in Nat
    BY LaunchersAssumption
<1>1. CASE Extend
    BY <1>1 DEF Extend
<1>2. CASE Probe
  <2>1. mon' \in Monitor BY <1>2 DEF Probe, Monitor
  <2> QED BY <1>2, <2>1 DEF Probe, Monitor
<1>3. CASE ReadRuns
  <2>1. RunAlarms \in SUBSET Alarms BY DEF RunAlarms
  <2>2. mon' \in Monitor BY <1>3, <2>1 DEF ReadRuns, Monitor
  <2> QED BY <1>3, <2>2 DEF ReadRuns, Monitor
<1>4. CASE ReadState
  <2>1. StateAlarms \in SUBSET Alarms BY DEF StateAlarms
  <2>2. mon.alarms \union StateAlarms \in SUBSET Alarms BY <2>1
  <2>3. mon' \in Monitor BY <1>4, <2>2 DEF ReadState, Monitor
  <2> QED BY <1>4, <2>3 DEF ReadState, Monitor
<1>5. CASE EndCheck
    BY <1>5 DEF EndCheck, QuietMonitor
<1>6. CASE Tick
  <2>1. hour' \in Hours /\ due' \subseteq Wrappers
      BY <1>6 DEF Tick, Hours, Launches
  <2>2. \A w \in Live : [proc[w] EXCEPT !.spent = Capped(@ + 1, Room(w))] \in Proc
    <3>1. \A w \in Live : w \in Wrappers /\ proc[w] \in Proc BY DEF Live, Proc
    <3> QED BY <3>1, HourSpent
  <2>3. proc' \in [Wrappers -> Proc] BY <1>6, <2>2 DEF Tick, Proc
  <2>4. snapshot' \in [age : 0..SnapshotLimit + 1, manifest : BOOLEAN]
    <3>1. snapshot.age + 1 \in Nat BY <1>0
    <3>2. Capped(snapshot.age + 1, SnapshotLimit) \in 0..SnapshotLimit + 1
        BY <1>0, <3>1, CappedInRange
    <3> QED BY <1>6, <3>2 DEF Tick
  <2>5. cursor' \in [status : {"RUNNING", "SUCCESS", "FAILED"}, behind : 0..MaxBehind + 1]
    <3>1. cursor.behind + 1 \in Nat BY <1>0
    <3>2. Capped(cursor.behind + 1, MaxBehind) \in 0..MaxBehind + 1
        BY <1>0, <3>1, CappedInRange
    <3> QED BY <1>6, <3>2 DEF Tick
  <2>6. backfill' \in [status : {"PENDING", "RUNNING", "FAILED", "COMPLETED"}, age : 0..Gate + 1]
    <3>1. backfill.age + 1 \in Nat BY <1>0
    <3>2. Capped(backfill.age + 1, Gate) \in 0..Gate + 1
        BY <1>0, <3>1, CappedInRange
    <3> QED BY <1>6, <3>2 DEF Tick
  <2>7. faults' \in 0..MaxFaults /\ dead' \in 0..faults' BY <1>6, <1>0 DEF Tick, Fault
  <2> QED BY <1>6, <2>1, <2>3, <2>4, <2>5, <2>6, <2>7 DEF Tick, Proc
<1> QED BY <1>1, <1>2, <1>3, <1>4, <1>5, <1>6

-----------------------------------------------------------------------------
\* A wrapper starts only when no process and no monitor holds the lock; every other
\* step leaves the live processes alone or ends one.
LEMMA ExclusionStep ==
    ASSUME TypeOK, OneCollector, Next
    PROVE  OneCollector'
<1>1. proc \in [Wrappers -> Proc] BY DEF TypeOK, Proc
<1>2. ASSUME NEW w \in Wrappers, Launch(w) PROVE OneCollector'
  <2>1. Live = {} /\ ~MonitorHolds BY <1>2 DEF Launch, Held
  <2>2. Live' \subseteq {w} BY <1>1, <1>2, <2>1 DEF Launch, Live
  <2>3. ~MonitorHolds' BY <1>2, <2>1 DEF Launch, MonitorHolds
  <2> QED BY <2>2, <2>3 DEF OneCollector
<1>3. ASSUME NEW w \in Wrappers, mon' = mon, proc[w].at # "off",
             \A v \in Wrappers \ {w} : proc'[v] = proc[v]
      PROVE  OneCollector'
  <2>1. w \in Live BY <1>3 DEF Live
  <2>2. Live = {w} /\ ~MonitorHolds BY <2>1 DEF OneCollector
  <2>3. Live' \subseteq {w} BY <1>3, <2>2 DEF Live
  <2>4. ~MonitorHolds' BY <1>3, <2>2 DEF MonitorHolds
  <2> QED BY <2>3, <2>4 DEF OneCollector
<1>4. ASSUME NEW w \in Wrappers,
             \/ Ensure(w) \/ GateStep(w) \/ Swap(w) \/ Publish(w) \/ Report(w)
             \/ Collected(w) \/ Fails(w) \/ KillRun(w) \/ KillShell(w)
      PROVE  OneCollector'
  <2>1. mon' = mon
      BY <1>4 DEF Ensure, GateStep, Swap, Publish, Report, Collected, Fails, KillRun, KillShell
  <2>2. \A v \in Wrappers \ {w} : proc'[v] = proc[v]
      BY <1>1, <1>4 DEF Ensure, GateStep, Swap, Publish, Report, Collected, Fails, KillRun,
                        KillShell, Exits, Goes, Begins
  <2>3. CASE proc[w].at # "off" BY <1>3, <2>1, <2>2, <2>3
  <2>4. CASE KillShell(w) /\ proc[w].at = "off"
    <3>1. proc'[w].at = "off" BY <1>1, <2>4 DEF KillShell, Exits, Off
    <3>2. Live' = Live BY <2>2, <2>4, <3>1 DEF Live
    <3> QED BY <2>1, <3>2 DEF OneCollector, MonitorHolds
  <2> QED BY <1>4, <2>3, <2>4 DEF Ensure, GateStep, Swap, Publish, Report, Collected, Fails,
                                 KillRun
<1>5. ASSUME NEW w \in Wrappers, Collide(w) PROVE OneCollector'
    BY <1>5 DEF Collide, OneCollector, Live, MonitorHolds
<1>6. CASE Extend
    BY <1>6 DEF Extend, OneCollector, Live, MonitorHolds
<1>7. CASE Probe
    BY <1>7 DEF Probe, OneCollector, Live, MonitorHolds, Held
<1>8. CASE ReadRuns \/ ReadState
  <2>1. mon \in Monitor BY DEF TypeOK, Monitor
  <2>2. mon'.lock = mon.lock /\ mon.at # "idle"
      BY <1>8, <2>1 DEF ReadRuns, ReadState, Monitor
  <2>3. Live' = Live BY <1>8 DEF ReadRuns, ReadState, Live
  <2> QED BY <2>2, <2>3 DEF OneCollector, MonitorHolds
<1>9. CASE EndCheck
    BY <1>9 DEF EndCheck, QuietMonitor, OneCollector, Live, MonitorHolds
<1>10. CASE Tick
  <2>2. Live' = Live BY <1>10, TickKeeps DEF Live
  <2> QED BY <1>10, <2>2 DEF Tick, OneCollector, MonitorHolds
<1> QED BY <1>2, <1>4, <1>5, <1>6, <1>7, <1>8, <1>9, <1>10 DEF Next

\* Only the run itself takes its window off the delay.
LEMMA WindowStep ==
    ASSUME TypeOK, OneCollector, RunHasWindow, Next
    PROVE  RunHasWindow'
<1>1. proc \in [Wrappers -> Proc] BY DEF TypeOK, Proc
<1>2. ASSUME NEW w \in Wrappers, \/ Launch(w) \/ Collide(w) \/ Swap(w) \/ Publish(w)
             \/ Report(w) \/ Fails(w) \/ KillRun(w) \/ KillShell(w)
      PROVE  RunHasWindow'
  <2>1. cursor'.behind = cursor.behind
      BY <1>2 DEF Launch, Collide, Swap, Publish, Report, Fails, KillRun, KillShell, state,
                  TypeOK
  <2>2. \A v \in Wrappers : proc'[v].at = "run" => proc[v].at = "run" /\ proc'[v].kind = proc[v].kind
      BY <1>1, <1>2 DEF Launch, Collide, Swap, Publish, Report, Fails, KillRun, KillShell,
                        Exits, Goes, Off, Started, Proc
  <2> QED BY <2>1, <2>2 DEF RunHasWindow
<1>3. ASSUME NEW w \in Wrappers, Ensure(w) PROVE RunHasWindow'
  <2>1. cursor' = cursor BY <1>3 DEF Ensure
  <2>2. \A v \in Wrappers : proc'[v].at = "run" /\ proc'[v].kind = "TRAFFIC"
                              => proc[v].at = "run" /\ proc[v].kind = "TRAFFIC"
    <3>1. CASE Begins(w, "POLICY")
        BY <3>1, RunBegins DEF Kinds
    <3>2. CASE Goes(w, "gate")
        BY <1>1, <3>2 DEF Goes, Proc
    <3> QED BY <1>3, <3>1, <3>2 DEF Ensure
  <2> QED BY <2>1, <2>2 DEF RunHasWindow
<1>4. ASSUME NEW w \in Wrappers, GateStep(w) PROVE RunHasWindow'
  <2>1. cursor'.behind = cursor.behind BY <1>4 DEF GateStep, TypeOK
  <2>2. CASE \A v \in Wrappers : proc'[v].at = "run" /\ proc'[v].kind = "TRAFFIC"
                                  => proc[v].at = "run" /\ proc[v].kind = "TRAFFIC"
      BY <2>1, <2>2 DEF RunHasWindow
  <2>3. CASE KindOf(w) = "TRAFFIC" /\ WeeklyDue
      BY <2>1, <2>3 DEF RunHasWindow, WeeklyDue
  <2>4. CASE ~(KindOf(w) = "TRAFFIC" /\ WeeklyDue)
    <3>1. \A v \in Wrappers : proc'[v].at = "run" /\ proc'[v].kind = "TRAFFIC"
                              => proc[v].at = "run" /\ proc[v].kind = "TRAFFIC"
      <4>1. CASE Exits(w)
          BY <1>1, <4>1 DEF Exits, Off
      <4>2. CASE Begins(w, KindOf(w)) /\ KindOf(w) # "TRAFFIC"
        <5>1. proc'[w].kind # "TRAFFIC" /\ \A v \in Wrappers : v # w => proc'[v] = proc[v]
            BY <4>2, RunBegins, KindsOfWrappers
        <5> QED BY <5>1
      <4> QED BY <1>4, <2>4, <4>1, <4>2 DEF GateStep
    <3> QED BY <2>1, <3>1 DEF RunHasWindow
  <2> QED BY <2>3, <2>4
<1>5. ASSUME NEW w \in Wrappers, Collected(w) PROVE RunHasWindow'
  <2>1. Live = {w} BY <1>5 DEF OneCollector, Collected, Live
  <2>2. proc'[w].at = "off" BY <1>1, <1>5 DEF Collected, Exits, Off
  <2>3. \A v \in Wrappers : proc'[v].at = "off"
      BY <1>1, <1>5, <2>1, <2>2 DEF Collected, Exits, Live
  <2> QED BY <2>3 DEF RunHasWindow
<1>6. CASE Extend \/ Probe \/ ReadRuns \/ ReadState \/ EndCheck
    BY <1>6 DEF Extend, Probe, ReadRuns, ReadState, EndCheck, state, RunHasWindow
<1>7. CASE Tick
  <2>1. cursor'.behind = cursor.behind \/ cursor'.behind = Capped(cursor.behind + 1, MaxBehind)
      BY <1>7 DEF Tick, TypeOK
  <2>2. cursor.behind > 0 => cursor'.behind > 0
      BY <2>1, LaunchersAssumption DEF Capped, TypeOK
  <2>4. \A w \in Wrappers : proc'[w].at = proc[w].at /\ proc'[w].kind = proc[w].kind
      BY <1>7, TickKeeps
  <2> QED BY <2>2, <2>4 DEF RunHasWindow
<1> QED BY <1>2, <1>3, <1>4, <1>5, <1>6, <1>7 DEF Next

-----------------------------------------------------------------------------
\* What a wrapper does leaves the monitor's reading true: there is no reading to spoil,
\* or the monitor holds the lock and only a collision is possible.
LEMMA MonitorVsWrapper ==
    ASSUME IInv, NEW w \in Wrappers,
           \/ Launch(w) \/ Collide(w) \/ Ensure(w) \/ GateStep(w)
           \/ Swap(w) \/ Publish(w) \/ Report(w) \/ Collected(w)
           \/ Fails(w) \/ KillRun(w) \/ KillShell(w)
    PROVE  AlarmIsReal' /\ RunsRead' /\ OkIsTrue'
<1>0. proc \in [Wrappers -> Proc] BY DEF IInv, TypeOK, Proc
<1>1. mon' = mon /\ (dead' = dead \/ dead' = dead + 1) /\ dead \in Nat
    BY DEF Launch, Collide, Ensure, GateStep, Swap, Publish, Report, Collected, Fails, KillRun,
           KillShell, state, IInv, TypeOK
<1>2. AlarmIsReal' BY <1>1 DEF AlarmIsReal, IInv
<1>3. CASE mon.at \notin {"read", "done"} \/ mon.alarms # {}
    BY <1>1, <1>2, <1>3 DEF RunsRead, OkIsTrue
<1>4. CASE mon.at \in {"read", "done"} /\ mon.alarms = {}
  <2>1. MonitorHolds /\ Live = {} BY <1>4 DEF IInv, RunsRead, MonitorHolds, OneCollector
  <2>2. proc[w].at = "off" BY <2>1 DEF Live
  <2>3. Collide(w) \/ KillShell(w)
      BY <2>1, <2>2 DEF Launch, Ensure, GateStep, Swap, Publish, Report, Collected,
                         Fails, KillRun, Held
  <2>4. UNCHANGED <<hour, state, mon>> BY <2>3 DEF Collide, KillShell
  <2>5. Live' = {}
    <3>1. CASE Collide(w) BY <2>1, <3>1 DEF Collide, Live
    <3>2. CASE KillShell(w)
      <4>1. proc' = [proc EXCEPT ![w] = Off] BY <2>2, <3>2 DEF KillShell, Exits
      <4>2. \A v \in Wrappers : proc'[v].at = "off" BY <1>0, <2>1, <4>1 DEF Off, Live
      <4> QED BY <4>2 DEF Live
    <3> QED BY <2>3, <3>1, <3>2
  <2>6. RunningRows' = dead' /\ RunningRows = dead
    <3>1. dead' \in Nat BY <1>1
    <3>2. PICK S : S = {v \in Live' : proc'[v].at \in {"run", "swap"}} OBVIOUS
    <3>3. RunningRows' = dead' + Cardinality(S) BY <3>2 DEF RunningRows
    <3>4. S = {} BY <2>5, <3>2
    <3>5. RunningRows' = dead' BY <3>1, <3>3, <3>4, FS_EmptySet
    <3> QED BY <1>1, <2>1, <3>5, NoneRunning
  <2>7. RunsRead' BY <2>4, <2>6 DEF RunsRead, state, IInv
  <2>8. OkIsTrue' BY <2>4, <2>6 DEF OkIsTrue, state, IInv, CursorAge
  <2> QED BY <1>2, <2>7, <2>8
<1> QED BY <1>3, <1>4

\* What the monitor reads is true, and what it read of the runs stays true until its line.
LEMMA MonitorStep ==
    ASSUME IInv, Next
    PROVE  AlarmIsReal' /\ RunsRead' /\ OkIsTrue'
<1>0. dead \in Nat /\ mon \in Monitor BY DEF IInv, TypeOK, Monitor
<1>1. CASE Extend
  <2>1. UNCHANGED <<hour, latest, dead, snapshot, cursor, mon, proc>> BY <1>1 DEF Extend
  <2>2. RunningRows' = RunningRows BY <2>1 DEF RunningRows, Live
  <2> QED BY <2>1, <2>2 DEF IInv, AlarmIsReal, RunsRead, OkIsTrue, CursorAge
<1>2. CASE Probe \/ EndCheck
  <2>1. mon'.at \notin {"read", "done"} /\ mon'.alarms = {}
      BY <1>2 DEF Probe, EndCheck, QuietMonitor
  <2> QED BY <2>1 DEF AlarmIsReal, RunsRead, OkIsTrue
<1>3. CASE ReadRuns
  <2>1. mon' = [mon EXCEPT !.at = "read", !.alarms = RunAlarms]
        /\ UNCHANGED <<proc, latest, dead, snapshot, cursor, backfill, hour>>
      BY <1>3 DEF ReadRuns, state
  <2>2. mon'.at = "read" /\ mon'.lock = mon.lock /\ mon'.alarms = RunAlarms
      BY <1>0, <2>1 DEF Monitor
  <2>3. RunningRows' = RunningRows BY <2>1 DEF RunningRows, Live
  <2>4. ASSUME "interrupted" \in RunAlarms PROVE dead > 0
    <3>1. mon.lock = "FREE" /\ RunningRows > 0 BY <2>4 DEF RunAlarms
    <3>2. Live = {} BY <1>3, <3>1 DEF ReadRuns, IInv, OneCollector, MonitorHolds
    <3> QED BY <1>0, <3>1, <3>2, NoneRunning
  <2>5. ASSUME RunAlarms = {}
        PROVE  /\ mon.lock = "FREE" /\ RunningRows = 0
               /\ latest["POLICY"] = "SUCCESS" /\ latest["TRAFFIC"] = "SUCCESS"
    <3>1. mon.lock = "FREE" BY <1>0, <2>5 DEF RunAlarms, Alarms, Warnings, Monitor
    <3>2. Live = {} BY <1>3, <3>1 DEF ReadRuns, IInv, OneCollector, MonitorHolds
    <3>3. RunningRows = dead BY <1>0, <3>2, NoneRunning
    <3>4. ~(RunningRows > 0) BY <2>5, <3>1 DEF RunAlarms, Alarms
    <3>5. ~Bad("POLICY") /\ ~Bad("TRAFFIC") BY <2>5 DEF RunAlarms, Alarms
    <3> QED BY <1>0, <3>1, <3>3, <3>4, <3>5 DEF Bad
  <2>6. AlarmIsReal' BY <2>1, <2>2, <2>4 DEF AlarmIsReal
  <2>7. RunsRead' BY <2>1, <2>2, <2>3, <2>5 DEF RunsRead
  <2>8. OkIsTrue' BY <2>2 DEF OkIsTrue
  <2> QED BY <2>6, <2>7, <2>8
<1>4. CASE ReadState
  <2>1. mon' = [mon EXCEPT !.at = "done", !.alarms = mon.alarms \union StateAlarms]
        /\ UNCHANGED <<proc, latest, dead, snapshot, cursor, backfill, hour>>
      BY <1>4 DEF ReadState, state
  <2>2. /\ mon'.at = "done" /\ mon'.lock = mon.lock
        /\ mon'.alarms = mon.alarms \union StateAlarms
      BY <1>0, <2>1 DEF Monitor
  <2>3. RunningRows' = RunningRows BY <2>1 DEF RunningRows, Live
  <2>4. "interrupted" \notin StateAlarms BY DEF StateAlarms
  <2>5. AlarmIsReal' BY <2>1, <2>2, <2>4 DEF AlarmIsReal, IInv
  <2>6. RunsRead' BY <1>4, <2>1, <2>2, <2>3 DEF RunsRead, IInv, ReadState
  <2>7. ASSUME StateAlarms = {}
        PROVE  /\ snapshot.manifest /\ snapshot.age <= SnapshotLimit
               /\ cursor.status # "FAILED" /\ CursorAge <= TrafficLimit
    <3>1. snapshot.manifest BY <2>7, Zenon DEF StateAlarms, Alarms
    <3>2. ~(snapshot.age > SnapshotLimit) BY <2>7, <3>1 DEF StateAlarms, Alarms
    <3>3. cursor.status # "FAILED" /\ ~(CursorAge > TrafficLimit)
        BY <2>7 DEF StateAlarms, Alarms
    <3>4. /\ snapshot.age \in Int /\ SnapshotLimit \in Int
          /\ CursorAge \in Int /\ TrafficLimit \in Int
        BY LaunchersAssumption DEF IInv, TypeOK, CursorAge, Hours
    <3> QED BY <3>1, <3>2, <3>3, <3>4
  <2>8. OkIsTrue'
      BY <2>1, <2>2, <2>6, <2>7 DEF OkIsTrue, RunsRead, CursorAge
  <2> QED BY <2>5, <2>6, <2>8
<1>5. CASE Tick
  <2>1. mon.at = "idle" /\ mon' = mon /\ dead' = dead BY <1>5 DEF Tick
  <2> QED BY <2>1 DEF AlarmIsReal, RunsRead, OkIsTrue, IInv
<1> QED BY <1>1, <1>2, <1>3, <1>4, <1>5, MonitorVsWrapper DEF Next

-----------------------------------------------------------------------------
LEMMA InitInv == Init => IInv
<1> SUFFICES ASSUME Init PROVE IInv OBVIOUS
<1>0. MaxFaults \in Nat /\ MaxBehind \in Nat /\ SnapshotLimit \in Nat /\ Gate \in Nat
    BY LaunchersAssumption
<1>1. Off \in Proc BY OffTyped
<1>2. proc \in [Wrappers -> Proc] BY <1>1 DEF Init
<1>3. latest \in [Kinds -> Statuses] BY DEF Init, Statuses
<1>4. mon = QuietMonitor /\ Live = {} BY DEF Init, Live, Off
<1>5. hour \in Hours /\ due \subseteq Wrappers /\ dead \in 0..faults /\ faults \in 0..MaxFaults
    BY <1>0 DEF Init
<1>6. /\ snapshot \in [age : 0..SnapshotLimit + 1, manifest : BOOLEAN]
      /\ cursor \in [status : {"RUNNING", "SUCCESS", "FAILED"}, behind : 0..MaxBehind + 1]
      /\ backfill \in [status : {"PENDING", "RUNNING", "FAILED", "COMPLETED"}, age : 0..Gate + 1]
    BY <1>0 DEF Init
<1>7. mon \in Monitor BY <1>4 DEF QuietMonitor, Monitor
<1>8. TypeOK BY <1>2, <1>3, <1>5, <1>6, <1>7 DEF TypeOK, Proc, Monitor
<1>9. OneCollector BY <1>4 DEF OneCollector
<1>10. RunHasWindow BY DEF Init, RunHasWindow, Off
<1>11. AlarmIsReal /\ RunsRead /\ OkIsTrue
    BY <1>4 DEF QuietMonitor, AlarmIsReal, RunsRead, OkIsTrue
<1> QED BY <1>8, <1>9, <1>10, <1>11 DEF IInv

LEMMA StepInv == IInv /\ [Next]_vars => IInv'
<1> SUFFICES ASSUME IInv, [Next]_vars PROVE IInv' OBVIOUS
<1>1. CASE Next
  <2>1. TypeOK' BY <1>1, WrapperTypes, OtherTypes DEF Next, IInv
  <2>2. OneCollector' BY <1>1, ExclusionStep DEF IInv
  <2>3. RunHasWindow' BY <1>1, WindowStep DEF IInv
  <2>4. AlarmIsReal' /\ RunsRead' /\ OkIsTrue' BY <1>1, MonitorStep
  <2> QED BY <2>1, <2>2, <2>3, <2>4 DEF IInv
<1>2. CASE UNCHANGED vars
    BY <1>2 DEF vars, IInv, TypeOK, OneCollector, Live, MonitorHolds, RunHasWindow, AlarmIsReal,
                RunsRead, RunningRows, OkIsTrue, CursorAge
<1> QED BY <1>1, <1>2

\* The timetable is type correct: in particular no age or delay leaves its range and no
\* weekly run ends that had no window to collect.
THEOREM LaunchersTypes == Spec => []TypeOK
<1>1. IInv => TypeOK BY DEF IInv
<1> QED BY InitInv, StepInv, <1>1, PTL DEF Spec

\* Whatever is killed, failing or launched, at most one collector lives, and none while
\* the monitor has the lock.
THEOREM CollectorsExclude == Spec => []OneCollector
<1>1. IInv => OneCollector BY DEF IInv
<1> QED BY InitInv, StepInv, <1>1, PTL DEF Spec

\* An OK line of the monitor is true when it is printed, for all limits.
THEOREM MonitorOkIsTrue == Spec => []OkIsTrue
<1>1. IInv => OkIsTrue BY DEF IInv
<1> QED BY InitInv, StepInv, <1>1, PTL DEF Spec

\* An interrupted run is reported only after a process died with its row RUNNING.
THEOREM MonitorAlarmIsReal == Spec => []AlarmIsReal
<1>1. IInv => AlarmIsReal BY DEF IInv
<1> QED BY InitInv, StepInv, <1>1, PTL DEF Spec

-----------------------------------------------------------------------------
(* The timetable: what the hours of the launches and the lengths of the runs  *)
(* make of the week, as long as nobody is killed in the middle of a run.      *)

\* The hour of the day at which cron makes the launch, and the days.
Slot(w) == CASE w = "daily" -> 0 [] w = "weekly" -> 1 [] w = "retry" -> 2 [] OTHER -> 3
OnTheDay(w) == CASE w = "daily" -> TRUE [] w = "backfill" -> hour >= 24 [] OTHER -> hour < 24

\* A run that has outlasted the room its wrapper had.
Late(w) == proc[w].at # "off" /\ proc[w].spent > Room(w)

\* A live process is in the hour that its run has reached since its launch, or it is late.
OnTime(w) ==
    proc[w].at # "off" =>
        /\ Late(w) \/ (OnTheDay(w) /\ hour % 24 = Slot(w) + proc[w].spent)
        /\ proc[w].at \in {"start", "gate"} => proc[w].spent = 0
        /\ proc[w].at \in {"run", "swap", "report"} => proc[w].kind = KindOf(w)
        /\ IF w = "daily" THEN proc[w].at # "gate" ELSE proc[w].at \in {"start", "gate", "run"}

\* A weekly window is still to be collected this Sunday.
Trying == "retry" \in due \/ \E w \in {"weekly", "retry"} : proc[w].at # "off"

\* A launch is made in its slot, of a wrapper that is not there any more or is late; the
\* manifest is missing only in a publication; the cursor is RUNNING only in a weekly run;
\* a late hour is a fault, and the excuse for a week of delay; and Sunday leaves a delay
\* only with such an excuse.
Timetable ==
    /\ \A w \in due : w \in Launches(hour) /\ (proc[w].at = "off" \/ Late(w))
    /\ \A w \in Wrappers : OnTime(w)
    /\ snapshot.manifest \/ \E w \in Wrappers : proc[w].at = "swap"
    /\ cursor.status = "RUNNING" =>
          \E w \in Wrappers : proc[w].at = "run" /\ proc[w].kind = "TRAFFIC"
    /\ cursor.behind <= faults + 1
    /\ \A w \in Wrappers : Late(w) => faults > 0 /\ cursor.behind <= faults
    /\ hour >= 2 => cursor.behind <= faults \/ Trying

LEMMA Types ==
    ASSUME TypeOK
    PROVE  /\ hour \in Nat /\ hour <= 167 /\ hour % 24 \in 0..23
           /\ proc \in [Wrappers -> Proc] /\ due \subseteq Wrappers
           /\ snapshot \in [age : Nat, manifest : BOOLEAN]
           /\ cursor \in [status : {"RUNNING", "SUCCESS", "FAILED"}, behind : Nat]
           /\ faults \in Nat /\ dead \in Nat
<1>1. MaxFaults \in Nat /\ MaxBehind \in Nat /\ SnapshotLimit \in Nat
    BY LaunchersAssumption
<1>2. hour \in Nat /\ hour <= 167 /\ hour % 24 \in 0..23
    BY DEF TypeOK, Hours
<1>3. /\ snapshot \in [age : Nat, manifest : BOOLEAN]
      /\ cursor \in [status : {"RUNNING", "SUCCESS", "FAILED"}, behind : Nat]
    BY <1>1 DEF TypeOK
<1>4. faults \in Nat /\ dead \in Nat
    BY <1>1 DEF TypeOK
<1> QED BY <1>2, <1>3, <1>4 DEF TypeOK, Proc

LEMMA WrapperSlots ==
    /\ Slot("daily") = 0 /\ Slot("weekly") = 1 /\ Slot("retry") = 2 /\ Slot("backfill") = 3
    /\ OnTheDay("daily") /\ (OnTheDay("backfill") <=> hour >= 24)
    /\ (OnTheDay("weekly") <=> hour < 24) /\ (OnTheDay("retry") <=> hour < 24)
    /\ KindOf("daily") = "POLICY" /\ KindOf("backfill") = "BACKFILL"
    /\ KindOf("weekly") = "TRAFFIC" /\ KindOf("retry") = "TRAFFIC"
BY DEF Slot, OnTheDay, KindOf

\* The crontab in terms of slots and days.
LEMMA LaunchSlots ==
    ASSUME TypeOK, NEW w \in Wrappers
    PROVE  w \in Launches(hour) <=> hour % 24 = Slot(w) /\ OnTheDay(w)
<1>1. hour \in Nat /\ hour <= 167
    BY Types
<1>2. (hour = 1 <=> hour % 24 = 1 /\ hour < 24) /\ (hour = 2 <=> hour % 24 = 2 /\ hour < 24)
    BY <1>1
<1>3. w \in {"daily", "weekly", "retry", "backfill"}
    BY DEF Wrappers
<1> QED BY <1>2, <1>3, WrapperSlots DEF Launches, Wrappers

\* The next hour.
LEMMA HourTicks ==
    ASSUME NEW h \in Nat, h <= 167
    PROVE  LET n == (h + 1) % 168
           IN /\ n \in Nat /\ n <= 167
              /\ n = IF h = 167 THEN 0 ELSE h + 1
              /\ n % 24 = IF h % 24 = 23 THEN 0 ELSE (h % 24) + 1
              /\ h % 24 # 23 => (n < 24 <=> h < 24) /\ (n >= 24 <=> h >= 24)
<1>1. CASE h = 167
    BY <1>1
<1>2. CASE h < 167
  <2>1. (h + 1) % 168 = h + 1
    BY <1>2
  <2> QED BY <1>2, <2>1
<1> QED BY <1>1, <1>2


\* At most one wrapper is there.
LEMMA Alone ==
    ASSUME OneCollector, NEW w \in Wrappers, proc[w].at # "off"
    PROVE  \A v \in Wrappers : v # w => proc[v].at = "off"
BY DEF OneCollector, Live

\* A step within the hour by one wrapper: what has to be looked at.
LEMMA WithinTheHour ==
    ASSUME TypeOK, Timetable, NEW w \in Wrappers, hour' = hour, due' \subseteq due,
           \A v \in Wrappers : v # w => proc'[v] = proc[v],
           OnTime(w)', w \notin due' \/ proc'[w].at = "off" \/ Late(w)', Late(w)' => Late(w)
    PROVE  /\ \A v \in due' : v \in Launches(hour') /\ (proc'[v].at = "off" \/ Late(v)')
           /\ \A v \in Wrappers : OnTime(v)' /\ (Late(v)' => Late(v))
<1>1. ASSUME NEW v \in Wrappers, v # w PROVE OnTime(v)' /\ (Late(v)' <=> Late(v))
    BY <1>1 DEF Timetable, OnTime, OnTheDay, Late
<1>2. due \subseteq Wrappers
    BY DEF TypeOK
<1> QED BY <1>1, <1>2 DEF Timetable

\* A wrapper that has not begun is not late, so cron has made its launch.
LEMMA NotDueAgain ==
    ASSUME Timetable, NEW w \in Wrappers, proc[w].at \in {"start", "gate"}
    PROVE  ~Late(w) /\ w \notin due /\ proc[w].spent = 0
<1>1. proc[w].spent = 0
    BY DEF Timetable, OnTime
<1>2. ~Late(w)
    BY <1>1, Rooms DEF Late
<1> QED BY <1>1, <1>2 DEF Timetable

LEMMA LaunchInTime ==
    ASSUME TypeOK, OneCollector, Timetable, NEW w \in Wrappers, Launch(w)
    PROVE  Timetable'
<1>1. /\ w \in due /\ due' = due \ {w} /\ proc' = [proc EXCEPT ![w] = Started]
      /\ hour' = hour /\ snapshot' = snapshot /\ cursor' = cursor /\ faults' = faults
    BY DEF Launch, state
<1>2. \A v \in Wrappers : proc[v].at = "off"
    BY DEF Launch, Held, Live
<1>3. proc \in [Wrappers -> Proc]
    BY Types
<1>4. proc'[w] = Started /\ \A v \in Wrappers : v # w => proc'[v] = proc[v]
    BY <1>1, <1>3
<1>5. OnTime(w)'
  <2>1. hour % 24 = Slot(w) /\ OnTheDay(w)
      BY <1>1, LaunchSlots DEF Timetable
  <2>2. OnTheDay(w)'
      BY <1>1, <2>1 DEF OnTheDay
  <2>3. proc'[w].at = "start" /\ proc'[w].spent = 0
      BY <1>4 DEF Started
  <2>4. Slot(w) + 0 = Slot(w)
      BY DEF Slot
  <2> QED BY <1>1, <2>1, <2>2, <2>3, <2>4 DEF OnTime
<1>9. ~Late(w)' /\ w \notin due'
    BY <1>1, <1>4, Rooms DEF Late, Started
<1>6. /\ \A v \in due' : v \in Launches(hour') /\ (proc'[v].at = "off" \/ Late(v)')
      /\ \A v \in Wrappers : OnTime(v)' /\ (Late(v)' => Late(v))
    BY <1>1, <1>4, <1>5, <1>9, WithinTheHour
<1>7. snapshot.manifest /\ cursor.status # "RUNNING"
    BY <1>2 DEF Timetable
<1>8. Trying => Trying'
  <2>1. proc'[w].at # "off"
      BY <1>4 DEF Started
  <2> QED BY <1>1, <1>2, <2>1 DEF Trying, Wrappers
<1> QED BY <1>1, <1>6, <1>7, <1>8 DEF Timetable

\* Cron meets a live process: on Sunday at 02:00 it is the weekly run.
LEMMA CollideInTime ==
    ASSUME TypeOK, OneCollector, Timetable, NEW w \in Wrappers, Collide(w)
    PROVE  Timetable'
<1>1. /\ w \in due /\ due' = due \ {w} /\ proc' = proc /\ hour' = hour
      /\ snapshot' = snapshot /\ cursor' = cursor
      /\ IF Live = {} THEN faults' = faults + 1 ELSE faults' = faults
  <2>1. /\ w \in due /\ due' = due \ {w} /\ proc' = proc /\ hour' = hour
        /\ snapshot' = snapshot /\ cursor' = cursor
      BY DEF Collide, state
  <2>2. IF Live = {} THEN faults' = faults + 1 ELSE faults' = faults
    <3>1. IF Live = {} THEN Fault ELSE UNCHANGED faults
        BY DEF Collide
    <3> QED BY <3>1 DEF Fault
  <2> QED BY <2>1, <2>2
<1>2. cursor.behind \in Nat /\ faults \in Nat
    BY Types
<1>3. OnTime(w)' /\ (Late(w)' <=> Late(w))
    BY <1>1 DEF Timetable, OnTime, OnTheDay, Late
<1>7. \A v \in Wrappers : Late(v)' => faults' > 0 /\ cursor'.behind <= faults'
    BY <1>1, <1>2 DEF Timetable, Late
<1>4. /\ \A v \in due' : v \in Launches(hour') /\ (proc'[v].at = "off" \/ Late(v)')
      /\ \A v \in Wrappers : OnTime(v)' /\ (Late(v)' => Late(v))
    BY <1>1, <1>2, <1>3, WithinTheHour
<1>5. cursor'.behind <= faults' + 1
    BY <1>1, <1>2 DEF Timetable
<1>6. hour' >= 2 => cursor'.behind <= faults' \/ Trying'
  <2>1. CASE Live = {}
      BY <1>1, <1>2, <2>1 DEF Timetable
  <2>2. CASE Live # {} /\ w = "retry"
    <3>1. PICK v \in Wrappers : proc[v].at # "off"
        BY <2>2 DEF Live
    <3>2. hour % 24 = 2 /\ hour < 24
        BY <1>1, <2>2, LaunchSlots, WrapperSlots DEF Timetable
    <3>3. CASE Late(v)
      <4>1. cursor.behind <= faults
          BY <3>3 DEF Timetable
      <4> QED BY <1>1, <2>2, <4>1
    <3>4. CASE ~Late(v)
      <4>1. v # "backfill"
          BY <3>1, <3>2, <3>4, WrapperSlots, Types DEF Timetable, OnTime
      <4>2. v # "daily"
        <5> SUFFICES ASSUME v = "daily" PROVE FALSE OBVIOUS
        <5>1. proc[v].spent \in Nat
            BY Types DEF Proc
        <5>2. hour % 24 = 0 + proc[v].spent
            BY <3>1, <3>4, WrapperSlots DEF Timetable, OnTime
        <5>3. ~(proc[v].spent > 1)
            BY <3>1, <3>4, Rooms DEF Late
        <5> QED BY <3>2, <5>1, <5>2, <5>3
      <4>3. v \in {"weekly", "retry"}
          BY <4>1, <4>2 DEF Wrappers
      <4>4. Trying'
          BY <1>1, <3>1, <4>3 DEF Trying
      <4> QED BY <4>4
    <3> QED BY <3>3, <3>4
  <2>3. CASE Live # {} /\ w # "retry"
    <3>1. Trying => Trying'
        BY <1>1, <2>3 DEF Trying
    <3>2. faults' = faults
        BY <1>1, <2>3
    <3> QED BY <1>1, <3>1, <3>2 DEF Timetable
  <2> QED BY <2>1, <2>2, <2>3
<1> QED BY <1>1, <1>4, <1>5, <1>6, <1>7 DEF Timetable

\* With the manifest in place the daily wrapper collects the policy and the others come
\* to their gates.
LEMMA EnsureInTime ==
    ASSUME TypeOK, OneCollector, Timetable, NEW w \in Wrappers, Ensure(w)
    PROVE  Timetable'
<1>1. /\ proc[w].at = "start" /\ due' = due /\ hour' = hour /\ snapshot' = snapshot
      /\ cursor' = cursor /\ faults' = faults
      /\ \/ (w = "daily" \/ ~snapshot.manifest) /\ Begins(w, "POLICY")
         \/ w # "daily" /\ snapshot.manifest /\ Goes(w, "gate")
    BY DEF Ensure
<1>2. proc \in [Wrappers -> Proc] /\ \A v \in Wrappers : v # w => proc[v].at = "off"
    BY <1>1, Alone, Types
<1>3. snapshot.manifest /\ cursor.status # "RUNNING"
    BY <1>1, <1>2 DEF Timetable
<1>4. OnTheDay(w)' /\ hour' % 24 = Slot(w) + 0 /\ proc[w].spent = 0
  <2>1. OnTheDay(w) /\ hour % 24 = Slot(w) + proc[w].spent /\ proc[w].spent = 0
      BY <1>1, NotDueAgain DEF Timetable, OnTime
  <2> QED BY <1>1, <2>1 DEF OnTheDay
<1>5. /\ proc'[w].at \in {"run", "gate"} /\ proc'[w].spent = 0
      /\ proc'[w].at = "run" => w = "daily" /\ proc'[w].kind = "POLICY"
      /\ proc'[w].at = "gate" => w # "daily"
      /\ \A v \in Wrappers : v # w => proc'[v] = proc[v]
  <2>1. CASE w = "daily" /\ Begins(w, "POLICY")
      BY <1>4, <2>1, RunBegins DEF Kinds
  <2>2. CASE w # "daily" /\ Goes(w, "gate")
      BY <1>2, <1>4, <2>2 DEF Goes, Proc
  <2> QED BY <1>1, <1>3, <2>1, <2>2
<1>6. OnTime(w)' /\ ~Late(w)'
    BY <1>4, <1>5, WrapperSlots, Rooms DEF OnTime, Late
<1>7. w \notin due
    BY <1>1, NotDueAgain
<1>8. /\ \A v \in due' : v \in Launches(hour') /\ (proc'[v].at = "off" \/ Late(v)')
      /\ \A v \in Wrappers : OnTime(v)' /\ (Late(v)' => Late(v))
    BY <1>1, <1>5, <1>6, <1>7, WithinTheHour
<1>9. Trying => Trying'
    BY <1>1, <1>5, <1>2 DEF Trying, Wrappers
<1> QED BY <1>1, <1>3, <1>8, <1>9 DEF Timetable


\* The gates: a window of the cursor is due and free, or the wrapper ends.
LEMMA GateInTime ==
    ASSUME TypeOK, OneCollector, Timetable, NEW w \in Wrappers, GateStep(w)
    PROVE  Timetable'
<1> DEFINE k == KindOf(w)
           isDue == IF k = "TRAFFIC" THEN WeeklyDue ELSE BackfillDue
<1>1. /\ proc[w].at = "gate" /\ due' = due /\ hour' = hour /\ snapshot' = snapshot
      /\ faults' = faults
      /\ cursor' = IF isDue /\ k = "TRAFFIC" THEN [cursor EXCEPT !.status = "RUNNING"] ELSE cursor
    BY DEF GateStep
<1>2. /\ proc \in [Wrappers -> Proc] /\ \A v \in Wrappers : v # w => proc[v].at = "off"
      /\ cursor \in [status : {"RUNNING", "SUCCESS", "FAILED"}, behind : Nat] /\ faults \in Nat
    BY <1>1, Alone, Types
<1>3. snapshot.manifest /\ cursor.status # "RUNNING" /\ cursor'.behind = cursor.behind
    BY <1>1, <1>2 DEF Timetable
<1>4. w # "daily" /\ OnTheDay(w) /\ hour % 24 = Slot(w) + 0 /\ proc[w].spent = 0
    BY <1>1, NotDueAgain DEF Timetable, OnTime
<1>5. (~isDue /\ Exits(w)) \/ (isDue /\ k # "TRAFFIC" /\ Exits(w)) \/ (isDue /\ Begins(w, k))
  <2>1. k = "TRAFFIC" => ~Refused(k)
      BY <1>3 DEF Refused
  <2>2. CASE ~isDue
      BY <2>2 DEF GateStep
  <2>3. CASE isDue /\ Refused(k)
    <3>1. Exits(w)
        BY <2>3 DEF GateStep
    <3> QED BY <2>1, <2>3, <3>1
  <2>4. CASE isDue /\ ~Refused(k)
      BY <2>4 DEF GateStep
  <2> QED BY <2>2, <2>3, <2>4
<1>6. w \notin due
    BY <1>1, NotDueAgain
<1>7. k \in Kinds
    BY KindsOfWrappers
<1> HIDE DEF k, isDue
<1>8. CASE Exits(w) /\ ~(isDue /\ k = "TRAFFIC")
  <2>1. proc'[w].at = "off" /\ \A v \in Wrappers : v # w => proc'[v] = proc[v]
      BY <1>2, <1>8 DEF Exits, Off
  <2>2. OnTime(w)' /\ ~Late(w)'
      BY <2>1 DEF OnTime, Late
  <2>3. /\ \A v \in due' : v \in Launches(hour') /\ (proc'[v].at = "off" \/ Late(v)')
        /\ \A v \in Wrappers : OnTime(v)' /\ (Late(v)' => Late(v))
      BY <1>1, <2>1, <2>2, WithinTheHour
  <2>4. cursor' = cursor
      BY <1>1, <1>8
  <2>5. hour >= 2 => cursor.behind <= faults \/ Trying'
    <3>1. CASE k = "TRAFFIC"
      <4>1. cursor.behind = 0
          BY <1>2, <1>8, <3>1 DEF isDue, WeeklyDue
      <4> QED BY <1>2, <4>1
    <3>2. CASE k # "TRAFFIC"
      <4>1. w = "backfill"
          BY <1>4, <3>2, WrapperSlots DEF k, Wrappers
      <4>2. Trying => Trying'
          BY <1>1, <1>2, <4>1 DEF Trying, Wrappers
      <4> QED BY <4>2 DEF Timetable
    <3> QED BY <3>1, <3>2
  <2> QED BY <1>1, <1>3, <2>3, <2>4, <2>5 DEF Timetable
<1>9. CASE isDue /\ Begins(w, k)
  <2>1. /\ proc'[w].at = "run" /\ proc'[w].kind = k /\ proc'[w].spent = 0
        /\ \A v \in Wrappers : v # w => proc'[v] = proc[v]
      BY <1>4, <1>7, <1>9, RunBegins
  <2>2. OnTime(w)' /\ ~Late(w)'
      BY <1>1, <1>4, <1>7, <2>1, Rooms DEF OnTime, OnTheDay, Late, k
  <2>3. /\ \A v \in due' : v \in Launches(hour') /\ (proc'[v].at = "off" \/ Late(v)')
        /\ \A v \in Wrappers : OnTime(v)' /\ (Late(v)' => Late(v))
      BY <1>1, <1>6, <2>1, <2>2, WithinTheHour
  <2>4. cursor'.status = "RUNNING" => \E v \in Wrappers : proc'[v].at = "run" /\ proc'[v].kind = "TRAFFIC"
      BY <1>1, <1>3, <2>1
  <2>5. Trying => Trying'
      BY <1>1, <1>2, <2>1 DEF Trying, Wrappers
  <2> QED BY <1>1, <1>3, <2>3, <2>4, <2>5 DEF Timetable
<1> QED BY <1>5, <1>8, <1>9

\* A publication is the daily wrapper's, from its first rename to its second.
LEMMA PublicationInTime ==
    ASSUME TypeOK, OneCollector, Timetable, NEW w \in Wrappers, Swap(w) \/ Publish(w) \/ Report(w)
    PROVE  Timetable'
<1>1. due' = due /\ hour' = hour /\ cursor' = cursor /\ faults' = faults
    BY DEF Swap, Publish, Report, state
<1>2. proc[w].at # "off"
    BY DEF Swap, Publish, Report
<1>3. proc \in [Wrappers -> Proc] /\ \A v \in Wrappers : v # w => proc[v].at = "off"
    BY <1>2, Alone, Types
<1>4. w = "daily"
  <2>1. CASE Swap(w)
    <3>1. KindOf(w) = "POLICY"
        BY <2>1 DEF Swap, Timetable, OnTime
    <3> QED BY <3>1, WrapperSlots DEF Wrappers
  <2>2. CASE Publish(w) \/ Report(w)
      BY <2>2 DEF Publish, Report, Timetable, OnTime
  <2> QED BY <2>1, <2>2
<1>5. /\ Late(w) \/ (OnTheDay(w) /\ hour % 24 = Slot(w) + proc[w].spent)
      /\ proc[w].kind = KindOf(w)
    BY <1>2 DEF Timetable, OnTime, Swap, Publish, Report
<1>6. cursor.status # "RUNNING"
  <2>1. proc[w].kind # "TRAFFIC"
      BY <1>4, <1>5, WrapperSlots
  <2> QED BY <1>3, <2>1 DEF Timetable
<1>7. w \in due => Late(w)
    BY <1>2 DEF Timetable
<1>8. /\ \A v \in Wrappers : v # w => proc'[v] = proc[v]
      /\ \/ proc'[w].at = "off"
         \/ /\ proc'[w].at \in {"swap", "report"}
            /\ proc'[w].kind = proc[w].kind /\ proc'[w].spent = proc[w].spent
      /\ snapshot'.manifest \/ proc'[w].at = "swap"
  <2>1. CASE Swap(w)
      BY <1>3, <2>1 DEF Swap, Goes, Proc
  <2>2. CASE Publish(w)
    <3>1. snapshot'.manifest
        BY <2>2 DEF Publish
    <3>2. Goes(w, "report") \/ Exits(w)
        BY <1>4, <2>2 DEF Publish
    <3> QED BY <1>3, <3>1, <3>2 DEF Goes, Exits, Off, Proc
  <2>3. CASE Report(w)
    <3>1. snapshot' = snapshot /\ Exits(w) /\ proc[w].at = "report"
        BY <2>3 DEF Report, state
    <3>2. snapshot.manifest
        BY <1>3, <3>1 DEF Timetable
    <3> QED BY <1>3, <3>1, <3>2 DEF Exits, Off
  <2> QED BY <2>1, <2>2, <2>3
<1>9. OnTime(w)' /\ (Late(w)' => Late(w)) /\ (Late(w) => Late(w)' \/ proc'[w].at = "off")
  <2>1. OnTheDay(w)' <=> OnTheDay(w)
      BY <1>1 DEF OnTheDay
  <2>2. (Late(w)' => Late(w)) /\ (Late(w) => Late(w)' \/ proc'[w].at = "off")
      BY <1>2, <1>8 DEF Late
  <2> QED BY <1>1, <1>4, <1>5, <1>8, <2>1, <2>2 DEF OnTime
<1>10. /\ \A v \in due' : v \in Launches(hour') /\ (proc'[v].at = "off" \/ Late(v)')
       /\ \A v \in Wrappers : OnTime(v)' /\ (Late(v)' => Late(v))
    BY <1>1, <1>7, <1>8, <1>9, WithinTheHour
<1>11. Trying => Trying'
    BY <1>1, <1>3, <1>4, <1>8 DEF Trying, Wrappers
<1> QED BY <1>1, <1>6, <1>8, <1>10, <1>11 DEF Timetable


\* A weekly run that ends takes its window off the delay.
LEMMA CollectedInTime ==
    ASSUME TypeOK, OneCollector, Timetable, NEW w \in Wrappers, Collected(w)
    PROVE  Timetable'
<1>1. /\ proc[w].at = "run" /\ proc[w].kind # "POLICY" /\ due' = due /\ hour' = hour
      /\ snapshot' = snapshot /\ faults' = faults /\ Exits(w)
      /\ cursor' = IF proc[w].kind = "TRAFFIC"
                   THEN [status |-> "SUCCESS", behind |-> cursor.behind - 1] ELSE cursor
    BY DEF Collected
<1>2. /\ proc \in [Wrappers -> Proc] /\ \A v \in Wrappers : v # w => proc[v].at = "off"
      /\ cursor \in [status : {"RUNNING", "SUCCESS", "FAILED"}, behind : Nat] /\ faults \in Nat
    BY <1>1, Alone, Types
<1>3. proc'[w].at = "off" /\ \A v \in Wrappers : v # w => proc'[v] = proc[v]
    BY <1>1, <1>2 DEF Exits, Off
<1>4. OnTime(w)' /\ ~Late(w)'
    BY <1>3 DEF OnTime, Late
<1>5. /\ \A v \in due' : v \in Launches(hour') /\ (proc'[v].at = "off" \/ Late(v)')
      /\ \A v \in Wrappers : OnTime(v)' /\ (Late(v)' => Late(v))
    BY <1>1, <1>3, <1>4, WithinTheHour
<1>6. snapshot.manifest
    BY <1>1, <1>2 DEF Timetable
<1>7. CASE proc[w].kind = "TRAFFIC"
  <2>1. cursor'.status = "SUCCESS" /\ cursor'.behind = cursor.behind - 1
      BY <1>1, <1>7
  <2>2. cursor'.behind <= faults /\ cursor'.behind <= faults + 1
      BY <1>2, <2>1 DEF Timetable
  <2>3. \A v \in Wrappers : Late(v)' => faults' > 0
      BY <1>1, <1>5 DEF Timetable
  <2> QED BY <1>1, <1>5, <1>6, <2>1, <2>2, <2>3 DEF Timetable
<1>8. CASE proc[w].kind # "TRAFFIC"
  <2>1. cursor' = cursor /\ cursor.status # "RUNNING"
      BY <1>1, <1>2, <1>8 DEF Timetable
  <2>2. proc[w].kind = KindOf(w)
      BY <1>1 DEF Timetable, OnTime
  <2>3. w = "backfill"
      BY <1>1, <1>8, <2>2, WrapperSlots DEF Wrappers
  <2>4. Trying => Trying'
      BY <1>1, <1>2, <2>3 DEF Trying, Wrappers
  <2> QED BY <1>1, <1>5, <1>6, <2>1, <2>4 DEF Timetable
<1> QED BY <1>7, <1>8

\* A failure and a killed shell are the excuse for a week of delay.
LEMMA FaultInTime ==
    ASSUME TypeOK, OneCollector, Timetable, NEW w \in Wrappers, Fails(w) \/ KillShell(w)
    PROVE  Timetable'
<1>1. due' = due /\ hour' = hour /\ faults' = faults + 1
    BY DEF Fails, KillShell, Fault
<1>2. /\ proc \in [Wrappers -> Proc] /\ faults \in Nat
      /\ cursor \in [status : {"RUNNING", "SUCCESS", "FAILED"}, behind : Nat]
      /\ snapshot \in [age : Nat, manifest : BOOLEAN]
    BY Types
<1>3. cursor'.behind = cursor.behind
    BY <1>2 DEF Fails, KillShell, state
<1>4. cursor'.behind <= faults' /\ cursor'.behind <= faults' + 1 /\ faults' > 0
    BY <1>1, <1>2, <1>3 DEF Timetable
<1>5. CASE Fails(w)
  <2>1. proc[w].at \in {"run", "swap"} /\ Exits(w)
        /\ snapshot' = (IF proc[w].at = "swap" THEN [snapshot EXCEPT !.manifest = TRUE] ELSE snapshot)
        /\ cursor' = (IF proc[w].kind = "TRAFFIC" THEN [cursor EXCEPT !.status = "FAILED"] ELSE cursor)
      BY <1>5 DEF Fails
  <2>2. \A v \in Wrappers : v # w => proc[v].at = "off"
      BY <2>1, Alone
  <2>3. proc'[w].at = "off" /\ \A v \in Wrappers : v # w => proc'[v] = proc[v]
      BY <1>2, <2>1 DEF Exits, Off
  <2>4. OnTime(w)' /\ ~Late(w)'
      BY <2>3 DEF OnTime, Late
  <2>5. /\ \A v \in due' : v \in Launches(hour') /\ (proc'[v].at = "off" \/ Late(v)')
        /\ \A v \in Wrappers : OnTime(v)' /\ (Late(v)' => Late(v))
      BY <1>1, <2>3, <2>4, WithinTheHour
  <2>6. snapshot'.manifest
    <3>1. CASE proc[w].at = "swap"
        BY <1>2, <2>1, <3>1
    <3>2. CASE proc[w].at = "run"
        BY <2>1, <2>2, <3>2 DEF Timetable
    <3> QED BY <2>1, <3>1, <3>2
  <2>7. cursor'.status # "RUNNING"
    <3>1. CASE proc[w].kind = "TRAFFIC"
        BY <1>2, <2>1, <3>1
    <3>2. CASE proc[w].kind # "TRAFFIC"
        BY <2>1, <2>2, <3>2 DEF Timetable
    <3> QED BY <3>1, <3>2
  <2> QED BY <1>4, <2>5, <2>6, <2>7 DEF Timetable
<1>6. CASE KillShell(w)
  <2>1. snapshot' = snapshot /\ cursor' = cursor
      BY <1>6 DEF KillShell, state
  <2>2. \A v \in Wrappers : v # w => proc'[v] = proc[v]
      BY <1>2, <1>6 DEF KillShell, Exits
  <2>3. IF proc[w].at \in {"run", "swap", "report"}
        THEN /\ proc'[w].at = proc[w].at /\ proc'[w].kind = proc[w].kind
             /\ proc'[w].spent = proc[w].spent
        ELSE proc'[w].at = "off"
      BY <1>2, <1>6 DEF KillShell, Exits, Off, Proc
  <2>4. OnTime(w)' /\ (Late(w)' => Late(w)) /\ (Late(w) => Late(w)' \/ proc'[w].at = "off")
      BY <1>1, <2>3 DEF Timetable, OnTime, OnTheDay, Late
  <2>5. w \notin due' \/ proc'[w].at = "off" \/ Late(w)'
      BY <1>1, <2>3, <2>4 DEF Timetable
  <2>6. /\ \A v \in due' : v \in Launches(hour') /\ (proc'[v].at = "off" \/ Late(v)')
        /\ \A v \in Wrappers : OnTime(v)' /\ (Late(v)' => Late(v))
      BY <1>1, <2>2, <2>4, <2>5, WithinTheHour
  <2>7. \A v \in Wrappers : proc[v].at \in {"run", "swap"} =>
            proc'[v].at = proc[v].at /\ proc'[v].kind = proc[v].kind
      BY <2>2, <2>3
  <2> QED BY <1>4, <2>1, <2>6, <2>7 DEF Timetable
<1> QED BY <1>5, <1>6

\* The operator and the monitor do not touch the timetable.
LEMMA OthersInTime ==
    ASSUME Timetable, Extend \/ Probe \/ ReadRuns \/ ReadState \/ EndCheck
    PROVE  Timetable'
<1>1. UNCHANGED <<hour, due, proc, snapshot, cursor, faults>>
    BY DEF Extend, Probe, ReadRuns, ReadState, EndCheck, state
<1> QED BY <1>1 DEF Timetable, OnTime, OnTheDay, Late, Trying

\* An hour passes only while every live process is in a run: one that has used up its room
\* becomes late, at the cost of a fault, and the others keep to their hours, so none of them
\* is there at midnight.
LEMMA HourInTime ==
    ASSUME TypeOK, OneCollector, Timetable, Tick
    PROVE  Timetable'
<1>1. /\ due = {} /\ hour' = (hour + 1) % 168 /\ due' = Launches(hour')
      /\ \A w \in Live : proc[w].at = "run"
      /\ snapshot' = [snapshot EXCEPT !.age = Capped(@ + 1, SnapshotLimit)]
      /\ cursor' = IF hour' = 0 THEN [cursor EXCEPT !.behind = Capped(@ + 1, MaxBehind)] ELSE cursor
    BY DEF Tick
<1>2. /\ proc \in [Wrappers -> Proc] /\ hour \in Nat /\ hour <= 167 /\ hour % 24 \in 0..23
      /\ snapshot \in [age : Nat, manifest : BOOLEAN] /\ faults \in Nat
      /\ cursor \in [status : {"RUNNING", "SUCCESS", "FAILED"}, behind : Nat]
    BY Types
<1>3. /\ hour' \in Nat /\ hour' <= 167
      /\ hour' = IF hour = 167 THEN 0 ELSE hour + 1
      /\ hour' % 24 = IF hour % 24 = 23 THEN 0 ELSE (hour % 24) + 1
      /\ hour % 24 # 23 => (hour' < 24 <=> hour < 24) /\ (hour' >= 24 <=> hour >= 24)
    BY <1>1, <1>2, HourTicks
<1>4. ASSUME NEW w \in Wrappers, proc[w].at # "off"
      PROVE  /\ proc[w].at = "run" /\ proc[w].kind = KindOf(w)
             /\ Late(w) \/ (OnTheDay(w) /\ hour % 24 = Slot(w) + proc[w].spent)
    BY <1>1, <1>4 DEF Live, Timetable, OnTime
<1>5. ASSUME NEW w \in Wrappers
      PROVE  /\ proc'[w].at = proc[w].at /\ proc'[w].kind = proc[w].kind
             /\ proc[w].spent \in Nat /\ proc'[w].spent \in Nat
             /\ proc[w].at # "off" =>
                   IF proc[w].spent >= Room(w) THEN proc'[w].spent > Room(w)
                   ELSE proc'[w].spent = proc[w].spent + 1 /\ proc'[w].spent <= Room(w)
    BY TickKeeps
\* The hour costs a fault when somebody is late after it.
<1>12. /\ faults' = faults \/ faults' = faults + 1
       /\ \A w \in Wrappers : Late(w)' => faults' = faults + 1
  <2>1. IF \E w \in Live : proc[w].spent >= Room(w) THEN faults' = faults + 1 ELSE faults' = faults
    <3>1. IF \E w \in Live : proc[w].spent >= Room(w) THEN Fault ELSE UNCHANGED faults
        BY DEF Tick
    <3> QED BY <3>1 DEF Fault
  <2>2. ASSUME NEW w \in Wrappers, Late(w)' PROVE w \in Live /\ proc[w].spent >= Room(w)
    <3>1. proc'[w].at # "off" /\ proc'[w].spent > Room(w)
        BY <2>2 DEF Late
    <3>2. Room(w) \in Nat
        BY Rooms
    <3> QED BY <1>5, <3>1, <3>2 DEF Live
  <2> QED BY <2>1, <2>2
\* A process that is not late after the hour was within its room before it.
<1>13. ASSUME NEW w \in Wrappers, proc'[w].at # "off", ~Late(w)'
       PROVE  /\ OnTheDay(w)' /\ hour' % 24 = Slot(w) + proc'[w].spent
              /\ proc'[w].spent >= 1 /\ ~Late(w)
  <2>1. proc[w].at # "off" /\ ~(proc'[w].spent > Room(w)) /\ Room(w) \in Nat
      BY <1>5, <1>13, Rooms DEF Late
  <2>2. proc[w].spent < Room(w) /\ proc'[w].spent = proc[w].spent + 1
      BY <1>5, <2>1
  <2>3. ~Late(w)
      BY <1>5, <2>1, <2>2 DEF Late
  <2>4. OnTheDay(w) /\ hour % 24 = Slot(w) + proc[w].spent
      BY <1>4, <2>1, <2>3
  <2>5. Slot(w) \in Nat /\ Slot(w) + Room(w) <= 23
      BY Rooms, WrapperSlots DEF Wrappers
  <2>6. hour % 24 # 23 /\ hour' % 24 = Slot(w) + proc'[w].spent
      BY <1>2, <1>3, <1>5, <2>1, <2>2, <2>4, <2>5
  <2>7. OnTheDay(w)'
      BY <1>2, <1>3, <2>4, <2>6 DEF OnTheDay
  <2> QED BY <1>5, <2>2, <2>3, <2>6, <2>7
<1>6. ASSUME NEW w \in Wrappers PROVE OnTime(w)'
  <2> SUFFICES ASSUME proc'[w].at # "off" PROVE OnTime(w)'
      BY DEF OnTime
  <2>1. proc'[w].at = "run" /\ proc'[w].kind = KindOf(w)
      BY <1>4, <1>5
  <2>2. Late(w)' \/ (OnTheDay(w)' /\ hour' % 24 = Slot(w) + proc'[w].spent)
      BY <1>13
  <2> QED BY <2>1, <2>2 DEF OnTime
<1>7. ASSUME NEW w \in due' PROVE w \in Launches(hour') /\ (proc'[w].at = "off" \/ Late(w)')
  <2>1. w \in Wrappers /\ w \in Launches(hour')
      BY <1>1, <1>7 DEF Launches
  <2>2. hour' % 24 = Slot(w)
    <3>1. (hour' = 1 => hour' % 24 = 1) /\ (hour' = 2 => hour' % 24 = 2)
        BY <1>3
    <3>2. \/ w = "daily" /\ hour' % 24 = 0
          \/ w = "weekly" /\ hour' = 1
          \/ w = "retry" /\ hour' = 2
          \/ w = "backfill" /\ hour' % 24 = 3
        BY <2>1 DEF Launches
    <3> QED BY <3>1, <3>2, WrapperSlots
  <2>3. ASSUME proc'[w].at # "off", ~Late(w)' PROVE FALSE
    <3>1. hour' % 24 = Slot(w) + proc'[w].spent /\ proc'[w].spent >= 1 /\ proc'[w].spent \in Nat
        BY <1>5, <1>13, <2>1, <2>3
    <3>2. Slot(w) \in Nat
        BY DEF Slot
    <3> QED BY <2>2, <3>1, <3>2
  <2> QED BY <2>1, <2>3
<1>8. snapshot'.manifest
  <2>1. snapshot.manifest
      BY <1>4 DEF Timetable
  <2> QED BY <1>1, <1>2, <2>1
<1>9. cursor'.status = "RUNNING" =>
          \E w \in Wrappers : proc'[w].at = "run" /\ proc'[w].kind = "TRAFFIC"
  <2>1. cursor'.status = cursor.status
      BY <1>1, <1>2
  <2> QED BY <1>5, <2>1 DEF Timetable
\* The delay grows at the end of a week, which leaves none without an excuse.
<1>10. cursor'.behind \in Nat /\ cursor'.behind <= faults + 1
  <2>1. CASE hour # 167
    <3>1. cursor' = cursor
        BY <1>1, <1>2, <1>3, <2>1
    <3> QED BY <1>2, <3>1 DEF Timetable
  <2>2. CASE hour = 167
    <3>1. ASSUME Trying PROVE cursor.behind <= faults
      <4>1. PICK w \in {"weekly", "retry"} : proc[w].at # "off"
          BY <1>1, <3>1 DEF Trying
      <4>2. w \in Wrappers /\ ~OnTheDay(w)
          BY <1>2, <2>2, <4>1, WrapperSlots DEF Wrappers
      <4> QED BY <1>4, <4>1, <4>2 DEF Timetable
    <3>2. cursor.behind <= faults
        BY <2>2, <3>1 DEF Timetable
    <3>3. cursor'.behind = Capped(cursor.behind + 1, MaxBehind) /\ MaxBehind \in Nat
        BY <1>1, <1>2, <1>3, <2>2, LaunchersAssumption
    <3> QED BY <1>2, <3>2, <3>3 DEF Capped
  <2> QED BY <2>1, <2>2
<1>11. \A w \in Wrappers : Late(w)' => faults' > 0 /\ cursor'.behind <= faults'
    BY <1>2, <1>10, <1>12
<1>14. cursor'.behind <= faults' + 1
    BY <1>2, <1>10, <1>12
<1>15. hour' >= 2 => cursor'.behind <= faults' \/ Trying'
  <2> SUFFICES ASSUME hour' >= 2 PROVE cursor'.behind <= faults' \/ Trying'
      OBVIOUS
  <2>1. CASE hour' = 2
    <3>1. "retry" \in due'
        BY <1>1, <2>1 DEF Launches, Wrappers
    <3> QED BY <3>1 DEF Trying
  <2>2. CASE hour' # 2
    <3>1. hour >= 2 /\ hour # 167
        BY <1>2, <1>3, <2>2
    <3>2. cursor' = cursor
        BY <1>1, <1>2, <1>3, <3>1
    <3>3. Trying => Trying'
        BY <1>1, <1>5 DEF Trying, Wrappers
    <3>4. cursor.behind <= faults \/ Trying
        BY <3>1 DEF Timetable
    <3> QED BY <1>2, <1>12, <3>2, <3>3, <3>4
  <2> QED BY <2>1, <2>2
<1> QED BY <1>6, <1>7, <1>8, <1>9, <1>11, <1>14, <1>15 DEF Timetable

LEMMA TimetableInitially == Init => Timetable
<1> SUFFICES ASSUME Init PROVE Timetable OBVIOUS
<1>1. /\ due = {} /\ \A w \in Wrappers : proc[w].at = "off"
      /\ snapshot.manifest /\ cursor.status = "SUCCESS" /\ cursor.behind = 0 /\ faults = 0
    BY DEF Init, Off
<1> QED BY <1>1 DEF Timetable, OnTime, Late

\* Nobody was killed yet.
LEMMA TimetableStep ==
    ASSUME TypeOK, OneCollector, Timetable, dead = 0, [Next]_vars, dead' = 0
    PROVE  Timetable'
<1>1. CASE UNCHANGED vars
    BY <1>1 DEF vars, Timetable, OnTime, OnTheDay, Late, Trying
<1>2. ASSUME NEW w \in Wrappers, KillRun(w) PROVE FALSE
    BY <1>2 DEF KillRun
<1> QED BY <1>1, <1>2, LaunchInTime, CollideInTime, EnsureInTime, GateInTime, PublicationInTime,
           CollectedInTime, FaultInTime, OthersInTime, HourInTime DEF Next

TimetableInv == dead = 0 => Timetable

LEMMA AlwaysTimetable == Spec => [](IInv /\ TimetableInv)
<1>1. Init => IInv /\ TimetableInv
    BY InitInv, TimetableInitially DEF TimetableInv
<1>2. IInv /\ TimetableInv /\ [Next]_vars => (IInv /\ TimetableInv)'
  <2> SUFFICES ASSUME IInv, TimetableInv, [Next]_vars PROVE IInv' /\ TimetableInv'
      OBVIOUS
  <2>1. IInv' /\ TypeOK /\ OneCollector
      BY StepInv DEF IInv
  <2>2. dead' = 0 => dead = 0
    <3>1. dead \in Nat
        BY <2>1, Types
    <3>2. dead' = dead \/ dead' = dead + 1
        BY DEF Next, vars, state, Launch, Collide, Ensure, GateStep, Swap, Publish, Report,
               Collected, Fails, KillRun, KillShell, Extend, Probe, ReadRuns, ReadState, EndCheck,
               Tick
    <3> QED BY <3>1, <3>2
  <2>3. TimetableInv'
      BY <2>1, <2>2, TimetableStep DEF TimetableInv
  <2> QED BY <2>1, <2>3
<1> QED BY <1>1, <1>2, PTL DEF Spec

\* From Monday on the weekly cursor is behind by no more weeks than things went wrong, the
\* hours that a run lasted into the launches of others included, while nobody is killed in
\* the middle of a run.
THEOREM LagStaysBounded == Spec => []LagIsBounded
<1>1. IInv /\ TimetableInv => LagIsBounded
  <2> SUFFICES ASSUME IInv, TimetableInv, dead = 0, hour >= 24 PROVE cursor.behind <= faults
      BY DEF LagIsBounded
  <2>1. Timetable /\ TypeOK
      BY DEF TimetableInv, IInv
  <2>2. hour \in Nat /\ "retry" \in Wrappers /\ "weekly" \in Wrappers
      BY <2>1, Types DEF Wrappers
  <2>3. "retry" \notin due
      BY <2>1, <2>2, LaunchSlots, WrapperSlots DEF Timetable
  <2>4. \A w \in {"weekly", "retry"} : proc[w].at = "off" \/ Late(w)
      BY <2>1, <2>2, WrapperSlots DEF Timetable, OnTime
  <2> QED BY <2>1, <2>2, <2>3, <2>4 DEF Timetable, Trying
<1> QED BY <1>1, AlwaysTimetable, PTL


-----------------------------------------------------------------------------
(* The alarms, as long as nothing at all went wrong.                          *)

\* The limits leave room for the timetable: a policy run ends within two hours, and
\* the weekly cursor moves before the Sunday is over.
EnoughRoom == SnapshotLimit >= 25 /\ TrafficLimit >= 191

\* The snapshot is of today, or the policy run of the day is under way.
Fresh ==
    \/ snapshot.age <= hour % 24
    \/ /\ hour % 24 <= 1 /\ snapshot.age <= 24 + (hour % 24)
       /\ "daily" \in due \/ proc["daily"].at \in {"start", "run", "swap"}

\* The latest run of a kind succeeded or is in progress.
Reached(k) ==
    \/ latest[k] = "SUCCESS"
    \/ latest[k] = "RUNNING" /\ \E w \in Wrappers : proc[w].at \in {"run", "swap"} /\ proc[w].kind = k

Calm == Fresh /\ Reached("POLICY") /\ Reached("TRAFFIC") /\ cursor.status # "FAILED"

\* A wrapper that goes on, or ends, leaves the snapshot as fresh and the runs as they are.
LEMMA CalmStep ==
    ASSUME TypeOK, OneCollector, Timetable, Calm, faults = 0, faults' = 0, NEW w \in Wrappers,
           \/ Launch(w) \/ Collide(w) \/ Ensure(w) \/ GateStep(w)
           \/ Swap(w) \/ Publish(w) \/ Report(w) \/ Collected(w)
           \/ Fails(w) \/ KillRun(w) \/ KillShell(w)
    PROVE  Calm'
<1>0. /\ proc \in [Wrappers -> Proc] /\ latest \in [Kinds -> Statuses]
      /\ cursor \in [status : {"RUNNING", "SUCCESS", "FAILED"}, behind : Nat]
      /\ snapshot \in [age : Nat, manifest : BOOLEAN]
      /\ "daily" \in Wrappers /\ hour % 24 \in 0..23
    BY Types DEF TypeOK, Wrappers
<1>1. ~Fails(w) /\ ~KillRun(w) /\ ~KillShell(w)
    BY DEF Fails, KillRun, KillShell, Fault
<1>2. hour' = hour
    BY <1>1 DEF Launch, Collide, Ensure, GateStep, Swap, Publish, Report, Collected
<1>3. CASE Launch(w)
  <2>1. /\ \A v \in Wrappers : proc[v].at = "off"
        /\ proc' = [proc EXCEPT ![w] = Started] /\ due' = due \ {w}
        /\ latest' = latest /\ snapshot' = snapshot /\ cursor' = cursor
      BY <1>3 DEF Launch, Held, Live, state
  <2>2. latest["POLICY"] = "SUCCESS" /\ latest["TRAFFIC"] = "SUCCESS"
      BY <2>1 DEF Calm, Reached
  <2>3. proc'[w].at = "start"
      BY <1>0, <2>1 DEF Started
  <2>4. "daily" \in due => "daily" \in due' \/ proc'["daily"].at = "start"
      BY <2>1, <2>3
  <2>5. Fresh'
      BY <1>0, <1>2, <2>1, <2>4 DEF Calm, Fresh
  <2> QED BY <2>1, <2>2, <2>5 DEF Calm, Reached
<1>4. CASE Collide(w)
  <2>1. /\ w \in due /\ due' = due \ {w} /\ proc' = proc
        /\ latest' = latest /\ snapshot' = snapshot /\ cursor' = cursor
      BY <1>4 DEF Collide, state
  <2>2. Live # {}
    <3>1. IF Live = {} THEN Fault ELSE UNCHANGED faults
        BY <1>4 DEF Collide
    <3> QED BY <3>1 DEF Fault
  <2>3. w # "daily"
    <3> SUFFICES ASSUME w = "daily" PROVE FALSE OBVIOUS
    <3>0. \A v \in Wrappers : ~Late(v)
        BY DEF Timetable
    <3>1. hour % 24 = 0 /\ proc["daily"].at = "off"
        BY <2>1, <3>0, LaunchSlots, WrapperSlots DEF Timetable
    <3>2. PICK v \in Wrappers : proc[v].at # "off"
        BY <2>2 DEF Live
    <3>3. proc[v].spent \in Nat /\ hour % 24 = Slot(v) + proc[v].spent
        BY <1>0, <3>0, <3>2 DEF Timetable, OnTime, Proc
    <3>4. v # "daily" /\ Slot(v) \in Nat /\ Slot(v) # 0
        BY <3>1, <3>2, WrapperSlots DEF Wrappers
    <3> QED BY <3>1, <3>3, <3>4
  <2>4. Fresh'
      BY <1>2, <2>1, <2>3 DEF Calm, Fresh
  <2> QED BY <2>1, <2>4 DEF Calm, Reached
<1> DEFINE Still(k) == proc[w].at \in {"run", "swap"} /\ proc[w].kind = k
           Now(k) == proc'[w].at \in {"run", "swap"} /\ proc'[w].kind = k
\* A kind whose latest run is not touched, and which is not the one that ends.
<1>5. ASSUME NEW k \in {"POLICY", "TRAFFIC"}, proc[w].at # "off",
             \/ latest'[k] = latest[k] /\ (Still(k) => Now(k))
             \/ latest'[k] = "SUCCESS"
             \/ latest'[k] = "RUNNING" /\ Now(k)
      PROVE  Reached(k)'
  <2>1. \A v \in Wrappers : v # w => proc[v].at = "off"
      BY <1>5, Alone
  <2>2. Reached(k)
      BY DEF Calm
  <2>3. latest[k] = "SUCCESS" \/ (latest[k] = "RUNNING" /\ Still(k))
      BY <2>1, <2>2 DEF Reached
  <2> QED BY <1>5, <2>3 DEF Reached
<1>6. CASE Ensure(w)
  <2>1. /\ proc[w].at = "start" /\ due' = due /\ snapshot' = snapshot /\ cursor' = cursor
        /\ \A v \in Wrappers : v # w => proc[v].at = "off"
      BY <1>6, Alone DEF Ensure
  <2>2. snapshot.manifest
      BY <2>1 DEF Timetable
  <2>3. \/ w = "daily" /\ Begins(w, "POLICY")
        \/ w # "daily" /\ Goes(w, "gate") /\ latest' = latest
      BY <1>6, <2>2 DEF Ensure
  <2>4. CASE w = "daily" /\ Begins(w, "POLICY")
    <3>1. /\ proc'[w].at = "run" /\ proc'[w].kind = "POLICY"
          /\ latest'["POLICY"] = "RUNNING" /\ latest'["TRAFFIC"] = latest["TRAFFIC"]
      <4>1. latest' = [latest EXCEPT !["POLICY"] = "RUNNING"]
          BY <2>4 DEF Begins
      <4> QED BY <1>0, <2>4, <4>1, RunBegins DEF Kinds
    <3>2. Reached("POLICY")' /\ Reached("TRAFFIC")'
        BY <1>5, <2>1, <3>1
    <3>3. Fresh'
        BY <1>2, <2>1, <2>4, <3>1 DEF Calm, Fresh
    <3> QED BY <2>1, <3>2, <3>3 DEF Calm
  <2>5. CASE w # "daily" /\ Goes(w, "gate") /\ latest' = latest
    <3>1. proc'["daily"] = proc["daily"]
        BY <1>0, <2>5 DEF Goes
    <3>2. Reached("POLICY")' /\ Reached("TRAFFIC")'
        BY <1>5, <2>1, <2>5
    <3>3. Fresh'
        BY <1>2, <2>1, <3>1 DEF Calm, Fresh
    <3> QED BY <2>1, <3>2, <3>3 DEF Calm
  <2> QED BY <2>3, <2>4, <2>5
<1>7. CASE GateStep(w)
  <2> DEFINE k == KindOf(w)
             isDue == IF k = "TRAFFIC" THEN WeeklyDue ELSE BackfillDue
  <2>1. /\ proc[w].at = "gate" /\ due' = due /\ snapshot' = snapshot
        /\ cursor' = IF isDue /\ k = "TRAFFIC" THEN [cursor EXCEPT !.status = "RUNNING"] ELSE cursor
        /\ \A v \in Wrappers : v # w => proc[v].at = "off"
      BY <1>7, Alone DEF GateStep
  <2>2. w # "daily" /\ cursor.status # "RUNNING"
      BY <2>1 DEF Timetable, OnTime
  <2>3. k # "POLICY" /\ k \in Kinds /\ (k = "TRAFFIC" => ~Refused(k))
      BY <2>2, WrapperSlots, KindsOfWrappers DEF Refused, Wrappers
  <2>4. \/ Exits(w) /\ latest' = latest
        \/ k # "TRAFFIC" /\ Exits(w) /\ latest' = [latest EXCEPT ![k] = "ERROR"]
        \/ Begins(w, k)
    <3>1. CASE ~isDue
        BY <1>7, <3>1 DEF GateStep
    <3>2. CASE isDue /\ Refused(k)
      <4>1. Exits(w) /\ latest' = [latest EXCEPT ![k] = "ERROR"]
          BY <1>7, <3>2 DEF GateStep
      <4> QED BY <2>3, <3>2, <4>1
    <3>3. CASE isDue /\ ~Refused(k)
        BY <1>7, <3>3 DEF GateStep
    <3> QED BY <3>1, <3>2, <3>3
  <2> HIDE DEF k, isDue
  <2>5. proc'["daily"] = proc["daily"]
      BY <1>0, <2>2, <2>4 DEF Exits, Begins
  <2>6. Fresh'
      BY <1>2, <2>1, <2>5 DEF Calm, Fresh
  <2>7. latest'["POLICY"] = latest["POLICY"]
      BY <1>0, <2>3, <2>4 DEF Begins, Kinds
  <2>8. \/ latest'["TRAFFIC"] = latest["TRAFFIC"]
        \/ latest'["TRAFFIC"] = "RUNNING" /\ Now("TRAFFIC")
    <3>1. CASE k = "TRAFFIC" /\ Begins(w, k)
      <4>1. latest' = [latest EXCEPT !["TRAFFIC"] = "RUNNING"]
          BY <3>1 DEF Begins
      <4>2. proc'[w].at = "run" /\ proc'[w].kind = "TRAFFIC"
          BY <3>1, RunBegins DEF Kinds
      <4> QED BY <1>0, <4>1, <4>2 DEF Kinds
    <3>2. CASE ~(k = "TRAFFIC" /\ Begins(w, k))
        BY <1>0, <2>3, <2>4, <3>2 DEF Begins, Kinds
    <3> QED BY <3>1, <3>2
  <2>9. Reached("POLICY")' /\ Reached("TRAFFIC")'
      BY <1>5, <2>1, <2>7, <2>8
  <2>10. cursor'.status # "FAILED"
      BY <1>0, <2>1 DEF Calm
  <2> QED BY <2>6, <2>9, <2>10 DEF Calm
<1>8. CASE Swap(w)
  <2>1. /\ proc[w].at = "run" /\ proc[w].kind = "POLICY" /\ Goes(w, "swap")
        /\ due' = due /\ cursor' = cursor /\ latest' = latest
        /\ snapshot' = [snapshot EXCEPT !.manifest = FALSE]
      BY <1>8 DEF Swap
  <2>2. /\ proc'[w].at = "swap" /\ proc'[w].kind = "POLICY"
        /\ \A v \in Wrappers : v # w => proc'[v] = proc[v]
      BY <1>0, <2>1 DEF Goes, Proc
  <2>3. snapshot'.age = snapshot.age
      BY <1>0, <2>1
  <2>4. proc["daily"].at \in {"start", "run", "swap"} => proc'["daily"].at \in {"start", "run", "swap"}
      BY <1>0, <2>2
  <2>5. Fresh'
      BY <1>2, <2>1, <2>3, <2>4 DEF Calm, Fresh
  <2>6. Reached("POLICY")' /\ Reached("TRAFFIC")'
      BY <1>5, <2>1, <2>2
  <2> QED BY <2>1, <2>5, <2>6 DEF Calm
<1>9. CASE Publish(w)
  <2>1. /\ proc[w].at = "swap" /\ due' = due /\ cursor' = cursor
        /\ latest' = [latest EXCEPT !["POLICY"] = "SUCCESS"]
        /\ snapshot' = [age |-> 0, manifest |-> TRUE]
      BY <1>9 DEF Publish
  <2>2. w = "daily" /\ proc[w].kind = "POLICY"
      BY <2>1, WrapperSlots DEF Timetable, OnTime
  <2>3. latest'["POLICY"] = "SUCCESS" /\ latest'["TRAFFIC"] = latest["TRAFFIC"]
      BY <1>0, <2>1 DEF Kinds
  <2>4. Fresh'
      BY <1>0, <1>2, <2>1 DEF Fresh
  <2>5. Reached("POLICY")' /\ Reached("TRAFFIC")'
      BY <1>5, <2>1, <2>2, <2>3
  <2> QED BY <2>1, <2>4, <2>5 DEF Calm
<1>10. CASE Report(w)
  <2>1. proc[w].at = "report" /\ Exits(w) /\ due' = due /\ snapshot' = snapshot
        /\ cursor' = cursor /\ latest' = latest
      BY <1>10 DEF Report, state
  <2>2. w = "daily" /\ "daily" \notin due
      BY <2>1 DEF Timetable, OnTime, Late
  <2>3. Fresh'
      BY <1>2, <2>1, <2>2 DEF Calm, Fresh
  <2>4. Reached("POLICY")' /\ Reached("TRAFFIC")'
      BY <1>5, <2>1
  <2> QED BY <2>1, <2>3, <2>4 DEF Calm
<1>11. CASE Collected(w)
  <2>1. /\ proc[w].at = "run" /\ proc[w].kind # "POLICY" /\ Exits(w) /\ due' = due
        /\ snapshot' = snapshot
        /\ latest' = [latest EXCEPT ![proc[w].kind] = "SUCCESS"]
        /\ cursor' = IF proc[w].kind = "TRAFFIC"
                     THEN [status |-> "SUCCESS", behind |-> cursor.behind - 1] ELSE cursor
      BY <1>11 DEF Collected
  <2>2. w # "daily" /\ proc[w].kind \in Kinds
      BY <1>0, <2>1, WrapperSlots DEF Timetable, OnTime, Proc
  <2>3. proc'["daily"] = proc["daily"]
      BY <1>0, <2>1, <2>2 DEF Exits
  <2>4. Fresh'
      BY <1>2, <2>1, <2>3 DEF Calm, Fresh
  <2>5. /\ latest'["POLICY"] = latest["POLICY"]
        /\ IF proc[w].kind = "TRAFFIC" THEN latest'["TRAFFIC"] = "SUCCESS"
           ELSE latest'["TRAFFIC"] = latest["TRAFFIC"]
      BY <1>0, <2>1, <2>2 DEF Kinds
  <2>6. Reached("POLICY")' /\ Reached("TRAFFIC")'
      BY <1>5, <2>1, <2>5
  <2>7. cursor'.status # "FAILED"
      BY <2>1 DEF Calm
  <2> QED BY <2>4, <2>6, <2>7 DEF Calm
<1> QED BY <1>1, <1>3, <1>4, <1>6, <1>7, <1>8, <1>9, <1>10, <1>11

\* The policy run of the day ends before the snapshot of the day before is too old.
LEMMA CalmHour ==
    ASSUME TypeOK, OneCollector, Timetable, Calm, Tick, faults' = 0
    PROVE  Calm'
<1>1. /\ due = {} /\ hour' = (hour + 1) % 168 /\ due' = Launches(hour')
      /\ \A w \in Live : proc[w].at = "run" /\ ~(proc[w].spent >= Room(w))
      /\ snapshot' = [snapshot EXCEPT !.age = Capped(@ + 1, SnapshotLimit)]
      /\ cursor' = IF hour' = 0 THEN [cursor EXCEPT !.behind = Capped(@ + 1, MaxBehind)] ELSE cursor
      /\ latest' = latest
  <2>1. ~\E w \in Live : proc[w].spent >= Room(w)
    <3>1. (\E w \in Live : proc[w].spent >= Room(w)) => Fault
        BY DEF Tick
    <3>2. faults \in Nat
        BY Types
    <3> QED BY <3>1, <3>2 DEF Fault
  <2> QED BY <2>1 DEF Tick
<1>2. /\ proc \in [Wrappers -> Proc] /\ hour \in Nat /\ hour <= 167 /\ hour % 24 \in 0..23
      /\ snapshot \in [age : Nat, manifest : BOOLEAN]
      /\ cursor \in [status : {"RUNNING", "SUCCESS", "FAILED"}, behind : Nat]
      /\ "daily" \in Wrappers
    BY Types DEF Wrappers
<1>3. hour' % 24 = IF hour % 24 = 23 THEN 0 ELSE (hour % 24) + 1
    BY <1>1, <1>2, HourTicks
<1>4. \A w \in Wrappers : proc'[w].at = proc[w].at /\ proc'[w].kind = proc[w].kind
    BY TickKeeps
<1>5. Reached("POLICY")' /\ Reached("TRAFFIC")' /\ cursor'.status # "FAILED"
  <2>1. cursor'.status = cursor.status
      BY <1>1, <1>2
  <2> QED BY <1>1, <1>4, <2>1 DEF Calm, Reached
<1>6. snapshot'.age \in Nat /\ snapshot'.age <= snapshot.age + 1
  <2>1. SnapshotLimit \in Nat
      BY LaunchersAssumption
  <2>2. snapshot'.age = Capped(snapshot.age + 1, SnapshotLimit)
      BY <1>1, <1>2
  <2> QED BY <1>2, <2>1, <2>2 DEF Capped
<1>7. Fresh'
  <2>1. CASE hour % 24 = 23
    <3>1. hour' % 24 = 0 /\ "daily" \in due'
        BY <1>1, <1>3, <2>1 DEF Launches, Wrappers
    <3>2. snapshot.age <= 23
        BY <2>1 DEF Calm, Fresh
    <3>3. snapshot'.age <= 24 + (hour' % 24)
        BY <1>2, <1>6, <3>1, <3>2
    <3> QED BY <3>1, <3>3 DEF Fresh
  <2>2. CASE hour % 24 # 23 /\ snapshot.age <= hour % 24
      BY <1>2, <1>3, <1>6, <2>2 DEF Fresh
  <2>3. CASE hour % 24 # 23 /\ ~(snapshot.age <= hour % 24)
    <3>1. /\ hour % 24 <= 1 /\ snapshot.age <= 24 + (hour % 24)
          /\ proc["daily"].at \in {"start", "run", "swap"}
        BY <1>1, <2>3 DEF Calm, Fresh
    <3>2. /\ proc["daily"].at = "run" /\ proc["daily"].spent \in Nat
          /\ ~(proc["daily"].spent >= 1)
      <4>1. "daily" \in Live
          BY <1>2, <3>1 DEF Live
      <4>2. proc["daily"].at = "run" /\ ~(proc["daily"].spent >= 1)
          BY <1>1, <4>1, Rooms
      <4> QED BY <1>2, <4>2, TickKeeps
    <3>3. hour % 24 = 0
      <4>1. ~Late("daily")
          BY <3>2, Rooms DEF Late
      <4>2. hour % 24 = 0 + proc["daily"].spent
          BY <1>2, <3>2, <4>1, WrapperSlots DEF Timetable, OnTime
      <4> QED BY <3>2, <4>2
    <3>4. hour' % 24 = 1 /\ snapshot'.age <= 24 + (hour' % 24)
        BY <1>2, <1>3, <1>6, <3>1, <3>3
    <3>5. proc'["daily"].at = "run"
        BY <1>2, <1>4, <3>2
    <3> QED BY <3>4, <3>5 DEF Fresh
  <2> QED BY <2>1, <2>2, <2>3
<1> QED BY <1>5, <1>7 DEF Calm

\* What the monitor reads of a calm system is no alarm.
LEMMA NoAlarm ==
    ASSUME EnoughRoom, TypeOK, OneCollector, Timetable, Calm, faults = 0, mon.at # "idle"
    PROVE  /\ RunAlarms \subseteq Warnings
           /\ StateAlarms \subseteq Warnings \union (IF mon.lock = "HELD" THEN {"missing"} ELSE {})
<1>1. mon.lock \in {"FREE", "HELD"} /\ dead = 0
    BY Types DEF TypeOK
<1>2. mon.lock = "FREE" => Live = {}
    BY DEF OneCollector, MonitorHolds
<1>3. \A w \in Wrappers : mon.lock = "FREE" => proc[w].at = "off"
    BY <1>2 DEF Live
<1>4. mon.lock = "FREE" => RunningRows = 0
    BY <1>1, <1>2, NoneRunning
<1>5. ~Bad("POLICY") /\ ~Bad("TRAFFIC")
    BY <1>1, <1>3 DEF Calm, Reached, Bad
<1>6. RunAlarms \subseteq Warnings
  <2>1. ~(mon.lock = "FREE" /\ RunningRows > 0)
      BY <1>4
  <2> QED BY <1>5, <2>1 DEF RunAlarms, Warnings
<1>7. ~snapshot.manifest => mon.lock = "HELD"
    BY <1>1, <1>3 DEF Timetable
<1>8. ~(snapshot.age > SnapshotLimit)
  <2>1. snapshot.age \in Nat /\ hour % 24 \in 0..23 /\ SnapshotLimit \in Nat /\ SnapshotLimit >= 25
      BY Types, LaunchersAssumption DEF EnoughRoom
  <2>2. snapshot.age <= 25
      BY <2>1 DEF Calm, Fresh
  <2> QED BY <2>1, <2>2
<1>9. ~(CursorAge > TrafficLimit)
  <2>1. /\ cursor.behind \in Nat /\ hour \in Nat /\ hour <= 167
        /\ TrafficLimit \in Nat /\ TrafficLimit >= 191
      BY Types, LaunchersAssumption DEF EnoughRoom
  <2>2. CASE hour >= 24
    <3>1. ~Trying
      <4>1. "retry" \notin due
          BY <2>2, LaunchSlots, WrapperSlots, <2>1 DEF Timetable, Wrappers
      <4>2. \A w \in {"weekly", "retry"} : proc[w].at = "off"
          BY <2>1, <2>2, WrapperSlots DEF Timetable, OnTime, Wrappers
      <4> QED BY <4>1, <4>2 DEF Trying
    <3>2. cursor.behind = 0
        BY <2>1, <2>2, <3>1 DEF Timetable
    <3> QED BY <2>1, <3>2 DEF CursorAge
  <2>3. CASE hour < 24
    <3>1. cursor.behind = 0 \/ cursor.behind = 1
        BY <2>1 DEF Timetable
    <3> QED BY <2>1, <2>3, <3>1 DEF CursorAge
  <2> QED BY <2>1, <2>2, <2>3
<1>10. cursor.status # "FAILED"
    BY DEF Calm
<1>11. StateAlarms \subseteq Warnings \union (IF mon.lock = "HELD" THEN {"missing"} ELSE {})
    BY <1>7, <1>8, <1>9, <1>10 DEF StateAlarms, Warnings
<1> QED BY <1>6, <1>11

LEMMA QuietStep ==
    ASSUME EnoughRoom, TypeOK, OneCollector, Timetable, Calm, QuietIsHealthy,
           faults = 0, [Next]_vars
    PROVE  faults' = 0 => QuietIsHealthy'
<1>1. mon \in Monitor
    BY DEF TypeOK, Monitor
<1>2. CASE mon' = mon
    BY <1>2 DEF QuietIsHealthy
<1>3. CASE Probe \/ EndCheck
  <2>1. mon'.alarms = {}
      BY <1>3 DEF Probe, EndCheck, QuietMonitor
  <2> QED BY <2>1 DEF QuietIsHealthy
<1>4. CASE ReadRuns
  <2>1. mon'.alarms = RunAlarms /\ mon'.lock = mon.lock /\ mon.at # "idle"
      BY <1>1, <1>4 DEF ReadRuns, Monitor
  <2>2. RunAlarms \subseteq Warnings
      BY <2>1, NoAlarm
  <2> QED BY <2>1, <2>2 DEF QuietIsHealthy
<1>5. CASE ReadState
  <2>1. mon'.alarms = mon.alarms \union StateAlarms /\ mon'.lock = mon.lock /\ mon.at # "idle"
      BY <1>1, <1>5 DEF ReadState, Monitor
  <2>2. StateAlarms \subseteq Warnings \union (IF mon.lock = "HELD" THEN {"missing"} ELSE {})
      BY <2>1, NoAlarm
  <2> QED BY <2>1, <2>2 DEF QuietIsHealthy
<1>6. CASE Extend \/ Tick \/ UNCHANGED vars
    BY <1>2, <1>6 DEF Extend, Tick, vars
<1>7. ASSUME NEW w \in Wrappers,
             \/ Launch(w) \/ Collide(w) \/ Ensure(w) \/ GateStep(w)
             \/ Swap(w) \/ Publish(w) \/ Report(w) \/ Collected(w)
             \/ Fails(w) \/ KillRun(w) \/ KillShell(w)
      PROVE  mon' = mon
    BY <1>7 DEF Launch, Collide, Ensure, GateStep, Swap, Publish, Report, Collected, Fails,
                KillRun, KillShell
<1> QED BY <1>2, <1>3, <1>4, <1>5, <1>6, <1>7 DEF Next

QuietInv == EnoughRoom /\ faults = 0 => Calm /\ QuietIsHealthy

\* A critical alarm is a sign that something went wrong, be it only a run that outlasted the
\* room of its wrapper: limits of 25 and 191 hours would do for that, those of production
\* are 26 and 192 (check-collection.sh).
THEOREM QuietStaysHealthy == EnoughRoom => (Spec => []QuietIsHealthy)
<1> SUFFICES ASSUME EnoughRoom PROVE Spec => []QuietIsHealthy
    OBVIOUS
<1>1. Init => QuietInv
  <2> SUFFICES ASSUME Init PROVE Calm /\ QuietIsHealthy
      BY DEF QuietInv
  <2>1. /\ latest["POLICY"] = "SUCCESS" /\ latest["TRAFFIC"] = "SUCCESS"
        /\ cursor.status = "SUCCESS" /\ snapshot.age = 0 /\ mon.alarms = {} /\ hour \in Hours
      BY DEF Init, Kinds, QuietMonitor
  <2>2. 0 <= hour % 24
      BY <2>1 DEF Hours
  <2> QED BY <2>1, <2>2 DEF Calm, Fresh, Reached, QuietIsHealthy
<1>2. IInv /\ TimetableInv /\ QuietInv /\ [Next]_vars => QuietInv'
  <2> SUFFICES ASSUME IInv, TimetableInv, QuietInv, [Next]_vars, faults' = 0
               PROVE  Calm' /\ QuietIsHealthy'
      BY DEF QuietInv
  <2>1. TypeOK /\ OneCollector
      BY DEF IInv
  <2>2. faults = 0
    <3>1. faults \in Nat
        BY <2>1, Types
    <3>2. faults' = faults \/ faults' = faults + 1
        BY DEF Next, vars, Launch, Collide, Ensure, GateStep, Swap, Publish, Report, Fault,
               Collected, Fails, KillRun, KillShell, Extend, Probe, ReadRuns, ReadState, EndCheck,
               Tick
    <3> QED BY <3>1, <3>2
  <2>3. dead = 0
      BY <2>1, <2>2 DEF TypeOK
  <2>4. Timetable /\ Calm /\ QuietIsHealthy
      BY <2>2, <2>3 DEF TimetableInv, QuietInv
  <2>5. QuietIsHealthy'
      BY <2>1, <2>2, <2>4, QuietStep
  <2>6. CASE Extend \/ Probe \/ ReadRuns \/ ReadState \/ EndCheck \/ UNCHANGED vars
    <3>1. UNCHANGED <<hour, due, proc, latest, snapshot, cursor>>
        BY <2>6 DEF Extend, Probe, ReadRuns, ReadState, EndCheck, state, vars
    <3>2. Calm'
        BY <2>4, <3>1 DEF Calm, Fresh, Reached
    <3> QED BY <2>5, <3>2
  <2> QED BY <2>1, <2>2, <2>4, <2>5, <2>6, CalmStep, CalmHour DEF Next
<1>3. IInv /\ TimetableInv /\ QuietInv => QuietIsHealthy
  <2> SUFFICES ASSUME IInv, TimetableInv, QuietInv PROVE QuietIsHealthy
      OBVIOUS
  <2> QED BY DEF QuietInv, QuietIsHealthy
<1> QED BY <1>1, <1>2, <1>3, AlwaysTimetable, PTL DEF Spec

-----------------------------------------------------------------------------
(* Polling, for every set of queries and all delays, retries and deadlines: how  *)
(* late it may end, and that nothing finished in time is returned as pending.    *)

USE DelaysAssumption

\* The latest moment at which the first execution of a command may start.
Latest == IF InitialDelay > Deadline - 1 + Interval THEN InitialDelay
          ELSE Deadline - 1 + Interval

\* What the retries so far may have added to it.
Spent == tries * MaxCommand + rate * RateDelay + transport * TransportDelay

\* A waiting collector has counted its executions, and neither they nor the
\* pauses between them took longer than they may.
Schedule ==
  /\ pc \in {"sleeping", "running"} => tries = rate + transport /\ wake <= Latest + Spent
  /\ pc = "sleeping" => clock <= Latest + Spent
  /\ pc = "running" => clock <= wake + MaxCommand
  /\ clock <= Latest + LongestCommand

(* Arithmetic. *)

\* A product grows with its first factor.
LEMMA ProductGrows ==
  ASSUME NEW a \in Nat, NEW b \in Nat, NEW c \in Nat, a <= b
  PROVE  a * c <= b * c /\ a * c \in Nat /\ b * c \in Nat
<1>1. PICK d \in Nat : b = a + d
  <2>1. b - a \in Nat /\ b = a + (b - a)
    OBVIOUS
  <2> QED BY <2>1
<1>2. b * c = a * c + d * c
  BY <1>1
<1>3. d * c \in Nat /\ a * c \in Nat /\ b * c \in Nat
  BY <1>1
<1> QED BY <1>2, <1>3

\* One execution more is one command's minutes more.
LEMMA OneMore ==
  ASSUME NEW a \in Nat, NEW c \in Nat
  PROVE  (a + 1) * c = a * c + c
OBVIOUS

\* The first poll, and each after a pause that began before the deadline, come by Latest.
LEMMA LatestNat == Latest \in Nat /\ Deadline - 1 + Interval <= Latest /\ InitialDelay <= Latest
BY DEF Latest

\* All that a command's executions and pauses may add.
LEMMA SpentBound ==
  ASSUME PollTypeOK, tries = rate + transport
  PROVE  Spent \in Nat /\ Spent + MaxCommand <= LongestCommand
<1>1. rate * RateDelay <= RateMax * RateDelay
      /\ rate * RateDelay \in Nat /\ RateMax * RateDelay \in Nat
  BY ProductGrows DEF PollTypeOK
<1>2. transport * TransportDelay <= TransportMax * TransportDelay
      /\ transport * TransportDelay \in Nat /\ TransportMax * TransportDelay \in Nat
  BY ProductGrows DEF PollTypeOK
<1>3. tries \in Nat /\ tries + 1 \in Nat /\ tries + 1 <= 1 + RateMax + TransportMax
  BY DEF PollTypeOK
<1>4. (tries + 1) * MaxCommand <= (1 + RateMax + TransportMax) * MaxCommand
      /\ tries * MaxCommand \in Nat
      /\ (1 + RateMax + TransportMax) * MaxCommand \in Nat
  BY <1>3, ProductGrows
<1>5. (tries + 1) * MaxCommand = tries * MaxCommand + MaxCommand
  BY <1>3, OneMore
<1> QED BY <1>1, <1>2, <1>4, <1>5 DEF Spent, LongestCommand

-----------------------------------------------------------------------------
(* The steps. *)

\* What the PCE does takes no time.
LEMMA FinishKeeps ==
  ASSUME PollTypeOK, Schedule, NEW q \in Queries, NEW outcome \in Finished, Finish(q, outcome)
  PROVE  PollTypeOK' /\ Schedule'
<1>1. PollTypeOK'
  BY DEF PollTypeOK, Finish, States, Finished, Never
<1>2. Schedule'
  BY DEF Schedule, Finish, Spent
<1> QED BY <1>1, <1>2

\* A sleep ends at the minute it was meant to.
LEMMA WakeKeeps ==
  ASSUME PollTypeOK, Schedule, Wake
  PROVE  PollTypeOK' /\ Schedule'
<1>1. PollTypeOK'
  BY DEF PollTypeOK, Wake, pce
<1>2. Spent' = Spent
  BY DEF Wake, Spent
<1>3. Spent \in Nat /\ Spent + MaxCommand <= LongestCommand
  BY SpentBound DEF Wake, Schedule
<1>4. LongestCommand \in Int /\ Latest \in Nat
  BY LatestNat DEF LongestCommand
<1>5. Schedule'
  BY <1>2, <1>3, <1>4 DEF Schedule, Wake, PollTypeOK
<1> QED BY <1>1, <1>5

\* What is known of a running command.
LEMMA ExecuteBound ==
  ASSUME PollTypeOK, Schedule, pc = "running"
  PROVE  /\ tries = rate + transport /\ tries + 1 \in 0..(1 + RateMax + TransportMax)
         /\ wake <= Latest + Spent /\ wake + MaxCommand <= Latest + LongestCommand
         /\ clock \in Nat /\ clock <= Latest + Spent + MaxCommand
         /\ clock <= Latest + LongestCommand
         /\ Spent \in Nat /\ LongestCommand \in Int /\ Latest \in Nat
<1>1. tries = rate + transport /\ wake <= Latest + Spent /\ clock <= wake + MaxCommand
  BY DEF Schedule
<1>2. clock \in Nat /\ wake \in Nat
  BY DEF PollTypeOK
<1>3. Spent \in Nat /\ Spent + MaxCommand <= LongestCommand
  BY <1>1, SpentBound
<1>4. LongestCommand \in Int /\ Latest \in Nat
  BY LatestNat DEF LongestCommand
<1>5. tries + 1 \in 0..(1 + RateMax + TransportMax)
  BY <1>1 DEF PollTypeOK
<1> QED BY <1>1, <1>2, <1>3, <1>4, <1>5

\* A running command stays within its minutes.
LEMMA RunKeeps ==
  ASSUME PollTypeOK, Schedule, Minute \/ \E q \in Queries : Look(q)
  PROVE  PollTypeOK' /\ Schedule'
<1>1. pc = "running" /\ pc' = "running"
  BY DEF Minute, Look
<1>2. CASE Minute
  <2>1. clock' = clock + 1 /\ clock < wake + MaxCommand
        /\ UNCHANGED <<noWait, pce, file, answers, pc, wake, rate, transport, tries>>
    BY <1>2 DEF Minute
  <2>2. Spent' = Spent
    BY <2>1 DEF Spent
  <2>3. PollTypeOK'
    BY <2>1 DEF PollTypeOK, pce
  <2>4. wake \in Nat /\ clock + 1 <= wake + MaxCommand
    BY <2>1 DEF PollTypeOK
  <2>5. clock' <= Latest + LongestCommand
    BY <1>1, <2>1, <2>4, ExecuteBound
  <2>6. Schedule'
    BY <1>1, <2>1, <2>2, <2>4, <2>5 DEF Schedule
  <2> QED BY <2>3, <2>6
<1>3. ASSUME NEW q \in Queries, Look(q)
      PROVE  PollTypeOK' /\ Schedule'
  <2>1. /\ answers' = [x \in DOMAIN answers \cup {q} |-> IF x = q THEN queries[q] ELSE answers[x]]
        /\ UNCHANGED <<noWait, pce, file, pc, clock, wake, rate, transport, tries>>
    BY <1>3 DEF Look
  <2>2. DOMAIN answers' \subseteq Queries /\ \A x \in DOMAIN answers' : answers'[x] \in States
    BY <2>1 DEF PollTypeOK
  <2>3. PollTypeOK'
    BY <2>1, <2>2 DEF PollTypeOK, pce
  <2>4. Schedule'
    BY <2>1 DEF Schedule, Spent
  <2> QED BY <2>3, <2>4
<1> QED BY <1>2, <1>3

\* A command that fails for good ends the polling.
LEMMA GiveUpKeeps ==
  ASSUME PollTypeOK, Schedule, GiveUp
  PROVE  PollTypeOK' /\ Schedule'
<1>1. Execute /\ pc = "running"
  BY DEF GiveUp, Execute
<1>2. PollTypeOK'
  BY <1>1, ExecuteBound DEF PollTypeOK, GiveUp, Execute, pce
<1>3. Schedule'
  BY <1>1, ExecuteBound DEF Schedule, GiveUp, Execute
<1> QED BY <1>2, <1>3

\* A report ends the polling, or was read before the deadline.
LEMMA ReportKeeps ==
  ASSUME PollTypeOK, Schedule, Answer
  PROVE  PollTypeOK' /\ Schedule'
<1>1. /\ pc = "running" /\ file' = answers
      /\ UNCHANGED <<noWait, pce, answers, clock>>
  BY DEF Answer, Execute
<1>2. DOMAIN file' \subseteq Queries /\ \A q \in DOMAIN file' : file'[q] \in States
  BY <1>1 DEF PollTypeOK
<1>3. CASE Expects(answers, clock)
  <2>1. /\ pc' = "sleeping" /\ wake' = Later(Interval)
        /\ rate' = 0 /\ transport' = 0 /\ tries' = 0
    BY <1>3 DEF Answer, Pause
  <2>2. wake' \in Nat /\ wake' <= clock + Interval
    BY <1>1, <2>1, ExecuteBound DEF Later
  <2>3. PollTypeOK'
    BY <1>1, <1>2, <2>1, <2>2 DEF PollTypeOK, pce
  <2>4. clock <= Deadline - 1
    BY <1>1, <1>3, ExecuteBound DEF Expects
  <2>5. Spent' = 0
    BY <2>1 DEF Spent
  <2>6. wake' <= Latest /\ clock <= Latest
    BY <1>1, <2>2, <2>4, LatestNat, ExecuteBound
  <2>7. Latest' = Latest /\ LongestCommand' = LongestCommand
    BY DEF Latest, LongestCommand
  <2>8. clock' <= Latest + LongestCommand /\ clock' <= Latest
    BY <1>1, <2>6, ExecuteBound
  <2>9. Latest \in Nat
    BY LatestNat
  <2> HIDE DEF Latest
  <2>10. Schedule'
    BY <2>1, <2>5, <2>6, <2>7, <2>8, <2>9 DEF Schedule
  <2> QED BY <2>3, <2>10
<1>4. CASE ~Expects(answers, clock)
  <2>1. pc' = "done" /\ tries' = tries + 1 /\ UNCHANGED <<wake, rate, transport>>
    BY <1>4 DEF Answer
  <2>2. PollTypeOK'
    BY <1>1, <1>2, <2>1, ExecuteBound DEF PollTypeOK, pce
  <2>3. Schedule'
    BY <1>1, <2>1, ExecuteBound DEF Schedule
  <2> QED BY <2>2, <2>3
<1> QED BY <1>3, <1>4

\* A retry takes the command and a pause of its kind.
LEMMA RetryKeeps ==
  ASSUME PollTypeOK, Schedule, Retry
  PROVE  PollTypeOK' /\ Schedule'
<1>1. /\ Execute /\ tries' = tries + 1 /\ UNCHANGED file
      /\ pc = "running" /\ UNCHANGED <<noWait, pce, answers, clock>>
  BY DEF Retry, Execute
<1>2. (tries + 1) * MaxCommand = tries * MaxCommand + MaxCommand
  BY OneMore DEF PollTypeOK
<1>3. CASE rate < RateMax /\ rate' = rate + 1 /\ Pause(RateDelay) /\ UNCHANGED transport
  <2>1. wake' \in Nat /\ wake' <= clock + RateDelay
    BY <1>1, <1>3, ExecuteBound DEF Pause, Later
  <2>2. PollTypeOK'
    BY <1>1, <1>3, <2>1, ExecuteBound DEF PollTypeOK, Pause, Execute, pce
  <2>3. (rate + 1) * RateDelay = rate * RateDelay + RateDelay
    BY OneMore DEF PollTypeOK
  <2>4. Spent' = Spent + MaxCommand + RateDelay
    <3>1. tries * MaxCommand \in Nat /\ rate * RateDelay \in Nat
          /\ transport * TransportDelay \in Nat
      BY DEF PollTypeOK
    <3> QED BY <1>1, <1>2, <1>3, <2>3, <3>1 DEF Spent
  <2>5. Schedule'
    BY <1>1, <1>3, <2>1, <2>4, ExecuteBound DEF Schedule, Pause, Latest, LongestCommand, PollTypeOK
  <2> QED BY <2>2, <2>5
<1>4. CASE /\ transport < TransportMax /\ transport' = transport + 1
           /\ Pause(TransportDelay) /\ UNCHANGED rate
  <2>1. wake' \in Nat /\ wake' <= clock + TransportDelay
    BY <1>1, <1>4, ExecuteBound DEF Pause, Later
  <2>2. PollTypeOK'
    BY <1>1, <1>4, <2>1, ExecuteBound DEF PollTypeOK, Pause, Execute, pce
  <2>3. (transport + 1) * TransportDelay = transport * TransportDelay + TransportDelay
    BY OneMore DEF PollTypeOK
  <2>4. Spent' = Spent + MaxCommand + TransportDelay
    <3>1. tries * MaxCommand \in Nat /\ rate * RateDelay \in Nat
          /\ transport * TransportDelay \in Nat
      BY DEF PollTypeOK
    <3> QED BY <1>1, <1>2, <1>4, <2>3, <3>1 DEF Spent
  <2>5. Schedule'
    BY <1>1, <1>4, <2>1, <2>4, ExecuteBound DEF Schedule, Pause, Latest, LongestCommand, PollTypeOK
  <2> QED BY <2>2, <2>5
<1> QED BY <1>3, <1>4 DEF Retry

-----------------------------------------------------------------------------

\* Polling begins with a pause of the initial delay.
LEMMA Initially == PollInit => PollTypeOK /\ Schedule
<1> SUFFICES ASSUME PollInit PROVE PollTypeOK /\ Schedule
  OBVIOUS
<1>1. PollTypeOK
  BY DEF PollInit, PollTypeOK, States, Never
<1>2. Spent = 0
  BY DEF PollInit, Spent
<1>3. Spent + MaxCommand <= LongestCommand
  BY <1>1, SpentBound DEF PollInit
<1>4. Schedule
  BY <1>2, <1>3, LatestNat DEF PollInit, Schedule, LongestCommand
<1> QED BY <1>1, <1>4

\* The schedule is kept by every step.
LEMMA StepKeeps == PollTypeOK /\ Schedule /\ [PollNext]_pollVars => PollTypeOK' /\ Schedule'
<1> SUFFICES ASSUME PollTypeOK, Schedule, [PollNext]_pollVars PROVE PollTypeOK' /\ Schedule'
  OBVIOUS
<1>1. CASE UNCHANGED pollVars
  BY <1>1 DEF pollVars, PollTypeOK, Schedule, Spent
<1>2. CASE PollNext
  BY <1>2, FinishKeeps, WakeKeeps, RunKeeps, ReportKeeps, RetryKeeps, GiveUpKeeps
     DEF PollNext, Collector
<1> QED BY <1>1, <1>2

\* Every reachable state is type correct: in particular no command is executed
\* more often than WorkloaderRunner.run may for its two kinds of retries.
THEOREM PollingTypes == PollSpec => []PollTypeOK
BY Initially, StepKeeps, PTL DEF PollSpec

\* Polling never overshoots its deadline by more than one interval and one command
\* with all its retries, whatever the PCE answers (_poll_batch).
THEOREM PollingEndsInTime == PollSpec => []OvershootBounded
<1>1. Schedule => OvershootBounded
  BY DEF Schedule, OvershootBounded, Latest
<1> QED BY <1>1, Initially, StepKeeps, PTL DEF PollSpec

(* What is returned as pending. *)

\* A running command is within its minutes, and what it read as pending was not finished
\* when it began.
ReadLate ==
  /\ \A q \in Queries : queries[q] = "pending" => ended[q] = Never
  /\ pc = "running" =>
       /\ wake <= clock /\ clock <= wake + MaxCommand
       /\ \A q \in DOMAIN answers :
            answers[q] = "pending" => ended[q] = Never \/ ended[q] >= wake

\* A query that the PCE finishes now was not finished when the running command began, nor
\* when the last command before the deadline did.
LEMMA FinishIsLate ==
  ASSUME PollTypeOK, ReadLate, FinishedInTime,
         NEW q \in Queries, NEW outcome \in Finished, Finish(q, outcome)
  PROVE  ReadLate' /\ FinishedInTime'
<1>1. /\ queries'[q] = outcome /\ ended'[q] = clock /\ outcome # "pending"
      /\ \A other \in Queries \ {q} : /\ queries'[other] = queries[other]
                                      /\ ended'[other] = ended[other]
      /\ UNCHANGED <<noWait, file, answers, pc, clock, wake>>
  BY DEF PollTypeOK, Finish, Finished
<1>2. /\ clock \in Nat /\ DOMAIN answers \subseteq Queries /\ DOMAIN file \subseteq Queries
  BY DEF PollTypeOK
<1>3. ReadLate'
  BY <1>1, <1>2 DEF ReadLate
<1>4. clock >= Deadline => clock >= Deadline - MaxCommand
  BY <1>2
<1>5. FinishedInTime'
  BY <1>1, <1>2, <1>4 DEF FinishedInTime
<1> QED BY <1>3, <1>5

LEMMA PendingStep ==
  ASSUME PollTypeOK, ReadLate, FinishedInTime, [PollNext]_pollVars
  PROVE  ReadLate' /\ FinishedInTime'
<1>0. clock \in Nat /\ wake \in Nat /\ ended \in [Queries -> Nat \cup {Never}]
      /\ DOMAIN answers \subseteq Queries
  BY DEF PollTypeOK
<1>1. CASE Answer
  <2>1. /\ UNCHANGED <<noWait, queries, ended, clock>> /\ pc' \in {"sleeping", "done"}
        /\ pc = "running" /\ file' = answers
    BY <1>1 DEF Answer, Execute, Pause, pce
  <2>2. pc' = "done" => ~Expects(answers, clock)
    BY <1>1 DEF Answer, Pause
  <2>3. pc' = "done" /\ ~noWait /\ (\E q \in DOMAIN answers : answers[q] = "pending")
          => clock >= Deadline
    BY <1>0, <2>2 DEF Expects
  <2>4. ReadLate'
    BY <2>1 DEF ReadLate
  <2>5. ASSUME pc' = "done", ~noWait, NEW q \in DOMAIN answers, answers[q] = "pending"
        PROVE  clock >= Deadline /\ (ended[q] = Never \/ ended[q] >= Deadline - MaxCommand)
    <3>1. clock >= Deadline
      BY <2>3, <2>5
    <3>2. clock <= wake + MaxCommand /\ (ended[q] = Never \/ ended[q] >= wake)
      BY <2>1, <2>5 DEF ReadLate
    <3>3. wake >= Deadline - MaxCommand
      BY <1>0, <3>1, <3>2
    <3>4. ended[q] = Never \/ ended[q] \in Nat
      BY <1>0
    <3>5. ended[q] \in Nat /\ ended[q] >= wake => ended[q] >= Deadline - MaxCommand
      BY <1>0, <3>3
    <3> QED BY <3>1, <3>2, <3>4, <3>5
  <2> QED BY <2>1, <2>4, <2>5 DEF FinishedInTime
<1>2. CASE Wake
  <2>1. /\ pc' = "running" /\ clock' = wake /\ wake' = wake /\ DOMAIN answers' = {}
        /\ UNCHANGED <<noWait, queries, ended>>
    BY <1>2 DEF Wake, pce
  <2> QED BY <1>0, <2>1 DEF ReadLate, FinishedInTime
<1>3. CASE Minute
  <2>1. /\ pc = "running" /\ pc' = "running" /\ clock' = clock + 1 /\ clock < wake + MaxCommand
        /\ UNCHANGED <<noWait, queries, ended, wake, answers>>
    BY <1>3 DEF Minute, pce
  <2>2. wake <= clock => wake <= clock + 1 /\ clock + 1 <= wake + MaxCommand
    BY <1>0, <2>1
  <2> QED BY <2>1, <2>2 DEF ReadLate, FinishedInTime
<1>4. ASSUME NEW q \in Queries, Look(q)
      PROVE  ReadLate' /\ FinishedInTime'
  <2>1. /\ pc = "running" /\ pc' = "running"
        /\ answers' = [x \in DOMAIN answers \cup {q} |-> IF x = q THEN queries[q] ELSE answers[x]]
        /\ UNCHANGED <<noWait, queries, ended, clock, wake>>
    BY <1>4 DEF Look, pce
  <2>2. \A x \in DOMAIN answers' : \/ x = q /\ answers'[x] = queries[q]
                                   \/ x \in DOMAIN answers /\ answers'[x] = answers[x]
    BY <2>1
  <2> QED BY <2>1, <2>2 DEF ReadLate, FinishedInTime
<1>5. CASE Retry \/ GiveUp
  <2>1. UNCHANGED <<noWait, queries, ended>> /\ pc' \notin {"running", "done"}
    BY <1>5 DEF Retry, GiveUp, Execute, Pause, pce
  <2> QED BY <2>1 DEF ReadLate, FinishedInTime
<1>6. CASE UNCHANGED pollVars
  BY <1>6 DEF ReadLate, FinishedInTime, pollVars
<1> QED BY <1>1, <1>2, <1>3, <1>4, <1>5, <1>6, FinishIsLate DEF PollNext, Collector

\* A query is returned as pending only after the deadline, and only if the PCE had not
\* finished it when the last command began (_poll_batch looks at the deadline after each
\* output, whose states were read before).
THEOREM NothingFinishedIsPending == PollSpec => []FinishedInTime
<1>1. PollInit => ReadLate /\ FinishedInTime
  BY DEF PollInit, ReadLate, FinishedInTime
<1>2. PollTypeOK /\ ReadLate /\ FinishedInTime /\ [PollNext]_pollVars
        => ReadLate' /\ FinishedInTime'
  BY PendingStep
<1> QED BY <1>1, <1>2, PollingTypes, PTL DEF PollSpec

=============================================================================
