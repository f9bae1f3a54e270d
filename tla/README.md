# Formal models of rules_recertify

`rules_recertify` collects, week after week, how much traffic each firewall rule
of an Illumio PCE has carried, keeps the answers in SQLite, and reports which
rules still have hits. What a report may claim depends on properties that no
unit test reaches: windows must tile the calendar although runs fail, die, are
retried and compete for a lock; a policy snapshot must be complete although its
publication is made of several renames and a transaction; no rule of a window
may be lost although batches are split, skipped and resumed; "no hit" must be
true although windows overlap, are answered again and are pruned; and the crontab,
the lock and the monitor around all this must neither starve a collector nor raise
false alarms. The modules here model that core, TLC checks them on small instances,
and TLAPS proves for every instance the results on the window cursors, the
publication and its readers, the batch loop, the usage history, the polling, the
timetable, the archives and the two recertification reports.

Paths are relative to the repository. `CE` is
`src/rules_recertify/collection_engine.py`, `DB` is
`src/rules_recertify/history/database.py`.

To check everything: `tlc -config <cfg> <MC module>` for each line of section 4,
`tlapm` on the eight modules with theorems of section 6.

## 1. Inventory

| Part | State | Operations | Interacts with |
|---|---|---|---|
| Wrapper scripts, cron (`scripts/*.sh`, `config/`) | the flock `rules_recertify.lock` | launch the policy, weekly and backfill collectors, gate the backfill (no Sundays, 47 hours), bootstrap the snapshot | the CLI, the database |
| Monitor (`scripts/check-collection.sh`) | the flock while it reports | probe, read, classify as OK, WARNING or CRITICAL | the lock, every table, the snapshot |
| Weekly collector (`CE` `collect_traffic`) | row `weekly` of `traffic_cursors`, `traffic_windows`, `runs` | plan, open, collect, archive, finish | wrappers, batch loop, archives |
| Backfill (`CE` `backfill_traffic`) | row of `backfill_states`, `traffic_windows`, `runs` | initialise, extend, plan, open, collect, finish, resume | the same tables, the operator |
| Batch loop (`CE` `_collect_traffic_run`) | pending batches, `details["batches"]`, `usage_windows`, `usage_ports` | submit, split, exclude, poll, ingest, classify | Workloader, the database |
| Policy collector (`CE` `collect_policy`) | `raw/snapshot`, staging and backup directories, `policy_snapshots`, `rules` | export, validate, stage, two renames, transaction, undo | reports and collectors read the snapshot |
| Usage history (`DB` `upsert_usage`, `prune`, `history/metrics.py`) | `usage_windows`, `usage_ports` | upsert, prune, summarise | batch loop, reports |
| Workloader runner and polling (`workloader/runner.py`, `CE` `_poll_batch`, `scripts/workloader_common.sh`) | retry counters, deadline | run, retry, poll | the Workloader command |
| Batching (`workloader/batching.py`) | none (pure) | select scope, pack | batch loop |
| Compliance report (`reporting/compliance.py`) | none (pure) | prepare the input, match rules, relate, partition | snapshot, usage history |
| Archives (`archives.py`) | archive files, `run_archives` | prepare, discard, restore, purge | weekly collector, CLI |
| Reference data (`pce_import.py`, `reference.py`, `workloader/reference_exports.py`, `resolution/`) | `workloads`, `ip_lists` | import, merge, derive, ingest | policy collector, reports |
| Traffic audit (`reporting/traffic_audit.py`) | none (pure) | classify the outcome, one row per problem | batch loop |
| Recertification workbooks (`reporting/workbook.py`, `reporting/microcosmos.py`) | reports, the audit workbook | group the rows of a Microcosmos file, select rules, expand sides, render | rules, references, usage history |
| Search reports (`reporting/rule_search.py`, `iplist_search.py`, `bouquets.py`) | workbooks | match, render | snapshot |
| CLI, configuration, notifications, logging, installation | settings | dispatch, validate, send | everything |

### What is hard

* **Interleavings.** The wrappers hold a flock, the documented CLI commands do
  not. Python's `sqlite3` runs a SELECT before the transaction that the following
  write opens, so every method of `DB` that reads, decides and writes can be
  interleaved with another process. The operator's `extend-backfill-traffic`,
  `purge-archives` and `restore-archive` never take the lock, and no report does:
  it reads rules, then references, while a publication goes on. The monitor takes
  the lock to probe it, and reads the tables one statement after the other.
* **Crashes.** A process may be killed between any two steps: RUNNING rows, a
  moved-away snapshot, an archive without a row stay behind. Ctrl-C is neither a
  crash nor a failure: `except Exception` does not see it, `finally` runs.
* **Partial failures.** A rename, a copy or the final transaction fails and the
  steps before it are undone, and the undo may fail as well. What records the end of
  a run may fail like everything else, and then nothing is recorded.
* **Retries.** A failed window is retried with its own bounds, possibly with a
  plan made from a newer policy, possibly after a completed prefix. A command is
  retried for two kinds of transient failures, each with its own counter.
* **Stale evidence.** Rows of older attempts stay in `usage_windows` and are
  used as evidence by later ones.
* **Time.** Cron launches at fixed hours and retries nothing: a launch that finds
  the lock held is lost, and nothing in the code bounds a run.
* **Boundaries.** Batches at the rule limit, windows cut at both ends of a
  lookback, pruning at the retention, a deadline looked at between commands.

### What makes each part correct

* Windows: no day is collected twice with success, cursor and rows agree, a failed
  window is replayed, a backlog is caught up, and a backfill that is completed has
  reached its target.
* Publication: the last published snapshot survives while failures are undone,
  directory and SQLite row name the same run, presence of rules follows the published
  snapshot, a missing snapshot comes back.
* Batch loop: every ruleset is submitted, documented as too large, or proven to
  have been collected before, exactly once; a success is complete, and its audit
  and its usage rows tell the same story.
* Usage history: coverage is the union of the completed windows, "no hit" means
  covered and without a hit, the ports on record are those of the answer on record,
  pruning changes no report.
* Polling: it ends, soon after its deadline, and gives up no answer that was there a
  command before it.
* Launchers and monitor: one collector at a time, whatever is killed; OK is true,
  an alarm has a cause; the weekly cursor falls behind only by what went wrong; the
  backfill is always attempted again.
* Archives: evidence is kept until its retention ends; failures leave little
  behind; a restored directory is whole.
* Recertification workbooks: the audit workbook is true, also in its reasons; a
  report over several pairs shows what the single ones show; references are not
  older than rules.
* Compliance report: no input row disappears, direction does not depend on how a
  rule is written, the Kear shown for another application is the only one that some
  application named can have, intra-app is true.

PROJECT.json lists the hazards one by one, at their lines, with the properties
that would catch them.

## 2. Plan

The order follows the importance for what a report may claim.

1. `WindowLedger`, `TrafficWindows`: the durable windows and the processes that
   compete for them; refinement and proofs of every safety property. *Done.*
2. `PolicySnapshot`: publication and its undo. *Done.*
3. `Batching`, `BatchLoop`: one window, several attempts. *Done.*
4. `UsageHistory`: what the windows amount to in a report. *Done.*
5. `Polling`: the Workloader command and its retries. *Done.*
6. `Compliance`: the rows of the compliance workbook. *Done, without rendering.*
7. `Launchers`: crontab, lock, gates and monitor; proofs. *Done.*
8. `ArchiveStore`: writing, purging and restoring; proofs. *Done.*
9. `SnapshotReaders`: a report beside the publications, with the run directories
   and reference tables that `PolicySnapshot` leaves out. *Done.*
10. `RecertReports`: the batch of recertification workbooks. *Done for label and
    all-workloads sides.*
11. Proofs of every safety property that a run checks: `ReferencesNotOlder`, the batch
    loop and its packing, the usage history, `LagIsBounded`, `QuietIsHealthy` and the
    two reports came last, with the theory of folds and sorting of `Recursion`. *Done.*
12. Left: the backoff of `workloader_common.sh`; IP lists and named workloads of an
    expanded side.

Compositions: `MCTrafficWindows` composes weekly collector, backfill, operator
and lock, which share four tables; `BatchLoop` refines what `TrafficWindows`
calls `Collect`, one window at a time, and extends `Batching`; `PolicySnapshot`
provides what `BatchLoop` chooses as `read` at each attempt, and is extended by
`SnapshotReaders`, which adds a reader to its steps; `Launchers` sees the runs of
the three collectors as one step that begins and one that ends, and composes them
with the lock, the clock and the monitor; `ArchiveStore` opens what `TrafficWindows`
calls `PrepareArchive`. The abstract specification is `WindowLedger`, implemented
twice.

## 3. Modules and how they correspond to the code

| Module | Contents |
|---|---|
| `WindowLedger` | the abstract promise: a set of collected windows that grows only at its frontier |
| `TrafficWindows` | weekly cursor, backfill, collectors, operator, crashes; refinement mappings; properties; the inductive invariant |
| `PolicySnapshot` | publication of a policy run, its undo, the transitional collector |
| `Batching` | selection and packing of rulesets (pure operators) |
| `BatchLoop` | the batch loop, resumption and outcome of one window over its attempts |
| `UsageHistory` | the usage rows of one rule, and what the reports derive from them |
| `Polling` | waiting for the queries of one batch, with the runner's retries |
| `Compliance` | which rows the compliance workbook has, and what they say |
| `Launchers` | the timetable, the lock, the wrappers and the monitor, in hours |
| `ArchiveStore` | the archives of the Sunday windows: collector, purges, restores |
| `SnapshotReaders` | `PolicySnapshot` with run directories, reference tables and a report |
| `RecertReports` | report-batch, the selection of rules and the expansion of their sides |
| `MC...` | the instance of each for TLC |
| `Recursion` | lemmas only: induction over numbers and finite sets, sums and maxima by recursion and by folds, sorting by ranks |
| `TrafficWindowsProofs`, `PolicySnapshotProofs` (also of `SnapshotReaders`), `BatchLoopProofs` (also of `Batching`), `UsageHistoryProofs` (also of `RecertReports`), `LaunchersProofs` (also of `Polling`), `ArchiveStoreProofs`, `ComplianceProofs` | theorems |

**TrafficWindows.** `cursor`, `backfill`, `windows`, `runs` and `archives.rows`
are the rows of `traffic_cursors`, `backfill_states`, `traffic_windows`, `runs`
and `run_archives`; `archives.files` is the directory; `lock` is the flock;
`pc[p]` and `job[p]` are the control point and the locals of a collector inside
`_collect_traffic_run`. A method of `DB` that selects, decides and writes is two
actions, since other processes can write in between: `CheckCursor` and
`OpenWeekly` are `begin_traffic_window`, `CheckBackfill` and `OpenBackfill`
`begin_backfill_window`, `CheckFinishBackfill` and `FinishBackfill`
`update_backfill_window`, `CheckExtend` and `Extend` `extend_backfill`.
`FinishWeekly` (`finish_traffic_window`) writes first, so it is one action, which
may roll back. Everything that writes may also raise by itself: `OpeningFails` is a
`begin_*` that does, and its run ends with ERROR; `EndIsLost` is an end that cannot be
recorded (`manifest.write_text` at `CE:759`, the transaction at `CE:784`,
`finish_run`): the prepared archive is discarded, unless that fails too, and run,
window and cursor stay RUNNING as after a crash. `overtaken` is history: an extension
was written between the SELECT and the UPDATE that end the last window. The two
statuses of `SUCCESS_STATUSES` are one outcome. What a run
does between opening and finishing is the action `Collect`: `BatchLoop` looks
inside it. Days are numbers; that a window is seven days and the backfill 92 is
in `WindowDays` and `BackfillDays`.

**PolicySnapshot.** A directory is the run that wrote it, `Partial` when its
removal was interrupted. Each rename, removal and transaction of `collect_policy`
is an action that may fail (`Fault`); `Install`'s failure branch contains the
`except` of `_publish_materialized_snapshot`, `Remove` and `Restore` are
`_restore_materialized_snapshot`, `Close` is the end of the run with its `finally`
block, which may be cut short (`Leftovers`). `Interrupt` is Ctrl-C: the process goes
straight to that block and nothing is undone. `abandoned` records that a publication
which failed after its second rename was not undone, for either reason, `inserted`
which rules the transitional collector has added since. `Bootstrap` is
`rr_ensure_snapshot`. `Transitional` is `upsert_rules` as the older `collect`
command calls it.

**Batching, BatchLoop.** A ruleset stands for its rules and has one usage row in
the window. `Begin` reads the policy of the moment, plans, and decides on
resumption (`CanResume`); `Submit`, `Split` and `Skip` are the three ends of a
submission, `Poll`, `Validate` and `Ingest` the rest of a turn of the loop,
`Finish` the classification, `Fail` an exception anywhere. `previous` is what
`backfill_resume_run` can find of the last run.

**UsageHistory.** One rule: rows of different rules never meet. `traffic` is the
truth (on which days the rule had a flow), which the program never sees; an
answer counts it right or leaves it blank. Its ports are listed or not, whatever the
count: the code takes a completed count without any ports (`csvio.py:80`), and so do
the tests, so nothing is claimed about sums of ports. Stored bounds are timestamps, the
bounds of a report dates, and the code compares them as strings: `InReport` has
`>=` at the lower end because `...T00:00:00Z` sorts after the bare date.

**Polling.** The clock counts minutes from the start of `_poll_batch`. `Wake`
ends a sleep and begins a command, which lasts (`Minute`) and meanwhile reads the
state of one query after the other (`Look`); `Answer`, `Retry` and `GiveUp` are its
three ends. Only `Answer` looks at the deadline, with states read earlier.
The PCE (`Finish`) is outside the repository: it may answer at any time or never.

**Compliance.** A behaviour picks a rule and an input file, `Evaluate` handles
an input row, `Publish` partitions. The interest lies in the operators, which
follow the functions one by one (`SideKind` is `_side_relationship`, `Resolve`
`_resolve_remote_kear`, `Relationship` `_rule_relationship`, `Matches`
`_rule_matches_scope`). Programs of selectors, names and styles are left out.

**Launchers.** `hour` is the hour of the week; `due` the launches cron has not made
yet, so that the order within an hour is free. `proc[w]` is where a wrapper and the
command it waits for are: `start` (after `rr_lock`), `gate`, `run`, `swap` (between
the two renames of a publication), `report`. A run lasts as long as it likes: `Room` is what
the crontab leaves it before the next launch it must not meet (1 hour for the policy
run and its report, 22 and 21 for the two weekly launches, 20 for the backfill), and
`Tick` counts each hour beyond as a fault. `shell` tells whether the shell still
lives: the lock is file descriptor 9, which the command inherits, so `Held` looks at
both. `Ensure` is `rr_ensure_snapshot`, `GateStep` the cursor check of the weekly
wrapper and the weekday and 47 hours of the backfill one. `Refused` is a window that
a killed run left RUNNING. `Probe`, `ReadRuns`, `ReadState` and `EndCheck` are
`check-collection.sh`, which keeps the lock when it got it. Ages are capped one past
the limits they are compared with, so weeks repeat for ever. When Python is killed, a
Workloader command it started may run on, without descriptor 9 (Python closes it): it
holds no lock and writes into the directory of the dead run only, so it is no actor
here.

**ArchiveStore.** A run stands for its archive, its temporary, its raw directory, the
directory it is restored to and the staging directory of that. `WriteArchive` and
`Rename` are `prepare_run_archive`, `Record` and `RecordFails` the final transaction
and the discarding of the archive, `Select`, `Unlink`, `Delete` and `Commit` are
`purge_expired_archives`: the first DELETE takes SQLite's write lock (`writer`) and
keeps it to the end. `Check`, `Make`, `Extract` and `Settle` are `restore_archive`.
`ManifestFails` is an error before that, after which the window is not finished at
all. `errors` and `skipped` are told apart: after an error the code cleans up; a
clean-up is skipped when the process is killed or the removal fails in its turn.

**SnapshotReaders.** Adds to each step of the publication what it does to
`raw/<run_id>` and to the reference tables, and a report: `ReadRules`
(`_current_rules`), `ListRunDirs` and `Choose` (`_raw_reference_candidates`: the
directories are listed before the snapshot is looked for), `Open`. The directory is
made before the run is recorded and outside the `try` block (`CE:60`), so `Unrecorded`
leaves it behind without any process dying; so does a removal that fails.

**RecertReports.** `ReadLabels` and `Prepare` are the two reads the batch begins with
(`microcosmos.py:39` and `:40`): the labels known, from which the rows are refused or
grouped (`Refusal`, `Group`), then the rules. `Inconsistent`, `Generate` and `Fails` are
the turns of the second loop, each of which reads the rules again; `Republish` is a
policy run that commits between any two of these. `seen` is history, the rules found by
both of the first two reads. The operators follow the functions of `workbook.py`
(`RulePairs` is `_matching_rule_pairs`, `Shown` `_expand_side_details`, `InScope`
`_matches_scope`, `InPairs` `_workload_matches_pairs`).

## 4. Runs

| Run | Instance | What it checks |
|---|---|---|
| `windows` | two collectors of either kind behind the lock, windows of 2 days, a backfill of 3 days with targets 3 and 5, 4 days pass, 4 runs, 1 crash, 2 failures, 1 end that cannot be recorded, starts of 0, 1 or none; symmetric collectors | `TablesAgree`: cursor, windows, runs and archives tell one story; `LedgersRefined`: both cursors implement `WindowLedger`; `ReplayUnchanged`: failed windows keep their bounds; `CompletedUnlessOvertaken`: a completed backfill has reached its target, but for one race |
| `windows_live` | one collector process of either kind, 5 days of the calendar and a start at day 0 or none, so that two weekly windows pile up, targets 3 and 4, 6 runs, 1 failure, 1 end that cannot be recorded | `BackfillCompletes`, `WeeklyCatchesUp` |
| `policy_publish` | 8 run identifiers, 2 rules, 1 crash or interruption, 1 fault, 1 fault of an undo | `KeptUnlessUndoFails`, `RestConsistent`, `PresenceMatches`, `SnapshotReturns`, `Reconciled` |
| `readers` | 4 runs, 1 rule, 2 crashes or interruptions, 2 faults, 1 fault of an undo | `ReadersTypeOK` (also: each directory left behind was paid for by a crash, an interruption or a failure), `ReferencesNotOlder`, `ReferencesWhole` |
| `batch_loop` | 3 rulesets, limit 2, six policies that differ in sizes, scopes and filters, 3 attempts, every answer for every ruleset | `TypeOK`, `EveryRulesetOnce` (also: no planned batch is over the limit), `SuccessIsStored` (a success is complete, and its audit and its rows agree), `NothingOmitted` |
| `resume_stale` | one policy, three answers | finding: `NoBlockingRow` is violated |
| `usage_history` | 7 days, three windows of 2 days and one that overlaps all of them, at most 2 days with a flow, retention 3 | `TypeOK` (also: the ports on record are those of the answer on record), `CoverageIsUnion`, `HitsAreTrue`, `PruneKeepsReports` |
| `polling` | 2 queries, deadline 5, both kinds of retries, commands that end within the minute or the next, 16 minutes | `OvershootBounded`, `FinishedInTime`, `PollEnds` |
| `launchers` | the crontab of production hour by hour, runs of any length, 2 faults of any kind (an hour beyond the room of a run is one), a monitor called in the hours 0, 2 and 9, weeks for ever | `OneCollector`, `OkIsTrue`, `QuietIsHealthy`, `LagIsBounded`, `BackfillAttempted` |
| `archives` | 2 Sunday windows, retention 1, days 0 to 2, an operator who purges with today or a date past everything, 2 operators who restore, 2 faults: exceptions, or clean-ups that do not happen | `EvidenceKept`, `LitterBounded`, `RestoreWhole`, `PurgeHeals` |
| `recert_reports` | 3 applications of 2 modules, one of them in the exports of labels, 3 environments, 5 files of two or three rows, inventories of two of 6 shapes of rules, 2 publications, 1 error | `AuditIsTrue`, `ConsolidationIsExact` |
| `compliance` | 3 applications of 2 modules, a group, 2 environments, 2 Kears; 11 ways to write either end, 20 scopes, 2 kinds of names; inputs of two rows | `TypeOK` (also: the sheets together are all the rows), `MirrorDirection`, `NoKearGuessed`, `OwnIntraAppIsTrue` |

### Why these bounds are enough

* *windows*: what a window does depends only on its order to the cursor and the
  target, so windows of two days show what windows of seven do; a backfill of
  three days ends with a truncated window as the fourteenth one is in production,
  and the extension to 5 lengthens it while it may be failed, open or about to be
  completed. Four runs allow a failure, a retry, a crash or a lost end and a success;
  two collectors are all that the lock and one process between two steps need. In the
  liveness run the boundary passes two windows, so that a collector that begins at day 0,
  or that failed, has a backlog; a lost end leaves the rows that a crash leaves, so
  crashes would add nothing.
* *policy*: a publication after a crash or an interruption, in which a copy, a rename
  or a commit fails, with an undo that fails. Identifiers are reused as soon as
  nothing refers to them, so the runs are not bounded, only the faults are. (Two
  crashes come together in `readers`, whose publications are the same.)
* *batch*: three rulesets give plans of one to three batches, with splits and a
  ruleset that is alone and too large; three attempts are the shortest history in
  which a stale row, a completed prefix and a resumption meet.
* *usage*: the windows are adjacent, nested and overlapping, and each lookback up
  to the retention cuts them at each place.
* *polling*: the delays are in the order of the defaults, every retry counter
  reaches its limit, a state may change between its reading and the end of the
  command, and the horizon lies after the bound that is checked.
* *launchers*: these are the hours and limits of production, nothing is scaled
  down. Two faults make the interesting pairs meet: a killed shell and a collision,
  a failed policy run and a lost Sunday, a run that outlasts its room and one that
  dies. No length of a run is assumed; the hours in which the monitor is called are
  those of the launches and one in between.
* *archives*: two archives make a purge die between two files; two operators and a
  purge are what can meet at one archive; the dates lie before, on and after the
  end of the retention; two faults are a failure whose clean-up fails, twice.
* *readers*: a report that reads its rules before and its references after a
  publication, a failure and a crash sees four runs.
* *recert reports*: the files make two rows share a report, two Kear Ids a path, a
  module two labels; the shapes of rules have a scope, `env:null`, no scope, sides
  with and without application. Two publications put one before and one after the
  reading of the rules.
* *compliance*: every kind of either end meets every other and every scope. The
  policy is one rule because rules do not influence each other's rows.

`CHECK_DEADLOCK FALSE` stands where the system really stops: a calendar or a
budget of runs that is used up, a window, a batch or a report that is done.

### Fairness

* `FairSpec` of `TrafficWindows`: the days pass and a live process takes its
  steps (weak fairness); a launch of each collector is strongly fair, because cron
  (`config/rules-recertify.cron`) repeats it for ever at hours when the lock is
  free now and then, though not always: the wrappers exit with 75 when it is held.
  Planning without `--traffic-start` is strongly fair too: the weekly wrapper gives none
  (`scripts/weekly-traffic-collect.sh`), and a launch by hand whose start conflicts with
  the cursor may fail every time but is not the only one. Failures and lost ends are
  bounded by `MaxFailures` and `MaxLost`, the assumption without which nothing ever
  completes. `Collect` may choose any outcome: no outcome is assumed fair.
* `LiveSpec` of `PolicySnapshot`: a live process takes its steps. That a wrapper
  is launched again and again is a premise of the property itself, so that each of
  the two says which wrapper it needs.
* `FairSpec` of `Launchers`: cron makes its launches and time passes (strongly fair,
  since anybody may call the monitor again and again in between), a live process and
  the monitor go on. So every run ends, but with no bound on its hours other than that
  those beyond its room count as faults.
* `FairSpec` of `ArchiveStore`: a purge that runs goes on, and gets SQLite's write
  lock if it is free again and again. That somebody purges with the date of the
  purge that was interrupted is a premise of `PurgeHeals` itself.
* `PollSpec` of `Polling`: the collector is one thread that sleeps and runs commands
  with bounded time. Nothing is assumed of the PCE.

## 5. Findings

A run that TLC ends with a violation; PROJECT.json quotes the text it contradicts.

* `resume_stale` (`CE:504`): a pending row of an older attempt counts as proof
  that its rule was processed; a resumed backfill ends with SUCCESS beside an
  audit row that blocks it.

Seen while modelling, without a run:

* `extend_backfill` (`DB:432` to `DB:448`) reads the state before its UPDATE takes the
  write lock, and the command takes no flock: a window opened in between is RUNNING
  while its target moves, although requirements-decisions.md:461 says "Extension is
  rejected while a window is `RUNNING`". Mostly this is harmless: the run cannot
  finish, stays RUNNING in `runs`, and its window is collected again. But when the new
  target is written between the SELECT and the UPDATE of `update_backfill_window`
  (`DB:499`, `DB:512`) for the last window, the backfill is COMPLETED with its cursor
  before its target. The days between are never collected, since a completed backfill
  runs nothing, and the same extension is refused from then on (`DB:440`).
  technical-design.md:300 says "reaching the target changes the terminal state to
  `COMPLETED`", how-to-troubleshooting.md:472 "state is `COMPLETED`: no window
  remains". `CompletedUnlessOvertaken` and `BackfillCompletes` except exactly this race
  (`overtaken`); no day is collected twice by it (`LedgersRefined`).
* When the undo of a failed publication fails as well, the `finally` block
  (`CE:158`) deletes the backup, the last copy of the published snapshot. The same
  happens without any failed undo when Ctrl-C comes between the second rename and the
  commit (`CE:133` to `CE:141`): `except Exception` (`CE:145`) is skipped, `finally` is
  not. integration-guide.md:351 says "A failed policy run leaves the previous snapshot
  unchanged". `KeptUnlessUndoFails` excepts both (`abandoned`).
* The end of a run that cannot be recorded (`CE:759`, `CE:784` to `CE:799`) leaves
  its run, its window and the cursor or the backfill RUNNING, as a crash does, and
  nothing starts that collector again without an operator. `WeeklyCatchesUp` and
  `BackfillCompletes` except it (`Stuck`).
* A policy run whose `initialize` or `begin_run` raises (`CE:61` to `CE:67`) leaves
  `raw/<run_id>`, made just before and outside the `try` block, and no later run
  removes it; reports may fall back on it.
* Overlapping completed windows have their flows summed (`DB:617`,
  `history/metrics.py:43`); technical-design.md:383 says "Overlapping windows must
  not have their counts summed".
* The row of a remote application compares its Kear with itself and is called
  intra-app (`reporting/compliance.py:715`, :797); integration-guide.md:804-811 says
  "the ruleset-scope application is local". `OwnIntraAppIsTrue` speaks of the rows of
  the scope's own application only.
* The crontab leaves a policy run and the bouquets report the hours to 02:00, the weekly
  windows 22 and 21 hours and a backfill 20. Nothing in the code bounds them, and the
  polling deadline of `Polling` alone is 23 hours for each batch by default. Each hour
  beyond may cost the weekly cursor a week, as every collision, failure or killed shell
  on a Sunday may, since a window is collected on Sundays only; and may raise an alarm
  (`LagIsBounded`, `QuietIsHealthy`).
* The monitor says CRITICAL snapshot=MISSING when it is called between the two
  renames of a publication. A row left RUNNING by a killed run stays CRITICAL until
  an operator changes it; but while the lock is held, by a collector or a second
  monitor, the same row is a WARNING.
* A restore that was killed leaves its staging directory, which blocks every later
  restore of that run (`archives.py:54`). An archive renamed into place by a
  collector that is killed before its transaction is never purged, since purging
  goes by the rows; so is one whose transaction and whose removal both fail. A final
  transaction that fails leaves the raw directory, and so does a manifest that cannot
  be written.
* In the gap between the two renames a report falls back on the directory of the
  live run or of a dead one (`reporting/workbook.py:178`), whatever its age. Reports
  that read several files of `raw/snapshot` one by one may mix two generations.
* `report-batch` groups by entity and Kear Id (`reporting/microcosmos.py:68`), its
  paths by `_safe_component` and the lower-case Kear Id: two groups may share a path,
  the later report replaces the earlier one and both are PROCESSED. `AuditIsTrue`
  excepts them. The batch reads labels, rules and, for each report, the rules again, so
  a rule published between two reads may be missing from a PROCESSED row, or its row be
  skipped as UNUSED. Errors other than ValueError and RuntimeError end the batch without
  an audit workbook.
* The recertification workbook knows no label groups, takes the last of several
  values of a dimension of a scope, and accepts `env:null`; the compliance report
  expands groups and accepts any of the values, but not `env:null`. `rule_search.py:316`
  walks the parents of a label group, `compliance.py` its members.
* `workloader_common.sh` with `MAX_ATTEMPTS=0` returns 0 without running anything.
* The documented CLI commands `collect-traffic` and `backfill-traffic` take no
  lock. With a process in `Direct`, two collectors can pass `CheckCursor` with the
  same window and `LedgersRefined` fails; `collect_traffic` promises "the next
  durable, non-overlapping" window (`CE:191`).
* With the defaults (1380 minutes, an interval of 10, retries of up to 135) the
  last poll may come after the 24 hours at which the PCE expires the queries: see
  `OvershootBounded`.
* Between the two renames of a publication there is no `raw/snapshot`: readers
  fail, and after a crash the next traffic wrapper repairs it (`SnapshotReturns`).
* A window that ends at midnight of the first day of a lookback is in the report
  (string comparison of a timestamp and a date, `reporting/workbook.py:48`).
  Coverage clamps it to nothing, but a hit in it counts as a hit of the period.
* The environment of a scope with several is the first of a Python set
  (`reporting/compliance.py:716`): the Kear shown may differ between two runs.
* A completed row whose flow count is blank counts as covered and may replace a
  counted one (`DB:591`). `HitsAreTrue` excuses it explicitly. A row that counts flows
  and lists no ports is complete as well (`csvio.py:80`, `DB:593`): the breakdown of a
  report by port need not add up to its total.
* `unused_since_18_months` is YES without any hit on record, as README.md:397
  says; docs/technical-design.md:387 asks that absence of hits be claimed of a
  covered period only.

## 6. Proofs

`tlapm` checks the eight modules without any unproved obligation.

| Theorem | States |
|---|---|
| `TypeCorrect` | `Spec => []TypeOK`, with or without the lock |
| `Inductive` | `Spec => []IInv`, if `Direct = {}` |
| `WeeklyNeverOverlaps`, `BackfillNeverOverlaps` | `Spec => []WeeklyDisjoint`, `Spec => []BackfillDisjoint`, if `Direct = {}` |
| `WeeklyImplementsLedger`, `BackfillImplementsLedger` | `Spec => WeeklyRefinesLedger`, `Spec => BackfillRefinesLedger`, if `Direct = {}` |
| `LedgersImplemented` | `Spec => LedgersRefined`, if `Direct = {}`: the property of run `windows` |
| `TablesAlwaysAgree`, `BoundsRetained`, `CompletedIsCollected` | `Spec => []TablesAgree`, `Spec => ReplayUnchanged`, `Spec => []CompletedUnlessOvertaken`, if `Direct = {}`: the other properties of run `windows` |
| `PublicationTypes`, `PublishedSurvives`, `DirectoryMatchesRow`, `PresenceFollowsSnapshot` | `Spec => []P` of `PolicySnapshot` for `TypeOK`, `KeptUnlessUndoFails`, `RestConsistent`, `PresenceMatches` |
| `ReadersTypes`, `ReferencesAreNotOlder`, `ReferencesAreWhole` | `ReadersSpec => []P` of `SnapshotReaders` for `ReadersTypeOK`, `ReferencesNotOlder`, `ReferencesWhole` |
| `PlanPacks` | what `Batching` promises of a plan: every selected ruleset within the limit once, no batch empty or over the limit |
| `LoopTypes`, `EveryRulesetHasOnePlace`, `SuccessOmitsNothing`, `SuccessStoresUsage` | `Spec => []P` of `BatchLoop` for `TypeOK`, `EveryRulesetOnce`, `NothingOmitted`, `SuccessIsStored` |
| `HistoryTypes`, `CoverageIsTheUnion`, `NoHitIsTrue`, `PruneIsInvisible` | `Spec => []P` of `UsageHistory` for `TypeOK`, `CoverageIsUnion`, `HitsAreTrue`, and `Spec => PruneKeepsReports` |
| `PollingTypes`, `PollingEndsInTime`, `NothingFinishedIsPending` | `PollSpec => []P` of `Polling` for `PollTypeOK`, `OvershootBounded`, `FinishedInTime` |
| `LaunchersTypes`, `CollectorsExclude`, `MonitorOkIsTrue`, `MonitorAlarmIsReal` | `Spec => []P` of `Launchers` for `TypeOK`, `OneCollector`, `OkIsTrue`, `AlarmIsReal` |
| `LagStaysBounded` | `Spec => []LagIsBounded` of `Launchers` |
| `QuietStaysHealthy` | `Spec => []QuietIsHealthy`, if `EnoughRoom` (limits of at least 25 and 191 hours) |
| `ArchiveTypes`, `EvidenceIsKept`, `RestoresAreWhole`, `LitterIsBounded` | `Spec => []P` of `ArchiveStore` for `TypeOK`, `EvidenceKept`, `RestoreWhole`, `LitterBounded` |
| `ComplianceTypes`, `DirectionMirrors`, `NoKearIsGuessed`, `OwnIntraAppHolds` | `Spec => []P` of `Compliance` for `TypeOK`, `MirrorDirection`, `NoKearGuessed`, `OwnIntraAppIsTrue` |
| `AuditTellsTheTruth`, `ConsolidationChangesNothing` | `ReportSpec => []P` of `RecertReports` for `AuditIsTrue`, `ConsolidationIsExact` |
| `LedgerPartitions` | `LedgerSpec => []Partition`: the windows of the ledger tile the days up to its frontier |

They hold for every set of processes, runs, rules, policies, operators and queries, every
input file and label group, every
window and backfill length, every limit and delay, every calendar and traffic and every
bound on attempts, crashes and faults, under the named assumptions on the constants,
which TLC evaluates in the runs. The assumptions say what the constants are: that
rulesets have numbers (their order in the inventory), that an inventory and the exports of
labels are finite, that an empty cell is no name, that
a window begins before it ends, that runs are numbered as they begin, that the retention
covers eighteen months (`config.py` validates it).

**Windows.** `WeeklyDisjoint` is not inductive: a collector about to finish
could write any window it likes into the cursor. `IInv` adds what the code relies
on without saying it:

* `Serial`: an active collector holds the lock, so there is at most one. This is
  where `Direct = {}` is needed. It is a real assumption on how the program is
  used: the wrappers guarantee it, the CLI alone does not.
* `JobWellFormed`, `WeeklyJob`, `BackfillJob`: the locals of a collector fit the
  rows it opened: its window starts at the cursor, from the opening to the end,
  and a backfill's does not pass the target, although the operator may move the
  target at any moment; whether the target was `reached` is decided before the
  final transaction.
* `WindowsWellFormed`, `CursorWellFormed`, `BackfillWellFormed`: no success
  passes its cursor, windows are not empty, a backfill that is not completed has
  days left.

The proof has a lemma for each action (`TrafficWindowsProofs`). The refinement
shows that every step leaves both ledgers alone
(`QuietStep`) except `FinishWeekly`, `FinishBackfill` and `InitializeBackfill`,
which are `Record`, `Record` and `Open`. `LedgerPartitions` then says what the
ledger is worth: no overlap and no gap.

`CompletedUnlessOvertaken` needs one conjunct more (`ReachedInv`): a collector that found
its target reached ends at the target of the moment, unless an extension has come between,
which is what `overtaken` records. The proof shows that there is no other way.

`TablesAgree` and `ReplayUnchanged` need more of a live
weekly collector (`TablesInv`): between the check of the cursor and the opening the
cursor still accepts its window, from then on it names the run and its bounds, so
that the updates of `finish_traffic_window` always match and a rollback concerns
backfills only; and its archive file exists only between its preparation and its
row. Every step but `Crash` and `EndIsLost` leaves the set of files without a row and a live
run (`Orphans`) as it is or smaller, and these two add at most one file to it.

**Publication** (`PolicySnapshotProofs`). `KeptUnlessUndoFails` is not inductive:
the first rename overwrites the run's backup, the second the directory, the undo
removes it, and the end of the run removes the backup. The invariant says at each
control point what lies where (`DirectoriesFit`, `PublishedInPlace`), and that the
run's identifier is in no row before its transaction (`RunIsFresh`), so that what
is overwritten or removed is never the last copy of the published snapshot, and no
rule is present for a run that never published. The exception is `abandoned`: a run that
ends without the undo, because the undo failed or because Ctrl-C skipped it, deletes the
last copy, so this cannot be dropped. `PresenceMatches` speaks of every rule: those the
transitional collector inserted (`inserted`) are present until the next publication.

**Readers** (`PolicySnapshotProofs`). `ReferencesNotOlder` compares what a report read
at two moments, with publications, undos and removals between them. `ReadersInv` orders
everything in sight by the run that wrote it (`NothingOlder`): the snapshot, the copy an
undo would put back and the reference tables are never older than the published rules,
and those never older than the rules a report holds; a report that fell back on a run
directory chose one no older than its rules (`ReaderFits`). What is left behind is
counted too (`StraysCounted`: a directory costs a crash, an interruption or a failure, be
it that of recording the run, at its begin or at its end, or of the removal itself). The steps of the publication are those of `PolicySnapshot`, so its
`IInv` is used as it stands.

**Batch loop** (`BatchLoopProofs`). `PlanPacks` follows the greedy packing of the code
one ruleset at a time, over the rulesets in the order in which they are taken. `LoopInv`
has four parts: `PlacesInv`, the rulesets waiting, at work, with a result and documented
as oversized are disjoint and together what was selected, and each waiting batch is within
the limit; `PolledInv`, what has a result or a row was polled; `StoredInv`, what the
attempt has seen is in its row, except for the batch being ingested; `CountedInv`, every
answer that is no success shows in the counts of a batch. Without the last two
`SuccessIsStored` is not inductive: `Finish` looks at the counts of the batches only, not
at the rows.

**Usage history** (`UsageHistoryProofs`). `HistoryInv` is `TypeOK` and `RowsTrue`: a
completed row counts its window right, or is blank; what it lists by port is not
restricted. The rest is about the operators of the reports, for any windows:
`CoverageIsTheUnion` by induction over the merged intervals (a step extends the last
interval or begins a new one beyond it, and the days covered so far stay those of the
intervals read so far); `NoHitIsTrue` because a total of naturals is zero only if each
of them is. `PruneIsInvisible` shows that the rows `prune` deletes are in
no period of a report, and in no claim about eighteen months.

**Folds and sorting** (`Recursion`). The library's induction theorems have an operator as
parameter, which the provers cannot instantiate. `Recursion` states induction over a set
of numbers instead (`Induction`: a set of naturals with 0 and all successors is Nat, from
`LeastNatural`), and derives from it that sums over finite sets, defined by recursion, exist,
are unique, grow and skip zeros, that a fold over a sequence is the value its steps lead to
(`FoldExists`), and that a finite set of naturals can be sorted, where the place of an
element is its rank (`SortedExists`, `RankIsPlace`).

**Polling** (`LaunchersProofs`). `Schedule` bounds the clock by the latest start of a
command and the minutes its executions and pauses have used so far; as many
executions as retries plus one are possible. The constants need only be naturals,
so the bound also tells which settings keep polling below the PCE's 24 hours. A state that
was read as pending changed, if ever, after the command had begun (`ReadLate`), and a
command that ends at or after the deadline began at most `MaxCommand` minutes before it:
hence nothing that had finished by then is among the pending rows. That a command has a
longest duration is a parameter, not a fact of the code, which sets no timeout
(`workloader/runner.py:70`).

**Launchers** (`LaunchersProofs`). `OneCollector` says that a live wrapper, or a
monitor that holds the lock, excludes all others; since the descriptor is inherited,
nothing a kill does to a shell breaks it. For the monitor the invariant says what
each reading is still worth: a check that found the lock free keeps it, so while it
lasts nothing starts, the number of RUNNING rows is `dead` and neither snapshot nor
cursor moves; with the lock held, the check says "held" and claims nothing. That is
why separate reads are harmless. The proof needs no bound on the runs.

Nor do the two properties that count hours: a run that outlasts its room (`Late`) is in
the specification, and each of its late hours has been counted as a fault. `Timetable`
says in which hour each wrapper can be that is not late (`OnTime`: its slot plus the hours
it has spent), so no launch finds its own predecessor but a late one, the manifest is
missing only in a publication and the cursor is RUNNING only in a weekly run; and once
Sunday is over, each week of delay has a fault of its own, which may be a late hour.
`LagIsBounded` excepts killed runs (`dead = 0`), as its window stays RUNNING.
`QuietIsHealthy` needs in addition that the snapshot is of today or the policy run of the
day is under way (`Fresh`), and that the latest run of a kind succeeded or goes on
(`Reached`). The proof shows how much room the limits leave: `EnoughRoom` asks for 25 and
191 hours, and the defaults of `scripts/check-collection.sh:9` are 26 and 192. They can be
overridden in the environment; with less the alarms are not those of a failure, so this
premise cannot be dropped.

**Archives** (`ArchiveStoreProofs`). `EvidenceKept` needs to know that whatever a
purge has selected expired before the latest date a purge was asked for
(`PurgesSpent`), and that the run the collector archives is in nobody's selection
(`Archiving`). `RestoreWhole` holds because only the process whose `mkdir` succeeded
has its name in the staging directory. `LitterBounded` needs what the collector's run
has on disk at each position (`CollectorTidy`), and that a purge deletes the row of no
file that is still there; every step then adds at most that one run to what is left
behind, to the raw directories only with an error or a clean-up that did not happen, to
the rest only with the latter.

**Compliance** (`ComplianceProofs`). The state of the report is simple: `ReportFits` says
that each row answers an input row already looked at, in some environment. The work is in
`_rule_relationship`, whose returns exclude each other or agree (`Returns`): what holds of
its result is shown return by return. `WhereKearsComeFrom` gives the two origins of a Kear: the row itself,
and then no other application is named at either end, or the one application at the other
end, and then `Meant`, the Kears that this application could have, holds no second one
(`ResolveIsSure`). The other end is well defined because a local end names no other
application (`LocalEnd`). `MirrorTurns` compares the two orders of source and destination
in the same way. `OwnIntraAppIsTrue` needs that the Kear of a row is one of its own module
(`PreparedTypes`), which is the local module only in the row of the scope's application.

**Recertification workbooks** (`UsageHistoryProofs`). `ReportInv` says of each row which
labels it was given and by which policy, or why it was skipped (`RowsFit`), that the labels
known name those of the rules seen (`KnownFits`), and that its report has the pairs of
all rows of its group and is there once the row is PROCESSED (`FilesFit`). The only step
that takes a report away is a `Generate` at the same path, and rows of two groups have the
same path only if `SharesPath` (`SamePath`), which `AuditIsTrue` excepts. That rules are published between
the reads of the batch does no harm, because `AuditIsTrue` speaks of the rules that were
there at each of them.

**Only model-checked.** Liveness and everything under fairness (`BackfillCompletes`,
`WeeklyCatchesUp`, `SnapshotReturns`, `Reconciled`, `PollEnds`, `BackfillAttempted`,
`PurgeHeals`), since the prover has neither ENABLED nor fairness.

## 7. What is not modelled

* *Monitoring*: the UNKNOWN answer, the disk figures and the archive alarm; that an
  archive it looks for exists is `EvidenceKept`.
* *Launchers*: a Workloader command that outlives its killed collector (it holds no lock
  and touches nothing the models have); `--force` and `--allow-sunday`, which `TrafficWindows` subsumes by
  launching at any time; daylight saving time, on which the hours of the crontab
  move.
* *Reference data* (`reference.py`, `pce_import.py`, `reference_exports.py`): which
  address of a workload is selected and which subnets it matches, a function of one
  file; the backoff of the export scripts.
* *Archives*: the tar format, the members it accepts and the digest.
* *CSV contracts*: what parsing decides (valid, invalid, incomplete ports) is data
  of `BatchLoop` and `UsageHistory`; the grammar is left out.
* *Recertification workbooks*: IP lists, named workloads, services, permissive
  rules and dangerous ports, which look at one rule at a time.
* *Search reports, port catalogues, workbook layout*: read-only string and address
  matching, and layout; no state and no second actor except the publication they
  read beside, which is the question of `SnapshotReaders`.
* *CLI, configuration, notifications, logging, installation*: dispatch and output;
  the bounds that `config.py` validates are the assumptions on the constants.
