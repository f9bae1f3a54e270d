--------------------------- MODULE PolicySnapshot ---------------------------
(***************************************************************************)
(* Publication of one complete policy inventory: the directory             *)
(* raw/snapshot, its staging and backup copies, and the SQLite transaction *)
(* that marks the rules present or absent (collection_engine.py            *)
(* collect_policy and its helpers; Database.complete_policy_snapshot).     *)
(*                                                                         *)
(*  - The wrappers' lock lets one policy run work at a time; the           *)
(*    transitional `collect` command writes rules beside it.               *)
(*  - Two directories are never renamed in one step: the old snapshot is   *)
(*    moved aside, the staging copy takes its place, the transaction       *)
(*    follows, and a failure undoes the steps in reverse order.            *)
(*  - A process may die between any two steps; what is on disk stays. Or   *)
(*    it may be interrupted (Ctrl-C): `except Exception` does not see      *)
(*    that, so nothing is undone, but the `finally` block still runs.      *)
(*  - The content of a directory is the run that wrote it. A run           *)
(*    identifier is unused when nothing refers to it any more.             *)
(***************************************************************************)
EXTENDS FiniteSets, Naturals

CONSTANTS
  RunIds,           \* identifiers of runs
  Absent,           \* no directory, no row, no run
  Partial,          \* a directory whose removal was interrupted
  Rules,            \* the rules of the policy, by href
  MaxCrashes,       \* bound on the processes that are killed or interrupted
  MaxFaults,        \* bound on the exports, file operations and commits that fail
  MaxRestoreFaults  \* bound on the failures while an earlier step is undone

ASSUME NamesAssumption == Absent \notin RunIds /\ Partial \notin RunIds /\ Absent # Partial
ASSUME FaultsAssumption ==
  MaxCrashes \in Nat /\ MaxFaults \in Nat /\ MaxRestoreFaults \in Nat

VARIABLES
  current,    \* the content of raw/snapshot
  staging,    \* the runs whose .snapshot-<run>.tmp exists
  backups,    \* the content of .snapshot-<run>.backup, by run
  published,  \* the latest COMPLETE row of policy_snapshots
  rules,      \* the rows of rules: is_present and last_seen_snapshot_id
  pc, run,    \* the policy run at work
  inventory,  \* the rules it exported
  saved,      \* it moved an earlier snapshot aside (snapshot_backup)
  inserted,   \* history: the rules that `collect` inserted since the last publication
  abandoned,  \* history: a run ended without undoing a publication that had failed
  crashes, faults, restoreFaults, interrupts  \* the bounded counters

counters == <<crashes, faults, restoreFaults, interrupts, abandoned>>
vars == <<current, staging, backups, published, rules, pc, run, inventory, saved,
          inserted, counters>>

Content == RunIds \cup {Absent, Partial}
RuleRow == [stored: BOOLEAN, present: BOOLEAN, seen: RunIds \cup {Absent}]
NoRow == [stored |-> FALSE, present |-> FALSE, seen |-> Absent]

TypeOK ==
  /\ current \in Content
  /\ staging \subseteq RunIds
  /\ backups \in [RunIds -> Content]
  /\ published \in RunIds \cup {Absent}
  /\ rules \in [Rules -> RuleRow]
  /\ pc \in {"idle", "exporting", "staging", "moving", "installing", "committing",
             "removing", "removed", "closing"}
  /\ run \in RunIds \cup {Absent}
  /\ inventory \subseteq Rules
  /\ saved \in BOOLEAN
  /\ crashes \in 0..MaxCrashes
  /\ faults \in 0..MaxFaults
  /\ restoreFaults \in 0..MaxRestoreFaults
  /\ interrupts \in 0..MaxCrashes
  /\ inserted \subseteq Rules
  /\ abandoned \in BOOLEAN

Init ==
  /\ current = Absent /\ staging = {} /\ backups = [r \in RunIds |-> Absent]
  /\ published = Absent /\ rules = [x \in Rules |-> NoRow]
  /\ pc = "idle" /\ run = Absent /\ inventory = {} /\ saved = FALSE
  /\ inserted = {} /\ abandoned = FALSE
  /\ crashes = 0 /\ faults = 0 /\ restoreFaults = 0 /\ interrupts = 0

-----------------------------------------------------------------------------
(* Starting a run. *)

Litter == staging \cup {r \in RunIds : backups[r] # Absent}
Referenced == {current, published} \cup Litter \cup {rules[x].seen : x \in Rules}
              \cup {backups[r] : r \in RunIds}
Unused == RunIds \ Referenced

Begin(r) ==
  /\ pc = "idle"
  /\ run' = r
  /\ pc' = "exporting"
  /\ UNCHANGED <<current, staging, backups, published, rules, inventory, saved, inserted, counters>>
Start == Unused # {} /\ Begin(CHOOSE r \in Unused : TRUE)

\* daily-policy-collect.sh. Mutant: it collects only when no snapshot exists.
LaunchIfMissing == current = Absent /\ Start
Launch == Start

\* rr_ensure_snapshot of the traffic wrappers: collect-policy when the manifest
\* of the snapshot is missing (an interrupted removal may have left it).
Bootstrap == current \in {Absent, Partial} /\ Start

-----------------------------------------------------------------------------
(* The steps of collect_policy. *)

Fault == /\ faults < MaxFaults
         /\ faults' = faults + 1
         /\ UNCHANGED <<crashes, restoreFaults, interrupts, abandoned>>
RestoreFault == /\ restoreFaults < MaxRestoreFaults
                /\ restoreFaults' = restoreFaults + 1
                /\ UNCHANGED <<crashes, faults, interrupts>>
Interrupted == /\ crashes + interrupts < MaxCrashes
               /\ interrupts' = interrupts + 1
               /\ UNCHANGED <<crashes, faults, restoreFaults>>

\* The exports, their validation and the reference ingestion: no rule, no run.
Export ==
  /\ pc = "exporting"
  /\ \/ /\ inventory' \in SUBSET Rules \ {{}}
        /\ pc' = "staging"
        /\ UNCHANGED counters
     \/ Fault /\ pc' = "closing" /\ UNCHANGED inventory
  /\ UNCHANGED <<current, staging, backups, published, rules, run, saved, inserted>>

\* _publish_materialized_snapshot: the verified copy. A copy that raises leaves
\* what it copied, a copy that does not verify is removed.
Stage ==
  /\ pc = "staging"
  /\ \/ staging' = staging \cup {run} /\ pc' = "moving" /\ UNCHANGED counters
     \/ Fault /\ staging' \in {staging, staging \cup {run}} /\ pc' = "closing"
  /\ UNCHANGED <<current, backups, published, rules, run, inventory, saved, inserted>>

\* Mutant: the previous snapshot is removed instead of kept.
MoveAsideDiscards ==
  /\ pc = "moving"
  /\ \/ current' = Absent /\ pc' = "installing" /\ UNCHANGED counters
     \/ Fault /\ pc' = "closing" /\ UNCHANGED current
  /\ UNCHANGED <<staging, backups, published, rules, run, inventory, saved, inserted>>

\* Mutant: the first publication, without a snapshot to move, raises.
MoveAsideRequires ==
  /\ pc = "moving"
  /\ IF current = Absent THEN pc' = "closing" /\ UNCHANGED <<current, backups, counters>>
     ELSE /\ backups' = [backups EXCEPT ![run] = current]
          /\ current' = Absent
          /\ pc' = "installing"
          /\ UNCHANGED counters
  /\ UNCHANGED <<staging, published, rules, run, inventory, saved, inserted>>

\* The first rename: an existing snapshot becomes the run's backup.
MoveAside ==
  /\ pc = "moving"
  /\ \/ /\ backups' = [backups EXCEPT ![run] = current]
        /\ current' = Absent
        /\ pc' = "installing"
        /\ UNCHANGED counters
     \/ Fault /\ pc' = "closing" /\ UNCHANGED <<current, backups>>
  /\ UNCHANGED <<staging, published, rules, run, inventory, saved, inserted>>

PutBack ==
  /\ current' = backups[run]
  /\ backups' = [backups EXCEPT ![run] = Absent]

\* Mutant: a failed second rename forgets the backup.
InstallGivesUp ==
  /\ pc = "installing"
  /\ \/ /\ current' = run
        /\ staging' = staging \ {run}
        /\ saved' = (backups[run] # Absent)
        /\ pc' = "committing"
        /\ UNCHANGED <<backups, counters>>
     \/ Fault /\ pc' = "closing" /\ UNCHANGED <<current, backups, staging, saved>>
  /\ UNCHANGED <<published, rules, run, inventory, inserted>>

\* The second rename: the staging copy becomes the snapshot. When it raises the
\* previous one is renamed back, which may raise too.
Install ==
  /\ pc = "installing"
  /\ \/ /\ current' = run
        /\ staging' = staging \ {run}
        /\ saved' = (backups[run] # Absent)
        /\ pc' = "committing"
        /\ UNCHANGED <<backups, counters>>
     \/ /\ pc' = "closing"
        /\ UNCHANGED <<staging, saved>>
        /\ \/ Fault /\ PutBack
           \/ /\ backups[run] # Absent
              /\ faults < MaxFaults /\ faults' = faults + 1
              /\ restoreFaults < MaxRestoreFaults /\ restoreFaults' = restoreFaults + 1
              /\ UNCHANGED <<current, backups, crashes, interrupts, abandoned>>
  /\ UNCHANGED <<published, rules, run, inventory, inserted>>

\* _upsert_rules with a snapshot, then the update that marks the others absent.
\* Mutant: it is forgotten.
PresenceKept ==
  [x \in Rules |-> IF x \in inventory THEN [stored |-> TRUE, present |-> TRUE, seen |-> run]
                   ELSE rules[x]]
PresenceAfter ==
  [x \in Rules |-> IF x \in inventory THEN [stored |-> TRUE, present |-> TRUE, seen |-> run]
                   ELSE [rules[x] EXCEPT !.present = FALSE]]

\* complete_policy_snapshot: one transaction, or nothing.
Commit ==
  /\ pc = "committing"
  /\ \/ /\ rules' = PresenceAfter
        /\ published' = run
        /\ inserted' = {}
        /\ pc' = "closing"
        /\ UNCHANGED counters
     \/ Fault /\ pc' = "removing" /\ UNCHANGED <<rules, published, inserted>>
  /\ UNCHANGED <<current, staging, backups, run, inventory, saved>>

\* _restore_materialized_snapshot removes the new snapshot file by file ...
Remove ==
  /\ pc = "removing"
  /\ current' = Partial
  /\ pc' = "removed"
  /\ UNCHANGED <<staging, backups, published, rules, run, inventory, saved, inserted, counters>>

\* ... and renames the backup back; either may raise.
Restore ==
  /\ pc = "removed"
  /\ pc' = "closing"
  /\ \/ /\ IF saved THEN PutBack ELSE current' = Absent /\ UNCHANGED backups
        /\ UNCHANGED counters
     \/ /\ RestoreFault /\ abandoned' = TRUE
        /\ current' \in {Absent, Partial} /\ UNCHANGED backups
  /\ UNCHANGED <<staging, published, rules, run, inventory, saved, inserted>>

Leave == pc' = "idle" /\ run' = Absent /\ inventory' = {} /\ saved' = FALSE

\* What an incomplete removal of the backup leaves.
Leftovers == {backups, [backups EXCEPT ![run] = IF saved /\ @ # Absent THEN Partial ELSE @]}

\* The end of a run, successful or not: the backup that the run knows of is
\* removed, if it still exists. Recording a failure may raise before that, the
\* removal ignores its errors, and an interruption ends it anywhere.
Close ==
  /\ pc = "closing"
  /\ \/ /\ backups' = IF saved THEN [backups EXCEPT ![run] = Absent] ELSE backups
        /\ UNCHANGED counters
     \/ Fault /\ backups' \in Leftovers
     \/ Interrupted /\ UNCHANGED abandoned /\ backups' \in Leftovers
  /\ Leave
  /\ UNCHANGED <<current, staging, published, rules, inserted>>

\* An interruption before the end: `except Exception` is skipped, the finally block
\* is not. From the second rename on the publication stays without its row, and a
\* backup that the run knows of is removed next.
Interrupt ==
  /\ pc \notin {"idle", "closing"}
  /\ Interrupted
  /\ pc' = "closing"
  /\ abandoned' = (abandoned \/ pc \in {"committing", "removing", "removed"})
  /\ staging' \in IF pc = "staging" THEN {staging, staging \cup {run}} ELSE {staging}
  /\ current' \in IF pc = "removed" THEN {current, Absent} ELSE {current}
  /\ saved' \in IF pc = "committing" THEN {saved, FALSE} ELSE {saved}
  /\ UNCHANGED <<backups, published, rules, run, inventory, inserted>>

\* A killed process leaves the directories and the committed rows behind.
Crash ==
  /\ pc # "idle"
  /\ crashes + interrupts < MaxCrashes
  /\ crashes' = crashes + 1
  /\ Leave
  /\ backups' \in IF pc = "closing" THEN Leftovers ELSE {backups}
  /\ UNCHANGED <<current, staging, published, rules, inserted, faults, restoreFaults,
                 interrupts, abandoned>>

\* upsert_rules of the transitional `collect`: a known rule keeps its presence.
Transitional(seen) ==
  /\ rules' = [x \in Rules |->
       IF x \in seen /\ ~rules[x].stored
       THEN [stored |-> TRUE, present |-> TRUE, seen |-> Absent] ELSE rules[x]]
  /\ inserted' = inserted \cup {x \in seen : ~rules[x].stored}
  /\ UNCHANGED <<current, staging, backups, published, pc, run, inventory, saved, counters>>

Step == \/ Export \/ Stage \/ MoveAside \/ Install \/ Commit \/ Remove \/ Restore \/ Close

Next ==
  \/ Launch
  \/ Bootstrap
  \/ Step
  \/ Interrupt
  \/ Crash
  \/ \E seen \in SUBSET Rules \ {{}} : Transitional(seen)

Spec == Init /\ [][Next]_vars

-----------------------------------------------------------------------------
(* Properties. *)

\* The last published snapshot is not lost: it is raw/snapshot itself or one of the
\* backups.
PublishedKept ==
  published # Absent => published = current \/ \E r \in RunIds : backups[r] = published

\* Whatever step fails and wherever a process is killed or interrupted, it is lost
\* only when a publication fails after the second rename and is not undone, because
\* the undo fails itself or an interruption skips it: the finally block then removes
\* the backup.
KeptUnlessUndoFails == ~abandoned => PublishedKept

\* As long as no process was killed or interrupted and no undo failed, between two
\* runs the snapshot directory and the latest COMPLETE row belong to the same run: "A
\* failed policy run leaves the previous snapshot unchanged" (integration-guide).
Undisturbed == crashes + restoreFaults + interrupts = 0
RestConsistent == pc = "idle" /\ Undisturbed => current = published

\* A rule is present exactly when the published snapshot saw it or the transitional
\* collector has inserted it since, also after a crash and beside a publication.
PresenceMatches ==
  \A x \in Rules : rules[x].present <=>
     (rules[x].seen = published /\ published # Absent) \/ x \in inserted

\* Scheduling: a live process takes its steps. Which wrapper cron launches again
\* and again is the premise of each liveness property.
LiveSpec == Spec /\ WF_vars(Step)

\* A missing snapshot comes back through the traffic wrappers alone. (They do not
\* notice an interrupted removal that spared the manifest: the bootstrap is fair
\* for Absent only.)
SnapshotReturns == WF_vars(current = Absent /\ Bootstrap) => []<>(current # Absent)

\* Once the daily policy run is launched again and again, an unpublished or
\* mismatched snapshot left by a crash is replaced by a published one.
Reconciled == WF_vars(Launch) => []<>(current = published /\ published # Absent)

=============================================================================
