------------------------- MODULE PolicySnapshotProofs -------------------------
(***************************************************************************)
(* Machine-checked proofs about PolicySnapshot and SnapshotReaders, for    *)
(* every set of runs and rules and every number of crashes and faults.     *)
(*                                                                         *)
(*  - The published snapshot survives unless a failed publication is not   *)
(*    undone, directory and row agree between two runs, and presence       *)
(*    follows the published snapshot and the rules inserted since.         *)
(*  - What a report reads while policies are published is whole and is not *)
(*    older than the rules it has read. There the runs are numbered, and   *)
(*    the publications keep what is proved of PolicySnapshot.              *)
(***************************************************************************)
EXTENDS SnapshotReaders, Recursion

USE NamesAssumption, FaultsAssumption

\* The control points before the snapshot directory is touched, and those at
\* which the transaction of the run has not committed.
Preparing == {"exporting", "staging", "moving"}
Uncommitted == Preparing \cup {"installing", "committing", "removing", "removed"}

\* A run at work has an identifier that nothing else refers to, until it commits.
RunIsFresh ==
  /\ pc # "idle" => run \in RunIds
  /\ pc \in Uncommitted => published # run /\ \A x \in Rules : rules[x].seen # run

\* Where the snapshot of the run and the one it replaces are, step by step.
DirectoriesFit ==
  /\ pc \in Preparing => backups[run] = Absent
  /\ pc \in Preparing \cup {"installing", "idle"} => ~saved
  /\ pc = "installing" => current = Absent
  /\ pc \in {"committing", "removing"} => current = run
  /\ pc = "removed" => current = Partial
  /\ pc \in {"committing", "removing", "removed"} => (saved <=> backups[run] # Absent)
  /\ pc = "closing" /\ saved /\ ~abandoned =>
       published = current \/ backups[run] = Absent

\* Without crashes, interruptions and failed undos the published snapshot is in its place, or
\* in the backup of the run that replaces it.
PublishedInPlace ==
  Undisturbed =>
    /\ pc \in Preparing \cup {"idle", "closing"} => current = published
    /\ pc \in {"installing", "committing", "removing", "removed"} => backups[run] = published

IInv ==
  /\ RunIsFresh
  /\ DirectoriesFit
  /\ PublishedInPlace
  /\ KeptUnlessUndoFails
  /\ PresenceMatches

-----------------------------------------------------------------------------
(* Types. *)

LEMMA InitTypes == Init => TypeOK
<1>1. Init => saved \in BOOLEAN /\ abandoned \in BOOLEAN
  BY Zenon DEF Init
<1> QED BY <1>1 DEF Init, TypeOK, Content, RuleRow, NoRow

\* An unused identifier is one that nothing refers to.
LEMMA UnusedIsFresh ==
  ASSUME TypeOK, NEW r \in Unused
  PROVE  /\ r \in RunIds /\ r \notin {current, published}
         /\ backups[r] = Absent /\ r \notin staging
         /\ \A x \in Rules : rules[x].seen # r
BY DEF Unused, Referenced, Litter

\* A run starts with such an identifier.
LEMMA StartsUnused ==
  ASSUME Start
  PROVE  \E r \in Unused : Begin(r)
<1>1. (CHOOSE r \in Unused : TRUE) \in Unused
  BY DEF Start
<1> QED BY <1>1 DEF Start

\* A new run keeps the types.
LEMMA StartTypes ==
  ASSUME TypeOK, NEW r \in Unused, Begin(r)
  PROVE  TypeOK'
BY UnusedIsFresh DEF TypeOK, Begin, counters

\* An incomplete removal touches the backup of the run only.
LEMMA LeftoversType ==
  ASSUME TypeOK, NEW left \in Leftovers
  PROVE  left \in [RunIds -> Content] /\ \A r \in RunIds :
           left[r] = backups[r] \/ (r = run /\ saved /\ backups[r] # Absent /\ left[r] = Partial)
<1>1. CASE left = backups
  BY <1>1 DEF TypeOK
<1>2. CASE saved /\ left = [backups EXCEPT ![run] = IF @ # Absent THEN Partial ELSE @]
  BY <1>2 DEF TypeOK, Content
<1> QED BY <1>1, <1>2 DEF Leftovers, TypeOK

\* Every step keeps the types, provided that a run at work has an identifier.
LEMMA StepTypes == TypeOK /\ RunIsFresh /\ [Next]_vars => TypeOK'
<1> SUFFICES ASSUME TypeOK, RunIsFresh, [Next]_vars PROVE TypeOK'
  OBVIOUS
<1> USE DEF TypeOK, counters, RunIsFresh
<1>1. CASE UNCHANGED vars
  BY <1>1 DEF vars
<1>2. CASE Launch \/ Bootstrap
  BY <1>2, StartsUnused, StartTypes DEF Launch, Bootstrap
<1>3. CASE Export
  BY <1>3 DEF Export, Fault
<1>4. CASE Stage
  BY <1>4 DEF Stage, Fault
<1>5. CASE MoveAside
  BY <1>5 DEF MoveAside, Fault, Content
<1>6. CASE Install
  <2>1. saved' \in BOOLEAN
    BY <1>6, Zenon DEF Install
  <2> QED BY <1>6, <2>1 DEF Install, Fault, PutBack, Content
<1>7. CASE Commit
  <2>1. rules \in [Rules -> RuleRow] /\ run \in RunIds => PresenceAfter \in [Rules -> RuleRow]
    BY DEF PresenceAfter, RuleRow
  <2> QED BY <1>7, <2>1 DEF Commit, Fault
<1>8. CASE Remove
  BY <1>8 DEF Remove, Content
<1>9. CASE Restore
  <2>1. abandoned' \in BOOLEAN
    BY <1>9, Zenon DEF Restore
  <2> QED BY <1>9, <2>1 DEF Restore, RestoreFault, PutBack, Content
<1>10. CASE Close
  <2>1. saved' \in BOOLEAN
    BY <1>10, Zenon DEF Close, Leave
  <2>2. backups' \in [RunIds -> Content]
    BY <1>10, LeftoversType DEF Close, Content
  <2>3. abandoned' \in BOOLEAN
    BY <1>10, Zenon DEF Close, Fault
  <2>4. /\ crashes' \in 0..MaxCrashes /\ faults' \in 0..MaxFaults
        /\ restoreFaults' \in 0..MaxRestoreFaults /\ interrupts' \in 0..MaxCrashes
    BY <1>10 DEF Close, Fault, Interrupted
  <2> QED BY <1>10, <2>1, <2>2, <2>3, <2>4 DEF Close, Leave
<1>11. CASE Interrupt
  <2>1. saved' \in BOOLEAN /\ abandoned' \in BOOLEAN
    BY <1>11, Zenon DEF Interrupt
  <2> QED BY <1>11, <2>1 DEF Interrupt, Interrupted, Content
<1>12. CASE Crash
  <2>1. saved' \in BOOLEAN
    BY <1>12, Zenon DEF Crash, Leave
  <2> QED BY <1>12, <2>1, LeftoversType DEF Crash, Leave
<1>13. ASSUME NEW seen \in SUBSET Rules, Transitional(seen)
       PROVE  TypeOK'
  BY <1>13 DEF Transitional, RuleRow
<1> QED BY <1>1, <1>2, <1>3, <1>4, <1>5, <1>6, <1>7, <1>8, <1>9, <1>10, <1>11, <1>12, <1>13
        DEF Next, Step

-----------------------------------------------------------------------------
(* The invariant, one lemma for each action. *)

\* The identifier of a new run is nowhere in use.
LEMMA StartKeeps ==
  ASSUME TypeOK, IInv, NEW r \in Unused, Begin(r)
  PROVE  IInv'
<1> USE UnusedIsFresh DEF Begin, IInv, Preparing, Uncommitted, counters
<1>1. RunIsFresh'
  BY DEF RunIsFresh
<1>2. DirectoriesFit'
  BY DEF DirectoriesFit
<1>3. PublishedInPlace'
  BY DEF PublishedInPlace, Undisturbed
<1>4. KeptUnlessUndoFails' /\ PresenceMatches'
  BY DEF KeptUnlessUndoFails, PublishedKept, PresenceMatches
<1> QED BY <1>1, <1>2, <1>3, <1>4

\* The exports touch no directory and no row.
LEMMA ExportKeeps ==
  ASSUME TypeOK, IInv, Export
  PROVE  IInv'
<1> USE DEF TypeOK, IInv, Preparing, Uncommitted, counters, Export, Fault
<1>1. RunIsFresh'
  BY DEF RunIsFresh
<1>2. DirectoriesFit'
  BY DEF RunIsFresh, DirectoriesFit
<1>3. PublishedInPlace'
  BY DEF RunIsFresh, DirectoriesFit, PublishedInPlace, Undisturbed
<1>4. KeptUnlessUndoFails'
  BY DEF RunIsFresh, DirectoriesFit, KeptUnlessUndoFails, PublishedKept
<1>5. PresenceMatches'
  BY DEF PresenceMatches
<1> QED BY <1>1, <1>2, <1>3, <1>4, <1>5

\* Nor does the copy: the staging directory is the run's own.
LEMMA StageKeeps ==
  ASSUME TypeOK, IInv, Stage
  PROVE  IInv'
<1> USE DEF TypeOK, IInv, Preparing, Uncommitted, counters, Stage, Fault
<1>1. RunIsFresh'
  BY DEF RunIsFresh
<1>2. DirectoriesFit'
  BY DEF RunIsFresh, DirectoriesFit
<1>3. PublishedInPlace'
  BY DEF RunIsFresh, DirectoriesFit, PublishedInPlace, Undisturbed
<1>4. KeptUnlessUndoFails'
  BY DEF RunIsFresh, DirectoriesFit, KeptUnlessUndoFails, PublishedKept
<1>5. PresenceMatches'
  BY DEF PresenceMatches
<1> QED BY <1>1, <1>2, <1>3, <1>4, <1>5

\* The first rename: the published snapshot becomes the run's backup.
LEMMA MoveAsideKeeps ==
  ASSUME TypeOK, IInv, MoveAside
  PROVE  IInv'
<1> USE DEF TypeOK, IInv, Preparing, Uncommitted, counters, MoveAside, Fault
<1>1. RunIsFresh'
  BY DEF RunIsFresh
<1>2. DirectoriesFit'
  BY DEF RunIsFresh, DirectoriesFit
<1>3. PublishedInPlace'
  BY DEF RunIsFresh, DirectoriesFit, PublishedInPlace, Undisturbed
<1>4. KeptUnlessUndoFails'
  BY DEF RunIsFresh, DirectoriesFit, KeptUnlessUndoFails, PublishedKept
<1>5. PresenceMatches'
  BY DEF PresenceMatches
<1> QED BY <1>1, <1>2, <1>3, <1>4, <1>5

\* The second rename, or its undo: from here on the run knows of its backup.
LEMMA InstallKeeps ==
  ASSUME TypeOK, IInv, Install
  PROVE  IInv'
<1> USE DEF TypeOK, IInv, Preparing, Uncommitted, counters, Install, Fault, PutBack
<1>1. RunIsFresh'
  BY DEF RunIsFresh
<1>2. DirectoriesFit'
  <2>1. CASE pc' = "committing"
    <3>1. saved' <=> backups'[run'] # Absent
      BY <2>1, Zenon
    <3>2. current' = run'
      BY <2>1
    <3> QED BY <2>1, <3>1, <3>2 DEF DirectoriesFit
  <2>2. CASE pc' = "closing"
    BY <2>2 DEF DirectoriesFit
  <2> QED BY <2>1, <2>2
<1>3. PublishedInPlace'
  BY DEF RunIsFresh, DirectoriesFit, PublishedInPlace, Undisturbed
<1>4. KeptUnlessUndoFails'
  BY DEF RunIsFresh, DirectoriesFit, KeptUnlessUndoFails, PublishedKept
<1>5. PresenceMatches'
  BY DEF PresenceMatches
<1> QED BY <1>1, <1>2, <1>3, <1>4, <1>5

\* The undo removes the run's own snapshot, never the published one.
LEMMA RemoveKeeps ==
  ASSUME TypeOK, IInv, Remove
  PROVE  IInv'
<1> USE DEF TypeOK, IInv, Preparing, Uncommitted, counters, Remove
<1>1. RunIsFresh'
  BY DEF RunIsFresh
<1>2. DirectoriesFit'
  BY DEF RunIsFresh, DirectoriesFit
<1>3. PublishedInPlace'
  BY DEF RunIsFresh, DirectoriesFit, PublishedInPlace, Undisturbed
<1>4. KeptUnlessUndoFails'
  BY DEF RunIsFresh, DirectoriesFit, KeptUnlessUndoFails, PublishedKept
<1>5. PresenceMatches'
  BY DEF PresenceMatches
<1> QED BY <1>1, <1>2, <1>3, <1>4, <1>5

\* The undo renames the backup back; the backup may be the last copy.
LEMMA RestoreKeeps ==
  ASSUME TypeOK, IInv, Restore
  PROVE  IInv'
<1> USE DEF TypeOK, IInv, Preparing, Uncommitted, counters, Restore, RestoreFault, PutBack
<1>1. RunIsFresh'
  BY DEF RunIsFresh
<1>2. DirectoriesFit'
  BY DEF RunIsFresh, DirectoriesFit
<1>3. PublishedInPlace'
  BY DEF RunIsFresh, DirectoriesFit, PublishedInPlace, Undisturbed
<1>4. KeptUnlessUndoFails'
  <2>1. SUFFICES ASSUME ~abandoned', published # Absent
                 PROVE  published = current' \/ \E r \in RunIds : backups'[r] = published
    BY DEF KeptUnlessUndoFails, PublishedKept
  <2>2. ~abandoned
    BY <2>1, Zenon
  <2>3. PICK r \in RunIds : backups[r] = published
    BY <2>1, <2>2 DEF DirectoriesFit, KeptUnlessUndoFails, PublishedKept
  <2>4. CASE saved /\ r = run
    BY <2>1, <2>3, <2>4
  <2>5. CASE ~(saved /\ r = run)
    BY <2>1, <2>3, <2>5
  <2> QED BY <2>4, <2>5
<1>5. PresenceMatches'
  BY DEF PresenceMatches
<1> QED BY <1>1, <1>2, <1>3, <1>4, <1>5

\* What the end of a run removes is not the published snapshot.
LEMMA CloseKeeps ==
  ASSUME TypeOK, IInv, Close
  PROVE  IInv'
<1> USE LeftoversType DEF TypeOK, IInv, Preparing, Uncommitted, counters, Close, Leave, Fault,
        Interrupted
<1>1. RunIsFresh'
  BY DEF RunIsFresh
<1>2. DirectoriesFit'
  BY DEF RunIsFresh, DirectoriesFit
<1>3. PublishedInPlace'
  BY DEF RunIsFresh, DirectoriesFit, PublishedInPlace, Undisturbed
<1>4. KeptUnlessUndoFails'
  BY DEF RunIsFresh, DirectoriesFit, KeptUnlessUndoFails, PublishedKept
<1>5. PresenceMatches'
  BY DEF PresenceMatches
<1> QED BY <1>1, <1>2, <1>3, <1>4, <1>5

\* A killed process leaves directories and rows as they are.
LEMMA CrashKeeps ==
  ASSUME TypeOK, IInv, Crash
  PROVE  IInv'
<1> USE LeftoversType DEF TypeOK, IInv, Preparing, Uncommitted, counters, Crash, Leave
<1>1. RunIsFresh'
  BY DEF RunIsFresh
<1>2. DirectoriesFit'
  BY DEF RunIsFresh, DirectoriesFit
<1>3. PublishedInPlace'
  BY DEF RunIsFresh, DirectoriesFit, PublishedInPlace, Undisturbed
<1>4. KeptUnlessUndoFails'
  BY DEF RunIsFresh, DirectoriesFit, KeptUnlessUndoFails, PublishedKept
<1>5. PresenceMatches'
  BY DEF PresenceMatches
<1> QED BY <1>1, <1>2, <1>3, <1>4, <1>5

\* The transaction: its rules are those the new snapshot saw, and no other rule
\* names this run.
LEMMA CommitKeeps ==
  ASSUME TypeOK, IInv, Commit
  PROVE  IInv'
<1> USE DEF TypeOK, IInv, Preparing, Uncommitted, counters, Commit, Fault
<1>1. CASE /\ rules' = PresenceAfter /\ published' = run /\ inserted' = {}
           /\ pc' = "closing" /\ UNCHANGED counters
  <2>1. RunIsFresh' /\ DirectoriesFit' /\ PublishedInPlace' /\ KeptUnlessUndoFails'
    BY <1>1 DEF RunIsFresh, DirectoriesFit, PublishedInPlace, KeptUnlessUndoFails,
                PublishedKept
  <2>2. ASSUME NEW x \in Rules
        PROVE  rules'[x].present <=> rules'[x].seen = run
    <3>1. CASE x \in inventory
      <4>1. rules'[x] = [stored |-> TRUE, present |-> TRUE, seen |-> run]
        BY <1>1, <3>1 DEF PresenceAfter
      <4> QED BY <4>1
    <3>2. CASE x \notin inventory
      <4>1. rules'[x] = [rules[x] EXCEPT !.present = FALSE]
        BY <1>1, <3>2 DEF PresenceAfter
      <4>2. rules'[x].seen = rules[x].seen /\ rules'[x].present = FALSE
        BY <4>1 DEF RuleRow
      <4>3. rules[x].seen # run
        BY DEF RunIsFresh
      <4> QED BY <4>2, <4>3
    <3> QED BY <3>1, <3>2
  <2>3. PresenceMatches'
    BY <1>1, <2>2 DEF PresenceMatches, RunIsFresh
  <2> QED BY <2>1, <2>3
<1>2. CASE Fault /\ pc' = "removing" /\ UNCHANGED <<rules, published, inserted>>
  <2>1. RunIsFresh' /\ DirectoriesFit' /\ PublishedInPlace'
    BY <1>2 DEF RunIsFresh, DirectoriesFit, PublishedInPlace, Undisturbed
  <2>2. KeptUnlessUndoFails' /\ PresenceMatches'
    BY <1>2 DEF KeptUnlessUndoFails, PublishedKept, PresenceMatches
  <2> QED BY <2>1, <2>2
<1> QED BY <1>1, <1>2

\* An interruption leaves the backup of an installed snapshot to be removed, unless the
\* run does not know of it yet.
LEMMA InterruptKeeps ==
  ASSUME TypeOK, IInv, Interrupt
  PROVE  IInv'
<1> USE DEF TypeOK, IInv, Preparing, Uncommitted, counters, Interrupt, Interrupted
<1>1. RunIsFresh'
  BY DEF RunIsFresh
<1>2. DirectoriesFit'
  <2>1. CASE pc \in {"committing", "removing", "removed"}
    <3>1. abandoned'
      BY <2>1, Zenon
    <3> QED BY <3>1 DEF DirectoriesFit
  <2>2. CASE pc \in Preparing \cup {"installing"}
    <3>1. ~saved'
      BY <2>2 DEF DirectoriesFit
    <3> QED BY <3>1 DEF DirectoriesFit
  <2> QED BY <2>1, <2>2
<1>3. PublishedInPlace'
  BY DEF PublishedInPlace, Undisturbed
<1>4. KeptUnlessUndoFails'
  <2>1. SUFFICES ASSUME ~abandoned'
                 PROVE  PublishedKept'
    BY DEF KeptUnlessUndoFails
  <2>2. ~abandoned /\ pc \notin {"committing", "removing", "removed"}
    BY <2>1, Zenon
  <2>3. UNCHANGED <<current, backups, published>>
    BY <2>2
  <2> QED BY <2>2, <2>3 DEF KeptUnlessUndoFails, PublishedKept
<1>5. PresenceMatches'
  BY DEF PresenceMatches
<1> QED BY <1>1, <1>2, <1>3, <1>4, <1>5

\* Rules inserted beside a publication have not been seen by any.
LEMMA TransitionalKeeps ==
  ASSUME TypeOK, IInv, NEW seen \in SUBSET Rules, Transitional(seen)
  PROVE  IInv'
<1> USE DEF TypeOK, IInv, Transitional, counters
<1>1. ASSUME NEW x \in Rules
      PROVE  \/ rules'[x] = rules[x] /\ (x \in inserted' <=> x \in inserted)
             \/ rules'[x].seen = Absent /\ rules'[x].present /\ x \in inserted'
  OBVIOUS
<1>2. RunIsFresh'
  BY <1>1 DEF RunIsFresh, Uncommitted, Preparing
<1>3. DirectoriesFit' /\ PublishedInPlace' /\ KeptUnlessUndoFails'
  BY DEF DirectoriesFit, PublishedInPlace, Undisturbed, KeptUnlessUndoFails, PublishedKept
<1>4. PresenceMatches'
  BY <1>1 DEF PresenceMatches
<1> QED BY <1>2, <1>3, <1>4

-----------------------------------------------------------------------------

\* The invariant holds of an empty installation.
LEMMA InitIInv == Init => IInv
<1> SUFFICES ASSUME Init PROVE IInv
  OBVIOUS
<1>1. ~saved
  BY Zenon DEF Init
<1> QED BY <1>1 DEF Init, IInv, RunIsFresh, DirectoriesFit, PublishedInPlace, Preparing,
                Uncommitted, KeptUnlessUndoFails, PublishedKept, PresenceMatches, NoRow

\* The invariant is inductive.
LEMMA StepKeeps == TypeOK /\ IInv /\ [Next]_vars => TypeOK' /\ IInv'
<1> SUFFICES ASSUME TypeOK, IInv, [Next]_vars PROVE TypeOK' /\ IInv'
  OBVIOUS
<1>1. TypeOK'
  BY StepTypes DEF IInv
<1>2. CASE UNCHANGED vars
  BY <1>1, <1>2 DEF vars, counters, IInv, RunIsFresh, DirectoriesFit, PublishedInPlace,
              Undisturbed, KeptUnlessUndoFails, PublishedKept, PresenceMatches
<1>3. CASE Launch \/ Bootstrap
  BY <1>1, <1>3, StartsUnused, StartKeeps DEF Launch, Bootstrap
<1>4. CASE Step
  BY <1>1, <1>4, ExportKeeps, StageKeeps, MoveAsideKeeps, InstallKeeps, CommitKeeps, RemoveKeeps,
     RestoreKeeps, CloseKeeps DEF Step
<1>5. CASE Interrupt \/ Crash
  BY <1>1, <1>5, InterruptKeeps, CrashKeeps
<1>6. CASE \E seen \in SUBSET Rules \ {{}} : Transitional(seen)
  BY <1>1, <1>6, TransitionalKeeps
<1> QED BY <1>2, <1>3, <1>4, <1>5, <1>6 DEF Next

\* So it holds in every reachable state.
LEMMA AlwaysIInv == Spec => [](TypeOK /\ IInv)
BY InitTypes, InitIInv, StepKeeps, PTL DEF Spec

\* Every reachable state is type correct.
THEOREM PublicationTypes == Spec => []TypeOK
BY AlwaysIInv, PTL

\* Whatever step of a publication fails, and wherever a process is killed or
\* interrupted, the published snapshot is still on disk, unless a publication that
\* failed after the second rename was not undone, because the undo failed too or the
\* interruption skipped it (_publish_materialized_snapshot,
\* _restore_materialized_snapshot, collect_policy).
THEOREM PublishedSurvives == Spec => []KeptUnlessUndoFails
<1>1. IInv => KeptUnlessUndoFails
  BY DEF IInv
<1> QED BY <1>1, AlwaysIInv, PTL

\* Between two runs the snapshot directory and the latest COMPLETE row belong to
\* the same run, as long as no process was killed or interrupted and no undo failed.
THEOREM DirectoryMatchesRow == Spec => []RestConsistent
<1>1. TypeOK /\ IInv => RestConsistent
  BY DEF TypeOK, IInv, PublishedInPlace, RestConsistent
<1> QED BY <1>1, AlwaysIInv, PTL

\* A rule is marked present exactly when the published snapshot saw it or the
\* transitional collector has inserted it since, also after crashes and beside a
\* publication (complete_policy_snapshot, upsert_rules).
THEOREM PresenceFollowsSnapshot == Spec => []PresenceMatches
<1>1. IInv => PresenceMatches
  BY DEF IInv
<1> QED BY <1>1, AlwaysIInv, PTL

-----------------------------------------------------------------------------
(* Readers of a policy that is being published. *)

USE TimesAssumption

\* The runs that have begun.
Past == {r \in RunIds : r <= started}

\* Nothing refers to a run that has not begun; the latest is the one at work, and it
\* has written its exports before it publishes them.
RunsAreCounted ==
  /\ current \in Past \cup {Absent, Partial}
  /\ \A r \in RunIds : /\ backups[r] \in Past \cup {Absent, Partial}
                       /\ r \in Past \/ backups[r] = Absent
  /\ {published, tables, reader.gen, reader.got, reader.dir} \subseteq Past \cup {Absent}
  /\ \A x \in Rules : rules[x].seen \in Past \cup {Absent}
  /\ staging \cup runDirs \cup reader.dirs \subseteq Past
  /\ run = IF pc = "idle" THEN Absent ELSE started
  /\ pc \in Uncommitted \ {"exporting"} => run \notin partial

\* Neither the snapshot, nor the copy that an undo would put back, nor the tables are
\* older than the published rules, which are not older than those a report has read.
NothingOlder ==
  /\ current \in RunIds => Time(current) >= Time(published)
  /\ pc \in Uncommitted \ Preparing /\ backups[run] \in RunIds =>
       Time(backups[run]) >= Time(published)
  /\ Time(tables) >= Time(published)
  /\ pc \in {"staging", "moving", "installing", "committing"} => tables = run
  /\ Time(published) >= Time(reader.gen)

\* A report that chose the directory of the live run chose the latest run, and when it
\* has rules, one that has written its exports.
ReaderFits ==
  /\ reader.at \in {"idle", "rules", "listed"} => ~reader.stray
  /\ reader.at # "done" => reader.whole
  /\ reader.from = "directory" => reader.dir \in RunIds
  /\ reader.from = "directory" /\ ~reader.stray => Time(reader.dir) >= Time(reader.gen)
  /\ reader.at = "chosen" /\ reader.from = "directory" /\ ~reader.stray
       /\ reader.gen # Absent /\ Undisturbed => reader.dir \notin partial

\* What the types say of the directories left behind.
StraysCounted == Cardinality(runDirs \ {run}) <= crashes + faults + interrupts

ReadersInv == RunsAreCounted /\ NothingOlder /\ ReaderFits

-----------------------------------------------------------------------------
(* The publications are those of PolicySnapshot. *)

LEMMA NextRunIsUnused ==
  ASSUME TypeOK, ReadersTypeOK, RunsAreCounted, started + 1 \in RunIds
  PROVE  started + 1 \in Unused /\ started + 1 \notin Past
<1>1. started + 1 \notin Past
  BY DEF Past, ReadersTypeOK
<1>2. started + 1 \notin Past \cup {Absent, Partial}
  BY <1>1
<1>3. started + 1 \notin {current, published} \cup staging \cup {rules[x].seen : x \in Rules}
  BY <1>2 DEF RunsAreCounted
<1>4. /\ backups[started + 1] = Absent
      /\ \A r \in RunIds : backups[r] # started + 1
  BY <1>1, <1>2 DEF RunsAreCounted
<1> QED BY <1>1, <1>3, <1>4 DEF Unused, Referenced, Litter

\* A run that could not be recorded changed nothing else.
LEMMA UnrecordedKeeps ==
  ASSUME TypeOK, IInv, Unrecorded
  PROVE  TypeOK' /\ IInv'
<1> USE DEF TypeOK, Unrecorded, Fault, Interrupted
<1>1. TypeOK'
  OBVIOUS
<1>2. RunIsFresh' /\ DirectoriesFit' /\ PublishedInPlace' /\ PresenceMatches'
  BY DEF IInv, RunIsFresh, DirectoriesFit, PublishedInPlace, Undisturbed, PresenceMatches
<1>3. KeptUnlessUndoFails'
  BY DEF IInv, KeptUnlessUndoFails, PublishedKept
<1> QED BY <1>1, <1>2, <1>3 DEF IInv

LEMMA PolicyStep ==
  ASSUME ReadersNext
  PROVE  MakeRunDir \/ [Next]_vars
BY DEF ReadersNext, ExportReferences, Publishing, RemoveRunDir, ReadRules, ListRunDirs, Choose,
       Open, Deliver, disk, Next, Step

LEMMA PolicyKept ==
  ASSUME TypeOK, IInv, ReadersTypeOK, RunsAreCounted, [ReadersNext]_readerVars
  PROVE  TypeOK' /\ IInv'
<1>1. CASE MakeRunDir
  <2>1. started + 1 \in Unused /\ (Begin(started + 1) \/ Unrecorded)
    BY <1>1, NextRunIsUnused DEF MakeRunDir
  <2> QED BY <2>1, StartTypes, StartKeeps, UnrecordedKeeps
<1>2. CASE [Next]_vars
  BY <1>2, StepKeeps
<1> QED BY <1>1, <1>2, PolicyStep DEF readerVars

-----------------------------------------------------------------------------
(* What the steps of the report do to it. *)

LEMMA ListFields ==
  ASSUME ReadersTypeOK, ReadersInv, ListRunDirs
  PROVE  /\ reader' \in ReaderState
         /\ reader.at = "rules" /\ reader'.at = "listed" /\ reader'.dirs \subseteq runDirs
         /\ reader'.gen = reader.gen /\ reader'.from = reader.from /\ reader'.dir = reader.dir
         /\ reader'.got = reader.got
         /\ ~reader'.stray /\ reader'.whole
<1>1. PICK some \in SUBSET partial :
        reader' = [reader EXCEPT !.at = "listed", !.dirs = (runDirs \ partial) \cup some]
  BY DEF ListRunDirs
<1> QED BY <1>1 DEF ListRunDirs, ReadersTypeOK, ReaderState, ReadersInv, ReaderFits

\* The run directories are listed in the order of their times, and there is a last one.
LEMMA NewestIsOne ==
  ASSUME ReadersTypeOK, RunsAreCounted, NEW dirs \in SUBSET reader.dirs, dirs # {}
  PROVE  Newest(dirs) \in dirs
<1>1. dirs \in SUBSET Nat /\ \A d \in dirs : d <= started
  BY DEF RunsAreCounted, Past
<1>2. started \in Nat
  BY DEF ReadersTypeOK
<1>3. \E r \in dirs : \A s \in dirs : s <= r
  BY <1>1, <1>2, GreatestNatural
<1> QED BY <1>3 DEF Newest

LEMMA ChooseFields ==
  ASSUME ReadersTypeOK, ReadersInv, Choose
  PROVE  /\ reader' \in ReaderState
         /\ reader.at = "listed" /\ reader'.at = "chosen" /\ reader'.dirs = reader.dirs
         /\ reader'.gen = reader.gen /\ reader'.got = reader.got /\ reader'.whole
         /\ reader'.from \in {"snapshot", "directory", "tables"}
         /\ reader'.from = "directory" => current \notin RunIds /\ reader'.dir \in reader.dirs
         /\ reader'.from # "directory" => reader'.dir = Absent
         /\ reader'.stray <=> reader'.dir \notin {run, Absent}
<1> DEFINE dir == IF Candidate = "directory" THEN Newest(reader.dirs) ELSE Absent
<1>1. reader' = [reader EXCEPT !.at = "chosen", !.from = Candidate, !.dir = dir,
                               !.stray = dir \notin {run, Absent}]
  BY DEF Choose
<1>2. Candidate = "directory" => current \notin RunIds /\ Newest(reader.dirs) \in reader.dirs
  BY NewestIsOne DEF Candidate, ReadersInv
<1>3. Candidate \in {"snapshot", "directory", "tables"}
  BY DEF Candidate
<1>6. dir \in RunIds \cup {Absent}
  BY <1>2 DEF ReadersTypeOK, ReaderState
<1> HIDE DEF dir
<1>4. /\ reader'.at = "chosen" /\ reader'.dirs = reader.dirs /\ reader'.gen = reader.gen
      /\ reader'.got = reader.got /\ reader'.whole = reader.whole
      /\ reader'.from = Candidate /\ reader'.dir = dir
      /\ reader'.stray = (dir \notin {run, Absent}) /\ reader' \in ReaderState
  BY <1>1, <1>3, <1>6 DEF ReadersTypeOK, ReaderState
<1>5. reader.at = "listed" /\ reader.whole
  BY DEF Choose, ReadersInv, ReaderFits
<1> QED BY <1>2, <1>3, <1>4, <1>5 DEF dir

LEMMA OpenFields ==
  ASSUME ReadersTypeOK, ReadersInv, Open
  PROVE  \/ reader' = Nowhere
         \/ /\ reader' \in ReaderState
            /\ reader.at = "chosen" /\ reader'.at = "done" /\ reader'.dirs = reader.dirs
            /\ reader'.gen = reader.gen /\ reader'.from = reader.from
            /\ reader'.dir = reader.dir /\ reader'.stray = reader.stray
            /\ \/ reader.from = "tables" /\ reader'.got = tables /\ reader'.whole
               \/ /\ reader.from = "snapshot" /\ current \in RunIds
                  /\ reader'.got = current /\ reader'.whole
               \/ /\ reader.from = "directory" /\ reader'.got = reader.dir
                  /\ reader'.whole <=> reader.dir \notin partial
<1>1. reader.at = "chosen" /\ reader.whole
  BY DEF Open, ReadersInv, ReaderFits
<1>2. CASE reader' = [reader EXCEPT !.at = "done", !.got = tables] /\ reader.from = "tables"
  BY <1>1, <1>2 DEF ReadersTypeOK, ReaderState
<1>3. CASE /\ reader' = [reader EXCEPT !.at = "done", !.got = current]
           /\ reader.from = "snapshot" /\ current \in RunIds
  BY <1>1, <1>3 DEF ReadersTypeOK, ReaderState
<1>4. CASE /\ reader' = [reader EXCEPT !.at = "done", !.got = reader.dir,
                                       !.whole = reader.dir \notin partial]
           /\ reader.from = "directory"
  BY <1>1, <1>4 DEF ReadersTypeOK, ReaderState
<1> QED BY <1>2, <1>3, <1>4 DEF Open

-----------------------------------------------------------------------------
(* The types. *)

LEMMA ReaderTypesKept ==
  ASSUME TypeOK, IInv, ReadersTypeOK, ReadersInv, [ReadersNext]_readerVars, StraysCounted'
  PROVE  ReadersTypeOK'
<1> USE DEF ReadersTypeOK, ReadersInv, RunsAreCounted, StraysCounted
<1>1. CASE MakeRunDir
  BY <1>1 DEF MakeRunDir, Begin, Unrecorded
<1>2. CASE ExportReferences
  <2>1. run \in RunIds
    BY <1>2 DEF ExportReferences, Export, IInv, RunIsFresh
  <2> QED BY <1>2, <2>1 DEF ExportReferences
<1>3. CASE Publishing
  BY <1>3 DEF Publishing
<1>4. CASE RemoveRunDir
  BY <1>4 DEF RemoveRunDir
<1>5. CASE ReadRules
  BY <1>5 DEF ReadRules, Nowhere, disk, TypeOK, vars, counters, ReaderState
<1>6. CASE ListRunDirs
  BY <1>6, ListFields DEF ListRunDirs, disk, vars, counters
<1>7. CASE Choose
  BY <1>7, ChooseFields DEF Choose, disk, vars, counters
<1>8. CASE Open
  BY <1>8, OpenFields DEF Open, disk, Nowhere, ReaderState
<1>9. CASE Deliver
  BY <1>9 DEF Deliver, disk, vars, counters, Nowhere, ReaderState
<1>10. CASE UNCHANGED readerVars
  BY <1>10 DEF readerVars
<1> QED BY <1>1, <1>2, <1>3, <1>4, <1>5, <1>6, <1>7, <1>8, <1>9, <1>10 DEF ReadersNext

-----------------------------------------------------------------------------
(* The run at work is the latest one. *)

LEMMA LiveRun ==
  ASSUME ReadersTypeOK, RunsAreCounted, IInv, pc # "idle"
  PROVE  run = started /\ run \in RunIds /\ run \in Past
<1>1. run = started /\ run \in RunIds
  BY DEF RunsAreCounted, IInv, RunIsFresh
<1> QED BY <1>1 DEF Past

(* Runs are counted: one lemma for each kind of step. *)

\* The report leaves the disk as it is, and refers to nothing but what it found.
LEMMA ReportCounted ==
  ASSUME TypeOK, ReadersTypeOK, ReadersInv,
         ReadRules \/ ListRunDirs \/ Choose \/ Open \/ Deliver
  PROVE  RunsAreCounted'
<1>1. UNCHANGED disk
  BY DEF ReadRules, ListRunDirs, Choose, Open, Deliver
<1>2. /\ {reader'.gen, reader'.got, reader'.dir} \subseteq Past \cup {Absent}
      /\ reader'.dirs \subseteq Past
  <2> USE DEF ReadersInv, RunsAreCounted
  <2>1. CASE ReadRules
    BY <2>1 DEF ReadRules, Nowhere
  <2>2. CASE ListRunDirs
    BY <2>2, ListFields
  <2>3. CASE Choose
    BY <2>3, ChooseFields
  <2>4. CASE Open
    BY <2>4, OpenFields DEF Nowhere
  <2>5. CASE Deliver
    BY <2>5 DEF Deliver, Nowhere
  <2> QED BY <2>1, <2>2, <2>3, <2>4, <2>5
<1> QED BY <1>1, <1>2 DEF ReadersInv, RunsAreCounted, Past, disk, vars, counters

LEMMA BeginCounted ==
  ASSUME TypeOK, IInv, ReadersTypeOK, ReadersInv, MakeRunDir
  PROVE  RunsAreCounted'
<1>1. /\ started' = started + 1 /\ started' \in RunIds /\ pc = "idle"
      /\ (pc' = "exporting" /\ run' = started') \/ UNCHANGED <<pc, run>>
      /\ runDirs' = runDirs \cup {started'}
      /\ UNCHANGED <<current, staging, backups, published, rules, tables, reader>>
  BY DEF MakeRunDir, Begin, Unrecorded
<1>2. Past \subseteq Past' /\ started' \in Past'
  <2>1. started \in Nat
    BY DEF ReadersTypeOK
  <2>2. \A r \in RunIds : r \in Nat /\ (r <= started => r <= started')
    BY <1>1, <2>1
  <2>3. started' <= started'
    BY <1>1, <2>1
  <2> QED BY <1>1, <2>2, <2>3 DEF Past
<1>3. \A r \in RunIds : /\ backups'[r] \in Past' \cup {Absent, Partial}
                        /\ r \in Past' \/ backups'[r] = Absent
  BY <1>1, <1>2 DEF ReadersInv, RunsAreCounted
<1>4. \A x \in Rules : rules'[x].seen \in Past' \cup {Absent}
  BY <1>1, <1>2 DEF ReadersInv, RunsAreCounted
<1> QED BY <1>1, <1>2, <1>3, <1>4 DEF ReadersInv, RunsAreCounted, Uncommitted, Preparing

LEMMA ExportCounted ==
  ASSUME TypeOK, IInv, ReadersTypeOK, ReadersInv, ExportReferences
  PROVE  RunsAreCounted'
<1>1. run = started /\ run \in RunIds /\ run \in Past
  BY LiveRun DEF ExportReferences, Export, ReadersInv
<1> QED BY <1>1 DEF ReadersInv, RunsAreCounted, ExportReferences, Export, Past, Uncommitted,
                    Preparing

LEMMA CloseCounted ==
  ASSUME TypeOK, IInv, ReadersTypeOK, ReadersInv, RemoveRunDir
  PROVE  RunsAreCounted'
<1>1. pc = "closing" /\ run \in RunIds
  BY DEF RemoveRunDir, Close, IInv, RunIsFresh
<1>2. \A r \in RunIds : backups'[r] = backups[r] \/ (r = run /\ backups'[r] \in {Absent, Partial})
  BY <1>1, LeftoversType DEF RemoveRunDir, Close, TypeOK
<1>4. run \in Past
  BY <1>1, LiveRun DEF ReadersInv
<1>3. runDirs' \subseteq runDirs
  BY DEF RemoveRunDir
<1> QED BY <1>1, <1>2, <1>3, <1>4 DEF ReadersInv, RunsAreCounted, RemoveRunDir, Close, Leave,
                                      Past, Uncommitted, Preparing

LEMMA PublishingCounted ==
  ASSUME TypeOK, IInv, ReadersTypeOK, ReadersInv, Publishing
  PROVE  RunsAreCounted'
<1> USE DEF ReadersInv, RunsAreCounted, Past, Uncommitted, Preparing
<1>1. pc # "idle" /\ run \in RunIds /\ run \in Past
  <2>1. pc # "idle"
    BY DEF Publishing, Stage, MoveAside, Install, Commit, Remove, Restore, Interrupt,
           Crash
  <2> QED BY <2>1, LiveRun
<1>2. UNCHANGED <<started, runDirs, partial, tables, reader>>
  BY DEF Publishing
<1>3. CASE Stage
  BY <1>1, <1>2, <1>3 DEF Stage
<1>4. CASE MoveAside
  BY <1>1, <1>2, <1>4 DEF MoveAside, TypeOK
<1>5. CASE Install
  BY <1>1, <1>2, <1>5 DEF Install, PutBack, TypeOK
<1>6. CASE Commit
  <2>1. \A x \in Rules : rules'[x].seen \in {rules[x].seen, run}
    <3>1. CASE rules' = PresenceAfter
      BY <3>1 DEF PresenceAfter, RuleRow, TypeOK
    <3>2. CASE UNCHANGED rules
      BY <3>2
    <3> QED BY <1>6, <3>1, <3>2 DEF Commit
  <2>2. \A x \in Rules : rules'[x].seen \in Past' \cup {Absent}
    BY <1>1, <1>2, <2>1
  <2> QED BY <1>1, <1>2, <1>6, <2>2 DEF Commit
<1>7. CASE Remove
  BY <1>1, <1>2, <1>7 DEF Remove
<1>8. CASE Restore
  BY <1>1, <1>2, <1>8 DEF Restore, PutBack, TypeOK
<1>9. CASE Crash
  BY <1>1, <1>2, <1>9, LeftoversType DEF Crash, Leave, TypeOK
<1>10. CASE Interrupt
  <2>1. pc' = "closing" /\ staging' \subseteq staging \cup {run} /\ current' \in {current, Absent}
    BY <1>10 DEF Interrupt
  <2>2. UNCHANGED <<backups, published, rules, run>>
    BY <1>10 DEF Interrupt
  <2> QED BY <1>1, <1>2, <2>1, <2>2
<1> QED BY <1>3, <1>4, <1>5, <1>6, <1>7, <1>8, <1>9, <1>10 DEF Publishing

-----------------------------------------------------------------------------
(* Nothing is older than the published rules. *)

LEMMA BeginNotOlder ==
  ASSUME TypeOK, IInv, ReadersTypeOK, ReadersInv, MakeRunDir
  PROVE  NothingOlder'
BY DEF MakeRunDir, Begin, Unrecorded, ReadersInv, NothingOlder, Time, Uncommitted, Preparing

\* The tables are filled by the latest run.
LEMMA ExportNotOlder ==
  ASSUME TypeOK, IInv, ReadersTypeOK, ReadersInv, ExportReferences
  PROVE  NothingOlder'
<1>1. run = started /\ run \in RunIds /\ Time(run) = started
  BY LiveRun DEF ExportReferences, Export, ReadersInv, Time
<1>2. Time(published) <= started
  BY DEF ReadersInv, RunsAreCounted, Past, ReadersTypeOK, Time
<1> USE DEF ReadersInv, NothingOlder, Uncommitted, Preparing
<1>3. /\ UNCHANGED <<current, backups, published, run, reader>> /\ pc' \in {"staging", "closing"}
      /\ pc' = "staging" => tables' = run
      /\ tables' \in {tables, run}
  BY DEF ExportReferences, Export
<1>4. Time(tables') >= Time(published')
  BY <1>1, <1>2, <1>3
<1> QED BY <1>1, <1>3, <1>4 DEF Time

LEMMA CloseNotOlder ==
  ASSUME TypeOK, IInv, ReadersTypeOK, ReadersInv, RemoveRunDir
  PROVE  NothingOlder'
BY DEF RemoveRunDir, Close, Leave, ReadersInv, NothingOlder, Time, Uncommitted, Preparing

LEMMA PublishingNotOlder ==
  ASSUME TypeOK, IInv, ReadersTypeOK, ReadersInv, Publishing
  PROVE  NothingOlder'
<1>1. pc # "idle" /\ run \in RunIds /\ run \in Past /\ run = started /\ Time(run) = started
  <2>1. pc # "idle"
    BY DEF Publishing, Stage, MoveAside, Install, Commit, Remove, Restore, Interrupt,
           Crash
  <2> QED BY <2>1, LiveRun DEF ReadersInv, Time
<1>2. UNCHANGED <<started, runDirs, partial, tables, reader>>
  BY DEF Publishing
<1>3. Time(published) \in Nat /\ Time(published) <= started /\ Time(reader.gen) \in Nat
  <2>1. \A r \in Past \cup {Absent} : Time(r) \in Nat /\ Time(r) <= started
    BY DEF Past, Time, ReadersTypeOK
  <2>2. published \in Past \cup {Absent} /\ reader.gen \in Past \cup {Absent}
    BY DEF ReadersInv, RunsAreCounted
  <2> QED BY <2>1, <2>2
<1> USE DEF ReadersInv, NothingOlder, Uncommitted, Preparing
<1>4. CASE Stage
  BY <1>2, <1>4 DEF Stage, Time
<1>5. CASE MoveAside
  <2>1. \/ backups'[run] = current /\ current' = Absent
        \/ pc' = "closing" /\ UNCHANGED <<current, backups>>
    BY <1>1, <1>5 DEF MoveAside, TypeOK
  <2> QED BY <1>2, <1>5, <2>1 DEF MoveAside, Time
<1>6. CASE Install
  <2>1. CASE current' = run /\ pc' = "committing" /\ UNCHANGED backups
    BY <1>1, <1>2, <1>3, <1>6, <2>1 DEF Install, Time
  <2>2. CASE pc' = "closing"
    BY <1>1, <1>2, <1>6, <2>2 DEF Install, PutBack, Time
  <2> QED BY <1>6, <2>1, <2>2 DEF Install
<1>7. CASE Commit
  <2>1. CASE published' = run /\ pc' = "closing"
    <3>1. current' = run /\ tables' = run
      BY <1>2, <1>7 DEF Commit, IInv, DirectoriesFit
    <3> QED BY <1>1, <1>2, <1>3, <1>7, <2>1, <3>1 DEF Commit, Time
  <2>2. CASE UNCHANGED published /\ pc' = "removing"
    BY <1>2, <1>7, <2>2 DEF Commit, Time
  <2> QED BY <1>7, <2>1, <2>2 DEF Commit
<1>8. CASE Remove
  BY <1>2, <1>8 DEF Remove, Time
<1>9. CASE Restore
  BY <1>2, <1>9 DEF Restore, PutBack, Time
<1>10. CASE Crash
  BY <1>2, <1>10 DEF Crash, Leave, Time
<1>11. CASE Interrupt
  BY <1>2, <1>11 DEF Interrupt, Time
<1> QED BY <1>4, <1>5, <1>6, <1>7, <1>8, <1>9, <1>10, <1>11 DEF Publishing

\* A report reads the rules of the published run, or forgets them.
LEMMA ReportNotOlder ==
  ASSUME TypeOK, ReadersTypeOK, ReadersInv,
         ReadRules \/ ListRunDirs \/ Choose \/ Open \/ Deliver
  PROVE  NothingOlder'
<1>1. UNCHANGED disk
  BY DEF ReadRules, ListRunDirs, Choose, Open, Deliver
<1>2. reader'.gen \in {reader.gen, published, Absent}
  <2>1. CASE ReadRules
    BY <2>1 DEF ReadRules, Nowhere
  <2>2. CASE Deliver
    BY <2>2 DEF Deliver, Nowhere
  <2> QED BY <2>1, <2>2, ListFields, ChooseFields, OpenFields DEF Nowhere
<1>3. Time(published) \in Nat /\ Time(published) >= Time(reader'.gen)
  BY <1>2 DEF TypeOK, ReadersInv, NothingOlder, Time
<1> QED BY <1>1, <1>3 DEF disk, vars, counters, ReadersInv, NothingOlder, Time

LEMMA NotOlderKept ==
  ASSUME TypeOK, IInv, ReadersTypeOK, ReadersInv, [ReadersNext]_readerVars
  PROVE  NothingOlder'
<1>1. UNCHANGED readerVars => NothingOlder'
  BY DEF readerVars, vars, counters, ReadersInv, NothingOlder, Time
<1> QED BY <1>1, BeginNotOlder, ExportNotOlder, CloseNotOlder, PublishingNotOlder, ReportNotOlder
        DEF ReadersNext

LEMMA CountedKept ==
  ASSUME TypeOK, IInv, ReadersTypeOK, ReadersInv, [ReadersNext]_readerVars
  PROVE  RunsAreCounted'
<1>1. UNCHANGED readerVars => RunsAreCounted'
  BY DEF readerVars, vars, counters, ReadersInv, RunsAreCounted, Past
<1> QED BY <1>1, BeginCounted, ExportCounted, CloseCounted, PublishingCounted, ReportCounted
        DEF ReadersNext

-----------------------------------------------------------------------------
(* What the report chose stays good while it has not read it. *)

\* What was disturbed once stays so.
LEMMA StaysDisturbed ==
  ASSUME TypeOK, [ReadersNext]_readerVars
  PROVE  Undisturbed' => Undisturbed
<1>1. \/ UNCHANGED <<crashes, restoreFaults, interrupts>>
      \/ crashes' = crashes + 1 /\ UNCHANGED <<restoreFaults, interrupts>>
      \/ restoreFaults' = restoreFaults + 1 /\ UNCHANGED <<crashes, interrupts>>
      \/ interrupts' = interrupts + 1 /\ UNCHANGED <<crashes, restoreFaults>>
  <2> USE DEF counters, Fault, RestoreFault, Interrupted
  <2>1. CASE MakeRunDir \/ ExportReferences \/ RemoveRunDir
    BY <2>1 DEF MakeRunDir, Begin, Unrecorded, ExportReferences, Export, RemoveRunDir, Close
  <2>2. CASE Publishing
    BY <2>2 DEF Publishing, Stage, MoveAside, Install, Commit, Remove, Restore, Interrupt, Crash
  <2>3. CASE UNCHANGED disk
    BY <2>3 DEF disk, vars
  <2> QED BY <2>1, <2>2, <2>3
          DEF ReadersNext, ReadRules, ListRunDirs, Choose, Open, Deliver, readerVars, disk
<1> QED BY <1>1 DEF TypeOK, Undisturbed

\* The publications only write into the directory of a run that begins.
LEMMA PublicationsFit ==
  ASSUME TypeOK, IInv, ReadersTypeOK, ReadersInv,
         MakeRunDir \/ ExportReferences \/ Publishing \/ RemoveRunDir
  PROVE  ReaderFits'
<1>1. Undisturbed' => Undisturbed
  BY StaysDisturbed DEF ReadersNext
<1>2. reader.dir \in RunIds /\ reader.dir \notin partial => reader.dir \notin partial'
  <2>1. partial' \subseteq partial \cup {started + 1}
    BY DEF MakeRunDir, ExportReferences, Publishing, RemoveRunDir
  <2>2. reader.dir \in RunIds => reader.dir # started + 1
    BY DEF ReadersInv, RunsAreCounted, Past, ReadersTypeOK
  <2> QED BY <2>1, <2>2
<1>3. UNCHANGED reader
  BY DEF MakeRunDir, ExportReferences, Publishing, RemoveRunDir
<1> QED BY <1>1, <1>2, <1>3 DEF ReadersInv, ReaderFits, Time

\* A directory is chosen while raw/snapshot is away. On a published policy that no crash
\* and no failed undo disturbed, the run at work has taken it away: it is past its exports.
LEMMA ChooseFits ==
  ASSUME TypeOK, IInv, ReadersTypeOK, ReadersInv, Choose
  PROVE  ReaderFits'
<1>1. UNCHANGED disk
  BY DEF Choose
<1>2. ASSUME reader'.from = "directory", ~reader'.stray
      PROVE  reader'.dir = started /\ reader'.dir = run /\ reader'.dir \in RunIds /\ pc # "idle"
  <2>1. reader'.dir \in reader.dirs /\ reader'.dir \in {run, Absent}
    BY <1>2, ChooseFields
  <2>2. reader'.dir \in RunIds
    BY <2>1 DEF ReadersTypeOK, ReaderState
  <2> QED BY <2>1, <2>2 DEF ReadersInv, RunsAreCounted
<1>3. ASSUME reader'.from = "directory", ~reader'.stray
      PROVE  Time(reader'.dir) >= Time(reader'.gen)
  <2>1. reader'.gen \in Past \cup {Absent} /\ started \in Nat
    BY ChooseFields DEF ReadersInv, RunsAreCounted, ReadersTypeOK
  <2> QED BY <1>2, <1>3, <2>1 DEF Time, Past
<1>4. ASSUME reader'.from = "directory", ~reader'.stray, reader'.gen # Absent,
             Undisturbed'
      PROVE  reader'.dir \notin partial'
  <2>1. Undisturbed /\ current \notin RunIds /\ partial' = partial
    BY <1>1, <1>4, ChooseFields DEF disk, vars, counters, Undisturbed
  <2>2. published \in RunIds
    <3>1. reader.gen \in RunIds
      BY <1>4, ChooseFields DEF ReadersTypeOK, ReaderState
    <3>2. \A r \in RunIds : r \in Nat /\ r > 0 /\ Time(r) = r
      BY DEF Time
    <3>3. Time(published) >= reader.gen /\ reader.gen \in Nat /\ reader.gen > 0
      BY <3>1, <3>2 DEF ReadersInv, NothingOlder
    <3>4. Time(published) # 0
      <4>1. published = Absent => Time(published) = 0
        BY DEF Time
      <4> QED BY <3>3, <4>1
    <3> QED BY <3>4 DEF Time, TypeOK
  <2>3. pc \in {"installing", "committing", "removing", "removed"}
    BY <2>1, <2>2 DEF IInv, PublishedInPlace, TypeOK, Preparing
  <2>4. run \notin partial
    BY <2>3 DEF ReadersInv, RunsAreCounted, Uncommitted, Preparing
  <2> QED BY <1>2, <1>4, <2>1, <2>4
<1>5. reader'.at = "chosen" /\ reader'.whole
  BY ChooseFields
<1>6. reader'.from = "directory" => reader'.dir \in RunIds
  BY ChooseFields DEF ReadersTypeOK, ReaderState
<1> QED BY <1>3, <1>4, <1>5, <1>6 DEF ReaderFits

LEMMA ReportFits ==
  ASSUME TypeOK, IInv, ReadersTypeOK, ReadersInv,
         ReadRules \/ ListRunDirs \/ Choose \/ Open \/ Deliver
  PROVE  ReaderFits'
<1>1. CASE ReadRules
  BY <1>1 DEF ReadRules, Nowhere, ReaderFits
<1>2. CASE ListRunDirs
  <2>1. ~reader.stray
    BY <1>2, ListFields DEF ReadersInv, ReaderFits
  <2> QED BY <1>2, <2>1, ListFields DEF ReadersInv, ReaderFits, Time
<1>3. CASE Choose
  BY <1>3, ChooseFits
<1>4. CASE Open
  <2>1. reader' = Nowhere => ReaderFits'
    BY DEF Nowhere, ReaderFits
  <2> QED BY <1>4, <2>1, OpenFields DEF ReadersInv, ReaderFits, Time
<1>5. CASE Deliver
  BY <1>5 DEF Deliver, Nowhere, ReaderFits
<1> QED BY <1>1, <1>2, <1>3, <1>4, <1>5

LEMMA FitsKept ==
  ASSUME TypeOK, IInv, ReadersTypeOK, ReadersInv, [ReadersNext]_readerVars
  PROVE  ReaderFits'
<1>1. UNCHANGED readerVars => ReaderFits'
  BY DEF readerVars, vars, counters, ReadersInv, ReaderFits, Undisturbed, Time
<1> QED BY <1>1, PublicationsFit, ReportFits DEF ReadersNext

-----------------------------------------------------------------------------
(* Each directory that was left behind was paid for. *)

LEMMA DirsAreFinite ==
  ASSUME ReadersTypeOK, RunsAreCounted, NEW dirs \in SUBSET runDirs
  PROVE  IsFiniteSet(dirs) /\ Cardinality(dirs) \in Nat
<1>1. dirs \in SUBSET Nat /\ started \in Nat /\ \A d \in dirs : d <= started
  <2>1. dirs \subseteq runDirs /\ runDirs \subseteq Past
    BY DEF RunsAreCounted
  <2>2. started \in Nat
    BY DEF ReadersTypeOK
  <2>3. \A d \in Past : d \in Nat /\ d <= started
    BY DEF Past
  <2> QED BY <2>1, <2>2, <2>3
<1>2. IsFiniteSet(dirs)
  BY <1>1, FS_BoundedSetOfNaturals
<1> QED BY <1>2, FS_CardinalityType

\* A run that is left behind makes one more.
LEMMA OneMore ==
  ASSUME ReadersTypeOK, RunsAreCounted, NEW r
  PROVE  Cardinality(runDirs) <= Cardinality(runDirs \ {r}) + 1
<1>1. IsFiniteSet(runDirs) /\ Cardinality(runDirs) \in Nat
  BY DirsAreFinite
<1>2. Cardinality(runDirs \ {r}) =
        IF r \in runDirs THEN Cardinality(runDirs) - 1 ELSE Cardinality(runDirs)
  BY <1>1, FS_RemoveElement
<1> DEFINE rest == Cardinality(runDirs \ {r})
<1> HIDE DEF rest
<1>3. rest = IF r \in runDirs THEN Cardinality(runDirs) - 1 ELSE Cardinality(runDirs)
  BY <1>2 DEF rest
<1>4. Cardinality(runDirs) <= rest + 1
  BY <1>1, <1>3
<1> QED BY <1>4 DEF rest

LEMMA StraysKept ==
  ASSUME TypeOK, IInv, ReadersTypeOK, ReadersInv, [ReadersNext]_readerVars
  PROVE  StraysCounted'
<1> DEFINE strays == runDirs \ {run}  paid == crashes + faults + interrupts
<1>1. /\ IsFiniteSet(strays) /\ Cardinality(strays) \in Nat /\ Cardinality(runDirs) \in Nat
      /\ crashes \in Nat /\ faults \in Nat /\ interrupts \in Nat
      /\ Cardinality(strays) <= paid
      /\ Cardinality(runDirs) <= Cardinality(strays) + 1
  BY DirsAreFinite, OneMore DEF ReadersInv, TypeOK, ReadersTypeOK
<1>2. Absent \notin runDirs /\ Absent \notin runDirs'
  BY NextRunIsUnused DEF ReadersInv, RunsAreCounted, Past, ReadersTypeOK, ReadersNext, MakeRunDir,
     ExportReferences, Publishing, RemoveRunDir, ReadRules, ListRunDirs, Choose, Open, Deliver,
     disk, readerVars
<1>3. \* The directories that stay when none is added, and when that of the run is.
      /\ paid' \in {paid, paid + 1}
      /\ \/ runDirs' \ {run'} \subseteq strays
         \/ runDirs' \ {run'} = runDirs /\ paid' = paid + 1
         \/ runDirs' \ {run'} = runDirs \cup {started + 1} /\ run = Absent /\ paid' = paid + 1
  <2> USE DEF counters, Fault, RestoreFault, Interrupted
  <2>1. CASE MakeRunDir
    <3>1. run = Absent /\ started + 1 \notin runDirs /\ started' = started + 1
          /\ runDirs' = runDirs \cup {started + 1}
      BY <2>1, NextRunIsUnused DEF ReadersInv, RunsAreCounted, MakeRunDir, Begin, Unrecorded
    <3>2. CASE Begin(started')
      <4>1. run' = started + 1 /\ paid' = paid
        BY <3>1, <3>2 DEF Begin
      <4> QED BY <1>2, <3>1, <4>1
    <3>3. CASE Unrecorded
      <4>1. run' = Absent /\ paid' = paid + 1
        BY <1>1, <3>1, <3>3 DEF Unrecorded
      <4> QED BY <1>2, <3>1, <4>1
    <3> QED BY <2>1, <3>2, <3>3 DEF MakeRunDir
  <2>2. CASE RemoveRunDir
    <3>1. run' = Absent
      BY <2>2 DEF RemoveRunDir, Close, Leave
    <3>2. CASE UNCHANGED counters
      <4>1. runDirs' = strays /\ paid' = paid
        BY <2>2, <3>2 DEF RemoveRunDir
      <4> QED BY <4>1
    <3>3. CASE ~UNCHANGED counters
      <4>1. runDirs' \in {runDirs, strays} /\ paid' = paid + 1
        BY <1>1, <2>2, <3>3 DEF RemoveRunDir, Close
      <4> QED BY <1>2, <3>1, <4>1
    <3> QED BY <3>2, <3>3
  <2>3. CASE Crash /\ UNCHANGED runDirs
    <3>1. run' = Absent /\ paid' = paid + 1
      BY <1>1, <2>3 DEF Crash, Leave
    <3> QED BY <1>2, <2>3, <3>1
  <2>4. CASE ExportReferences
    <3>1. UNCHANGED <<run, runDirs>> /\ paid' \in {paid, paid + 1}
      BY <1>1, <2>4 DEF ExportReferences, Export
    <3> QED BY <3>1
  <2>5. CASE /\ Stage \/ MoveAside \/ Install \/ Commit \/ Remove \/ Restore \/ Interrupt
             /\ UNCHANGED runDirs
    <3>1. UNCHANGED <<run, runDirs>>
      BY <2>5 DEF Stage, MoveAside, Install, Commit, Remove, Restore, Interrupt
    <3>2. CASE Stage \/ MoveAside \/ Install \/ Commit
      <4>1. /\ UNCHANGED <<crashes, interrupts>>
            /\ faults' \in {faults, faults + 1}
        BY <3>2 DEF Stage, MoveAside, Install, Commit
      <4> QED BY <1>1, <3>1, <4>1
    <3>3. CASE Remove \/ Restore
      <4>1. UNCHANGED <<crashes, interrupts, faults>>
        BY <3>3 DEF Remove, Restore
      <4> QED BY <1>1, <3>1, <4>1
    <3>4. CASE Interrupt
      <4>1. UNCHANGED <<crashes, faults>> /\ interrupts' = interrupts + 1
        BY <3>4 DEF Interrupt
      <4> QED BY <1>1, <3>1, <4>1
    <3> QED BY <2>5, <3>2, <3>3, <3>4
  <2>6. CASE UNCHANGED disk
    <3>1. UNCHANGED <<run, runDirs>> /\ paid' = paid
      BY <2>6 DEF disk, vars
    <3> QED BY <3>1
  <2> QED BY <2>1, <2>2, <2>3, <2>4, <2>5, <2>6
          DEF ReadersNext, Publishing, ReadRules, ListRunDirs, Choose, Open, Deliver, readerVars,
              disk
<1> HIDE DEF strays, paid
<1>4. CASE runDirs' \ {run'} \subseteq strays
  <2>1. Cardinality(runDirs' \ {run'}) <= Cardinality(strays)
        /\ Cardinality(runDirs' \ {run'}) \in Nat
    BY <1>1, <1>4, FS_Subset, FS_CardinalityType
  <2>2. paid \in Nat /\ Cardinality(strays) <= paid
    BY <1>1 DEF paid
  <2>3. Cardinality(runDirs' \ {run'}) <= paid'
    BY <1>1, <1>3, <2>1, <2>2
  <2> QED BY <2>3 DEF StraysCounted, paid
<1>5. CASE runDirs' \ {run'} = runDirs /\ paid' = paid + 1
  <2>1. /\ paid \in Nat /\ Cardinality(strays) \in Nat /\ Cardinality(runDirs) \in Nat
        /\ Cardinality(strays) <= paid /\ Cardinality(runDirs) <= Cardinality(strays) + 1
    BY <1>1 DEF paid
  <2>2. Cardinality(runDirs) <= paid + 1
    BY <2>1
  <2>3. Cardinality(runDirs' \ {run'}) <= paid'
    BY <1>5, <2>2
  <2> QED BY <2>3 DEF StraysCounted, paid
<1>6. CASE runDirs' \ {run'} = runDirs \cup {started + 1} /\ run = Absent /\ paid' = paid + 1
  <2>1. paid \in Nat /\ Cardinality(strays) <= paid /\ strays = runDirs
    BY <1>1, <1>2, <1>6 DEF paid, strays
  <2>2. Cardinality(runDirs \cup {started + 1}) <= Cardinality(runDirs) + 1
        /\ Cardinality(runDirs \cup {started + 1}) \in Nat
    <3>1. IsFiniteSet(runDirs)
      BY <1>1, <2>1
    <3>2. \/ Cardinality(runDirs \cup {started + 1}) = Cardinality(runDirs)
          \/ Cardinality(runDirs \cup {started + 1}) = Cardinality(runDirs) + 1
      BY <3>1, FS_AddElement, Zenon
    <3> QED BY <1>1, <3>2
  <2>3. Cardinality(runDirs' \ {run'}) <= paid'
    BY <1>1, <1>6, <2>1, <2>2
  <2> QED BY <2>3 DEF StraysCounted, paid
<1> QED BY <1>3, <1>4, <1>5, <1>6

-----------------------------------------------------------------------------
(* The theorems. *)

LEMMA ReadersInitially == ReadersInit => TypeOK /\ IInv /\ ReadersTypeOK /\ ReadersInv
<1> SUFFICES ASSUME ReadersInit PROVE TypeOK /\ IInv /\ ReadersTypeOK /\ ReadersInv
  OBVIOUS
<1>1. TypeOK /\ IInv
  BY InitTypes, InitIInv DEF ReadersInit
<1>2. /\ runDirs \ {run} = {} /\ Cardinality({}) = 0
      /\ crashes = 0 /\ faults = 0 /\ interrupts = 0
  BY FS_EmptySet DEF ReadersInit, Init
<1>4. ReadersTypeOK
  BY <1>2 DEF ReadersTypeOK, ReadersInit, Nowhere, ReaderState
<1>5. RunsAreCounted
  BY DEF RunsAreCounted, ReadersInit, Init, Nowhere, NoRow, Uncommitted, Preparing
<1>6. NothingOlder /\ ReaderFits
  BY DEF NothingOlder, ReaderFits, ReadersInit, Init, Nowhere, Time, Uncommitted, Preparing
<1> QED BY <1>1, <1>4, <1>5, <1>6 DEF ReadersInv

LEMMA ReadersStep ==
  TypeOK /\ IInv /\ ReadersTypeOK /\ ReadersInv /\ [ReadersNext]_readerVars
    => (TypeOK /\ IInv /\ ReadersTypeOK /\ ReadersInv)'
<1> SUFFICES ASSUME TypeOK, IInv, ReadersTypeOK, ReadersInv, [ReadersNext]_readerVars
             PROVE  (TypeOK /\ IInv /\ ReadersTypeOK /\ ReadersInv)'
  OBVIOUS
<1>1. RunsAreCounted' /\ NothingOlder' /\ ReaderFits' /\ StraysCounted'
  BY CountedKept, NotOlderKept, FitsKept, StraysKept
<1>2. TypeOK' /\ IInv'
  BY PolicyKept DEF ReadersInv
<1> QED BY <1>1, <1>2, ReaderTypesKept DEF ReadersInv

LEMMA AlwaysReadersInv == ReadersSpec => [](TypeOK /\ IInv /\ ReadersTypeOK /\ ReadersInv)
BY ReadersInitially, ReadersStep, PTL DEF ReadersSpec

\* The types, and that every run directory left behind was paid for by a crash, an
\* interruption or a failure.
THEOREM ReadersTypes == ReadersSpec => []ReadersTypeOK
BY AlwaysReadersInv, PTL

LEMMA NotYetRead ==
  ASSUME ReadersTypeOK, ReadersInv, ReadRules \/ ListRunDirs \/ Choose \/ Deliver
  PROVE  reader'.at # "done"
<1>1. CASE ReadRules
  BY <1>1 DEF ReadRules, Nowhere
<1>2. CASE ListRunDirs
  <2>1. reader'.at = "listed"
    BY <1>2, ListFields
  <2> QED BY <2>1
<1>3. CASE Choose
  <2>1. reader'.at = "chosen"
    BY <1>3, ChooseFields
  <2> QED BY <2>1
<1>4. CASE Deliver
  BY <1>4 DEF Deliver, Nowhere
<1> QED BY <1>1, <1>2, <1>3, <1>4

\* What the report is about to open is not older than its rules.
LEMMA OpenNotOlder ==
  ASSUME TypeOK, ReadersTypeOK, ReadersInv, ReferencesNotOlder, [ReadersNext]_readerVars
  PROVE  ReferencesNotOlder'
<1>1. CASE Open
  <2>1. Time(published) \in Nat /\ Time(reader.gen) \in Nat
    BY DEF TypeOK, ReadersTypeOK, ReaderState, Time
  <2>2. Time(tables) \in Nat /\ (current \in RunIds => Time(current) \in Nat)
    BY DEF TypeOK, ReadersTypeOK, Time
  <2>3. /\ Time(tables) >= Time(reader.gen)
        /\ current \in RunIds => Time(current) >= Time(reader.gen)
    BY <2>1, <2>2 DEF ReadersInv, NothingOlder
  <2>4. reader' = Nowhere => ReferencesNotOlder'
    BY DEF Nowhere, ReferencesNotOlder
  <2> QED BY <1>1, <2>3, <2>4, OpenFields DEF ReferencesNotOlder, ReadersInv, ReaderFits, Time
<1>2. CASE ~Open
  <2>1. reader' = reader \/ reader'.at # "done"
    BY <1>2, NotYetRead
       DEF ReadersNext, MakeRunDir, ExportReferences, Publishing, RemoveRunDir, readerVars
  <2> QED BY <2>1 DEF ReferencesNotOlder, Time
<1> QED BY <1>1, <1>2

\* The references of a report are not older than its rules, unless they come from a
\* directory that an earlier run left behind (_raw_reference_candidates, _current_rules).
THEOREM ReferencesAreNotOlder == ReadersSpec => []ReferencesNotOlder
<1>1. ReadersInit => ReferencesNotOlder
  BY DEF ReadersInit, Nowhere, ReferencesNotOlder
<1>2. TypeOK /\ IInv /\ ReadersTypeOK /\ ReadersInv /\ ReferencesNotOlder
        /\ [ReadersNext]_readerVars => ReferencesNotOlder'
  BY OpenNotOlder
<1> QED BY <1>1, <1>2, AlwaysReadersInv, PTL DEF ReadersSpec

LEMMA OpenWhole ==
  ASSUME TypeOK, IInv, ReadersTypeOK, ReadersInv, ReferencesWhole, [ReadersNext]_readerVars
  PROVE  ReferencesWhole'
<1>1. CASE Open
  <2>1. UNCHANGED <<crashes, restoreFaults, interrupts>>
    BY <1>1 DEF Open, disk, vars, counters
  <2>2. reader' = Nowhere => ReferencesWhole'
    BY DEF Nowhere, ReferencesWhole
  <2> QED BY <1>1, <2>1, <2>2, OpenFields
          DEF ReferencesWhole, ReadersInv, ReaderFits, Undisturbed
<1>2. CASE ReadRules \/ ListRunDirs \/ Choose \/ Deliver
  <2>1. reader'.at # "done"
    BY <1>2, NotYetRead
  <2> QED BY <2>1 DEF ReferencesWhole
<1>3. CASE MakeRunDir \/ ExportReferences \/ Publishing \/ RemoveRunDir \/ UNCHANGED readerVars
  <2>1. UNCHANGED reader
    BY <1>3 DEF MakeRunDir, ExportReferences, Publishing, RemoveRunDir, readerVars
  <2>2. Undisturbed' => Undisturbed
    BY StaysDisturbed
  <2> QED BY <2>1, <2>2 DEF ReferencesWhole
<1> QED BY <1>1, <1>2, <1>3 DEF ReadersNext

\* A report on a published policy does not read exports that are still being written, as
\* long as nothing was killed or interrupted and no undo failed, unless it reads a
\* directory that an earlier run left behind (DEC-023).
THEOREM ReferencesAreWhole == ReadersSpec => []ReferencesWhole
<1>1. ReadersInit => ReferencesWhole
  BY DEF ReadersInit, Nowhere, ReferencesWhole
<1>2. TypeOK /\ IInv /\ ReadersTypeOK /\ ReadersInv /\ ReferencesWhole
        /\ [ReadersNext]_readerVars => ReferencesWhole'
  BY OpenWhole
<1> QED BY <1>1, <1>2, AlwaysReadersInv, PTL DEF ReadersSpec

=============================================================================
