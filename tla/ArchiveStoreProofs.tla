-------------------------- MODULE ArchiveStoreProofs --------------------------
(* For any runs, operators, calendar, retention and faults: the archive of a    *)
(* successful Sunday stays until a purge past its retention, a restored         *)
(* directory is the work of one restore, and what is left behind is counted by  *)
(* the faults.                                                                  *)
EXTENDS ArchiveStore, TLAPS, FiniteSetTheorems

Collector == [at : {"idle", "collecting", "written", "renamed", "removing", "purging"},
              run : Runs \union {NoRun}]
Purge == [at : {"idle", "select", "unlinked"}, todo : SUBSET Runs, gone : SUBSET Runs]
Restore == [at : {"idle", "checked", "made", "extracted"}, run : Runs \union {NoRun}]

\* The run that the collector archives is not recorded yet.
Archiving ==
    /\ collector.at \in {"collecting", "written", "renamed", "removing"} => collector.run \in Runs
    /\ collector.at \in {"collecting", "written", "renamed"} => windows[collector.run] = "NONE"
    /\ collector.at = "renamed" => collector.run \in files

\* A purge works on rows of successful windows past their retention, and no others.
Spent == {r \in Runs : windows[r] = "SUCCESS" /\ until[r] < purgedTo}
PurgesSpent ==
    /\ \A r \in rows : windows[r] = "SUCCESS"
    /\ \A p \in Purgers : purges[p].todo \subseteq Spent /\ purges[p].gone \subseteq Spent

\* A restore that is under way has a run.
Restoring == \A q \in Restorers : restores[q].at # "idle" => restores[q].run \in Runs

IInv == TypeOK /\ Archiving /\ PurgesSpent /\ EvidenceKept /\ Restoring /\ RestoreWhole

-----------------------------------------------------------------------------
\* The places that the processes move to.
LEMMA PlacesTyped ==
    /\ Idle \in Collector /\ Idle \in Restore /\ NoPurge \in Purge
    /\ \A c \in Collector, place \in {"collecting", "written", "renamed", "removing", "purging"} :
         [c EXCEPT !.at = place] \in Collector
    /\ \A c \in Restore, place \in {"checked", "made", "extracted"} :
         [c EXCEPT !.at = place] \in Restore
    /\ \A c \in Purge, place \in {"select", "unlinked"} : [c EXCEPT !.at = place] \in Purge
BY DEF Idle, NoPurge, Collector, Restore, Purge

\* TypeOK with the record sets above.
Typed ==
    /\ today \in 0..LastDay
    /\ windows \in [Runs -> {"NONE", "SUCCESS", "FAILED"}]
    /\ until \in [Runs -> Days]
    /\ rows \subseteq Runs /\ files \subseteq Runs /\ temps \subseteq Runs /\ raws \subseteq Runs
    /\ collector \in Collector
    /\ purges \in [Purgers -> Purge]
    /\ writer \in Purgers \union {"nobody"}
    /\ purgedTo \in Days
    /\ restores \in [Restorers -> Restore]
    /\ staging \in [Runs -> SUBSET (Restorers \union {"dead"})]
    /\ restored \in [Runs -> {"absent", "whole", "mixed"}]
    /\ errors \in 0..MaxFaults /\ skipped \in 0..MaxFaults

LEMMA TypesNamed == TypeOK <=> Typed
BY DEF TypeOK, Typed, Collector, Purge, Restore

LEMMA TypesNamedNext == TypeOK' <=> Typed'
BY DEF TypeOK, Typed, Collector, Purge, Restore

LEMMA Constants ==
    /\ LastDay \in Nat /\ Retention \in Nat /\ MaxFaults \in Nat
    /\ AsOf \subseteq Days /\ Wanted \subseteq Runs /\ NoRun \notin Runs
BY ArchiveStoreAssumption

\* The counters stay in their bounds.
LEMMA FaultsTyped ==
    ASSUME TypeOK
    PROVE  Error \/ Skip => errors' \in 0..MaxFaults /\ skipped' \in 0..MaxFaults
BY Constants DEF TypeOK, Error, Skip

-----------------------------------------------------------------------------
\* The initial states.
LEMMA InitIInv == Init => IInv
<1> SUFFICES ASSUME Init PROVE IInv OBVIOUS
<1>1. TypeOK
  <2>1. collector \in Collector /\ purges \in [Purgers -> Purge] /\ restores \in [Restorers -> Restore]
      BY PlacesTyped DEF Init
  <2>2. 0 \in 0..LastDay /\ 0 \in Days /\ 0 \in 0..MaxFaults BY Constants DEF Days
  <2> QED BY <2>1, <2>2, TypesNamed DEF Typed, Init
<1>2. Archiving BY DEF Init, Archiving, Idle
<1>3. PurgesSpent BY DEF Init, PurgesSpent, NoPurge
<1>4. EvidenceKept BY DEF Init, EvidenceKept
<1>5. Restoring BY DEF Init, Restoring, Idle
<1>6. RestoreWhole BY DEF Init, RestoreWhole, Idle
<1> QED BY <1>1, <1>2, <1>3, <1>4, <1>5, <1>6 DEF IInv

\* The collector and the clock leave purges and restores alone: what they may disturb.
CollectorStep ==
    \/ Midnight \/ (\E r \in Runs : Collect(r))
    \/ WriteArchive \/ Rename \/ ManifestFails \/ ArchiveFails \/ Record \/ RecordFails
    \/ RemoveRaw

LEMMA CollectorTypes == ASSUME TypeOK, Archiving, CollectorStep PROVE TypeOK'
<1>1. collector \in Collector BY TypesNamed DEF Typed
<1>2. \A place \in {"idle", "collecting", "written", "renamed", "removing", "purging"} :
         Go(place) => collector' \in Collector
    BY <1>1, PlacesTyped DEF Go
<1>3. collector.at \in {"collecting", "written", "renamed", "removing"} => collector.run \in Runs
    BY DEF Archiving
<1> USE TypesNamed, TypesNamedNext, Constants DEF Typed, store, purging, restoring, faults
<1>4. CASE Midnight BY <1>4 DEF Midnight
<1>5. CASE \E r \in Runs : Collect(r)
  <2>1. PICK r \in Runs : Collect(r) BY <1>5
  <2>2. collector' \in Collector BY <2>1 DEF Collect, Collector
  <2> QED BY <2>1, <2>2 DEF Collect
<1>6. CASE WriteArchive
  <2>1. today + Retention \in Days BY DEF Days
  <2> QED BY <1>6, <1>2, <1>3, <2>1 DEF WriteArchive, At
<1>7. CASE Rename BY <1>7, <1>2, <1>3 DEF Rename, At
<1>8. CASE ArchiveFails
  <2>1. collector.run \in Runs BY <1>8, <1>3 DEF ArchiveFails
  <2>2. temps' \subseteq Runs BY <1>8 DEF ArchiveFails
  <2>3. errors' \in 0..MaxFaults /\ skipped' \in 0..MaxFaults BY <1>8, FaultsTyped DEF ArchiveFails
  <2>4. collector' \in Collector BY <1>8, <1>2 DEF ArchiveFails
  <2> QED BY <1>8, <2>1, <2>2, <2>3, <2>4 DEF ArchiveFails
<1>9. CASE Record BY <1>9, <1>2, <1>3 DEF Record, At
<1>10. CASE RecordFails
  <2>1. files' \subseteq Runs BY <1>10 DEF RecordFails
  <2>2. errors' \in 0..MaxFaults /\ skipped' \in 0..MaxFaults BY <1>10, FaultsTyped DEF RecordFails
  <2> QED BY <1>10, <1>2, <2>1, <2>2 DEF RecordFails
<1>11. CASE RemoveRaw
  <2>1. raws' \subseteq Runs BY <1>11 DEF RemoveRaw
  <2>2. errors' \in 0..MaxFaults /\ skipped' \in 0..MaxFaults BY <1>11, FaultsTyped DEF RemoveRaw
  <2> QED BY <1>11, <1>2, <2>1, <2>2 DEF RemoveRaw
<1>12. CASE ManifestFails BY <1>12, <1>2, FaultsTyped DEF ManifestFails
<1> QED BY <1>4, <1>5, <1>6, <1>7, <1>8, <1>9, <1>10, <1>11, <1>12 DEF CollectorStep

LEMMA CollectorKeeps ==
    ASSUME IInv, CollectorStep
    PROVE  Archiving' /\ PurgesSpent' /\ EvidenceKept' /\ Restoring' /\ RestoreWhole'
<1>1. TypeOK /\ Archiving /\ PurgesSpent /\ EvidenceKept /\ Restoring /\ RestoreWhole BY DEF IInv
<1>2. UNCHANGED <<purges, purgedTo, restores, staging, restored>>
    BY DEF CollectorStep, Midnight, Collect, WriteArchive, Rename, ManifestFails, ArchiveFails,
           Record, RecordFails, RemoveRaw, purging, restoring
<1>3. Restoring' /\ RestoreWhole' BY <1>1, <1>2 DEF Restoring, RestoreWhole
<1>4. /\ windows \in [Runs -> {"NONE", "SUCCESS", "FAILED"}] /\ until \in [Runs -> Days]
      /\ rows \subseteq Runs /\ files \subseteq Runs /\ collector \in Collector
    BY <1>1, TypesNamed DEF Typed
<1>5. Spent \subseteq Spent' /\ (\A r \in rows' : windows'[r] = "SUCCESS") => PurgesSpent'
    BY <1>1, <1>2 DEF PurgesSpent
<1>6. CASE Midnight
  <2>1. UNCHANGED <<windows, until, rows, files, collector>> BY <1>6 DEF Midnight, store
  <2> QED BY <1>1, <1>2, <1>3, <2>1 DEF Archiving, PurgesSpent, Spent, EvidenceKept
<1>7. CASE \E r \in Runs : Collect(r)
  <2>1. PICK r \in Runs : Collect(r) BY <1>7
  <2>2. UNCHANGED <<windows, until, rows, files>> /\ windows[r] = "NONE"
        /\ collector' = [at |-> "collecting", run |-> r]
      BY <2>1 DEF Collect
  <2> QED BY <1>1, <1>2, <1>3, <2>2 DEF Archiving, PurgesSpent, Spent, EvidenceKept
<1>8. CASE WriteArchive
  <2>1. /\ UNCHANGED <<windows, rows, files>> /\ collector.run \in Runs
        /\ windows[collector.run] = "NONE"
        /\ \A r \in Runs \ {collector.run} : until'[r] = until[r]
        /\ collector'.at = "written" /\ collector'.run = collector.run
      BY <1>1, <1>4, <1>8 DEF WriteArchive, At, Go, Archiving, Collector
  <2>2. Archiving' BY <2>1 DEF Archiving
  <2>3. PurgesSpent' BY <1>1, <1>2, <1>5, <2>1 DEF PurgesSpent, Spent
  <2>4. EvidenceKept' BY <1>1, <1>2, <2>1 DEF EvidenceKept
  <2> QED BY <1>3, <2>2, <2>3, <2>4
<1>9. CASE Rename
  <2>1. /\ UNCHANGED <<windows, until, rows>> /\ files \subseteq files'
        /\ collector.run \in files' /\ collector.run \in Runs
        /\ windows[collector.run] = "NONE"
        /\ collector'.at = "renamed" /\ collector'.run = collector.run
      BY <1>1, <1>4, <1>9 DEF Rename, At, Go, Archiving, Collector
  <2>2. Archiving' BY <2>1 DEF Archiving
  <2>3. PurgesSpent' BY <1>1, <1>2, <2>1 DEF PurgesSpent, Spent
  <2>4. EvidenceKept' BY <1>1, <1>2, <2>1 DEF EvidenceKept
  <2> QED BY <1>3, <2>2, <2>3, <2>4
<1>10. CASE ArchiveFails
  <2>1. /\ UNCHANGED <<until, rows, files>> /\ collector.run \in Runs
        /\ windows[collector.run] = "NONE"
        /\ windows' = [windows EXCEPT ![collector.run] = "FAILED"]
        /\ collector'.at = "removing" /\ collector'.run = collector.run
      BY <1>1, <1>4, <1>10 DEF ArchiveFails, At, Go, Archiving, Collector
  <2>2. Archiving' BY <2>1 DEF Archiving
  <2>3. PurgesSpent' BY <1>1, <1>2, <1>4, <1>5, <2>1 DEF PurgesSpent, Spent
  <2>4. EvidenceKept' BY <1>1, <1>2, <1>4, <2>1 DEF EvidenceKept
  <2> QED BY <1>3, <2>2, <2>3, <2>4
<1>11. CASE Record
  <2>1. /\ UNCHANGED <<until, files>> /\ collector.run \in Runs /\ collector.run \in files
        /\ rows' = rows \union {collector.run}
        /\ windows' = [windows EXCEPT ![collector.run] = "SUCCESS"]
        /\ collector'.at = "removing" /\ collector'.run = collector.run
      BY <1>1, <1>4, <1>11 DEF Record, At, Go, Archiving, Collector
  <2>2. Archiving' BY <2>1 DEF Archiving
  <2>3. PurgesSpent' BY <1>1, <1>2, <1>4, <1>5, <2>1 DEF PurgesSpent, Spent
  <2>4. EvidenceKept' BY <1>1, <1>2, <1>4, <2>1 DEF EvidenceKept
  <2> QED BY <1>3, <2>2, <2>3, <2>4
<1>12. CASE RecordFails
  <2>1. /\ UNCHANGED <<windows, until, rows>> /\ windows[collector.run] = "NONE"
        /\ files \ {collector.run} \subseteq files' /\ collector'.at = "idle"
      BY <1>1, <1>12 DEF RecordFails, At, Go, Archiving, Idle
  <2>2. Archiving' BY <2>1 DEF Archiving
  <2>3. PurgesSpent' BY <1>1, <1>2, <2>1 DEF PurgesSpent, Spent
  <2>4. EvidenceKept' BY <1>1, <1>2, <2>1 DEF EvidenceKept
  <2> QED BY <1>3, <2>2, <2>3, <2>4
<1>13. CASE RemoveRaw
  <2>1. UNCHANGED <<windows, until, rows, files>> /\ collector'.at \in {"purging", "idle"}
      BY <1>4, <1>13 DEF RemoveRaw, Go, Idle, Collector
  <2> QED BY <1>1, <1>2, <1>3, <2>1 DEF Archiving, PurgesSpent, Spent, EvidenceKept
<1>14. CASE ManifestFails
  <2>1. UNCHANGED <<windows, until, rows, files>> /\ collector'.at = "idle"
      BY <1>14 DEF ManifestFails, Go, Idle
  <2> QED BY <1>1, <1>2, <1>3, <2>1 DEF Archiving, PurgesSpent, Spent, EvidenceKept
<1> QED BY <1>6, <1>7, <1>8, <1>9, <1>10, <1>11, <1>12, <1>13, <1>14 DEF CollectorStep

-----------------------------------------------------------------------------
\* The steps of the purges.
PurgesStep ==
    \/ CollectorDies
    \/ \E p \in Purgers :
         \/ \E asOf \in AsOf \union {today} : Select(p, asOf)
         \/ PurgeStep(p) \/ PurgeFails(p)

\* What one of them does: rows and files only go that a purge had selected, and a
\* purge only has what it selected by its date.
PurgesEffect ==
    /\ UNCHANGED <<windows, until, restores, staging, restored>>
    /\ purgedTo' \in Days /\ purgedTo <= purgedTo'
    /\ rows' \subseteq rows /\ rows \ rows' \subseteq Spent
    /\ files' \subseteq files /\ files \ files' \subseteq Spent
    /\ collector' = collector \/ collector' = Idle
    /\ \A p \in Purgers : /\ purges'[p].todo \subseteq Spent'
                          /\ purges'[p].gone \subseteq Spent'

LEMMA PurgesTypes == ASSUME TypeOK, PurgesStep PROVE TypeOK'
<1> USE TypesNamed, TypesNamedNext, Constants DEF Typed, store, purging, restoring, faults
<1>1. \A p \in Purgers : EndPurge(p) => /\ purges' \in [Purgers -> Purge]
                                        /\ writer' \in Purgers \union {"nobody"}
    BY PlacesTyped DEF EndPurge
<1>2. Go("idle") => collector' \in Collector BY PlacesTyped DEF Go
<1>3. CASE CollectorDies
    BY <1>1, <1>2, <1>3, FaultsTyped DEF CollectorDies, Purgers
<1>4. ASSUME NEW p \in Purgers, NEW asOf \in AsOf \union {today}, Select(p, asOf) PROVE TypeOK'
  <2>1. asOf \in Days BY DEF Days
  <2>2. [NoPurge EXCEPT !.at = "select", !.todo = Expired(asOf)] \in Purge
      BY DEF NoPurge, Purge, Expired
  <2>3. purges' \in [Purgers -> Purge] BY <1>4, <2>2 DEF Select
  <2> QED BY <1>2, <1>4, <2>1, <2>3 DEF Select
<1>5. ASSUME NEW p \in Purgers, PurgeStep(p) PROVE TypeOK'
  <2>1. purges[p] \in Purge OBVIOUS
  <2>2. ASSUME NEW r \in Runs, Unlink(p, r) PROVE TypeOK'
    <3>1. [at |-> "unlinked", todo |-> purges[p].todo \ {r}, gone |-> purges[p].gone \union {r}]
            \in Purge
        BY <2>1 DEF Purge
    <3>2. purges' \in [Purgers -> Purge] BY <2>2, <3>1 DEF Unlink
    <3> QED BY <2>2, <3>2 DEF Unlink
  <2>3. CASE Delete(p)
    <3>1. purges' \in [Purgers -> Purge] BY <2>1, <2>3, PlacesTyped DEF Delete
    <3> QED BY <2>3, <3>1 DEF Delete
  <2>4. CASE Commit(p)
    <3>1. purges' \in [Purgers -> Purge] BY <2>4, PlacesTyped DEF Commit
    <3> QED BY <2>4, <3>1 DEF Commit
  <2> QED BY <1>5, <2>2, <2>3, <2>4 DEF PurgeStep
<1>6. ASSUME NEW p \in Purgers, PurgeFails(p) PROVE TypeOK'
    BY <1>1, <1>6, FaultsTyped DEF PurgeFails
<1> QED BY <1>3, <1>4, <1>5, <1>6 DEF PurgesStep

LEMMA PurgesEffects == ASSUME TypeOK, PurgesSpent, PurgesStep PROVE PurgesEffect
<1>1. /\ purges \in [Purgers -> Purge] /\ purgedTo \in Days /\ until \in [Runs -> Days]
      /\ rows \subseteq Runs /\ files \subseteq Runs
    BY TypesNamed DEF Typed
<1>2. \A d \in Days : d \in Nat BY Constants DEF Days
<1>3. ASSUME NEW p \in Purgers, EndPurge(p), UNCHANGED <<store, purgedTo, restoring>>,
             collector' = collector \/ collector' = Idle
      PROVE  PurgesEffect
  <2>1. Spent' = Spent BY <1>3 DEF Spent, store
  <2>2. \A s \in Purgers : purges'[s] = purges[s] \/ purges'[s] = NoPurge
      BY <1>1, <1>3 DEF EndPurge
  <2>3. \A s \in Purgers : purges'[s].todo \subseteq Spent' /\ purges'[s].gone \subseteq Spent'
      BY <2>1, <2>2 DEF PurgesSpent, NoPurge
  <2> QED BY <1>1, <1>2, <1>3, <2>3 DEF PurgesEffect, store, restoring
<1>4. CASE CollectorDies
    BY <1>3, <1>4 DEF CollectorDies, Go, Purgers
<1>5. ASSUME NEW p \in Purgers, NEW asOf \in AsOf \union {today}, Select(p, asOf)
      PROVE  PurgesEffect
  <2>1. asOf \in Days BY Constants, TypesNamed DEF Typed, Days
  <2>2. purgedTo' \in Days /\ purgedTo <= purgedTo' /\ asOf <= purgedTo'
      BY <1>1, <1>2, <1>5, <2>1 DEF Select
  <2>3. UNCHANGED store /\ UNCHANGED restoring BY <1>5 DEF Select
  <2>4. Spent \subseteq Spent' BY <1>1, <1>2, <2>2, <2>3 DEF Spent, store
  <2>5. Expired(asOf) \subseteq Spent'
      BY <1>1, <1>2, <2>1, <2>2, <2>3 DEF Spent, Expired, PurgesSpent, store
  <2>6. \A s \in Purgers : /\ purges'[s].todo \in {purges[s].todo, Expired(asOf)}
                           /\ purges'[s].gone \in {purges[s].gone, {}}
      BY <1>1, <1>5 DEF Select, NoPurge
  <2>7. \A s \in Purgers : purges'[s].todo \subseteq Spent' /\ purges'[s].gone \subseteq Spent'
      BY <2>4, <2>5, <2>6 DEF PurgesSpent
  <2>8. collector' = collector \/ collector' = Idle BY <1>5 DEF Select, Go
  <2> QED BY <2>2, <2>3, <2>7, <2>8 DEF PurgesEffect, store, restoring
<1>6. ASSUME NEW p \in Purgers, PurgeStep(p) PROVE PurgesEffect
  <2>1. UNCHANGED <<windows, until, purgedTo, collector>> /\ UNCHANGED restoring
      BY <1>6 DEF PurgeStep, Unlink, Delete, Commit, store
  <2>2. Spent' = Spent BY <2>1 DEF Spent
  <2>3. purges[p].todo \subseteq Spent /\ purges[p].gone \subseteq Spent BY DEF PurgesSpent
  <2>4. /\ rows' \subseteq rows /\ rows \ rows' \subseteq Spent
        /\ files' \subseteq files /\ files \ files' \subseteq Spent
      BY <1>6, <2>3 DEF PurgeStep, Unlink, Delete, Commit, store
  <2>5. /\ purges'[p].todo \subseteq Spent /\ purges'[p].gone \subseteq Spent
        /\ \A s \in Purgers \ {p} : purges'[s] = purges[s]
    <3>1. ASSUME NEW r \in Runs, Unlink(p, r)
          PROVE  /\ purges'[p].todo \subseteq Spent /\ purges'[p].gone \subseteq Spent
                 /\ \A s \in Purgers \ {p} : purges'[s] = purges[s]
        BY <1>1, <2>3, <3>1 DEF Unlink
    <3>2. CASE Delete(p) BY <1>1, <2>3, <3>2 DEF Delete, Purge
    <3>3. CASE Commit(p) BY <1>1, <3>3 DEF Commit, NoPurge
    <3> QED BY <1>6, <3>1, <3>2, <3>3 DEF PurgeStep
  <2> QED BY <1>1, <1>2, <2>1, <2>2, <2>4, <2>5 DEF PurgesEffect, PurgesSpent, restoring
<1>7. ASSUME NEW p \in Purgers, PurgeFails(p) PROVE PurgesEffect
    BY <1>3, <1>7 DEF PurgeFails
<1> QED BY <1>4, <1>5, <1>6, <1>7 DEF PurgesStep

LEMMA PurgesKeep ==
    ASSUME IInv, PurgesStep
    PROVE  Archiving' /\ PurgesSpent' /\ EvidenceKept' /\ Restoring' /\ RestoreWhole'
<1>1. TypeOK /\ Archiving /\ PurgesSpent /\ EvidenceKept /\ Restoring /\ RestoreWhole BY DEF IInv
<1>2. PurgesEffect BY <1>1, PurgesEffects
<1>3. \A d \in Days : d \in Nat BY Constants DEF Days
<1>4. purgedTo \in Days /\ purgedTo' \in Days /\ until \in [Runs -> Days] /\ rows \subseteq Runs
    BY <1>1, <1>2, TypesNamed DEF Typed, PurgesEffect
<1>5. Restoring' /\ RestoreWhole' BY <1>1, <1>2 DEF Restoring, RestoreWhole, PurgesEffect
<1>6. PurgesSpent' BY <1>1, <1>2 DEF PurgesSpent, PurgesEffect
<1>7. EvidenceKept'
    BY <1>1, <1>2, <1>3, <1>4 DEF EvidenceKept, PurgesEffect, Spent
<1>8. Archiving'
    BY <1>1, <1>2 DEF Archiving, PurgesEffect, Spent, Idle
<1> QED BY <1>5, <1>6, <1>7, <1>8

-----------------------------------------------------------------------------
\* The steps of one restore.
RestoreStep(q) ==
    \/ \E r \in Wanted : Check(q, r)
    \/ Make(q) \/ Extract(q) \/ Settle(q) \/ RestoreFails(q)

LEMMA RestoreKeeps ==
    ASSUME IInv, NEW q \in Restorers, RestoreStep(q)
    PROVE  TypeOK' /\ Restoring' /\ RestoreWhole'
<1>1. TypeOK /\ Restoring /\ RestoreWhole BY DEF IInv
<1>2. /\ restores \in [Restorers -> Restore] /\ restored \in [Runs -> {"absent", "whole", "mixed"}]
      /\ staging \in [Runs -> SUBSET (Restorers \union {"dead"})]
    BY <1>1, TypesNamed DEF Typed
<1>3. /\ Leaves(q) => restores' \in [Restorers -> Restore]
      /\ \A place \in {"made", "extracted"} : Moves(q, place) => restores' \in [Restorers -> Restore]
  <2>1. restores[q] \in Restore BY <1>2
  <2>2. Idle \in Restore BY PlacesTyped
  <2>3. \A place \in {"made", "extracted"} : [restores[q] EXCEPT !.at = place] \in Restore
      BY <2>1, PlacesTyped
  <2>4. Leaves(q) => restores' \in [Restorers -> Restore] BY <1>2, <2>2 DEF Leaves
  <2>5. ASSUME NEW place \in {"made", "extracted"}, Moves(q, place)
        PROVE  restores' \in [Restorers -> Restore]
      BY <1>2, <2>3, <2>5 DEF Moves
  <2> QED BY <2>4, <2>5
<1>4. Leaves(q) => /\ restores'[q].at = "idle"
                   /\ \A s \in Restorers \ {q} : restores'[s] = restores[s]
    BY <1>2 DEF Leaves, Idle
<1>5. \A place \in {"made", "extracted"} :
         Moves(q, place) => /\ restores'[q].at = place /\ restores'[q].run = restores[q].run
                            /\ \A s \in Restorers \ {q} : restores'[s] = restores[s]
    BY <1>2 DEF Moves, Restore
<1>6. restores[q].at # "idle" => restores[q].run \in Runs BY <1>1 DEF Restoring
<1> USE TypesNamed, TypesNamedNext, Constants DEF Typed, store, purging
<1>7. ASSUME NEW r \in Wanted, Check(q, r) PROVE TypeOK' /\ Restoring' /\ RestoreWhole'
  <2>1. /\ restores' \in [Restorers -> Restore]
        /\ restores'[q].at = "checked" /\ restores'[q].run = r
        /\ \A s \in Restorers \ {q} : restores'[s] = restores[s]
      BY <1>2, <1>7 DEF Check, Restore
  <2>2. TypeOK' BY <1>1, <1>7, <2>1 DEF Check, faults
  <2>3. Restoring' BY <1>1, <2>1 DEF Restoring
  <2>4. RestoreWhole' BY <1>1, <1>7, <2>1 DEF RestoreWhole, Check
  <2> QED BY <2>2, <2>3, <2>4
<1>8. CASE Make(q)
  <2>1. TypeOK' BY <1>1, <1>2, <1>3, <1>6, <1>8 DEF Make, faults
  <2>2. Restoring' BY <1>1, <1>4, <1>5, <1>6, <1>8 DEF Restoring, Make
  <2>3. RestoreWhole'
    <3>1. restored' = restored BY <1>8 DEF Make
    <3>2. CASE staging[restores[q].run] # {}
      <4>1. Leaves(q) /\ UNCHANGED staging BY <1>8, <3>2 DEF Make
      <4> QED BY <1>1, <1>4, <3>1, <4>1 DEF RestoreWhole
    <3>3. CASE staging[restores[q].run] = {}
      <4>1. /\ Moves(q, "made") /\ staging' = [staging EXCEPT ![restores[q].run] = {q}]
            /\ restores[q].run \in Runs
          BY <1>6, <1>8, <3>3 DEF Make
      <4>2. \A s \in Restorers : restores[s].at \in {"made", "extracted"} =>
               restores[s].run \in Runs /\ restores[s].run # restores[q].run
          BY <1>1, <3>3 DEF RestoreWhole, Restoring
      <4>3. staging'[restores[q].run] = {q} BY <1>2, <4>1
      <4>4. \A r \in Runs : r # restores[q].run => staging'[r] = staging[r] BY <1>2, <4>1
      <4> QED BY <1>1, <1>5, <3>1, <4>1, <4>2, <4>3, <4>4 DEF RestoreWhole
    <3> QED BY <3>2, <3>3
  <2> QED BY <2>1, <2>2, <2>3
<1>9. CASE Extract(q)
  <2>1. TypeOK' BY <1>1, <1>2, <1>3, <1>6, <1>9 DEF Extract, faults
  <2>2. Restoring' BY <1>1, <1>4, <1>5, <1>6, <1>9 DEF Restoring, Extract
  <2>3. RestoreWhole' BY <1>1, <1>2, <1>4, <1>5, <1>6, <1>9 DEF RestoreWhole, Extract, Restoring
  <2> QED BY <2>1, <2>2, <2>3
<1>10. CASE Settle(q)
  <2>1. TypeOK' BY <1>1, <1>2, <1>3, <1>6, <1>10 DEF Settle, faults
  <2>2. Restoring' BY <1>1, <1>4, <1>6, <1>10 DEF Restoring, Settle
  <2>3. RestoreWhole' BY <1>1, <1>2, <1>4, <1>6, <1>10 DEF RestoreWhole, Settle, Restoring
  <2> QED BY <2>1, <2>2, <2>3
<1>11. CASE RestoreFails(q)
  <2>1. TypeOK' BY <1>1, <1>2, <1>3, <1>6, <1>11, FaultsTyped DEF RestoreFails
  <2>2. Restoring' BY <1>1, <1>4, <1>6, <1>11 DEF Restoring, RestoreFails
  <2>3. RestoreWhole' BY <1>1, <1>2, <1>4, <1>6, <1>11 DEF RestoreWhole, RestoreFails, Restoring
  <2> QED BY <2>1, <2>2, <2>3
<1> QED BY <1>7, <1>8, <1>9, <1>10, <1>11 DEF RestoreStep

LEMMA RestoreSpares ==
    ASSUME IInv, NEW q \in Restorers, RestoreStep(q)
    PROVE  Archiving' /\ PurgesSpent' /\ EvidenceKept'
<1>1. UNCHANGED <<store, collector, purging>>
    BY DEF RestoreStep, Check, Make, Extract, Settle, RestoreFails
<1> QED BY <1>1 DEF IInv, Archiving, PurgesSpent, Spent, EvidenceKept, store, purging

-----------------------------------------------------------------------------
\* The invariant is inductive.
LEMMA StepIInv == IInv /\ [Next]_vars => IInv'
<1> SUFFICES ASSUME IInv, [Next]_vars PROVE IInv' OBVIOUS
<1>1. CASE CollectorStep BY <1>1, CollectorTypes, CollectorKeeps DEF IInv
<1>2. CASE PurgesStep BY <1>2, PurgesTypes, PurgesKeep DEF IInv
<1>3. ASSUME NEW q \in Restorers, RestoreStep(q) PROVE IInv'
    BY <1>3, RestoreKeeps, RestoreSpares DEF IInv
<1>4. CASE UNCHANGED vars
    BY <1>4 DEF IInv, vars, store, purging, restoring, faults, TypeOK, Archiving, PurgesSpent,
                Spent, EvidenceKept, Restoring, RestoreWhole
<1> QED BY <1>1, <1>2, <1>3, <1>4 DEF Next, CollectorStep, PurgesStep, RestoreStep

\* The state of every process fits the files on disk, in every state of every run.
THEOREM Inductive == Spec => []IInv
BY InitIInv, StepIInv, PTL DEF Spec

\* Every variable keeps its type, for any runs, dates and faults.
THEOREM ArchiveTypes == Spec => []TypeOK
<1>1. IInv => TypeOK BY DEF IInv
<1> QED BY Inductive, <1>1, PTL

\* The archive of a successful Sunday stays in the directory and in run_archives until
\* a purge with a date past its retention, whatever collector, purges and restores do.
THEOREM EvidenceIsKept == Spec => []EvidenceKept
<1>1. IInv => EvidenceKept BY DEF IInv
<1> QED BY Inductive, <1>1, PTL

\* However many restores run at once, a restored directory is the work of one.
THEOREM RestoresAreWhole == Spec => []RestoreWhole
<1>1. IInv => RestoreWhole BY DEF IInv
<1> QED BY Inductive, <1>1, PTL

-----------------------------------------------------------------------------
(* What is left behind: sets that grow by one run at a time, by a fault.        *)

LEMMA NoMore ==
    ASSUME NEW S, NEW T, IsFiniteSet(S), T \subseteq S
    PROVE  Cardinality(S) \in Nat /\ Cardinality(T) \in Nat /\ Cardinality(T) <= Cardinality(S)
<1>1. IsFiniteSet(T) /\ Cardinality(T) <= Cardinality(S) BY FS_Subset
<1> QED BY <1>1, FS_CardinalityType

LEMMA AtMostOneMore ==
    ASSUME NEW S, NEW T, NEW x, IsFiniteSet(S), T \subseteq S \union {x}
    PROVE  Cardinality(S) \in Nat /\ Cardinality(T) \in Nat /\ Cardinality(T) <= Cardinality(S) + 1
<1>1. /\ IsFiniteSet(S \union {x})
      /\ \/ Cardinality(S \union {x}) = Cardinality(S)
         \/ Cardinality(S \union {x}) = Cardinality(S) + 1
    BY FS_AddElement, Zenon
<1>2. Cardinality(T) \in Nat /\ Cardinality(T) <= Cardinality(S \union {x}) BY <1>1, NoMore
<1>3. Cardinality(S) \in Nat BY FS_CardinalityType
<1> QED BY <1>1, <1>2, <1>3

Leftovers == Left(raws, {"purging"})

\* The collector's run: what it may have on disk at each position. A run that was never
\* finished still has its raw directory, so that no other attempt takes its name.
CollectorTidy ==
    /\ collector.at = "idle" => collector.run = NoRun
    /\ collector.at \in {"collecting", "written"} => collector.run \notin files
    /\ collector.at \in {"collecting", "written", "renamed"} => collector.run \in raws
    /\ collector.at = "renamed" => collector.run \notin temps
    /\ collector.at = "removing" => windows[collector.run] # "NONE"
    /\ \A r \in files \union temps : windows[r] = "NONE" => r \in raws

LitterInv ==
    /\ IsFiniteSet(temps) /\ IsFiniteSet(files) /\ IsFiniteSet(raws)
    /\ \A p \in Purgers : purges[p].gone \intersect files = {}
    /\ CollectorTidy
    /\ LitterBounded

\* A step adds at most the collector's run, and only with a fault.
FaultsGrow == skipped' \in {skipped, skipped + 1} /\ errors' \in {errors, errors + 1}
StraysGrow ==
    \/ Strays' \subseteq Strays
    \/ Strays' \subseteq Strays \union {collector.run} /\ skipped' = skipped + 1
LeftoversGrow ==
    \/ Leftovers' \subseteq Leftovers
    \/ /\ Leftovers' \subseteq Leftovers \union {collector.run}
       /\ skipped' = skipped + 1 \/ errors' = errors + 1

LEMMA LitterStaysBounded ==
    ASSUME TypeOK, LitterInv, FaultsGrow, StraysGrow, LeftoversGrow
    PROVE  LitterBounded'
<1>1. skipped \in Nat /\ errors \in Nat BY Constants DEF TypeOK
<1>2. IsFiniteSet(Strays) /\ Cardinality(Strays) <= skipped
  <2>1. IsFiniteSet(temps \union files) BY FS_Union DEF LitterInv
  <2>2. Strays \subseteq temps \union files BY DEF Strays, Left
  <2> QED BY <2>1, <2>2, FS_Subset DEF LitterInv, LitterBounded, Strays
<1>3. IsFiniteSet(Leftovers) /\ Cardinality(Leftovers) <= skipped + errors
  <2>1. Leftovers \subseteq raws BY DEF Leftovers, Left
  <2> QED BY <2>1, FS_Subset DEF LitterInv, LitterBounded, Leftovers
<1>4. Cardinality(Strays') <= skipped'
  <2>1. CASE Strays' \subseteq Strays BY <1>1, <1>2, <2>1, NoMore DEF FaultsGrow
  <2>2. CASE Strays' \subseteq Strays \union {collector.run} /\ skipped' = skipped + 1
    <3>1. /\ Cardinality(Strays) \in Nat /\ Cardinality(Strays') \in Nat
          /\ Cardinality(Strays') <= Cardinality(Strays) + 1
        BY <1>2, <2>2, AtMostOneMore, Zenon
    <3> QED BY <1>1, <1>2, <2>2, <3>1
  <2> QED BY <2>1, <2>2 DEF StraysGrow
<1>5. Cardinality(Leftovers') <= skipped' + errors'
  <2>1. CASE Leftovers' \subseteq Leftovers BY <1>1, <1>3, <2>1, NoMore DEF FaultsGrow
  <2>2. CASE /\ Leftovers' \subseteq Leftovers \union {collector.run}
             /\ skipped' = skipped + 1 \/ errors' = errors + 1
    <3>1. /\ Cardinality(Leftovers) \in Nat /\ Cardinality(Leftovers') \in Nat
          /\ Cardinality(Leftovers') <= Cardinality(Leftovers) + 1
        BY <1>3, <2>2, AtMostOneMore, Zenon
    <3> QED BY <1>1, <1>3, <2>2, <3>1 DEF FaultsGrow
  <2> QED BY <2>1, <2>2 DEF LeftoversGrow
<1> QED BY <1>4, <1>5 DEF LitterBounded, Strays, Leftovers

\* The collector's own steps: what it had on disk is recorded or removed, unless the
\* clean-up does not happen, and an exception may leave the raw directory.
LEMMA CollectorLitter ==
    ASSUME IInv, LitterInv, CollectorStep
    PROVE  LitterInv'
<1>1. /\ TypeOK /\ Archiving /\ PurgesSpent /\ CollectorTidy /\ UNCHANGED purges
      /\ IsFiniteSet(temps) /\ IsFiniteSet(files) /\ IsFiniteSet(raws)
      /\ \A p \in Purgers : purges[p].gone \intersect files = {}
    BY DEF IInv, LitterInv, CollectorStep, Midnight, Collect, WriteArchive, Rename,
           ManifestFails, ArchiveFails, Record, RecordFails, RemoveRaw, purging
<1>2. /\ rows \subseteq Runs /\ files \subseteq Runs /\ temps \subseteq Runs
      /\ raws \subseteq Runs /\ NoRun \notin Runs /\ collector \in Collector
      /\ windows \in [Runs -> {"NONE", "SUCCESS", "FAILED"}]
      /\ skipped \in Nat /\ errors \in Nat
    BY <1>1, Constants, TypesNamed DEF Typed
<1>3. \A p \in Purgers : \A r \in purges[p].gone : windows[r] = "SUCCESS"
    BY <1>1 DEF PurgesSpent, Spent
<1>4. SUFFICES /\ IsFiniteSet(temps') /\ IsFiniteSet(files') /\ IsFiniteSet(raws')
               /\ \A p \in Purgers : purges'[p].gone \intersect files' = {}
               /\ CollectorTidy' /\ FaultsGrow /\ StraysGrow /\ LeftoversGrow
    BY <1>1, LitterStaysBounded DEF LitterInv
<1>5. CASE Midnight
  <2>1. UNCHANGED <<windows, rows, files, temps, raws, collector, skipped, errors>>
      BY <1>5 DEF Midnight, store, faults
  <2> QED BY <1>1, <2>1 DEF CollectorTidy, FaultsGrow, StraysGrow, LeftoversGrow, Strays,
        Leftovers, Left
<1>6. CASE \E r \in Runs : Collect(r)
  <2>1. PICK r \in Runs : Collect(r) BY <1>6
  <2>2. /\ UNCHANGED <<windows, rows, files, temps, skipped, errors>>
        /\ windows[r] = "NONE" /\ r \notin raws /\ raws' = raws \union {r}
        /\ collector.run = NoRun /\ collector' = [at |-> "collecting", run |-> r]
      BY <1>1, <2>1 DEF Collect, At, CollectorTidy, faults
  <2>3. IsFiniteSet(raws') BY <1>1, <2>2, FS_AddElement
  <2>4. StraysGrow /\ LeftoversGrow /\ FaultsGrow
      BY <1>2, <2>2 DEF StraysGrow, LeftoversGrow, FaultsGrow, Strays, Leftovers, Left
  <2>5. CollectorTidy' BY <1>1, <2>2 DEF CollectorTidy
  <2> QED BY <1>1, <2>2, <2>3, <2>4, <2>5
<1>7. CASE WriteArchive
  <2>1. /\ UNCHANGED <<windows, rows, files, raws, skipped, errors>>
        /\ temps' = temps \union {collector.run} /\ collector.at = "collecting"
        /\ collector'.at = "written" /\ collector'.run = collector.run
      BY <1>2, <1>7 DEF WriteArchive, At, Go, Collector, faults
  <2>2. IsFiniteSet(temps') BY <1>1, <2>1, FS_AddElement
  <2>3. StraysGrow /\ LeftoversGrow /\ FaultsGrow
      BY <2>1 DEF StraysGrow, LeftoversGrow, FaultsGrow, Strays, Leftovers, Left
  <2>4. CollectorTidy' BY <1>1, <2>1 DEF CollectorTidy
  <2> QED BY <1>1, <2>1, <2>2, <2>3, <2>4
<1>8. CASE Rename
  <2>1. /\ UNCHANGED <<windows, rows, raws, skipped, errors>> /\ collector.at = "written"
        /\ temps' = temps \ {collector.run} /\ files' = files \union {collector.run}
        /\ collector'.at = "renamed" /\ collector'.run = collector.run
        /\ windows[collector.run] = "NONE"
      BY <1>1, <1>2, <1>8 DEF Rename, At, Go, Collector, Archiving, faults
  <2>2. IsFiniteSet(temps') /\ IsFiniteSet(files')
      BY <1>1, <2>1, FS_AddElement, FS_RemoveElement
  <2>3. StraysGrow /\ LeftoversGrow /\ FaultsGrow
      BY <2>1 DEF StraysGrow, LeftoversGrow, FaultsGrow, Strays, Leftovers, Left
  <2>4. CollectorTidy' BY <1>1, <2>1 DEF CollectorTidy
  <2> QED BY <1>1, <1>3, <2>1, <2>2, <2>3, <2>4
<1>9. CASE ArchiveFails
  <2>1. /\ UNCHANGED <<rows, files, raws>>
        /\ collector.at \in {"collecting", "written"} /\ collector.run \in Runs
        /\ collector.run \notin files
        /\ windows' = [windows EXCEPT ![collector.run] = "FAILED"]
        /\ collector'.at = "removing" /\ collector'.run = collector.run
      BY <1>1, <1>2, <1>9 DEF ArchiveFails, Go, Collector, Archiving, CollectorTidy
  <2>2. \/ temps' = temps \ {collector.run} /\ errors' = errors + 1 /\ skipped' = skipped
        \/ temps' = temps /\ skipped' = skipped + 1 /\ errors' = errors
      BY <1>9 DEF ArchiveFails, Error, Skip
  <2>3. IsFiniteSet(temps') BY <1>1, <2>2, FS_RemoveElement
  <2>4. StraysGrow BY <2>1, <2>2 DEF StraysGrow, Strays, Left
  <2>5. LeftoversGrow /\ FaultsGrow BY <2>1, <2>2 DEF LeftoversGrow, FaultsGrow, Leftovers, Left
  <2>6. CollectorTidy' BY <1>1, <1>2, <2>1, <2>2 DEF CollectorTidy
  <2> QED BY <1>1, <2>1, <2>3, <2>4, <2>5, <2>6
<1>10. CASE Record
  <2>1. /\ UNCHANGED <<files, temps, raws, skipped, errors>> /\ collector.at = "renamed"
        /\ collector.run \in Runs /\ collector.run \notin temps
        /\ rows' = rows \union {collector.run}
        /\ windows' = [windows EXCEPT ![collector.run] = "SUCCESS"]
        /\ collector'.at = "removing" /\ collector'.run = collector.run
      BY <1>1, <1>2, <1>10 DEF Record, At, Go, Collector, Archiving, CollectorTidy, faults
  <2>2. StraysGrow /\ LeftoversGrow /\ FaultsGrow
      BY <2>1 DEF StraysGrow, LeftoversGrow, FaultsGrow, Strays, Leftovers, Left
  <2>3. CollectorTidy' BY <1>1, <1>2, <2>1 DEF CollectorTidy
  <2> QED BY <1>1, <2>1, <2>2, <2>3
<1>11. CASE RecordFails
  <2>1. /\ UNCHANGED <<windows, rows, temps, raws>> /\ collector.at = "renamed"
        /\ collector.run \notin temps /\ collector.run \in raws /\ collector' = Idle
      BY <1>1, <1>11 DEF RecordFails, At, Go, CollectorTidy
  <2>2. \/ files' = files \ {collector.run} /\ errors' = errors + 1 /\ skipped' = skipped
        \/ files' = files /\ skipped' = skipped + 1 /\ errors' = errors
      BY <1>11 DEF RecordFails, Error, Skip
  <2>3. IsFiniteSet(files') BY <1>1, <2>2, FS_RemoveElement
  <2>4. StraysGrow BY <2>1, <2>2 DEF StraysGrow, Strays, Left
  <2>5. LeftoversGrow /\ FaultsGrow BY <2>1, <2>2 DEF LeftoversGrow, FaultsGrow, Leftovers, Left
  <2>6. CollectorTidy' BY <1>1, <2>1, <2>2 DEF CollectorTidy, Idle
  <2>7. \A p \in Purgers : purges'[p].gone \intersect files' = {} BY <1>1, <2>2
  <2> QED BY <1>1, <2>1, <2>3, <2>4, <2>5, <2>6, <2>7
<1>12. CASE RemoveRaw
  <2>1. /\ UNCHANGED <<windows, rows, files, temps>> /\ collector.at = "removing"
        /\ windows[collector.run] # "NONE"
        /\ \/ collector' = Idle
           \/ collector'.at = "purging" /\ collector'.run = collector.run
      BY <1>1, <1>2, <1>12 DEF RemoveRaw, At, Go, Collector, CollectorTidy
  <2>2. \/ raws' = raws \ {collector.run} /\ skipped' = skipped /\ errors' = errors
        \/ raws' = raws /\ skipped' = skipped + 1 /\ errors' = errors
      BY <1>12 DEF RemoveRaw, Skip, faults
  <2>3. IsFiniteSet(raws') BY <1>1, <2>2, FS_RemoveElement
  <2>4. StraysGrow BY <2>1 DEF StraysGrow, Strays, Left
  <2>5. LeftoversGrow /\ FaultsGrow BY <2>1, <2>2 DEF LeftoversGrow, FaultsGrow, Leftovers, Left
  <2>6. CollectorTidy' BY <1>1, <2>1, <2>2 DEF CollectorTidy, Idle
  <2> QED BY <1>1, <2>1, <2>3, <2>4, <2>5, <2>6
<1>13. CASE ManifestFails
  <2>1. /\ UNCHANGED <<windows, rows, files, raws, skipped>> /\ errors' = errors + 1
        /\ collector.at \in {"collecting", "written"} /\ collector.run \notin files
        /\ temps' = temps \ {collector.run} /\ collector' = Idle
      BY <1>1, <1>13 DEF ManifestFails, Error, Go, CollectorTidy
  <2>2. IsFiniteSet(temps') BY <1>1, <2>1, FS_RemoveElement
  <2>3. StraysGrow /\ LeftoversGrow /\ FaultsGrow
      BY <2>1 DEF StraysGrow, LeftoversGrow, FaultsGrow, Strays, Leftovers, Left
  <2>4. CollectorTidy' BY <1>1, <2>1 DEF CollectorTidy, Idle
  <2> QED BY <1>1, <2>1, <2>2, <2>3, <2>4
<1> QED BY <1>5, <1>6, <1>7, <1>8, <1>9, <1>10, <1>11, <1>12, <1>13 DEF CollectorStep

\* A purge deletes the rows of files that it has removed, and a run that was not
\* successful is in no purge.
LEMMA PurgesLitter ==
    ASSUME IInv, LitterInv, PurgesStep
    PROVE  LitterInv'
<1>1. /\ TypeOK /\ CollectorTidy /\ PurgesEffect
      /\ IsFiniteSet(temps) /\ IsFiniteSet(files) /\ IsFiniteSet(raws)
      /\ \A p \in Purgers : purges[p].gone \intersect files = {}
    BY PurgesEffects DEF IInv, LitterInv
<1>2. purges \in [Purgers -> Purge] /\ skipped \in Nat /\ errors \in Nat
    BY <1>1, Constants, TypesNamed DEF Typed
<1>3. UNCHANGED <<windows, temps, raws>> /\ files' \subseteq files
    BY <1>1 DEF PurgesStep, CollectorDies, Select, PurgeStep, Unlink, Delete, Commit,
                PurgeFails, PurgesEffect, store
<1>4. /\ \A p \in Purgers : purges'[p].gone \intersect files' = {}
      /\ files' \ rows' \subseteq files \ rows
  <2>1. ASSUME NEW p \in Purgers, EndPurge(p), UNCHANGED store
        PROVE  /\ \A s \in Purgers : purges'[s].gone \intersect files' = {}
               /\ files' \ rows' \subseteq files \ rows
      BY <1>1, <1>2, <2>1 DEF EndPurge, NoPurge, store
  <2>2. ASSUME NEW p \in Purgers, NEW asOf \in AsOf \union {today}, Select(p, asOf)
        PROVE  /\ \A s \in Purgers : purges'[s].gone \intersect files' = {}
               /\ files' \ rows' \subseteq files \ rows
      BY <1>1, <1>2, <2>2 DEF Select, NoPurge, store
  <2>3. ASSUME NEW p \in Purgers, NEW r \in Runs, Unlink(p, r)
        PROVE  /\ \A s \in Purgers : purges'[s].gone \intersect files' = {}
               /\ files' \ rows' \subseteq files \ rows
    <3>1. /\ purges'[p].gone = purges[p].gone \union {r} /\ files' = files \ {r}
          /\ \A s \in Purgers \ {p} : purges'[s] = purges[s]
          /\ rows' = rows
        BY <1>2, <2>3 DEF Unlink
    <3> QED BY <1>1, <3>1
  <2>4. ASSUME NEW p \in Purgers, Delete(p)
        PROVE  /\ \A s \in Purgers : purges'[s].gone \intersect files' = {}
               /\ files' \ rows' \subseteq files \ rows
      BY <1>1, <1>2, <2>4 DEF Delete, Purge, store
  <2>5. ASSUME NEW p \in Purgers, Commit(p)
        PROVE  /\ \A s \in Purgers : purges'[s].gone \intersect files' = {}
               /\ files' \ rows' \subseteq files \ rows
      BY <1>1, <1>2, <2>5 DEF Commit, NoPurge
  <2> QED BY <2>1, <2>2, <2>3, <2>4, <2>5 DEF PurgesStep, CollectorDies, PurgeStep,
        PurgeFails, Purgers
<1>5. /\ collector' = collector \/ collector' = Idle
      /\ CollectorTidy'
  <2>1. collector' = collector \/ collector' = Idle BY <1>1 DEF PurgesEffect
  <2> QED BY <1>1, <1>3, <1>4, <2>1 DEF CollectorTidy, Idle
<1>6. /\ FaultsGrow
      /\ \/ collector' = collector \/ skipped' = skipped + 1
         \/ collector.at = "purging"
    BY <1>2 DEF PurgesStep, CollectorDies, Skip, Error, Select, At, PurgeStep, Unlink, Delete,
                Commit, PurgeFails, FaultsGrow, faults
<1>7. StraysGrow /\ LeftoversGrow
    BY <1>1, <1>3, <1>4, <1>5, <1>6 DEF StraysGrow, LeftoversGrow, Strays, Leftovers, Left,
       CollectorTidy
<1>8. IsFiniteSet(files') BY <1>1, <1>3, FS_Subset
<1> QED BY <1>1, <1>3, <1>4, <1>5, <1>6, <1>7, <1>8, LitterStaysBounded DEF LitterInv

\* A restore writes elsewhere.
LEMMA RestoreLitter ==
    ASSUME IInv, LitterInv, NEW q \in Restorers, RestoreStep(q)
    PROVE  LitterInv'
<1>1. UNCHANGED <<store, collector, purging>>
    BY DEF RestoreStep, Check, Make, Extract, Settle, RestoreFails
<1>2. skipped \in Nat /\ errors \in Nat BY Constants, TypesNamed DEF IInv, Typed
<1>3. FaultsGrow
    BY <1>2 DEF RestoreStep, Check, Make, Extract, Settle, RestoreFails, Error, Skip,
                FaultsGrow, faults
<1>4. StraysGrow /\ LeftoversGrow
    BY <1>1 DEF StraysGrow, LeftoversGrow, Strays, Leftovers, Left, store
<1>5. LitterBounded' BY <1>3, <1>4, LitterStaysBounded DEF IInv
<1> QED BY <1>1, <1>5 DEF LitterInv, CollectorTidy, store, purging

\* Only clean-ups that do not happen leave temporaries, or archives that no row knows,
\* behind, at most one each, and only they and exceptions leave raw directories.
THEOREM LitterIsBounded == Spec => []LitterBounded
<1>1. Init => LitterInv
  <2> SUFFICES ASSUME Init PROVE LitterInv OBVIOUS
  <2>1. /\ temps = {} /\ files = {} /\ raws = {} /\ Strays = {} /\ Leftovers = {}
        /\ skipped = 0 /\ errors = 0
      BY DEF Init, Left, Strays, Leftovers
  <2>2. IsFiniteSet({}) /\ Cardinality({}) = 0 BY FS_EmptySet
  <2>3. CollectorTidy BY DEF Init, Idle, CollectorTidy
  <2> QED BY <2>1, <2>2, <2>3 DEF LitterInv, LitterBounded, Leftovers, Init, NoPurge
<1>2. IInv /\ LitterInv /\ [Next]_vars => LitterInv'
  <2> SUFFICES ASSUME IInv, LitterInv, [Next]_vars PROVE LitterInv' OBVIOUS
  <2>1. CASE CollectorStep BY <2>1, CollectorLitter
  <2>2. CASE PurgesStep BY <2>2, PurgesLitter
  <2>3. ASSUME NEW q \in Restorers, RestoreStep(q) PROVE LitterInv' BY <2>3, RestoreLitter
  <2>4. CASE UNCHANGED vars
      BY <2>4 DEF LitterInv, CollectorTidy, LitterBounded, Strays, Left, vars, store, purging,
            faults
  <2> QED BY <2>1, <2>2, <2>3, <2>4 DEF Next, CollectorStep, PurgesStep, RestoreStep
<1>3. LitterInv => LitterBounded BY DEF LitterInv
<1> QED BY <1>1, <1>2, <1>3, Inductive, PTL DEF Spec
=============================================================================
