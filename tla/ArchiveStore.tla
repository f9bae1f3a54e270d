----------------------------- MODULE ArchiveStore -----------------------------
(* The archives of the Sunday windows: a directory of files and the table     *)
(* run_archives, which a collector fills, purges empty and restores read.     *)
(*                                                                            *)
(* Simplifications. A run stands for its files: <run_id>.tar.gz, its          *)
(* temporary, the raw directory it is made of, the directory it is restored   *)
(* to and the staging directory of that. What a tar member may be and the     *)
(* digest are left out: an archive that fails its validation is a failure.    *)
(* Runs that are not successful Sunday windows never get here. Unlike the     *)
(* collector, the commands of the operator take no lock.                      *)
EXTENDS Naturals, FiniteSets

CONSTANTS
    Runs,       \* the run ids, each used once
    NoRun,
    Restorers,  \* the operators that may restore at the same time
    LastDay,    \* the calendar: days 0 to LastDay
    Retention,  \* settings.retention_days
    Wanted,     \* the runs that somebody restores
    AsOf,       \* the dates the operator purges with
    MaxFaults   \* exceptions, and clean-ups that do not happen

Purgers == {"collector", "operator"}
Days == 0..(LastDay + Retention)

ASSUME ArchiveStoreAssumption ==
    /\ {LastDay, Retention, MaxFaults} \subseteq Nat
    /\ Wanted \subseteq Runs /\ AsOf \subseteq Days
    /\ "dead" \notin Restorers /\ NoRun \notin Runs

VARIABLES
    today,
    windows,    \* status of the traffic window of each run
    until,      \* retained_until, once it is known
    rows,       \* the runs in run_archives
    files,      \* the runs whose archive file exists
    temps,      \* the runs whose temporary archive exists
    raws,       \* the runs whose raw directory exists
    collector,  \* the collector: its position, and its run
    purges,     \* the purges: rows selected, and rows deleted but not committed
    writer,     \* who holds SQLite's write lock
    purgedTo,   \* history: the latest date a purge was asked for
    restores,   \* the restores
    staging,    \* who writes to the staging directory of a run ("dead": nobody now)
    restored,   \* the restored directory of a run
    errors,     \* exceptions after which the code cleaned up ...
    skipped     \* ... and clean-ups that did not happen: killed, or failed as well

faults == <<errors, skipped>>
store == <<windows, until, rows, files, temps, raws>>
purging == <<purges, writer, purgedTo>>
restoring == <<restores, staging, restored>>
vars == <<today, store, collector, purging, restoring, faults>>

Idle == [at |-> "idle", run |-> NoRun]
NoPurge == [at |-> "idle", todo |-> {}, gone |-> {}]

TypeOK ==
    /\ today \in 0..LastDay
    /\ windows \in [Runs -> {"NONE", "SUCCESS", "FAILED"}]
    /\ until \in [Runs -> Days]
    /\ rows \subseteq Runs /\ files \subseteq Runs /\ temps \subseteq Runs /\ raws \subseteq Runs
    /\ collector \in [at : {"idle", "collecting", "written", "renamed", "removing", "purging"},
                      run : Runs \union {NoRun}]
    /\ purges \in [Purgers -> [at : {"idle", "select", "unlinked"},
                               todo : SUBSET Runs, gone : SUBSET Runs]]
    /\ writer \in Purgers \union {"nobody"}
    /\ purgedTo \in Days
    /\ restores \in [Restorers -> [at : {"idle", "checked", "made", "extracted"},
                                run : Runs \union {NoRun}]]
    /\ staging \in [Runs -> SUBSET (Restorers \union {"dead"})]
    /\ restored \in [Runs -> {"absent", "whole", "mixed"}]
    /\ errors \in 0..MaxFaults /\ skipped \in 0..MaxFaults

Init ==
    /\ today = 0
    /\ windows = [r \in Runs |-> "NONE"] /\ until = [r \in Runs |-> 0]
    /\ rows = {} /\ files = {} /\ temps = {} /\ raws = {}
    /\ collector = Idle
    /\ purges = [p \in Purgers |-> NoPurge] /\ writer = "nobody" /\ purgedTo = 0
    /\ restores = [q \in Restorers |-> Idle]
    /\ staging = [r \in Runs |-> {}] /\ restored = [r \in Runs |-> "absent"]
    /\ errors = 0 /\ skipped = 0

Error == errors + skipped < MaxFaults /\ errors' = errors + 1 /\ UNCHANGED skipped
Skip == errors + skipped < MaxFaults /\ skipped' = skipped + 1 /\ UNCHANGED errors

Midnight ==
    /\ today < LastDay /\ today' = today + 1
    /\ UNCHANGED <<store, collector, purging, restoring, faults>>

-----------------------------------------------------------------------------
(* The collector, from the end of a successful Sunday window on.              *)

At(place) == collector.at = place
Go(place) ==
    collector' = IF place = "idle" THEN Idle ELSE [collector EXCEPT !.at = place]

Collect(r) ==
    /\ At("idle") /\ purges["collector"].at = "idle"
    /\ windows[r] = "NONE" /\ r \notin raws
    /\ collector' = [at |-> "collecting", run |-> r]
    /\ raws' = raws \union {r}
    /\ UNCHANGED <<today, windows, until, rows, files, temps, purging, restoring, faults>>

\* prepare_run_archive: the retention is counted from now, the archive is written
\* to a temporary and validated ...
WriteArchive ==
    /\ At("collecting") /\ Go("written")
    /\ until' = [until EXCEPT ![collector.run] = today + Retention]
    /\ temps' = temps \union {collector.run}
    /\ UNCHANGED <<today, windows, rows, files, raws, purging, restoring, faults>>

\* ... and renamed into place.
Rename ==
    /\ At("written") /\ Go("renamed")
    /\ temps' = temps \ {collector.run}
    /\ files' = files \union {collector.run}
    /\ UNCHANGED <<today, windows, until, rows, raws, purging, restoring, faults>>

\* The manifest cannot be written, before the archive or to say why there is none: the
\* window stays as it is, and so does the raw directory.
ManifestFails ==
    /\ collector.at \in {"collecting", "written"} /\ Error /\ Go("idle")
    /\ temps' = temps \ {collector.run}
    /\ UNCHANGED <<today, windows, until, rows, files, raws, purging, restoring>>

\* The temporary is removed, unless that fails too; the window ends with ERROR and is
\* retried by another run.
ArchiveFails ==
    /\ collector.at \in {"collecting", "written"} /\ Go("removing")
    /\ \/ Error /\ temps' = temps \ {collector.run}
       \/ At("written") /\ Skip /\ UNCHANGED temps
    /\ windows' = [windows EXCEPT ![collector.run] = "FAILED"]
    /\ UNCHANGED <<today, until, rows, files, raws, purging, restoring>>

\* finish_traffic_window: the row, the window and the cursor in one transaction.
Record ==
    /\ At("renamed") /\ writer = "nobody" /\ Go("removing")
    /\ rows' = rows \union {collector.run}
    /\ windows' = [windows EXCEPT ![collector.run] = "SUCCESS"]
    /\ UNCHANGED <<today, until, files, temps, raws, purging, restoring, faults>>

\* Mutant: the prepared archive is not discarded.
RecordLeaves ==
    /\ At("renamed") /\ Error /\ Go("idle")
    /\ UNCHANGED <<today, windows, until, rows, files, temps, raws, purging, restoring>>

\* The transaction fails, or waits for too long: the archive is discarded, unless that
\* fails too, and the exception leaves the raw directory where it is.
RecordFails ==
    /\ At("renamed") /\ Go("idle")
    /\ \/ Error /\ files' = files \ {collector.run}
       \/ Skip /\ UNCHANGED files
    /\ UNCHANGED <<today, windows, until, rows, temps, raws, purging, restoring>>

\* What cannot be removed stays, without a word.
RemoveRaw ==
    /\ At("removing")
    /\ Go(IF windows[collector.run] = "SUCCESS" THEN "purging" ELSE "idle")
    /\ \/ raws' = raws \ {collector.run} /\ UNCHANGED faults
       \/ Skip /\ UNCHANGED raws
    /\ UNCHANGED <<today, windows, until, rows, files, temps, purging, restoring>>

-----------------------------------------------------------------------------
(* purge_expired_archives, by the collector with the date of the day and by   *)
(* the operator with any.                                                     *)

\* Mutant: an archive that expires on the day is purged.
ExpiredEarly(asOf) == {r \in rows : until[r] <= asOf}
Expired(asOf) == {r \in rows : until[r] < asOf}

Select(p, asOf) ==
    /\ purges[p].at = "idle"
    /\ IF p = "collector" THEN At("purging") /\ asOf = today /\ Go("idle")
       ELSE UNCHANGED collector
    /\ purgedTo' = IF asOf > purgedTo THEN asOf ELSE purgedTo
    /\ purges' = IF Expired(asOf) = {} THEN purges
                 ELSE [purges EXCEPT ![p] = [NoPurge EXCEPT !.at = "select",
                                                            !.todo = Expired(asOf)]]
    /\ UNCHANGED <<today, store, writer, restoring, faults>>

\* Mutant: a file that is gone stops the purge.
UnlinkStrict(p, r) ==
    /\ purges[p].at = "select" /\ r \in purges[p].todo /\ r \in files
    /\ purges' = [purges EXCEPT ![p] = [at |-> "unlinked", todo |-> @.todo \ {r},
                                        gone |-> @.gone \union {r}]]
    /\ files' = files \ {r}
    /\ UNCHANGED <<today, windows, until, rows, temps, raws, collector, writer, purgedTo,
                   restoring, faults>>

\* One turn of the loop: the file is removed, if it is there ...
Unlink(p, r) ==
    /\ purges[p].at = "select" /\ r \in purges[p].todo
    /\ purges' = [purges EXCEPT ![p] = [at |-> "unlinked", todo |-> @.todo \ {r},
                                        gone |-> @.gone \union {r}]]
    /\ files' = files \ {r}
    /\ UNCHANGED <<today, windows, until, rows, temps, raws, collector, writer, purgedTo,
                   restoring, faults>>

\* ... and its row, in a transaction that the first of these statements opens.
Delete(p) ==
    /\ purges[p].at = "unlinked" /\ writer \in {p, "nobody"}
    /\ purges' = [purges EXCEPT ![p].at = "select"]
    /\ writer' = p
    /\ UNCHANGED <<today, store, collector, purgedTo, restoring, faults>>

Commit(p) ==
    /\ purges[p].at = "select" /\ purges[p].todo = {}
    /\ rows' = rows \ purges[p].gone
    /\ purges' = [purges EXCEPT ![p] = NoPurge] /\ writer' = "nobody"
    /\ UNCHANGED <<today, windows, until, files, temps, raws, collector, purgedTo, restoring,
                   faults>>

\* The database stays locked, a file cannot be removed, or the operator's process is
\* killed: SQLite rolls back, the files are gone.
EndPurge(p) ==
    /\ purges' = [purges EXCEPT ![p] = NoPurge]
    /\ writer' = IF writer = p THEN "nobody" ELSE writer
PurgeFails(p) ==
    /\ purges[p].at # "idle" /\ Error /\ EndPurge(p)
    /\ UNCHANGED <<today, store, collector, purgedTo, restoring>>

\* The collector is killed, at whatever it does; its purge is part of it.
CollectorDies ==
    /\ ~At("idle") \/ purges["collector"].at # "idle"
    /\ Skip /\ Go("idle") /\ EndPurge("collector")
    /\ UNCHANGED <<today, store, purgedTo, restoring>>

-----------------------------------------------------------------------------
(* restore_archive.                                                           *)

Moves(q, place) == restores' = [restores EXCEPT ![q].at = place]
Leaves(q) == restores' = [restores EXCEPT ![q] = Idle]

\* The archive is validated, and nothing is in the way ...
Check(q, r) ==
    /\ restores[q].at = "idle"
    /\ r \in files /\ restored[r] = "absent" /\ staging[r] = {}
    /\ restores' = [restores EXCEPT ![q] = [at |-> "checked", run |-> r]]
    /\ UNCHANGED <<today, store, collector, purging, staging, restored, faults>>

\* Mutant: an existing staging directory is used.
MakeShared(q) ==
    LET r == restores[q].run
    IN /\ restores[q].at = "checked" /\ Moves(q, "made")
       /\ staging' = [staging EXCEPT ![r] = @ \union {q}]
       /\ UNCHANGED <<today, store, collector, purging, restored, faults>>

\* ... a staging directory is made, unless another restore was faster, ...
Make(q) ==
    LET r == restores[q].run
    IN /\ restores[q].at = "checked"
       /\ IF staging[r] = {}
          THEN Moves(q, "made") /\ staging' = [staging EXCEPT ![r] = {q}]
          ELSE Leaves(q) /\ UNCHANGED staging
       /\ UNCHANGED <<today, store, collector, purging, restored, faults>>

\* ... filled from the archive, which is opened once more, ...
Extract(q) ==
    LET r == restores[q].run
    IN /\ restores[q].at = "made"
       /\ IF r \in files THEN Moves(q, "extracted") /\ UNCHANGED staging
          ELSE Leaves(q) /\ staging' = [staging EXCEPT ![r] = {}]
       /\ UNCHANGED <<today, store, collector, purging, restored, faults>>

\* ... and renamed, which fails on a directory that has files in it.
Settle(q) ==
    LET r == restores[q].run
    IN /\ restores[q].at = "extracted" /\ Leaves(q)
       /\ restored' = IF restored[r] # "absent" THEN restored
                      ELSE [restored EXCEPT ![r] = IF staging[r] = {q} THEN "whole" ELSE "mixed"]
       /\ staging' = [staging EXCEPT ![r] = {}]
       /\ UNCHANGED <<today, store, collector, purging, faults>>

\* An exception removes the staging directory; a killed process leaves it, and so does
\* an exception when the removal fails.
RestoreFails(q) ==
    LET r == restores[q].run
    IN /\ restores[q].at \in {"made", "extracted"} /\ Leaves(q)
       /\ \/ Error /\ staging' = [staging EXCEPT ![r] = {}]
          \/ Skip /\ staging' = [staging EXCEPT ![r] = {"dead"}]
       /\ UNCHANGED <<today, store, collector, purging, restored>>

-----------------------------------------------------------------------------
PurgeStep(p) == (\E r \in Runs : Unlink(p, r)) \/ Delete(p) \/ Commit(p)

Next ==
    \/ Midnight
    \/ \E r \in Runs : Collect(r)
    \/ WriteArchive \/ Rename \/ ManifestFails \/ ArchiveFails \/ Record \/ RecordFails
    \/ RemoveRaw
    \/ CollectorDies
    \/ \E p \in Purgers :
         \/ \E asOf \in AsOf \union {today} : Select(p, asOf)
         \/ PurgeStep(p) \/ PurgeFails(p)
    \/ \E q \in Restorers :
         \/ \E r \in Wanted : Check(q, r)
         \/ Make(q) \/ Extract(q) \/ Settle(q) \/ RestoreFails(q)

Spec == Init /\ [][Next]_vars

\* A purge that runs goes on; it gets the write lock when it is free often enough.
FairSpec == Spec /\ \A p \in Purgers : SF_vars(PurgeStep(p))

-----------------------------------------------------------------------------
(* Properties.                                                                *)

\* The evidence of a successful Sunday is in the directory and in the table until a
\* purge is asked for with a date past its retention, whatever fails and whoever is
\* killed: "registered in the same transaction that advances the weekly cursor"
\* (integration-guide). So the monitor's archive=MISSING is never a false alarm, and
\* a row without a file (archives.py:95) is one that has expired.
EvidenceKept ==
    \A r \in Runs :
        windows[r] = "SUCCESS" /\ until[r] >= purgedTo => r \in rows \intersect files

\* Only a clean-up that does not happen, because the process is killed or because the
\* removal fails as well, leaves a temporary, or an archive that no row knows and no
\* purge will ever remove, behind: at most one for each, once the collector has gone
\* past it. An exception alone leaves neither, at the most a raw directory.
Left(set, past) == IF collector.at \in past THEN set ELSE set \ {collector.run}
Strays == Left(temps \union (files \ rows), {"removing", "purging"})
LitterBounded ==
    /\ Cardinality(Strays) <= skipped
    /\ Cardinality(Left(raws, {"purging"})) <= skipped + errors

\* Two operators who restore the same archive at the same time, beside a purge, get
\* one directory with the files of one of them.
RestoreWhole ==
    /\ \A r \in Runs : restored[r] # "mixed"
    /\ \A q \in Restorers :
         restores[q].at \in {"made", "extracted"} => staging[restores[q].run] = {q}

\* A purge that failed or was killed half-way is completed by the next one with its
\* date: rows whose file is gone do not stop it.
PurgeHeals ==
    WF_vars(Expired(purgedTo) # {} /\ Select("operator", purgedTo)) => []<>(rows \subseteq files)
=============================================================================
