--------------------------- MODULE SnapshotReaders ---------------------------
(* A report beside the publications of PolicySnapshot. It takes no lock: the    *)
(* rules come from SQLite, the references after them from a file, and where     *)
(* that is is decided in between (workbook.py, the same for rule_search.py and  *)
(* compliance.py).                                                              *)
(*                                                                              *)
(* Added to the publications: the run directory raw/<run_id> and the reference  *)
(* tables of SQLite. One reference file stands for each of them; what a removal *)
(* that was interrupted left of raw/snapshot does not have it. Run identifiers  *)
(* are times: here numbers, each used once, so there are as many runs.          *)
EXTENDS PolicySnapshot, FiniteSets

ASSUME TimesAssumption == RunIds \subseteq Nat \ {0}

VARIABLES
    started,  \* the latest run, or 0
    runDirs,  \* the runs whose raw/<run_id> exists (or what is left of it)
    partial,  \* those whose exports are not complete
    tables,   \* the run that filled the tables workloads and ip_lists
    reader    \* the report: the run of its rules, the directories it saw, the place
              \* it chose, whether that is a directory whose run is over, the run of
              \* its references and whether they are complete

readerVars == <<vars, started, runDirs, partial, tables, reader>>
disk == <<vars, started, runDirs, partial, tables>>

Nowhere == [at |-> "idle", gen |-> Absent, dirs |-> {}, from |-> "nothing", dir |-> Absent,
            stray |-> FALSE, got |-> Absent, whole |-> TRUE]

ReaderState == [at : {"idle", "rules", "listed", "chosen", "done"}, gen : RunIds \union {Absent},
                dirs : SUBSET RunIds, from : {"nothing", "snapshot", "directory", "tables"},
                dir : RunIds \union {Absent}, stray : BOOLEAN,
                got : RunIds \union {Absent}, whole : BOOLEAN]

\* Every directory beside that of the live run was paid for: a run was killed or
\* interrupted, could not be recorded when it began or when it failed, or could not
\* remove its directory.
ReadersTypeOK ==
    /\ started \in RunIds \union {0}
    /\ partial \subseteq runDirs /\ runDirs \subseteq RunIds
    /\ tables \in RunIds \union {Absent}
    /\ reader \in ReaderState
    /\ Cardinality(runDirs \ {run}) <= crashes + faults + interrupts

ReadersInit ==
    /\ Init
    /\ started = 0 /\ runDirs = {} /\ partial = {} /\ tables = Absent /\ reader = Nowhere

-----------------------------------------------------------------------------
(* The publications, with the run directory and the reference tables.          *)

\* initialize and begin_run raise, or are interrupted, outside the try block.
Unrecorded ==
    /\ pc = "idle"
    /\ Fault \/ (Interrupted /\ UNCHANGED abandoned)
    /\ UNCHANGED <<current, staging, backups, published, rules, pc, run, inventory, saved,
                   inserted>>

\* The directory comes first: a run that cannot be recorded next leaves it.
MakeRunDir ==
    /\ started + 1 \in RunIds /\ started' = started + 1
    /\ Begin(started') \/ Unrecorded
    /\ runDirs' = runDirs \union {started'} /\ partial' = partial \union {started'}
    /\ UNCHANGED <<tables, reader>>

\* Mutant: the references are not ingested before the publication.
IngestNotYet ==
    /\ Export
    /\ partial' = IF pc' = "staging" THEN partial \ {run} ELSE partial
    /\ UNCHANGED <<started, runDirs, tables, reader>>

\* The references are ingested at the end of the exports, before the publication:
\* a run that fails later leaves them.
ExportReferences ==
    /\ Export
    /\ IF pc' = "staging"
       THEN tables' = run /\ partial' = partial \ {run}
       ELSE tables' \in {tables, run} /\ UNCHANGED partial
    /\ UNCHANGED <<started, runDirs, reader>>

Publishing ==
    /\ Stage \/ MoveAside \/ Install \/ Commit \/ Remove \/ Restore \/ Interrupt \/ Crash
    /\ UNCHANGED <<started, runDirs, partial, tables, reader>>

\* Mutant: only a run that fails removes its directory.
RemoveRunDirEarly ==
    /\ Close
    /\ runDirs' = IF published = run THEN runDirs ELSE runDirs \ {run}
    /\ partial' = partial \intersect runDirs'
    /\ UNCHANGED <<started, tables, reader>>

\* The run directory is removed last, unless recording a failure raised, the run was
\* interrupted, or the removal, which ignores its errors, failed.
RemoveRunDir ==
    /\ Close
    /\ runDirs' \in IF UNCHANGED counters THEN {runDirs \ {run}}
                    ELSE {runDirs, runDirs \ {run}}
    /\ partial' = partial \intersect runDirs'
    /\ UNCHANGED <<started, tables, reader>>

-----------------------------------------------------------------------------
(* The report.                                                                 *)

\* _current_rules.
ReadRules ==
    /\ reader.at = "idle"
    /\ reader' = [Nowhere EXCEPT !.at = "rules", !.gen = published]
    /\ UNCHANGED disk

\* _raw_reference_candidates: first the run directories that have the file are
\* listed, ...
ListRunDirs ==
    /\ reader.at = "rules"
    /\ \E some \in SUBSET partial :
         reader' = [reader EXCEPT !.at = "listed", !.dirs = (runDirs \ partial) \union some]
    /\ UNCHANGED disk

Newest(dirs) == CHOOSE r \in dirs : \A s \in dirs : s <= r

\* Mutant: the newest timestamped directory comes first.
NewestFirst == IF reader.dirs # {} THEN "directory"
               ELSE IF current \in RunIds THEN "snapshot" ELSE "tables"

\* ... then the snapshot is looked for, which comes first. SQLite comes last.
Candidate == IF current \in RunIds THEN "snapshot"
             ELSE IF reader.dirs # {} THEN "directory" ELSE "tables"

Choose ==
    /\ reader.at = "listed"
    /\ LET dir == IF Candidate = "directory" THEN Newest(reader.dirs) ELSE Absent
       IN reader' = [reader EXCEPT !.at = "chosen", !.from = Candidate, !.dir = dir,
                                   !.stray = dir \notin {run, Absent}]
    /\ UNCHANGED disk

\* A place is a name: what is there when it is opened is read, or the report fails.
Open ==
    /\ reader.at = "chosen"
    /\ reader' = CASE reader.from = "tables" -> [reader EXCEPT !.at = "done", !.got = tables]
                   [] reader.from = "snapshot" /\ current \in RunIds ->
                        [reader EXCEPT !.at = "done", !.got = current]
                   [] reader.from = "directory" /\ reader.dir \in runDirs ->
                        [reader EXCEPT !.at = "done", !.got = reader.dir,
                                       !.whole = reader.dir \notin partial]
                   [] OTHER -> Nowhere
    /\ UNCHANGED disk

Deliver ==
    /\ reader.at = "done" /\ reader' = Nowhere
    /\ UNCHANGED disk

ReadersNext ==
    \/ MakeRunDir \/ ExportReferences \/ Publishing \/ RemoveRunDir
    \/ ReadRules \/ ListRunDirs \/ Choose \/ Open \/ Deliver

ReadersSpec == ReadersInit /\ [][ReadersNext]_readerVars

-----------------------------------------------------------------------------
(* Properties.                                                                 *)

Time(r) == IF r = Absent THEN 0 ELSE r

\* The references of a report are never older than its rules, although nothing holds
\* the two together: rules are read first and published last. Only a directory that an
\* earlier run left behind makes an exception: raw/snapshot is away between the two
\* renames of a publication, and after a crash or an interruption there.
ReferencesNotOlder ==
    reader.at = "done" /\ ~reader.stray => Time(reader.got) >= Time(reader.gen)

\* A report on a published policy never reads the exports of a run that is still
\* writing them ("Consumers prefer the snapshot", DEC-023), as long as no process was
\* killed or interrupted and no undo failed: the directory of a live run is only looked
\* at while raw/snapshot is away, and it is complete by then. A directory left behind
\* is again the exception, and so is the first publication.
ReferencesWhole ==
    reader.at = "done" /\ reader.gen # Absent /\ Undisturbed =>
        reader.whole \/ reader.stray
=============================================================================
