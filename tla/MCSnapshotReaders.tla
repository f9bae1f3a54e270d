-------------------------- MODULE MCSnapshotReaders --------------------------
(* Four policy runs, one rule, and one report at a time.                       *)
EXTENDS SnapshotReaders
=============================================================================
