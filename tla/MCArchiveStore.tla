---------------------------- MODULE MCArchiveStore ----------------------------
(* Two Sunday windows, two operators that restore, and purges by the collector  *)
(* and by hand with any date up to the last retention.                          *)
EXTENDS ArchiveStore

CONSTANTS r1, r2, q1, q2
===============================================================================
