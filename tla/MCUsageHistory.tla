--------------------------- MODULE MCUsageHistory ---------------------------
(* Small instances of UsageHistory for TLC: weekly windows of two days, a      *)
(* window that overlaps all of them, at most two days of traffic, at every     *)
(* place relative to the bounds of the windows.                                *)
EXTENDS UsageHistory

TwoDayWindows == {<<0, 2>>, <<2, 4>>, <<4, 6>>}
Overlapping == TwoDayWindows \cup {<<1, 6>>}
SomeTraffic == {days \in SUBSET {0, 1, 3, 5} : Cardinality(days) <= 2}
=============================================================================
