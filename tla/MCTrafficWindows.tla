-------------------------- MODULE MCTrafficWindows --------------------------
(* Small instances of TrafficWindows for TLC: windows of two days instead of *)
(* seven and a backfill of three days instead of 92, so that the last        *)
(* backfill window is truncated as the fourteenth one is in production.      *)
EXTENDS TrafficWindows, TLC

CONSTANTS p1, p2

OneProc == {p1}
TwoProcs == {p1, p2}
NoStart == {None}
PastStart == {None, 0}
\* The collectors are interchangeable, and every property of the run windows is a
\* safety property.
Symmetry == Permutations(TwoProcs)
SomeStarts == {None, 0, 1}
=============================================================================
