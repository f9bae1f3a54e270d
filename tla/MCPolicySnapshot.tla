-------------------------- MODULE MCPolicySnapshot --------------------------
(* Small instances of PolicySnapshot for TLC: two rules, and enough run       *)
(* identifiers for every directory and row that may refer to one.             *)
EXTENDS PolicySnapshot
CONSTANTS r1, r2, r3, r4, r5, r6, r7, r8
EightRuns == {r1, r2, r3, r4, r5, r6, r7, r8}
=============================================================================
