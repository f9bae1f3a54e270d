----------------------------- MODULE MCPolling -----------------------------
(* Small instances of Polling for TLC: delays of a few minutes in the order   *)
(* of the defaults (interval and initial delay below the deadline, deadline   *)
(* below the expiry, which one command with its retries may overshoot).       *)
EXTENDS Polling

CONSTANTS q1, q2
TwoQueries == {q1, q2}
=============================================================================
