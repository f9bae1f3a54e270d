---------------------------- MODULE WindowLedger ----------------------------
(***************************************************************************)
(* What a collector's durable cursor promises, without processes, runs,    *)
(* failures or a database: an ordered ledger of collected windows. A       *)
(* window [s, e) may only be added at the frontier, which then moves to e; *)
(* nothing is ever removed. TrafficWindows implements it twice, for the    *)
(* weekly cursor and for the backfill.                                     *)
(***************************************************************************)
EXTENDS Integers

VARIABLES
  done,      \* the set of windows <<s, e>> whose traffic is collected
  frontier   \* the next start, or -1 while the ledger has no origin

Unset == -1

LedgerInit == done = {} /\ frontier = Unset

\* The origin of a backfill is chosen before its first window.
Open == done = {} /\ frontier = Unset /\ frontier' \in Nat /\ UNCHANGED done

Record ==
  \E w \in done' :
    /\ w \notin done
    /\ done' = done \cup {w}
    /\ frontier \in {Unset, w[1]}
    /\ w[1] \in Nat /\ w[2] \in Nat /\ w[1] < w[2]
    /\ frontier' = w[2]

LedgerNext == Open \/ Record

LedgerSpec == LedgerInit /\ [][LedgerNext]_<<done, frontier>>

\* No day is collected twice and no day between two windows is skipped: two
\* windows never overlap, none passes the frontier, and the frontier is the end
\* of a window as soon as there is one (src/rules_recertify/collection_engine.py
\* collect_traffic: "the next durable, non-overlapping seven-day window").
Partition ==
  /\ \A v, w \in done : v = w \/ v[2] <= w[1] \/ w[2] <= v[1]
  /\ \A w \in done : w[2] <= frontier
  /\ \A w \in done : w[2] = frontier \/ \E v \in done : v[1] = w[2]

=============================================================================
