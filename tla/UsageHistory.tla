---------------------------- MODULE UsageHistory ----------------------------
(***************************************************************************)
(* The usage history of one rule: the rows of usage_windows and their      *)
(* usage_ports, fed by collectors and by hand, pruned, and summarised for  *)
(* the reports (Database.upsert_usage, prune and compliance_usage,         *)
(* history/metrics.py, and the selection of reporting/workbook.py).        *)
(*                                                                         *)
(*  - A day is a number, a window a pair <<start, end>>, end excluded.     *)
(*  - The rule had one flow on each day of traffic, and Workloader counts  *)
(*    a window right or leaves the count blank.                            *)
(*  - The bounds stored are timestamps (...T00:00:00Z, as query_body has   *)
(*    them), the bounds of a report are dates, compared as strings: the    *)
(*    midnight of a day comes after the day.                               *)
(***************************************************************************)
EXTENDS Integers, FiniteSets, SequencesExt

CONSTANTS
  LastDay,    \* bound on the calendar
  Windows,    \* the windows somebody asks for
  Traffics,   \* the sets of days on which the rule may have had a flow
  Retention,  \* settings.retention_days
  Months18    \* the days of eighteen months

Days == 0..(LastDay - 1)
WindowDays(w) == w[1]..(w[2] - 1)

ASSUME WindowsAssumption ==
  /\ LastDay \in Nat
  /\ Windows \subseteq {w \in Days \X (1..LastDay) : w[1] < w[2]}
ASSUME TrafficsAssumption == \A t \in Traffics : t \subseteq Days
\* Settings.validate: at least 550 days, and no eighteen months are longer.
ASSUME RetentionAssumption == Retention \in Nat \ {0} /\ Months18 \in 0..Retention

VARIABLES
  today,
  traffic,  \* the days on which the rule really had a flow
  rows,     \* usage_windows: Absent, or status, flows and, in raw_json, the ports listed
  ports     \* usage_ports: the flows listed for the window, over its ports

vars == <<today, traffic, rows, ports>>

Blank == -1   \* flows is NULL
Absent == [status |-> "absent", flows |-> Blank, listed |-> 0]
Stored == {w \in Windows : rows[w] # Absent}

\* The ports on record are always those of the answer on record.
TypeOK ==
  /\ today \in 0..LastDay /\ traffic \in Traffics
  /\ rows \in [Windows -> [status: {"absent", "completed", "pending", "unknown"},
                           flows: Int, listed: Nat]]
  /\ ports \in [Windows -> Nat]
  /\ \A w \in Windows : ports[w] = rows[w].listed

Init ==
  /\ today = 0 /\ traffic \in Traffics
  /\ rows = [w \in Windows |-> Absent]
  /\ ports = [w \in Windows |-> 0]

Midnight == today < LastDay /\ today' = today + 1 /\ UNCHANGED <<traffic, rows, ports>>

-----------------------------------------------------------------------------
(* Storing and pruning. *)

\* What Workloader may answer. The ports are listed or not: the code takes a count
\* without ports as it is, and "+ N more" only marks the row (not modelled).
Answers(w) ==
  LET count == Cardinality(WindowDays(w) \cap traffic)
  IN {[status |-> kind[1], flows |-> kind[2], listed |-> listed] :
        kind \in {<<"completed", count>>, <<"completed", Blank>>, <<"pending", Blank>>,
                  <<"unknown", 0>>},
        listed \in {0, count}}

\* upsert_usage: the row and its ports are replaced, unless a completed row would
\* be by one that is not.
Upsert(w, answer) ==
  IF rows[w].status = "completed" /\ answer.status # "completed"
  THEN UNCHANGED <<rows, ports>>
  ELSE /\ rows' = [rows EXCEPT ![w] = answer]
       /\ ports' = [ports EXCEPT ![w] = answer.listed]

\* A collector, or ingest-usage, stores an answer for a window that has ended.
Ingest(w) ==
  /\ w[2] <= today
  /\ \E answer \in Answers(w) : Upsert(w, answer)
  /\ UNCHANGED <<today, traffic>>

\* Mutants: the window is dropped by its start; the ports do not follow the row.
ExpiredByStart(w) == w[1] < today - Retention
PruneRowOnly(gone) ==
  /\ rows' = [w \in Windows |-> IF w \in gone THEN Absent ELSE rows[w]]
  /\ UNCHANGED ports

\* prune, at the end of a collection; the foreign key takes the ports along.
Expired(w) == w[2] < today - Retention
Delete(gone) ==
  /\ rows' = [w \in Windows |-> IF w \in gone THEN Absent ELSE rows[w]]
  /\ ports' = [w \in Windows |-> IF w \in gone THEN 0 ELSE ports[w]]
Prune ==
  LET gone == {w \in Stored : Expired(w)}
  IN gone # {} /\ Delete(gone) /\ UNCHANGED <<today, traffic>>

Next == Midnight \/ Prune \/ \E w \in Windows : Ingest(w)

Spec == Init /\ [][Next]_vars

-----------------------------------------------------------------------------
(* What the reports say. *)

\* The rows of a report: window_end > cutoff and window_start < as_of as strings.
InReport(asOf, lookback) ==
  {w \in Stored : w[2] >= asOf - lookback /\ w[1] < asOf}
Completed(set) == {w \in set : rows[w].status = "completed"}
Positive(set) == {w \in Completed(set) : rows[w].flows > 0}

\* Mutant: an interval that begins inside the one before is added whole.
MergeAdd(merged, interval) == Append(merged, interval)

\* One step of the union of intervals sorted by their start.
Merge(merged, interval) ==
  IF interval[2] <= interval[1] THEN merged
  ELSE IF merged # <<>> /\ interval[1] <= Last(merged)[2]
       THEN [merged EXCEPT ![Len(merged)] = <<@[1], Max({@[2], interval[2]})>>]
       ELSE Append(merged, interval)

\* The windows as intervals inside the lookback, and these in their order as tuples.
Clamped(asOf, lookback) ==
  {<<Max({asOf - lookback, w[1]}), Min({asOf, w[2]})>> : w \in Completed(InReport(asOf, lookback))}
Before(v, w) == v[1] < w[1] \/ (v[1] = w[1] /\ v[2] < w[2])
Sorted(set) ==
  [i \in 1..Cardinality(set) |->
     CHOOSE v \in set : Cardinality({u \in set : Before(u, v)}) = i - 1]

Merged(set) == FoldLeft(Merge, <<>>, Sorted(set))
Length(merged) == FoldLeft(LAMBDA sum, interval : sum + (interval[2] - interval[1]), 0, merged)

\* The days of the lookback that completed windows cover.
Coverage(asOf, lookback) == Length(Merged(Clamped(asOf, lookback)))

\* Mutant: one covered day is enough.
StatusAnyCovered(asOf, lookback) ==
  IF Positive(InReport(asOf, lookback)) # {} THEN "HAS_HIT"
  ELSE IF Coverage(asOf, lookback) > 0 THEN "NO_HIT_IN_COVERED_PERIOD"
  ELSE "UNKNOWN_INCOMPLETE_COVERAGE"

\* summarize_usage: the hit status ...
HitStatus(asOf, lookback) ==
  IF Positive(InReport(asOf, lookback)) # {} THEN "HAS_HIT"
  ELSE IF Coverage(asOf, lookback) >= lookback THEN "NO_HIT_IN_COVERED_PERIOD"
  ELSE "UNKNOWN_INCOMPLETE_COVERAGE"

\* ... the end of the last window with a hit, and the sum of the flows.
LastHit(asOf, lookback) ==
  LET hits == Positive(InReport(asOf, lookback))
  IN IF hits = {} THEN Blank ELSE Max({w[2] : w \in hits})
Flows(set) ==
  SumFunctionOnSet([w \in Windows |-> rows[w].flows], {w \in Completed(set) : rows[w].flows # Blank})
Summary(asOf, lookback) ==
  [status |-> HitStatus(asOf, lookback), coverage |-> Coverage(asOf, lookback),
   last |-> LastHit(asOf, lookback), total |-> Flows(InReport(asOf, lookback))]

\* _usage_columns: no row without a completed window, a hit is a flow on record.
UsageStatus(done) ==
  IF done = {} THEN "NO_DATA" ELSE IF Flows(done) > 0 THEN "HIT" ELSE "NO_HIT"

\* compliance_usage: the rule over its whole history.
ComplianceRow ==
  LET done == Completed(Stored)
  IN [status |-> UsageStatus(done), total |-> Flows(done),
      observed |-> Cardinality(done),
      last |-> IF Positive(done) = {} THEN Blank ELSE Max({w[2] : w \in Positive(done)})]

\* The column unused_since_18_months, from the last hit on record.
Unused(asOf) == \A w \in Positive(Stored) : w[2] <= asOf - Months18

-----------------------------------------------------------------------------
(* Properties. *)

Lookbacks == 1..Retention
Reports == {report \in (1..today) \X Lookbacks : report[2] <= report[1]}
Period(asOf, lookback) == (asOf - lookback)..(asOf - 1)

Covered == UNION {WindowDays(w) : w \in Completed(Stored)}

\* Overlapping, adjacent and clamped windows are counted as the union of their days.
CoverageIsUnion ==
  \A report \in Reports :
    Coverage(report[1], report[2]) =
      Cardinality(Period(report[1], report[2]) \cap Covered)

\* A report that says "no hit" has a completed window over every day it speaks of,
\* and no window that was counted holds a flow of these days; no counted flow of the
\* period comes after the last hit of the report. The compliance sheet, which has its
\* own queries, says HIT when and only when a window on record counted a flow, and no
\* such flow comes after its last hit, the end of a window with traffic.
HitsAreTrue ==
  LET sheet == ComplianceRow
      counted == {w \in Completed(Stored) : rows[w].flows # Blank}
  IN /\ \A report \in Reports :
          LET period == Period(report[1], report[2])
              last == LastHit(report[1], report[2])
          IN /\ HitStatus(report[1], report[2]) = "NO_HIT_IN_COVERED_PERIOD" =>
                  \A day \in period :
                    LET over == {w \in Completed(Stored) : day \in WindowDays(w)}
                    IN over # {} /\ (day \in traffic => over \cap counted = {})
             /\ \A w \in counted : \A day \in WindowDays(w) \cap traffic \cap period :
                  day < last
     /\ \A w \in counted : \A day \in WindowDays(w) \cap traffic :
          sheet.status = "HIT" /\ day < sheet.last
     /\ sheet.status = "HIT" =>
          \E w \in counted : w[2] = sheet.last /\ WindowDays(w) \cap traffic # {}

\* Pruning never changes what a report of the day may say, as long as its lookback
\* fits the retention; nor does it change who was unused for eighteen months.
PruneKeepsReports ==
  [][Prune => /\ Unused(today)' = Unused(today)
              /\ \A lookback \in Lookbacks :
                   Summary(today, lookback)' = Summary(today, lookback)]_vars

=============================================================================
