----------------------------- MODULE BatchLoop -----------------------------
(***************************************************************************)
(* The batch loop of _collect_traffic_run for one traffic window: the      *)
(* batches of the plan are submitted in order, split or skipped when       *)
(* Workloader counts too many rules, polled and ingested; a failed         *)
(* backfill window is retried and may resume after its completed prefix    *)
(* (collection_engine.py, Database.upsert_usage, backfill_resume_run,      *)
(* usage_for_window, and traffic_audit.py classify_traffic_outcome).       *)
(*                                                                         *)
(*  - A ruleset stands for its rules: it has one usage row in the window.  *)
(*  - Every attempt reads the policy of the moment, so that two attempts   *)
(*    at one window may select other rulesets and plan other batches.      *)
(*  - A polled ruleset has a row in one of the states of Statuses, or none *)
(*    ("missing"). Pending stands for expired too: both block the window.  *)
(*    A completed row whose query body or ports do not parse is "invalid". *)
(***************************************************************************)
EXTENDS Batching

CONSTANTS
  Kinds,        \* the collectors in use: a subset of {"TRAFFIC", "BACKFILL"}
  Rulesets,     \* the rulesets of the policy
  Reads,        \* what an attempt may read: the policy, the labels, the settings
  Statuses,     \* what a poll may say of a ruleset
  MaxAttempts   \* bound on the runs of the window

RowStates == {"completed", "pending", "unknown"}
Places(plan) == FlattenSeq(plan)

ASSUME KindsAssumption == Kinds \subseteq {"TRAFFIC", "BACKFILL"}
ASSUME StatusesAssumption == Statuses \subseteq RowStates \cup {"missing", "invalid"}
ASSUME RulesetsAssumption == Rulesets \subseteq Nat
ASSUME AttemptsAssumption == MaxAttempts \in Nat
ASSUME ReadsAssumption ==
  \A r \in Reads : /\ DOMAIN r.inventory \subseteq Rulesets /\ IsFiniteSet(DOMAIN r.inventory)
                    /\ \A x \in DOMAIN r.inventory : r.inventory[x].rules \in Nat

VARIABLES
  kind,       \* the collector of the window
  usage,      \* the rows of usage_windows for the window
  previous,   \* details of the last run when it ended with ERROR
  read,       \* what the attempt has read
  pending, index,
  batchCount, \* details["batch_count"]
  rows,       \* the batch at work: what the poll said of its rulesets
  done,       \* the rulesets of the batches that have a result
  results,    \* details["batches"]
  seen,       \* usage_by_rule
  oversized,  \* skipped_oversized and runtime_oversized
  pc, status, attempts,
  polled      \* history: the rulesets that some attempt at the window has polled

vars == <<kind, usage, previous, read, pending, index, batchCount, rows, done, results,
          seen, oversized, pc, status, attempts, polled>>
locals == <<read, pending, index, batchCount, rows, done, results, seen, oversized>>

NoDetails == [batches |-> <<>>, count |-> -1]
NoRead == [inventory |-> <<>>, apps |-> {}, environments |-> {}]
Nothing == [x \in Rulesets |-> "none"]
SuccessStatuses == {"SUCCESS", "SUCCESS_WITH_EXCEPTIONS"}
Result == [batch: Nat, total: Nat, completed: Nat, pending: Nat, unknown: Nat,
           invalid: Nat]

TypeOK ==
  /\ kind \in Kinds
  /\ usage \in [Rulesets -> RowStates \cup {"none"}]
  /\ previous.batches \in Seq(Result) /\ previous.count \in Int
  /\ read \in Reads \cup {NoRead}
  /\ pending \in Seq(Seq(Rulesets))
  /\ index \in Nat /\ batchCount \in Int
  /\ DOMAIN rows \subseteq Rulesets
  /\ done \subseteq Rulesets /\ oversized \subseteq Rulesets
  /\ results \in Seq(Result)
  /\ seen \in [Rulesets -> RowStates \cup {"none", "invalid"}]
  /\ pc \in {"idle", "submitting", "polling", "reading", "ingesting"}
  /\ status \in SuccessStatuses \cup {"NONE", "RUNNING", "WARNING", "ERROR"}
  /\ attempts \in 0..MaxAttempts
  /\ polled \subseteq Rulesets

Init ==
  /\ kind \in Kinds /\ usage = Nothing /\ previous = NoDetails
  /\ read = NoRead /\ pending = <<>> /\ index = 0 /\ batchCount = -1
  /\ rows = <<>> /\ done = {} /\ results = <<>> /\ seen = Nothing /\ oversized = {}
  /\ pc = "idle" /\ status = "NONE" /\ attempts = 0 /\ polled = {}

-----------------------------------------------------------------------------
(* Starting an attempt. *)

Prefix(p, n) == ToSet(Places(SubSeq(p, 1, n)))

\* Mutant: the stored usage is not compared with the prefix.
ResumeUncovered(p) ==
  LET batches == previous.batches
  IN /\ kind = "BACKFILL"
     /\ batches # <<>> /\ Len(batches) <= Len(p)
     /\ \A i \in DOMAIN batches : batches[i].batch = i
     /\ previous.count = Len(p)
     /\ \A i \in DOMAIN batches :
          batches[i].total > 0 /\ batches[i].completed = batches[i].total

\* A failed backfill is resumed when its batches are numbered 1, 2, ..., were all
\* completed, belong to a plan of as many batches, and usage is stored for every
\* rule of the prefix of the new plan.
CanResume(p) ==
  LET batches == previous.batches
  IN /\ kind = "BACKFILL"
     /\ batches # <<>> /\ Len(batches) <= Len(p)
     /\ \A i \in DOMAIN batches : batches[i].batch = i
     /\ previous.count = Len(p)
     /\ \A i \in DOMAIN batches :
          batches[i].total > 0 /\ batches[i].completed = batches[i].total
     /\ \A x \in Prefix(p, Len(batches)) : usage[x] # "none"

\* The window is open as long as no run of it succeeded.
Retry == /\ pc = "idle" /\ status \notin SuccessStatuses
         /\ attempts < MaxAttempts /\ attempts' = attempts + 1

Begin(new) ==
  LET p == Plan(new)
      n == IF CanResume(p) THEN Len(previous.batches) ELSE 0
  IN /\ Retry
     /\ read' = new /\ pending' = SubSeq(p, n + 1, Len(p))
     /\ index' = n /\ batchCount' = -1 /\ rows' = <<>>
     /\ done' = Prefix(p, n) /\ results' = SubSeq(previous.batches, 1, n)
     /\ seen' = IF n > 0 THEN usage ELSE Nothing
     /\ oversized' = Oversized(new)
     /\ pc' = "submitting" /\ status' = "RUNNING"
     /\ previous' = NoDetails
     /\ UNCHANGED <<kind, usage, polled>>

\* An export fails before the loop: the details hold no batch.
FailEarly ==
  /\ Retry
  /\ status' = "ERROR" /\ previous' = NoDetails
  /\ UNCHANGED <<kind, usage, locals, pc, polled>>

\* The run ends and its variables are gone: an ERROR run leaves the details that the
\* next attempt may resume, any other its audit (read, seen, oversized).
End(outcome, count) ==
  /\ status' = outcome
  /\ previous' = IF outcome = "ERROR" THEN [batches |-> results, count |-> count]
                 ELSE NoDetails
  /\ IF outcome = "ERROR" THEN read' = NoRead /\ seen' = Nothing /\ oversized' = {}
                           ELSE UNCHANGED <<read, seen, oversized>>
  /\ pending' = <<>> /\ index' = 0 /\ batchCount' = -1
  /\ rows' = <<>> /\ done' = {} /\ results' = <<>>
  /\ pc' = "idle"
  /\ UNCHANGED <<kind, usage, attempts, polled>>

\* A command, a file or the database raises at any step.
Fail ==
  /\ pc # "idle"
  /\ End("ERROR", batchCount)

-----------------------------------------------------------------------------
(* The loop. *)

Take == /\ pc = "submitting" /\ pending # <<>>
        /\ index' = index + 1
        /\ batchCount' = index' + Len(pending) - 1
        /\ UNCHANGED <<kind, usage, previous, read, results, seen, done, status, attempts,
                       polled>>

Submit ==
  /\ Take
  /\ pending' = Tail(pending)
  /\ rows' = [x \in ToSet(Head(pending)) |-> "missing"]
  /\ pc' = "polling"
  /\ UNCHANGED oversized

\* Mutant: one ruleset falls between the halves.
HalvesLose(batch) ==
  LET middle == Len(batch) \div 2
  IN <<SubSeq(batch, 1, middle), SubSeq(batch, middle + 2, Len(batch))>>
Halves(batch) ==
  LET middle == Len(batch) \div 2
  IN <<SubSeq(batch, 1, middle), SubSeq(batch, middle + 1, Len(batch))>>

\* The traffic rule limit is exceeded: the halves are submitted instead ...
Split ==
  /\ Take
  /\ Len(Head(pending)) > 1
  /\ pending' = Halves(Head(pending)) \o Tail(pending)
  /\ UNCHANGED <<rows, pc, oversized>>

\* ... or the only ruleset is skipped and documented.
Skip ==
  /\ Take
  /\ Len(Head(pending)) = 1
  /\ pending' = Tail(pending)
  /\ oversized' = oversized \cup ToSet(Head(pending))
  /\ UNCHANGED <<rows, pc>>

Tally(answer, state) == Cardinality({x \in DOMAIN answer : answer[x] = state})

\* _poll_batch returned: its counts are appended. An invalid row counts as completed.
Poll(answer) ==
  /\ pc = "polling"
  /\ rows' = answer
  /\ results' = Append(results,
       [batch |-> index, total |-> Cardinality(DOMAIN answer) - Tally(answer, "missing"),
        completed |-> Tally(answer, "completed") + Tally(answer, "invalid"),
        pending |-> Tally(answer, "pending"), unknown |-> Tally(answer, "unknown"),
        invalid |-> 0])
  /\ done' = done \cup DOMAIN answer
  /\ polled' = polled \cup DOMAIN answer
  /\ pc' = "reading"
  /\ UNCHANGED <<kind, usage, previous, read, pending, index, batchCount, seen, oversized,
                 status, attempts>>

\* The output is read and validated: the batch gets its count of invalid rows.
Validate ==
  /\ pc = "reading"
  /\ seen' = [x \in Rulesets |-> IF x \in DOMAIN rows /\ rows[x] # "missing"
                                 THEN rows[x] ELSE seen[x]]
  /\ results' = [results EXCEPT ![Len(results)].invalid = Tally(rows, "invalid")]
  /\ pc' = "ingesting"
  /\ UNCHANGED <<kind, usage, previous, read, pending, index, batchCount, rows, done,
                 oversized, status, attempts, polled>>

Valid == {x \in DOMAIN rows : rows[x] \notin {"missing", "invalid"}}

\* Mutants: the first answer always wins; an invalid row is stored.
UpsertFirst(x) == IF x \in Valid /\ usage[x] = "none" THEN rows[x] ELSE usage[x]
UpsertInvalid(x) == IF x \in DOMAIN rows /\ rows[x] # "missing" THEN rows[x] ELSE usage[x]

\* upsert_usage stores the valid rows: a completed row is only replaced by a
\* completed one.
Upsert(x) == IF x \in Valid /\ ~(usage[x] = "completed" /\ rows[x] # "completed")
             THEN rows[x] ELSE usage[x]
Ingest ==
  /\ pc = "ingesting"
  /\ usage' = [x \in Rulesets |-> Upsert(x)]
  /\ rows' = <<>>
  /\ pc' = "submitting"
  /\ UNCHANGED <<kind, previous, read, pending, index, batchCount, results, seen, done,
                 oversized, status, attempts, polled>>

-----------------------------------------------------------------------------
(* The end of the loop. *)

Total(field) ==
  FoldLeft(LAMBDA sum, result : sum + result[field], 0, results)
Missing == {x \in Selected(read) \ oversized : seen[x] = "none"}

\* classify_traffic_outcome.
Classify ==
  LET empty == Total("total") = 0 /\ kind # "TRAFFIC" /\ oversized = {} /\ Missing = {}
      exceptions == Total("unknown") + Total("invalid") > 0 \/ oversized # {} \/ Missing # {}
  IN CASE empty \/ Total("pending") > 0 -> "WARNING"
       [] ~empty /\ Total("pending") = 0 /\ exceptions -> "SUCCESS_WITH_EXCEPTIONS"
       [] OTHER -> "SUCCESS"

\* The outcome is classified; the artifacts or the pruning may still raise.
Finish ==
  /\ pc = "submitting" /\ pending = <<>>
  /\ End(Classify, Len(results)) \/ End("ERROR", Len(results))

Next ==
  \/ \E new \in Reads : Begin(new)
  \/ FailEarly \/ Fail
  \/ Submit \/ Split \/ Skip
  \/ \E answer \in [DOMAIN rows -> Statuses] : Poll(answer)
  \/ Validate \/ Ingest \/ Finish

Spec == Init /\ [][Next]_vars

-----------------------------------------------------------------------------
(* Properties. *)

\* During an attempt every selected ruleset is in exactly one place: it waits,
\* is at work, has a result, or is documented as oversized; splitting, skipping
\* and resuming neither lose a ruleset nor submit one twice, and no batch that waits
\* is empty or holds more rules than the limit.
EveryRulesetOnce ==
  LET waiting == Places(pending)
      parts == <<ToSet(waiting), IF pc = "polling" THEN DOMAIN rows ELSE {},
                 done, oversized>>
  IN pc # "idle" =>
       /\ IsInjective(waiting)
       /\ \A i, j \in DOMAIN parts : i # j => parts[i] \cap parts[j] = {}
       /\ UNION Range(parts) = Selected(read)
       /\ \A i \in DOMAIN pending :
            pending[i] # <<>> /\ Rules(read, ToSet(pending[i])) <= Limit

\* No rule is silently omitted from a successful window: each was polled by this
\* attempt or an earlier one, or is documented ("falls back to replaying the whole
\* window rather than risk silently omitting a rule", technical-design).
NothingOmitted ==
  status \in SuccessStatuses => Selected(read) \subseteq polled \cup oversized

\* A successful window has no blocking problem among its audit rows: the counts
\* of the batches and the rows by rule tell the same story.
NoBlockingRow ==
  status \in SuccessStatuses =>
    \A x \in Selected(read) \ oversized : seen[x] # "pending"

\* What the audit of a successful window calls completed is in usage_windows. Over
\* all the attempts at a window, SUCCESS without exceptions means that usage is stored
\* for every ruleset selected last, whatever the failed attempts had planned; that of
\* a weekly window is completed.
SuccessIsStored ==
  /\ status \in SuccessStatuses =>
       \A x \in Rulesets : seen[x] = "completed" => usage[x] = "completed"
  /\ status = "SUCCESS" =>
       \A x \in Selected(read) : seen[x] # "none" /\ usage[x] # "none"
  /\ kind = "TRAFFIC" /\ status = "SUCCESS" =>
       \A x \in Selected(read) : seen[x] = "completed"

=============================================================================
