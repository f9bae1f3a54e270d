------------------------------ MODULE Batching ------------------------------
(***************************************************************************)
(* What one attempt at a traffic window reads, the rulesets it selects,    *)
(* and the batches it plans (workloader/batching.py).                      *)
(*                                                                         *)
(*  - A ruleset is a number, so that rulesets are ordered as their hrefs.  *)
(*  - A scope is the sequence of its <<key, value>> components; one that   *)
(*    does not parse has an empty key or value; the empty scope is <<>>.   *)
(*  - A read is a record: the inventory (a function on the rulesets the    *)
(*    export lists), the application labels, the configured environments.  *)
(***************************************************************************)
EXTENDS Integers, FiniteSets, SequencesExt

CONSTANT Limit   \* settings.traffic_batch_size, in rules
ASSUME LimitAssumption == Limit \in Nat \ {0}

\* One exported ruleset: its rules, the scopes their rows carry, and whether a
\* configured pattern matches its name.
Ruleset(rules, scopes, named) == [rules |-> rules, scopes |-> scopes, named |-> named]

Value(scope, key) ==
  LET component == CHOOSE item \in ToSet(scope) : item[1] = key IN component[2]

\* An application scope has one app and one env, in any order, and nothing else.
ParsesAsApplication(scope) ==
  /\ Len(scope) = 2
  /\ {scope[1][1], scope[2][1]} = {"app", "env"}
  /\ scope[1][2] # "" /\ scope[2][2] # ""

\* Why select_application_scoped_rulesets leaves a ruleset out; "" when it does not.
Reason(read, x) ==
  LET ruleset == read.inventory[x]
      scope == CHOOSE s \in ruleset.scopes : TRUE
      filtered == read.environments # {}
  IN CASE Cardinality(ruleset.scopes) # 1 -> "INCONSISTENT_SCOPE"
       [] scope = <<>> /\ ~ruleset.named -> "EMPTY_SCOPE"
       [] scope = <<>> /\ filtered -> "ENVIRONMENT_FILTER_MISMATCH"
       [] scope = <<>> -> ""
       [] ~ParsesAsApplication(scope) -> "INVALID_SCOPE_FORMAT"
       [] Value(scope, "app") \notin read.apps -> "UNKNOWN_APPLICATION_LABEL"
       [] filtered /\ Value(scope, "env") \notin read.environments
            -> "ENVIRONMENT_FILTER_MISMATCH"
       [] OTHER -> ""

Selected(read) == {x \in DOMAIN read.inventory : Reason(read, x) = ""}
Oversized(read) == {x \in Selected(read) : read.inventory[x].rules > Limit}
Rules(read, set) == FoldSet(LAMBDA x, sum : read.inventory[x].rules + sum, 0, set)

\* First fit: x joins the first batch with room for it, or opens one.
Fits(read, batch, x) == Rules(read, ToSet(batch) \cup {x}) <= Limit
Insert(read, batches, x) ==
  LET room == {i \in DOMAIN batches : Fits(read, batches[i], x)}
  IN IF room = {} THEN Append(batches, <<x>>)
     ELSE [batches EXCEPT ![Min(room)] = Append(@, x)]

\* partition_and_pack_rulesets: the largest rulesets first, then by href; the
\* oversized ones are left for the audit.
Larger(read, x, y) ==
  \/ read.inventory[x].rules > read.inventory[y].rules
  \/ read.inventory[x].rules = read.inventory[y].rules /\ x < y
Items(read) ==
  CHOOSE items \in SetToSeqs(Selected(read) \ Oversized(read)) :
    \A i, j \in DOMAIN items : i < j => Larger(read, items[i], items[j])
Plan(read) == FoldLeft(LAMBDA batches, x : Insert(read, batches, x), <<>>, Items(read))

=============================================================================
