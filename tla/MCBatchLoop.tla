---------------------------- MODULE MCBatchLoop ----------------------------
(* Small instances of BatchLoop for TLC: three rulesets and a limit of two     *)
(* rules. Between two attempts rulesets grow, shrink, disappear, leave and     *)
(* enter the scope, so that the plans have as many or fewer batches.           *)
EXTENDS BatchLoop

ThreeRulesets == 1..3

Prod == <<<<"app", "shop">>, <<"env", "prod">>>>
Swapped == <<<<"env", "prod">>, <<"app", "shop">>>>
Dev == <<<<"app", "shop">>, <<"env", "dev">>>>
Unknown == <<<<"app", "ghost">>, <<"env", "prod">>>>
Twice == <<<<"app", "shop">>, <<"app", "shop">>>>

Scoped(rules) == Ruleset(rules, {Prod}, FALSE)
Of(inventory) == [inventory |-> inventory, apps |-> {"shop"}, environments |-> {"prod"}]

OnePolicy == {Of(<<Scoped(1), Scoped(1), Scoped(1)>>)}
SomePolicies == OnePolicy \cup
  { Of(<<Scoped(1), Ruleset(2, {Swapped}, FALSE), Scoped(1)>>),
    Of(<<Scoped(1), Scoped(3), Scoped(2)>>),
    Of(<<Scoped(1), Ruleset(1, {Prod, Dev}, FALSE)>>),
    [Of(<<Ruleset(1, {Unknown}, FALSE), Ruleset(1, {<<>>}, TRUE), Ruleset(1, {Dev}, FALSE)>>)
       EXCEPT !.environments = {}],
    Of(<<Ruleset(1, {Dev}, FALSE), Ruleset(1, {<<>>}, FALSE), Ruleset(1, {Twice}, FALSE)>>) }
=============================================================================
