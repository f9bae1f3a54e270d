--------------------------- MODULE MCRecertReports ---------------------------
(* Three applications of two modules, three environments, two entities that one *)
(* directory stands for, two Kear Ids that differ in case, and files of two or  *)
(* three rows; every inventory has two of the shapes of a rule.                 *)
EXTENDS RecertReports, TLC

CONSTANTS a1, a2, b1, modA, modB, prd, uat, dev, e1, e2, k1, k2, dir1

Module3 == a1 :> modA @@ a2 :> modA @@ b1 :> modB
OneDir == e1 :> dir1 @@ e2 :> dir1
OneKear == k1 :> k1 @@ k2 :> k1
AllWorkloads == [app : {a1, a2, b1}, env : {prd, uat, dev}, role : BOOLEAN]

Labels(apps, envs) == [all |-> FALSE, apps |-> apps, envs |-> envs, role |-> FALSE]
Everything == [all |-> TRUE, apps |-> {}, envs |-> {}, role |-> FALSE]
Role == [all |-> FALSE, apps |-> {}, envs |-> {}, role |-> TRUE]
Scoped(a, env) == [app |-> a, env |-> env, role |-> FALSE]
Shapes ==
    { [scope |-> Scoped(a1, prd), src |-> Role, dst |-> Everything],
      [scope |-> Scoped(a1, Null), src |-> Everything, dst |-> Labels({b1}, {prd})],
      [scope |-> Scoped(a2, uat), src |-> Labels({a1}, {}), dst |-> Role],
      [scope |-> NoScope, src |-> Labels({a1}, {}), dst |-> Labels({}, {uat})],
      [scope |-> NoScope, src |-> Labels({b1}, {uat}), dst |-> Labels({a2}, {dev})],
      [scope |-> NoScope, src |-> Labels({a1, b1}, {uat, dev}), dst |-> Role] }
SomePolicies == {policy \in SUBSET Shapes : Cardinality(policy) = 2}

FileRow(entity, kear, module, env, name) ==
    [entity |-> entity, kear |-> kear, module |-> module, env |-> env, name |-> name]
SomeInputs ==
    { {FileRow(e1, k1, modA, prd, "x"), FileRow(e1, k1, modA, uat, "x"), FileRow(e1, k1, modB, dev, "x")},
      {FileRow(e1, k1, modA, uat, "x"), FileRow(e1, k1, modB, dev, "x"), FileRow(e1, k2, modB, prd, "y")},
      {FileRow(e1, k1, modA, uat, "x"), FileRow(e1, k1, modB, uat, "y"), FileRow(e1, None, modA, prd, "x")},
      {FileRow(e1, k1, modA, prd, "x"), FileRow(e2, k1, modB, prd, "x"), FileRow(e2, k1, modB, None, "x")},
      {FileRow(e1, k1, modA, dev, "x"), FileRow(e1, k2, modB, uat, "x")} }
=============================================================================
