---------------------------- MODULE MCCompliance ----------------------------
(* A small instance of Compliance for TLC: three applications of two modules,   *)
(* an application group, two environments and two Kears; each end of a rule is  *)
(* one of the ways to write it, and an input has at most two rows.              *)
EXTENDS Compliance, TLC

CONSTANTS pay, crm, erp, modP, modC, prd, dev, k1, k2, grp, roleGrp

Module2 == pay :> modP @@ crm :> modC @@ erp :> modC
Groups2 == grp :> {crm} @@ roleGrp :> {}

Named(apps, envs) == [apps |-> apps, envs |-> envs, roles |-> FALSE]
Role == [apps |-> {}, envs |-> {}, roles |-> TRUE]
End(all, iplists, labels, groups) ==
  [all |-> all, iplists |-> iplists, labels |-> labels, groups |-> groups]
Ends ==
  { End(TRUE, {}, Blank, {}), End(FALSE, {"plain"}, Blank, {}), End(FALSE, {"ZNOT"}, Role, {}),
    End(FALSE, {}, Role, {}), End(FALSE, {}, Blank, {roleGrp}), End(FALSE, {}, Blank, {grp}),
    End(FALSE, {"plain"}, Named({pay}, {}), {}) }
  \cup { End(FALSE, {}, Named(apps, {prd}), {}) : apps \in {{pay}, {crm}, {erp}, {pay, crm}} }
Scopes ==
  { Named(apps, envs) : apps \in {{}, {pay}, {crm}, {pay, crm}, {grp}}, envs \in {{}, {prd, dev}} }
SomePolicies ==
  { [name |-> kind[1], strategic |-> kind[2], scope |-> scope, src |-> src, dst |-> dst] :
      kind \in {<<"GLOBAL", TRUE>>, <<"OUTBOUND2APA", FALSE>>},
      scope \in Scopes, src \in Ends, dst \in Ends }

Onboarded == [module: {modP, modC}, env: {prd, dev}, kear: {k1, k2}]
SomeInputs ==
  { [microcosmos |-> TRUE, sources |-> s] :
      s \in {t \in SUBSET Onboarded : /\ Cardinality(t) = 2
                                     /\ \E x \in t : x.module = modC /\ x.kear = k1} }
  \cup { [microcosmos |-> FALSE, sources |-> s] :
           s \in {{[app |-> pay, env |-> None], [app |-> crm, env |-> prd]}} }
=============================================================================
