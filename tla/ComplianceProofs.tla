-------------------------- MODULE ComplianceProofs --------------------------
(***************************************************************************)
(* Compliance: the direction of a row, the Kear of the other end and       *)
(* intra-app mean what the workbook says, for every rule and every input   *)
(* file. _rule_relationship is taken apart return by return (Returns); the *)
(* invariant ReportFits then says which input row each row of the report   *)
(* answers.                                                                *)
(***************************************************************************)
EXTENDS Compliance, FiniteSetTheorems, TLAPS

-----------------------------------------------------------------------------
(* Either end of a rule. *)

\* What a behaviour starts from.
InputFits ==
  /\ rule \in Policies /\ input \in Inputs

LEMMA InputTypes ==
  ASSUME InputFits
  PROVE  /\ rule \in Rule /\ input.microcosmos \in BOOLEAN
         /\ input.microcosmos => input.sources \subseteq Ownership
         /\ ~input.microcosmos => input.sources \subseteq Wanted
BY PoliciesAssumption, InputsAssumption DEF InputFits

\* The applications at an end are finitely many, and some may be names of groups.
LEMMA RemoteTypes ==
  ASSUME NEW side \in Side, NEW local
  PROVE  /\ RemoteApps(side, local) \subseteq Apps \cup GroupNames
         /\ IsFiniteSet(RemoteApps(side, local))
<1>1. side.labels.apps \subseteq Apps \cup GroupNames
  BY DEF Side, Labels
<1>2. Members(side.groups) \subseteq Apps
  BY GroupsAssumption DEF Members
<1>3. RemoteApps(side, local) \in SUBSET (Apps \cup GroupNames)
  BY <1>1, <1>2 DEF RemoteApps, Explicit
<1>4. IsFiniteSet(Apps \cup GroupNames)
  BY ExportsAssumption, FS_Union
<1> QED BY <1>3, <1>4, FS_Subset

\* No other application is named at an end that counts as local.
LEMMA LocalEnd ==
  ASSUME NEW side, NEW local, SideKind(side, local) = "local"
  PROVE  RemoteApps(side, local) = {}
<1> DEFINE kinds == {k \in {"all", "iplist", "here", "remote"} :
                       \/ k = "all" /\ side.all
                       \/ k = "iplist" /\ side.iplists # {}
                       \/ k = "here" /\ local \in Explicit(side)
                       \/ k = "remote" /\ RemoteApps(side, local) # {}}
<1>1. SideKind(side, local) =
        CASE kinds = {} -> IF side.labels = Blank THEN "empty" ELSE "local"
          [] kinds # {} /\ kinds \subseteq {"all", "here"} -> "local"
          [] kinds = {"iplist"} -> "iplist"
          [] kinds = {"remote"} -> "remote_app"
          [] OTHER -> "ambiguous"
  BY DEF SideKind
<1>2. RemoteApps(side, local) # {} => "remote" \in kinds
  OBVIOUS
<1> HIDE DEF kinds
<1>3. SUFFICES ASSUME "remote" \in kinds PROVE FALSE
  BY <1>2
<1>4. kinds # {} /\ ~(kinds \subseteq {"all", "here"}) /\ kinds # {"iplist"}
  BY <1>3
<1>5. SideKind(side, local) \in {"remote_app", "ambiguous"}
  BY <1>1, <1>4
<1> QED BY <1>5

-----------------------------------------------------------------------------
(* Resolving a Kear. *)

LEMMA KearTypes ==
  ASSUME InputFits, NEW module, NEW envs
  PROVE  KearsIn(module, envs) \subseteq Kears /\ IsFiniteSet(KearsIn(module, envs))
<1>1. ASSUME input.microcosmos
      PROVE  KearsIn(module, envs) \subseteq Kears
  <2>1. input.sources \subseteq Ownership
    BY <1>1, InputTypes
  <2> QED BY <2>1 DEF KearsIn, Ownership
<1>2. KearsIn(module, envs) \in SUBSET Kears
  BY <1>1 DEF KearsIn
<1> QED BY <1>2, ExportsAssumption, FS_Subset

\* The Kears that could be meant: those of the environment, or else all of the module.
Meant(module, env) ==
  IF KearsIn(module, {env}) # {} THEN KearsIn(module, {env})
  ELSE KearsIn(module, Envs \cup {None})

\* A Kear is resolved only if no other could be meant.
LEMMA ResolveIsSure ==
  ASSUME InputFits, NEW module, NEW env \in Envs \cup {None}, Resolve(module, env).kear # None
  PROVE  Meant(module, env) = {Resolve(module, env).kear}
<1> DEFINE exact == KearsIn(module, {env})
           everywhere == KearsIn(module, Envs \cup {None})
           kears == IF exact # {} THEN exact ELSE everywhere
<1>1. exact \subseteq everywhere
  BY DEF KearsIn
<1>2. kears = Meant(module, env) /\ IsFiniteSet(kears)
  BY KearTypes DEF Meant
<1>3. Resolve(module, env) =
        CASE everywhere = {} -> [kear |-> None, warning |-> "REMOTE_KEAR_NOT_FOUND"]
          [] Cardinality(kears) = 1 -> [kear |-> CHOOSE k \in kears : TRUE, warning |-> ""]
          [] OTHER -> [kear |-> None, warning |-> "REMOTE_KEAR_AMBIGUOUS"]
  BY DEF Resolve
<1>4. everywhere = {} => kears = {}
  BY <1>1
<1> HIDE DEF exact, everywhere, kears
<1>5. Cardinality(kears) = 1 /\ everywhere # {}
  <2>1. ASSUME everywhere = {}
        PROVE  Resolve(module, env).kear = None
    <3>1. Cardinality(kears) = 0
      BY <1>4, <2>1, FS_EmptySet
    <3> QED BY <1>3, <2>1, <3>1
  <2>2. everywhere # {}
    BY <2>1
  <2>3. ASSUME Cardinality(kears) # 1
        PROVE  Resolve(module, env).kear = None
    BY <1>3, <2>2, <2>3
  <2> QED BY <2>2, <2>3
<1>6. Resolve(module, env) = [kear |-> CHOOSE k \in kears : TRUE, warning |-> ""]
  BY <1>3, <1>5
<1>7. PICK k : kears = {k}
  BY <1>2, <1>5, FS_Singleton
<1> DEFINE chosen == CHOOSE c \in kears : TRUE
           result == Resolve(module, env)
<1>8. chosen = k /\ result = [kear |-> chosen, warning |-> ""]
  BY <1>6, <1>7
<1> HIDE DEF chosen, result
<1>9. result.kear = k
  BY <1>8
<1> QED BY <1>2, <1>7, <1>9 DEF result

\* A Kear of the other end is that of the one application there.
LEMMA RemoteKearIsSure ==
  ASSUME InputFits, NEW remote \in SUBSET (Apps \cup GroupNames), IsFiniteSet(remote),
         NEW env \in Envs \cup {None}, RemoteKear(remote, env).kear # None
  PROVE  /\ input.microcosmos
         /\ \E a \in Apps : /\ remote = {a}
                            /\ Meant(ModuleOf[a], env) = {RemoteKear(remote, env).kear}
<1> DEFINE found == IF ~input.microcosmos THEN [kear |-> None, warning |-> "REMOTE_KEAR_UNAVAILABLE"]
                    ELSE LET x == CHOOSE a \in remote : TRUE
                         IN IF x \in Apps THEN Resolve(ModuleOf[x], env)
                            ELSE [kear |-> None, warning |-> "REMOTE_KEAR_NOT_FOUND"]
           none == remote = {}
           many == Cardinality(remote) > 1
           blank(warning) == [kear |-> None, warning |-> warning]
<1>1. RemoteKear(remote, env) = CASE none -> blank("") [] many -> blank("REMOTE_KEAR_AMBIGUOUS")
                                  [] OTHER -> found
  BY DEF RemoteKear
<1>2. Cardinality(remote) \in Nat /\ (none <=> Cardinality(remote) = 0)
  BY FS_EmptySet, FS_CardinalityType
<1>3. ~(none /\ many)
  BY <1>2
<1>4. \A warning : blank(warning).kear = None
  OBVIOUS
<1> HIDE DEF found, none, many, blank
<1>5. ~none /\ ~many /\ RemoteKear(remote, env) = found
  <2>1. none => RemoteKear(remote, env) = blank("")
    BY <1>1, <1>3
  <2>2. many => RemoteKear(remote, env) = blank("REMOTE_KEAR_AMBIGUOUS")
    BY <1>1, <1>3
  <2>3. ~none /\ ~many
    BY <1>4, <2>1, <2>2
  <2> QED BY <1>1, <2>3
<1>6. Cardinality(remote) = 1
  BY <1>2, <1>5 DEF many
<1>7. PICK x : remote = {x}
  BY <1>6, FS_Singleton
<1>8. (CHOOSE a \in remote : TRUE) = x
  BY <1>7
<1>9. found.kear # None
  BY <1>5
<1>10. input.microcosmos /\ x \in Apps /\ found = Resolve(ModuleOf[x], env)
  BY <1>8, <1>9 DEF found
<1> QED BY <1>5, <1>7, <1>9, <1>10, ResolveIsSure

-----------------------------------------------------------------------------
(* The relationship of a rule with an input row, return by return. *)

\* What _rule_relationship says of the other end, in the direction it is.
RemoteOf(end, local) == IF SideKind(end, local) = "iplist" THEN {} ELSE RemoteApps(end, local)
EndOf(x, direction) == IF direction = "incoming" THEN x.src ELSE x.dst
Way(x, local) == Direction(SideKind(x.src, local), SideKind(x.dst, local))
Early(x, app) ==
  FoundOpposite(x, app, x.src, x.dst) \/ FoundOpposite(x, app, x.dst, x.src) \/ Tactical(x, app)
Told(kear, way, warning) == [kear |-> kear, direction |-> way, warning |-> warning]

LEMMA ToldFields ==
  \A result, kear, way, warning :
    result = Told(kear, way, warning) =>
      result.kear = kear /\ result.direction = way /\ result.warning = warning
<1> TAKE result, kear, way, warning
<1> HAVE result = Told(kear, way, warning)
<1> QED BY DEF Told

LEMMA Returns ==
  ASSUME NEW x, NEW row, NEW env
  PROVE  LET local == LocalApp(x, row.app)
             both == SideKind(x.src, local) = "local" /\ SideKind(x.dst, local) = "local"
             way == Way(x, local)
             found == RemoteKear(RemoteOf(EndOf(x, way), local), env)
         IN /\ FoundOpposite(x, row.app, x.src, x.dst) =>
                 Relationship(x, row, env) = Told(None, "outgoing", "")
            /\ FoundOpposite(x, row.app, x.dst, x.src) =>
                 Relationship(x, row, env) = Told(None, "incoming", "")
            /\ Tactical(x, row.app) => Relationship(x, row, env) = Told(None, "outgoing", "")
            /\ ~Early(x, row.app) /\ local = None =>
                 Relationship(x, row, env) = Told(None, "undetermined", "LOCAL_SCOPE_UNDETERMINED")
            /\ ~Early(x, row.app) /\ local # None /\ both =>
                 Relationship(x, row, env) = Told(row.kear, "intra-app", "")
            /\ ~Early(x, row.app) /\ local # None /\ ~both /\ way = "undetermined" =>
                 Relationship(x, row, env) = Told(None, "undetermined", "DIRECTION_UNDETERMINED")
            /\ ~Early(x, row.app) /\ local # None /\ ~both /\ way # "undetermined" =>
                 Relationship(x, row, env) =
                   Told(found.kear, IF SameKear(found.kear, row.kear) THEN "intra-app" ELSE way,
                        found.warning)
<1> DEFINE local == LocalApp(x, row.app)
           src == SideKind(x.src, local)
           dst == SideKind(x.dst, local)
           way == Way(x, local)
           found == RemoteKear(RemoteOf(EndOf(x, way), local), env)
           first == FoundOpposite(x, row.app, x.src, x.dst)
           second == FoundOpposite(x, row.app, x.dst, x.src)
           third == Tactical(x, row.app)
           last == IF local = None THEN Told(None, "undetermined", "LOCAL_SCOPE_UNDETERMINED")
                   ELSE IF src = "local" /\ dst = "local" THEN Told(row.kear, "intra-app", "")
                   ELSE IF way = "undetermined"
                        THEN Told(None, way, "DIRECTION_UNDETERMINED")
                   ELSE Told(found.kear,
                             IF SameKear(found.kear, row.kear) THEN "intra-app" ELSE way,
                             found.warning)
<1>1. Relationship(x, row, env) =
        CASE first -> Told(None, "outgoing", "")
          [] second -> Told(None, "incoming", "")
          [] third -> Told(None, "outgoing", "")
          [] OTHER -> last
  BY DEF Relationship, Told, RemoteOf, EndOf, Way
<1>2. ~(first /\ second) /\ ~(second /\ third)
  BY DEF FoundOpposite, Tactical
<1>3. Early(x, row.app) <=> first \/ second \/ third
  BY DEF Early
<1> HIDE DEF first, second, third, last
<1>4. first => Relationship(x, row, env) = Told(None, "outgoing", "")
  BY <1>1, <1>2
<1>5. second => Relationship(x, row, env) = Told(None, "incoming", "")
  BY <1>1, <1>2
<1>6. third => Relationship(x, row, env) = Told(None, "outgoing", "")
  BY <1>1, <1>2
<1>7. ~Early(x, row.app) => Relationship(x, row, env) = last
  BY <1>1, <1>3
<1> HIDE DEF local, src, dst, way, found
<1>8. /\ local = None => last = Told(None, "undetermined", "LOCAL_SCOPE_UNDETERMINED")
      /\ local # None /\ src = "local" /\ dst = "local" => last = Told(row.kear, "intra-app", "")
      /\ local # None /\ ~(src = "local" /\ dst = "local") /\ way = "undetermined" =>
           last = Told(None, "undetermined", "DIRECTION_UNDETERMINED")
      /\ local # None /\ ~(src = "local" /\ dst = "local") /\ way # "undetermined" =>
           last = Told(found.kear, IF SameKear(found.kear, row.kear) THEN "intra-app" ELSE way,
                       found.warning)
  BY DEF last
<1> QED BY <1>4, <1>5, <1>6, <1>7, <1>8 DEF first, second, third, local, src, dst, way, found

\* The early returns, and those without a direction, resolve no Kear.
LEMMA NoKearReturns ==
  ASSUME NEW x, NEW row, NEW env,
         Early(x, row.app) \/ LocalApp(x, row.app) = None
           \/ (/\ Way(x, LocalApp(x, row.app)) = "undetermined"
               /\ ~(/\ SideKind(x.src, LocalApp(x, row.app)) = "local"
                    /\ SideKind(x.dst, LocalApp(x, row.app)) = "local"))
  PROVE  /\ Relationship(x, row, env).kear = None
         /\ Relationship(x, row, env).direction \in {"incoming", "outgoing", "undetermined"}
<1> DEFINE rel == Relationship(x, row, env)
<1>1. \/ rel = Told(None, "outgoing", "")
      \/ rel = Told(None, "incoming", "")
      \/ rel = Told(None, "undetermined", "LOCAL_SCOPE_UNDETERMINED")
      \/ rel = Told(None, "undetermined", "DIRECTION_UNDETERMINED")
  <2>1. CASE Early(x, row.app)
    BY <2>1, Returns DEF Early
  <2>2. CASE ~Early(x, row.app) /\ LocalApp(x, row.app) = None
    BY <2>2, Returns
  <2>3. CASE ~Early(x, row.app) /\ LocalApp(x, row.app) # None
    BY <2>3, Returns
  <2> QED BY <2>1, <2>2, <2>3
<1> HIDE DEF rel
<1>2. rel.kear = None /\ rel.direction \in {"incoming", "outgoing", "undetermined"}
  BY <1>1, ToldFields
<1> QED BY <1>2 DEF rel

\* What the other end is called, when one is: not of the local application.
LEMMA WayOfEnds ==
  ASSUME NEW x \in Rule, NEW local, Way(x, local) # "undetermined"
  PROVE  /\ Way(x, local) \in {"incoming", "outgoing"} /\ EndOf(x, Way(x, local)) \in Side
         /\ EndOf(x, Way(x, local)) \in {x.src, x.dst}
         /\ \A end \in {x.src, x.dst} :
              end = EndOf(x, Way(x, local)) \/ RemoteApps(end, local) = {}
<1>1. x.src \in Side /\ x.dst \in Side
  BY DEF Rule
<1>2. CASE Way(x, local) = "incoming"
  <2>1. SideKind(x.dst, local) = "local"
    BY <1>2 DEF Way, Direction
  <2> QED BY <1>1, <1>2, <2>1, LocalEnd DEF EndOf
<1>3. CASE Way(x, local) # "incoming"
  <2>1. SideKind(x.src, local) = "local" /\ Way(x, local) = "outgoing"
    BY <1>3 DEF Way, Direction
  <2> QED BY <1>1, <2>1, LocalEnd DEF EndOf
<1> QED BY <1>2, <1>3

\* Where a Kear in a row comes from: the row itself, or the one application at the other
\* end, all of whose Kears that could be meant are this one.
LEMMA WhereKearsComeFrom ==
  ASSUME InputFits, NEW row, NEW env \in Envs \cup {None},
         Relationship(rule, row, env).kear # None
  PROVE  LET local == LocalApp(rule, row.app)
             result == Relationship(rule, row, env)
         IN \/ /\ result.kear = row.kear
               /\ \A end \in {rule.src, rule.dst} : RemoteApps(end, local) = {}
            \/ /\ input.microcosmos
               /\ result.direction = "intra-app" => result.kear = row.kear
               /\ \E a \in Apps : /\ Meant(ModuleOf[a], env) = {result.kear}
                                  /\ RemoteApps(rule.src, local) \cup RemoteApps(rule.dst, local) = {a}
<1> DEFINE local == LocalApp(rule, row.app)
           both == SideKind(rule.src, local) = "local" /\ SideKind(rule.dst, local) = "local"
           way == Way(rule, local)
           found == RemoteKear(RemoteOf(EndOf(rule, way), local), env)
<1>1. rule \in Rule
  BY InputTypes
<1>2. ~Early(rule, row.app) /\ local # None /\ (both \/ way # "undetermined")
  BY NoKearReturns
<1>3. CASE both
  <2>1. Relationship(rule, row, env) = Told(row.kear, "intra-app", "")
    BY <1>2, <1>3, Returns
  <2>2. Relationship(rule, row, env).kear = row.kear
    BY <2>1, ToldFields
  <2>3. \A end \in {rule.src, rule.dst} : RemoteApps(end, local) = {}
    BY <1>3, LocalEnd
  <2> QED BY <2>2, <2>3
<1>4. CASE ~both
  <2>1. Relationship(rule, row, env) =
          Told(found.kear, IF SameKear(found.kear, row.kear) THEN "intra-app" ELSE way,
               found.warning)
    BY <1>2, <1>4, Returns
  <2>2. way \in {"incoming", "outgoing"}
    BY <1>1, <1>2, <1>4, WayOfEnds
  <2> DEFINE end == EndOf(rule, way)
  <2>3. /\ end \in Side /\ end \in {rule.src, rule.dst}
        /\ \A other \in {rule.src, rule.dst} : other = end \/ RemoteApps(other, local) = {}
    BY <1>1, <1>2, <1>4, WayOfEnds
  <2>4. /\ Relationship(rule, row, env).kear = found.kear
        /\ Relationship(rule, row, env).direction = "intra-app" => found.kear = row.kear
    BY <2>1, <2>2 DEF Told, SameKear
  <2>5. RemoteOf(end, local) \in SUBSET (Apps \cup GroupNames) /\ IsFiniteSet(RemoteOf(end, local))
    BY <2>3, RemoteTypes, FS_EmptySet DEF RemoteOf
  <2> HIDE DEF end
  <2>6. found = RemoteKear(RemoteOf(end, local), env)
    BY DEF end
  <2> HIDE DEF found
  <2>7. PICK a \in Apps : /\ input.microcosmos /\ RemoteOf(end, local) = {a}
                          /\ Meant(ModuleOf[a], env) = {found.kear}
    BY <2>4, <2>5, <2>6, RemoteKearIsSure
  <2>8. RemoteApps(end, local) = {a}
    BY <2>7 DEF RemoteOf
  <2>9. RemoteApps(rule.src, local) \cup RemoteApps(rule.dst, local) = {a}
    BY <2>3, <2>8
  <2> QED BY <2>4, <2>7, <2>9
<1> QED BY <1>3, <1>4

\* The direction is one of four.
LEMMA DirectionTypes ==
  ASSUME NEW x \in Rule, NEW row, NEW env
  PROVE  Relationship(x, row, env).direction \in {"incoming", "outgoing", "intra-app", "undetermined"}
<1> DEFINE local == LocalApp(x, row.app)
           both == SideKind(x.src, local) = "local" /\ SideKind(x.dst, local) = "local"
           found == RemoteKear(RemoteOf(EndOf(x, Way(x, local)), local), env)
           rel == Relationship(x, row, env)
           ways == {"incoming", "outgoing", "intra-app", "undetermined"}
<1>0. ASSUME NEW kear, NEW way \in ways, NEW warning, rel = Told(kear, way, warning)
      PROVE  rel.direction \in ways
  <2> HIDE DEF rel, ways
  <2>1. rel.direction = way
    BY <1>0, ToldFields
  <2> QED BY <2>1
<1>1. Way(x, local) \in {"incoming", "outgoing", "undetermined"}
  BY DEF Way, Direction
<1>2. CASE Early(x, row.app) \/ local = None \/ (Way(x, local) = "undetermined" /\ ~both)
  BY <1>2, NoKearReturns
<1>3. CASE ~Early(x, row.app) /\ local # None /\ both
  <2>1. rel = Told(row.kear, "intra-app", "") /\ "intra-app" \in ways
    BY <1>3, Returns
  <2> HIDE DEF rel, ways
  <2> QED BY <1>0, <2>1 DEF rel, ways
<1>4. CASE ~Early(x, row.app) /\ local # None /\ ~both /\ Way(x, local) # "undetermined"
  <2> DEFINE way == IF SameKear(found.kear, row.kear) THEN "intra-app" ELSE Way(x, local)
  <2>1. rel = Told(found.kear, way, found.warning)
    BY <1>4, Returns
  <2>2. way \in ways
    BY <1>1
  <2> HIDE DEF found, local, way, rel, ways
  <2> QED BY <1>0, <2>1, <2>2 DEF rel, ways
<1> QED BY <1>2, <1>3, <1>4

\* Intra-app without a Kear: then no other application is named at either end.
LEMMA IntraAppHasKear ==
  ASSUME NEW x \in Rule, NEW row, NEW env, Relationship(x, row, env).direction = "intra-app",
         RemoteApps(x.src, LocalApp(x, row.app)) \cup RemoteApps(x.dst, LocalApp(x, row.app)) # {}
  PROVE  Relationship(x, row, env).kear # None
<1> DEFINE local == LocalApp(x, row.app)
           both == SideKind(x.src, local) = "local" /\ SideKind(x.dst, local) = "local"
           found == RemoteKear(RemoteOf(EndOf(x, Way(x, local)), local), env)
           way == Way(x, local)
           rel == Relationship(x, row, env)
           same == SameKear(found.kear, row.kear)
<1>1. ~both
  BY LocalEnd
<1>2. ~Early(x, row.app) /\ local # None /\ way # "undetermined"
  BY <1>1, NoKearReturns
<1>3. rel = Told(found.kear, IF same THEN "intra-app" ELSE way, found.warning)
  BY <1>1, <1>2, Returns
<1>4. way # "intra-app" /\ (same => found.kear # None)
  BY DEF Way, Direction, SameKear
<1>5. rel.direction = "intra-app"
  OBVIOUS
<1> HIDE DEF rel, way, same, found
<1>6. same /\ rel.kear = found.kear
  <2> DEFINE said == IF same THEN "intra-app" ELSE way
             kear == found.kear
             warning == found.warning
  <2>1. rel = Told(kear, said, warning)
    BY <1>3
  <2> HIDE DEF said, kear, warning
  <2>2. rel.kear = kear /\ rel.direction = said
    BY <2>1, ToldFields
  <2> QED BY <1>4, <1>5, <2>2 DEF said, kear
<1>7. rel.kear # None
  BY <1>4, <1>6
<1> QED BY <1>7 DEF rel

\* A result is a record of three fields.
LEMMA RelationshipIsTold ==
  ASSUME NEW x, NEW row, NEW env
  PROVE  \E kear, way, warning : Relationship(x, row, env) = Told(kear, way, warning)
<1> DEFINE local == LocalApp(x, row.app)
           both == SideKind(x.src, local) = "local" /\ SideKind(x.dst, local) = "local"
           way == Way(x, local)
           found == RemoteKear(RemoteOf(EndOf(x, way), local), env)
           last == IF SameKear(found.kear, row.kear) THEN "intra-app" ELSE way
           rel == Relationship(x, row, env)
<1>1. CASE Early(x, row.app) \/ local = None \/ both \/ way = "undetermined"
  <2>1. \/ rel = Told(None, "outgoing", "")
        \/ rel = Told(None, "incoming", "")
        \/ rel = Told(None, "undetermined", "LOCAL_SCOPE_UNDETERMINED")
        \/ rel = Told(row.kear, "intra-app", "")
        \/ rel = Told(None, "undetermined", "DIRECTION_UNDETERMINED")
    <3>1. CASE Early(x, row.app)
      BY <3>1, Returns DEF Early
    <3>2. CASE ~Early(x, row.app)
      BY <1>1, <3>2, Returns
    <3> QED BY <3>1, <3>2
  <2> HIDE DEF rel
  <2>2. \E kear, said, warning : rel = Told(kear, said, warning)
    BY <2>1
  <2> QED BY <2>2 DEF rel
<1>2. CASE ~(Early(x, row.app) \/ local = None \/ both \/ way = "undetermined")
  <2>1. rel = Told(found.kear, last, found.warning)
    BY <1>2, Returns
  <2> HIDE DEF rel, last, found
  <2>2. \E kear, said, warning : rel = Told(kear, said, warning)
    BY <2>1
  <2> QED BY <2>2 DEF rel
<1> QED BY <1>1, <1>2

-----------------------------------------------------------------------------
(* Source and destination exchanged. *)

LEMMA MirrorParts ==
  ASSUME NEW x \in Rule
  PROVE  /\ Mirror(x) \in Rule
         /\ Mirror(x).src = x.dst /\ Mirror(x).dst = x.src
         /\ Mirror(x).scope = x.scope /\ Mirror(x).name = x.name
BY DEF Mirror, Rule

\* All that _rule_relationship looks at is exchanged, or stays as it is.
LEMMA MirrorLooks ==
  ASSUME NEW x \in Rule, x.name # "OUTBOUND2APA", NEW app
  PROVE  /\ LocalApp(Mirror(x), app) = LocalApp(x, app)
         /\ ~Tactical(x, app) /\ ~Tactical(Mirror(x), app)
         /\ FoundOpposite(Mirror(x), app, Mirror(x).src, Mirror(x).dst)
              <=> FoundOpposite(x, app, x.dst, x.src)
         /\ FoundOpposite(Mirror(x), app, Mirror(x).dst, Mirror(x).src)
              <=> FoundOpposite(x, app, x.src, x.dst)
<1>1. LocalApp(Mirror(x), app) = LocalApp(x, app)
  <2> DEFINE scope == Expanded(x.scope, {})
             other == Expanded(Mirror(x).scope, {})
             one(apps) == IF app \in apps THEN app
                          ELSE IF Cardinality(apps) = 1 THEN CHOOSE a \in apps : TRUE ELSE None
  <2>1. scope = other
    BY MirrorParts
  <2>2. LocalApp(x, app) = one(scope) /\ LocalApp(Mirror(x), app) = one(other)
    BY DEF LocalApp
  <2> HIDE DEF scope, other, one
  <2> QED BY <2>1, <2>2
<1>2. ~Tactical(x, app) /\ ~Tactical(Mirror(x), app)
  BY MirrorParts DEF Tactical
<1>3. \A here, there : FoundOpposite(Mirror(x), app, here, there)
                         <=> FoundOpposite(x, app, here, there)
  BY MirrorParts DEF FoundOpposite
<1> QED BY <1>1, <1>2, <1>3, MirrorParts

LEMMA MirrorWay ==
  ASSUME NEW x \in Rule, NEW local
  PROVE  /\ Way(Mirror(x), local) = Opposite(Way(x, local))
         /\ Way(x, local) # "undetermined" =>
              EndOf(Mirror(x), Way(Mirror(x), local)) = EndOf(x, Way(x, local))
<1> DEFINE src == SideKind(x.src, local)
           dst == SideKind(x.dst, local)
<1>1. Way(x, local) = Direction(src, dst) /\ Way(Mirror(x), local) = Direction(dst, src)
  BY MirrorParts DEF Way
<1> HIDE DEF src, dst
<1>2. Direction(dst, src) = Opposite(Direction(src, dst))
      /\ Direction(src, dst) \in {"incoming", "outgoing", "undetermined"}
  BY DEF Direction, Opposite
<1> QED BY <1>1, <1>2, MirrorParts DEF EndOf, Opposite

\* Exchanging the ends exchanges incoming and outgoing and changes nothing else.
LEMMA MirrorTurns ==
  ASSUME NEW x \in Rule, x.name # "OUTBOUND2APA", NEW row, NEW env
  PROVE  LET result == Relationship(x, row, env)
         IN Relationship(Mirror(x), row, env) =
              Told(result.kear, Opposite(result.direction), result.warning)
<1> DEFINE local == LocalApp(x, row.app)
           y == Mirror(x)
           here == Relationship(x, row, env)
           there == Relationship(y, row, env)
           both(z) == SideKind(z.src, local) = "local" /\ SideKind(z.dst, local) = "local"
           found(z) == RemoteKear(RemoteOf(EndOf(z, Way(z, local)), local), env)
<1>1. /\ y.src = x.dst /\ y.dst = x.src /\ LocalApp(y, row.app) = local
      /\ ~Tactical(x, row.app) /\ ~Tactical(y, row.app)
      /\ FoundOpposite(y, row.app, y.src, y.dst) <=> FoundOpposite(x, row.app, x.dst, x.src)
      /\ FoundOpposite(y, row.app, y.dst, y.src) <=> FoundOpposite(x, row.app, x.src, x.dst)
  BY MirrorParts, MirrorLooks
<1>2. (Early(y, row.app) <=> Early(x, row.app)) /\ (both(y) <=> both(x))
  BY <1>1 DEF Early
<1>3. Way(y, local) = Opposite(Way(x, local))
      /\ (Way(x, local) # "undetermined" => found(y) = found(x))
  BY MirrorWay
<1>4. ASSUME NEW kear, NEW way, NEW warning,
             here = Told(kear, way, warning), there = Told(kear, Opposite(way), warning)
      PROVE  there = Told(here.kear, Opposite(here.direction), here.warning)
  BY <1>4, ToldFields
<1>5. CASE FoundOpposite(x, row.app, x.src, x.dst)
  <2>1. here = Told(None, "outgoing", "") /\ there = Told(None, "incoming", "")
    BY <1>1, <1>5, Returns
  <2>2. Opposite("outgoing") = "incoming"
    BY DEF Opposite
  <2> QED BY <1>4, <2>1, <2>2
<1>6. CASE FoundOpposite(x, row.app, x.dst, x.src)
  <2>1. here = Told(None, "incoming", "") /\ there = Told(None, "outgoing", "")
    BY <1>1, <1>6, Returns
  <2>2. Opposite("incoming") = "outgoing"
    BY DEF Opposite
  <2> QED BY <1>4, <2>1, <2>2
<1>7. CASE ~Early(x, row.app) /\ local = None
  <2>1. /\ here = Told(None, "undetermined", "LOCAL_SCOPE_UNDETERMINED")
        /\ there = Told(None, "undetermined", "LOCAL_SCOPE_UNDETERMINED")
    BY <1>1, <1>2, <1>7, Returns
  <2>2. Opposite("undetermined") = "undetermined"
    BY DEF Opposite
  <2> QED BY <1>4, <2>1, <2>2
<1>8. CASE ~Early(x, row.app) /\ local # None /\ both(x)
  <2>1. here = Told(row.kear, "intra-app", "") /\ there = Told(row.kear, "intra-app", "")
    BY <1>1, <1>2, <1>8, Returns
  <2>2. Opposite("intra-app") = "intra-app"
    BY DEF Opposite
  <2> QED BY <1>4, <2>1, <2>2
<1>9. CASE ~Early(x, row.app) /\ local # None /\ ~both(x) /\ Way(x, local) = "undetermined"
  <2>1. Opposite("undetermined") = "undetermined"
    BY DEF Opposite
  <2>2. /\ here = Told(None, "undetermined", "DIRECTION_UNDETERMINED")
        /\ there = Told(None, "undetermined", "DIRECTION_UNDETERMINED")
    BY <1>1, <1>2, <1>3, <1>9, <2>1, Returns
  <2> QED BY <1>4, <2>1, <2>2
<1>10. CASE ~Early(x, row.app) /\ local # None /\ ~both(x) /\ Way(x, local) # "undetermined"
  <2>1. Way(x, local) \in {"incoming", "outgoing"}
    BY <1>10, WayOfEnds
  <2>2. Way(y, local) # "undetermined" /\ found(y) = found(x)
    BY <1>3, <1>10, <2>1 DEF Opposite
  <2> DEFINE seen == found(x)
             same == SameKear(seen.kear, row.kear)
             way == IF same THEN "intra-app" ELSE Way(x, local)
             back == IF same THEN "intra-app" ELSE Way(y, local)
  <2>3. here = Told(seen.kear, way, seen.warning)
    BY <1>10, Returns
  <2>4. there = Told(seen.kear, back, seen.warning)
    BY <1>1, <1>2, <1>10, <2>2, Returns
  <2>5. back = Opposite(way)
    BY <1>3, <2>1 DEF Opposite
  <2> HIDE DEF way, back, seen
  <2> QED BY <1>4, <2>3, <2>4, <2>5
<1> QED BY <1>1, <1>5, <1>6, <1>7, <1>8, <1>9, <1>10 DEF Early
-----------------------------------------------------------------------------
(* The rows of the report. *)

\* A row of the report: of an input row without match, or matched in one environment.
RowFits(r, row) ==
  \/ r = Unmatched(row)
  \/ row.app # None /\ \E env \in Envs \cup {None} : r = Matched(row, env)

\* What every step keeps: each row of the report is that of an input row already looked at.
ReportFits ==
  /\ InputFits
  /\ todo \in Seq(Prepared) /\ IsInjective(todo)
  /\ \A r \in rows : \E row \in Prepared \ ToSet(todo) : RowFits(r, row)
  /\ sheets # <<>> => todo = <<>> /\ sheets = Partition

Row == [app: Apps \cup {None}, env: Envs \cup {None}, kear: Kears \cup {None}]

\* A record for each of finitely many applications, environments and Kears.
LEMMA FiniteRows == IsFiniteSet(Row)
<1> DEFINE A == Apps \cup {None}
           E == Envs \cup {None}
           K == Kears \cup {None}
           product == (A \X E) \X K
           made == [p \in product |-> [app |-> p[1][1], env |-> p[1][2], kear |-> p[2]]]
<1>1. IsFiniteSet(A) /\ IsFiniteSet(E) /\ IsFiniteSet(K)
  BY ExportsAssumption, FS_AddElement
<1>2. IsFiniteSet(product)
  <2> HIDE DEF A, E, K
  <2>1. IsFiniteSet(A \X E)
    BY <1>1, FS_Product
  <2> QED BY <1>1, <2>1, FS_Product
<1>3. made \in [product -> Row]
  BY DEF Row
<1>4. \A row \in Row : \E p \in product : made[p] = row
  <2> TAKE row \in Row
  <2>1. <<<<row.app, row.env>>, row.kear>> \in product
    BY DEF Row
  <2>2. made[<<<<row.app, row.env>>, row.kear>>] = row
    BY <2>1 DEF Row
  <2> QED BY <2>1, <2>2
<1> HIDE DEF product, made
<1>5. made \in Surjection(product, Row)
  BY <1>3, <1>4 DEF Surjection
<1> QED BY <1>2, <1>5, FS_Surjection

\* The rows of an input; those of an ownership file name a Kear of their own module.
LEMMA PreparedTypes ==
  ASSUME InputFits
  PROVE  /\ Prepared \subseteq Row /\ IsFiniteSet(Prepared)
         /\ \A row \in Prepared :
              input.microcosmos /\ row.app # None /\ row.kear # None =>
                row.kear \in KearsIn(ModuleOf[row.app], Envs \cup {None})
<1>1. CASE input.microcosmos
  <2>1. input.sources \subseteq Ownership
    BY <1>1, InputTypes
  <2>2. \A module : AppsOf(module) \subseteq Apps \cup {None}
    BY DEF AppsOf
  <2>3. ASSUME NEW row \in Prepared
        PROVE  /\ row \in Row
               /\ row.app # None /\ row.kear # None =>
                    row.kear \in KearsIn(ModuleOf[row.app], Envs \cup {None})
    <3>0. PICK s \in input.sources : row \in {[app |-> a, env |-> s.env, kear |-> s.kear] :
                                              a \in AppsOf(s.module)}
      BY <1>1, <2>3 DEF Prepared
    <3>1. PICK a \in AppsOf(s.module) : row = [app |-> a, env |-> s.env, kear |-> s.kear]
      BY <3>0
    <3>2. s \in Ownership /\ a \in Apps \cup {None}
      BY <2>1, <2>2
    <3>3. row \in Row
      BY <3>1, <3>2 DEF Row, Ownership
    <3>4. ASSUME a # None, s.kear # None
          PROVE  s.kear \in KearsIn(ModuleOf[a], Envs \cup {None})
      <4>1. ModuleOf[a] = s.module
        BY <3>4 DEF AppsOf
      <4> QED BY <1>1, <3>2, <3>4, <4>1 DEF KearsIn, Ownership
    <3> QED BY <3>1, <3>3, <3>4
  <2> QED BY <2>3, FiniteRows, FS_Subset
<1>2. CASE ~input.microcosmos
  <2>1. input.sources \subseteq Wanted
    BY <1>2, InputTypes
  <2>2. Prepared \subseteq Row
    BY <1>2, <2>1 DEF Prepared, Wanted, Row
  <2> QED BY <1>2, <2>2, FiniteRows, FS_Subset
<1> QED BY <1>1, <1>2

\* SetToSeq names each element of a finite set once.
LEMMA InOneOrder ==
  ASSUME NEW S, IsFiniteSet(S)
  PROVE  SetToSeq(S) \in Seq(S) /\ IsInjective(SetToSeq(S))
<1>1. \E f \in [1..Cardinality(S) -> S] : IsInjective(f)
  BY FS_CardinalityType DEF ExistsBijection, Bijection, Injection, IsInjective
<1>2. SetToSeq(S) \in [1..Cardinality(S) -> S] /\ IsInjective(SetToSeq(S))
  BY <1>1 DEF SetToSeq
<1> QED BY <1>2, FS_CardinalityType

\* The first input row is not looked at again.
LEMMA LookedAt ==
  ASSUME NEW S, NEW s \in Seq(S), s # <<>>, IsInjective(s)
  PROVE  /\ Head(s) \in S /\ Head(s) \in ToSet(s)
         /\ Tail(s) \in Seq(S) /\ IsInjective(Tail(s))
         /\ ToSet(Tail(s)) \subseteq ToSet(s) \ {Head(s)}
<1>1. Tail(s) \in Seq(S) /\ Len(s) \in Nat \ {0} /\ Len(Tail(s)) = Len(s) - 1
  OBVIOUS
<1>2. \A i \in 1..Len(Tail(s)) : i + 1 \in 1..Len(s) /\ i + 1 # 1 /\ Tail(s)[i] = s[i + 1]
  BY <1>1
<1>3. DOMAIN s = 1..Len(s) /\ DOMAIN Tail(s) = 1..Len(Tail(s))
  BY <1>1
<1>4. Head(s) = s[1] /\ 1 \in DOMAIN s /\ s[1] \in S
  BY <1>1
<1>5. ToSet(Tail(s)) \subseteq ToSet(s) \ {Head(s)}
  BY <1>2, <1>3, <1>4 DEF ToSet, IsInjective
<1>6. IsInjective(Tail(s))
  <2> SUFFICES ASSUME NEW i \in 1..Len(Tail(s)), NEW j \in 1..Len(Tail(s)), Tail(s)[i] = Tail(s)[j]
               PROVE  i = j
    BY <1>3 DEF IsInjective
  <2>1. i + 1 = j + 1
    BY <1>2, <1>3 DEF IsInjective
  <2> QED BY <2>1
<1> QED BY <1>1, <1>4, <1>5, <1>6 DEF ToSet

LEMMA MatchedFields ==
  ASSUME NEW r, NEW row, NEW env, r = Matched(row, env)
  PROVE  /\ r.input = row /\ r.status = "MATCHED" /\ r.category = Category(rule)
         /\ r.env = env /\ r.result = Relationship(rule, row, env)
<1> DEFINE result == Relationship(rule, row, env)
           category == Category(rule)
<1>1. r = [input |-> row, status |-> "MATCHED", category |-> category, env |-> env,
           result |-> result]
  BY DEF Matched
<1> HIDE DEF result, category
<1>2. r.input = row /\ r.status = "MATCHED" /\ r.category = category
      /\ r.env = env /\ r.result = result
  BY <1>1
<1> QED BY <1>2 DEF result, category

LEMMA UnmatchedFields ==
  ASSUME NEW r, NEW row, r = Unmatched(row)
  PROVE  /\ r.input = row /\ r.status \in {"APP_NOT_FOUND", "NO_MATCH"}
         /\ r.result.kear = None /\ r.result.direction = ""
BY DEF Unmatched

-----------------------------------------------------------------------------
(* The invariant. *)

LEMMA StartFits == Init => ReportFits
<1> SUFFICES ASSUME Init PROVE ReportFits
  OBVIOUS
<1>1. InputFits
  BY DEF Init, InputFits
<1>2. todo \in Seq(Prepared) /\ IsInjective(todo)
  BY <1>1, PreparedTypes, InOneOrder DEF Init
<1> QED BY <1>1, <1>2 DEF Init, ReportFits

LEMMA EvaluateFits == ReportFits /\ Evaluate => ReportFits'
<1> SUFFICES ASSUME ReportFits, Evaluate PROVE ReportFits'
  OBVIOUS
<1> DEFINE head == Head(todo)
<1>1. rule' = rule /\ input' = input /\ sheets' = sheets /\ todo # <<>> /\ todo' = Tail(todo)
  BY DEF Evaluate
<1>2. InputFits /\ InputFits' /\ Prepared' = Prepared
  BY <1>1 DEF ReportFits, InputFits, Prepared
<1>3. /\ head \in Prepared /\ head \in ToSet(todo)
      /\ todo' \in Seq(Prepared) /\ IsInjective(todo')
      /\ ToSet(todo') \subseteq ToSet(todo) \ {head}
  BY <1>1, LookedAt DEF ReportFits
<1>4. \A r, row : RowFits(r, row)' <=> RowFits(r, row)
  <2>1. /\ \A row, env : Relationship(rule, row, env)' = Relationship(rule, row, env)
        /\ Category(rule)' = Category(rule)
    BY <1>1 DEF Relationship, RemoteKear, Resolve, KearsIn
  <2>2. \A row, env : Matched(row, env)' = Matched(row, env)
    BY <2>1 DEF Matched
  <2> QED BY <2>2 DEF RowFits, Unmatched
<1>5. \E r : RowFits(r, head) /\ rows' = rows \cup {r}
  <2>1. CASE head.app # None /\ Matches(rule, head.app, head.env)
    <3>1. PICK env \in IF rule.scope.envs = {} THEN {None} ELSE rule.scope.envs :
            rows' = rows \cup {Matched(head, env)}
      BY <2>1 DEF Evaluate
    <3>2. rule.scope.envs \subseteq Envs
      BY <1>2, InputTypes DEF Rule, Labels
    <3> QED BY <2>1, <3>1, <3>2 DEF RowFits
  <2>2. CASE ~(head.app # None /\ Matches(rule, head.app, head.env))
    BY <2>2 DEF Evaluate, RowFits
  <2> QED BY <2>1, <2>2
<1>6. \A r \in rows' : \E row \in Prepared \ ToSet(todo') : RowFits(r, row)
  BY <1>3, <1>5 DEF ReportFits
<1>7. sheets' = <<>>
  BY <1>1 DEF ReportFits
<1> QED BY <1>2, <1>3, <1>4, <1>6, <1>7 DEF ReportFits

LEMMA StepFits == ReportFits /\ [Next]_vars => ReportFits'
<1> SUFFICES ASSUME ReportFits, [Next]_vars PROVE ReportFits'
  OBVIOUS
<1>1. CASE Evaluate
  BY <1>1, EvaluateFits
<1>2. CASE Publish \/ UNCHANGED vars
  <2>1. UNCHANGED <<rule, input, todo, rows>>
    BY <1>2 DEF Publish, vars
  <2>2. /\ Prepared' = Prepared /\ Partition' = Partition /\ InputFits' = InputFits
        /\ \A r, row : RowFits(r, row)' = RowFits(r, row)
    BY <2>1 DEF Prepared, Partition, InputFits, RowFits, Unmatched, Matched, Relationship,
                RemoteKear, Resolve, KearsIn
  <2>3. sheets' # <<>> => todo' = <<>> /\ sheets' = Partition
    BY <1>2 DEF Publish, vars, ReportFits
  <2> QED BY <2>1, <2>2, <2>3 DEF ReportFits
<1> QED BY <1>1, <1>2 DEF Next

THEOREM ReportAlwaysFits == Spec => []ReportFits
BY StartFits, StepFits, PTL DEF Spec

-----------------------------------------------------------------------------
(* What the invariant says of the workbook. *)

\* Every row is on one of the three sheets.
LEMMA SheetsHoldAll == ReportFits => UNION {Partition[name] : name \in DOMAIN Partition} = rows
<1> SUFFICES ASSUME ReportFits PROVE UNION {Partition[name] : name \in DOMAIN Partition} = rows
  OBVIOUS
<1> DEFINE matched == {r \in rows : r.status \notin {"APP_NOT_FOUND", "NO_MATCH"}}
           business == {r \in matched : r.category \in {"business_rule", "strategic_rule"}}
           infra == {r \in matched : r.category = "infra_rule"}
           quality == rows \ matched
<1>1. ASSUME NEW r \in rows
      PROVE  \/ r.status \in {"APP_NOT_FOUND", "NO_MATCH"}
             \/ r.category \in {"business_rule", "strategic_rule", "infra_rule"}
  <2>1. PICK row \in Prepared : RowFits(r, row)
    BY DEF ReportFits
  <2>2. Category(rule) \in {"business_rule", "strategic_rule", "infra_rule"}
    BY DEF Category
  <2>3. CASE r = Unmatched(row)
    <3>1. r.status \in {"APP_NOT_FOUND", "NO_MATCH"}
      BY <2>3, UnmatchedFields
    <3> QED BY <3>1
  <2>4. CASE r # Unmatched(row)
    <3>1. PICK env : r = Matched(row, env)
      BY <2>1, <2>4 DEF RowFits
    <3>2. r.category = Category(rule)
      BY <3>1, MatchedFields
    <3> QED BY <2>2, <3>2
  <2> QED BY <2>3, <2>4
<1>2. business \cup infra \cup quality = rows
  BY <1>1
<1>3. Partition = [business |-> business, infra |-> infra, quality |-> quality]
  BY DEF Partition
<1> HIDE DEF business, infra, quality
<1>4. {Partition[name] : name \in DOMAIN Partition} = {business, infra, quality}
  BY <1>3
<1> QED BY <1>2, <1>4

LEMMA FitsTypes == ReportFits => TypeOK
<1> SUFFICES ASSUME ReportFits PROVE TypeOK
  OBVIOUS
<1>1. InputFits /\ rule \in Rule
  BY InputTypes DEF ReportFits
<1>2. ToSet(todo) \subseteq Prepared
  BY DEF ReportFits, ToSet
<1>3. ASSUME NEW r \in rows
      PROVE  /\ r.input \in Prepared \ ToSet(todo)
             /\ r.result.direction \in {"", "incoming", "outgoing", "intra-app", "undetermined"}
             /\ r.result.kear \in Kears \cup {None}
  <2>1. PICK row \in Prepared \ ToSet(todo) : RowFits(r, row)
    BY DEF ReportFits
  <2>2. CASE r = Unmatched(row)
    <3>1. r.input = row /\ r.result.kear = None /\ r.result.direction = ""
      BY <2>2, UnmatchedFields
    <3> QED BY <3>1
  <2>3. CASE r # Unmatched(row)
    <3>1. PICK env \in Envs \cup {None} : r = Matched(row, env)
      BY <2>1, <2>3 DEF RowFits
    <3>2. r.input = row /\ r.result = Relationship(rule, row, env)
      BY <3>1, MatchedFields
    <3>3. r.result.direction \in {"incoming", "outgoing", "intra-app", "undetermined"}
      BY <1>1, <3>2, DirectionTypes
    <3>4. row.kear \in Kears \cup {None}
      BY <1>1, PreparedTypes DEF Row
    <3>5. ASSUME r.result.kear # None
          PROVE  r.result.kear \in Kears
      <4>1. \/ r.result.kear = row.kear
            \/ \E a \in Apps : Meant(ModuleOf[a], env) = {r.result.kear}
        BY <1>1, <3>2, <3>5, WhereKearsComeFrom
      <4>2. \A module : Meant(module, env) \subseteq Kears
        BY <1>1, KearTypes DEF Meant
      <4> QED BY <3>4, <3>5, <4>1, <4>2
    <3> QED BY <2>1, <3>2, <3>3, <3>5
  <2> QED BY <2>2, <2>3
<1> QED BY <1>1, <1>2, <1>3, SheetsHoldAll DEF InputFits, ReportFits, TypeOK

\* Each row of the report answers an input row already looked at, with a direction of the
\* four and a Kear of the input, and once the workbook is written every row is on one of its
\* sheets (generate_compliance_workbook, _partition_compliance_rows).
THEOREM ComplianceTypes == Spec => []TypeOK
<1>1. ReportFits => TypeOK
  BY FitsTypes
<1> QED BY <1>1, ReportAlwaysFits, PTL

LEMMA FitsMirror == ReportFits => MirrorDirection
<1> SUFFICES ASSUME ReportFits, rule.name # "OUTBOUND2APA", NEW r \in rows, r.status = "MATCHED"
             PROVE  Relationship(Mirror(rule), r.input, r.env) =
                      [r.result EXCEPT !.direction = Opposite(r.result.direction)]
  BY DEF MirrorDirection
<1>1. rule \in Rule
  BY InputTypes DEF ReportFits
<1>2. PICK row \in Prepared : RowFits(r, row)
  BY DEF ReportFits
<1>3. PICK env : r = Matched(row, env)
  BY <1>2, UnmatchedFields DEF RowFits
<1>4. r.input = row /\ r.env = env /\ r.result = Relationship(rule, row, env)
  BY <1>3, MatchedFields
<1> DEFINE result == r.result
<1>5. Relationship(Mirror(rule), r.input, r.env) =
        Told(result.kear, Opposite(result.direction), result.warning)
  BY <1>1, <1>4, MirrorTurns
<1>6. \E kear, way, warning : result = Told(kear, way, warning)
  BY <1>1, <1>4, RelationshipIsTold
<1> HIDE DEF result
<1>7. [result EXCEPT !.direction = Opposite(result.direction)] =
        Told(result.kear, Opposite(result.direction), result.warning)
  <2>1. PICK kear, way, warning : result = Told(kear, way, warning)
    BY <1>6
  <2>2. result.kear = kear /\ result.direction = way /\ result.warning = warning
    BY <2>1, ToldFields
  <2> DEFINE back == Opposite(way)
  <2>3. [result EXCEPT !.direction = back] = Told(kear, back, warning)
    <3> HIDE DEF back
    <3> QED BY <2>1 DEF Told
  <2> QED BY <2>2, <2>3
<1> QED BY <1>5, <1>7 DEF result

\* Exchanging source and destination of a rule exchanges incoming and outgoing in every row
\* and changes neither the Kear of the other end nor the warnings (_rule_relationship).
THEOREM DirectionMirrors == Spec => []MirrorDirection
<1>1. ReportFits => MirrorDirection
  BY FitsMirror
<1> QED BY <1>1, ReportAlwaysFits, PTL

LEMMA FitsNoGuess == ReportFits => NoKearGuessed
<1> SUFFICES ASSUME ReportFits, NEW r \in rows, r.result.kear \notin {None, r.input.kear}
             PROVE  \E a \in Apps :
                      /\ a \in Explicit(rule.src) \cup Explicit(rule.dst)
                      /\ LET there == {s \in input.sources : s.module = ModuleOf[a] /\ s.kear # None}
                             exact == {s \in there : s.env = r.env}
                         IN \A s \in IF exact = {} THEN there ELSE exact : s.kear = r.result.kear
  BY DEF NoKearGuessed
<1>1. InputFits
  BY DEF ReportFits
<1>2. PICK row \in Prepared : RowFits(r, row)
  BY DEF ReportFits
<1>3. PICK env \in Envs \cup {None} : r = Matched(row, env)
  BY <1>2, UnmatchedFields DEF RowFits
<1>4. r.input = row /\ r.env = env /\ r.result = Relationship(rule, row, env)
  BY <1>3, MatchedFields
<1> DEFINE local == LocalApp(rule, row.app)
           remote == RemoteApps(rule.src, local) \cup RemoteApps(rule.dst, local)
<1>5. /\ input.microcosmos
      /\ \E a \in Apps : Meant(ModuleOf[a], env) = {r.result.kear} /\ remote = {a}
  <2> DEFINE result == Relationship(rule, row, env)
  <2>1. result.kear # None /\ result.kear # row.kear
    BY <1>4
  <2>2. /\ input.microcosmos
        /\ \E a \in Apps : Meant(ModuleOf[a], env) = {result.kear} /\ remote = {a}
    BY <1>1, <2>1, WhereKearsComeFrom
  <2> HIDE DEF result, remote
  <2> QED BY <1>4, <2>2 DEF result
<1>6. PICK a \in Apps : /\ Meant(ModuleOf[a], env) = {r.result.kear}
                        /\ a \in Explicit(rule.src) \cup Explicit(rule.dst)
  BY <1>5 DEF RemoteApps
<1> DEFINE there == {s \in input.sources : s.module = ModuleOf[a] /\ s.kear # None}
           exact == {s \in there : s.env = env}
<1>7. input.sources \subseteq Ownership
  BY <1>1, <1>5, InputTypes
<1>8. KearsIn(ModuleOf[a], {env}) = {s.kear : s \in exact}
  BY <1>5 DEF KearsIn
<1>9. KearsIn(ModuleOf[a], Envs \cup {None}) = {s.kear : s \in there}
  BY <1>5, <1>7 DEF KearsIn, Ownership
<1>10. \A s \in IF exact = {} THEN there ELSE exact : s.kear \in Meant(ModuleOf[a], env)
  BY <1>8, <1>9 DEF Meant
<1>11. \A s \in IF exact = {} THEN there ELSE exact : s.kear = r.result.kear
  BY <1>6, <1>10
<1> QED BY <1>4, <1>6, <1>11

\* A Kear that is not the row's own is one that only it could be: all Kears the input has for
\* the remote application, in its environment or else anywhere, are this one
\* (_resolve_remote_kear).
THEOREM NoKearIsGuessed == Spec => []NoKearGuessed
<1>1. ReportFits => NoKearGuessed
  BY FitsNoGuess
<1> QED BY <1>1, ReportAlwaysFits, PTL

LEMMA FitsIntraApp == ReportFits => OwnIntraAppIsTrue
<1> SUFFICES ASSUME ReportFits, NEW r \in rows, r.input.app \in Expanded(rule.scope, {}),
                    NEW a \in Apps, NEW b \in Apps, a # b, r.result.direction = "intra-app",
                    Expanded(rule.scope, {}) = {a},
                    b \in Explicit(rule.src) \cup Explicit(rule.dst)
             PROVE  KearsIn(ModuleOf[a], Envs \cup {None})
                      \cap KearsIn(ModuleOf[b], Envs \cup {None}) # {}
  BY DEF OwnIntraAppIsTrue, IntraAppKears
<1>1. InputFits /\ rule \in Rule
  BY InputTypes DEF ReportFits
<1>2. PICK row \in Prepared : RowFits(r, row)
  BY DEF ReportFits
<1>3. PICK env \in Envs \cup {None} : r = Matched(row, env)
  BY <1>2, UnmatchedFields DEF RowFits
<1>4. r.input = row /\ r.result = Relationship(rule, row, env)
  BY <1>3, MatchedFields
<1>5. row.app = a /\ a # None
  BY <1>4, NoneAssumption
<1>6. LocalApp(rule, row.app) = a
  BY <1>5 DEF LocalApp
<1> DEFINE remote == RemoteApps(rule.src, a) \cup RemoteApps(rule.dst, a)
<1>7. b \in remote
  BY DEF RemoteApps
<1>8. r.result.kear # None
  BY <1>1, <1>4, <1>6, <1>7, IntraAppHasKear
<1>9. /\ input.microcosmos /\ r.result.kear = row.kear
      /\ \E c \in Apps : Meant(ModuleOf[c], env) = {r.result.kear} /\ remote = {c}
  BY <1>1, <1>4, <1>6, <1>7, <1>8, WhereKearsComeFrom
<1>10. Meant(ModuleOf[b], env) = {row.kear}
  BY <1>7, <1>9
<1>11. row.kear \in KearsIn(ModuleOf[b], Envs \cup {None})
  <2>1. KearsIn(ModuleOf[b], {env}) \subseteq KearsIn(ModuleOf[b], Envs \cup {None})
    BY DEF KearsIn
  <2> QED BY <1>10, <2>1 DEF Meant
<1>12. row.kear \in KearsIn(ModuleOf[a], Envs \cup {None})
  BY <1>1, <1>5, <1>8, <1>9, PreparedTypes
<1> QED BY <1>11, <1>12

\* Intra-app in the row of the scope's own application: the application named at the other
\* end has a Kear in common with it (_rule_relationship, on equal Kears).
THEOREM OwnIntraAppHolds == Spec => []OwnIntraAppIsTrue
<1>1. ReportFits => OwnIntraAppIsTrue
  BY FitsIntraApp
<1> QED BY <1>1, ReportAlwaysFits, PTL

=============================================================================
