----------------------------- MODULE Compliance -----------------------------
(***************************************************************************)
(* The rows of the compliance workbook (reporting/compliance.py): which    *)
(* rules an application row is shown, who is at the other end of each, in  *)
(* which direction, and on which sheet it lands.                           *)
(*                                                                         *)
(*  - A label is an application, an environment or a role; only            *)
(*    application groups are expanded, others have no Apps in them.        *)
(*  - Rules do not influence each other's rows: a policy is one rule.      *)
(*  - The environments of a scope are a Python set, and the code takes     *)
(*    the first: any of them.                                              *)
(***************************************************************************)
EXTENDS Integers, FiniteSets, SequencesExt

CONSTANTS
  Apps, Envs, Kears, Modules,
  ModuleOf,   \* the module in the name of an application, or None
  Groups,     \* the exported label groups: a function from name to members
  None,       \* an empty cell
  Policies,   \* the rules to look at
  Inputs      \* the input files to look at: whether Microcosmos, and the rows

GroupNames == DOMAIN Groups

ASSUME ModuleAssumption == ModuleOf \in [Apps -> Modules \cup {None}]
ASSUME GroupsAssumption ==
  /\ \A g \in GroupNames : Groups[g] \subseteq Apps
  /\ GroupNames \cap Apps = {}
ASSUME NoneAssumption == None \notin Apps \cup Envs \cup Kears \cup Modules \cup GroupNames
ASSUME ExportsAssumption ==
  IsFiniteSet(Apps) /\ IsFiniteSet(Envs) /\ IsFiniteSet(Kears) /\ IsFiniteSet(GroupNames)

\* A selector of labels: an application label may name a group.
Labels == [apps: SUBSET (Apps \cup GroupNames), envs: SUBSET Envs, roles: BOOLEAN]
Blank == [apps |-> {}, envs |-> {}, roles |-> FALSE]
Side == [all: BOOLEAN, iplists: SUBSET {"plain", "ZNOT"}, labels: Labels, groups: SUBSET GroupNames]
Rule == [name: {"plain", "GLOBAL", "OUTBOUND2APA"}, strategic: BOOLEAN,
         scope: Labels, src: Side, dst: Side]

\* A Microcosmos row names a module and its Kear; another input the application.
Ownership == [module: Modules, env: Envs \cup {None}, kear: Kears \cup {None}]
Wanted == [app: Apps, env: Envs \cup {None}]
ASSUME PoliciesAssumption == \A x \in Policies : x \in Rule
ASSUME InputsAssumption ==
  \A i \in Inputs : /\ i.microcosmos \in BOOLEAN
                    /\ i.sources \subseteq IF i.microcosmos THEN Ownership ELSE Wanted

VARIABLES
  rule, input,
  todo,     \* the input rows still to look at
  rows,     \* the rows of the report
  sheets    \* the sheets of the workbook once it is written, or <<>>

vars == <<rule, input, todo, rows, sheets>>

-----------------------------------------------------------------------------
(* Selecting the rules of an input row. *)

Members(names) == UNION {Groups[g] : g \in names \cap GroupNames}

\* _expanded_selector_labels: the name of a group stays beside its members.
Expanded(labels, groups) == labels.apps \cup Members(labels.apps) \cup Members(groups)

\* _rule_matches_scope: the application, and in the same field its environment.
Matches(x, app, env) ==
  \E field \in {<<x.scope, {}>>, <<x.src.labels, x.src.groups>>, <<x.dst.labels, x.dst.groups>>} :
    app \in Expanded(field[1], field[2]) /\ (env = None \/ env \in field[1].envs)

-----------------------------------------------------------------------------
(* Who is at the other end. *)

\* _side_relationship: the applications named, not those of a group in a label.
Explicit(side) == side.labels.apps \cup Members(side.groups)
RemoteApps(side, local) == Explicit(side) \ {local}
SideKind(side, local) ==
  LET kinds == {k \in {"all", "iplist", "here", "remote"} :
                  \/ k = "all" /\ side.all
                  \/ k = "iplist" /\ side.iplists # {}
                  \/ k = "here" /\ local \in Explicit(side)
                  \/ k = "remote" /\ RemoteApps(side, local) # {}}
  IN CASE kinds = {} -> IF side.labels = Blank THEN "empty" ELSE "local"
       [] kinds # {} /\ kinds \subseteq {"all", "here"} -> "local"
       [] kinds = {"iplist"} -> "iplist"
       [] kinds = {"remote"} -> "remote_app"
       [] OTHER -> "ambiguous"

\* _microcosmos_kear_lookup: the Kears of a module, in one environment or in all.
KearsIn(module, envs) ==
  IF input.microcosmos
  THEN {s.kear : s \in {t \in input.sources : t.module = module /\ t.env \in envs}} \ {None}
  ELSE {}

\* Mutant: the first Kear of several is taken.
ResolveFirst(module, env) ==
  LET kears == IF KearsIn(module, {env}) # {} THEN KearsIn(module, {env})
               ELSE KearsIn(module, Envs \cup {None})
  IN IF kears = {} THEN [kear |-> None, warning |-> "REMOTE_KEAR_NOT_FOUND"]
     ELSE [kear |-> CHOOSE k \in kears : TRUE, warning |-> ""]

\* _resolve_remote_kear: that of the environment, else the only one there is.
Resolve(module, env) ==
  LET exact == KearsIn(module, {env})
      everywhere == KearsIn(module, Envs \cup {None})
      kears == IF exact # {} THEN exact ELSE everywhere
  IN CASE everywhere = {} -> [kear |-> None, warning |-> "REMOTE_KEAR_NOT_FOUND"]
       [] Cardinality(kears) = 1 -> [kear |-> CHOOSE k \in kears : TRUE, warning |-> ""]
       [] OTHER -> [kear |-> None, warning |-> "REMOTE_KEAR_AMBIGUOUS"]

\* The application at the local end: the one of the input row, else the only one
\* of the scope.
LocalApp(x, app) ==
  LET scope == Expanded(x.scope, {})
  IN IF app \in scope THEN app
     ELSE IF Cardinality(scope) = 1 THEN CHOOSE a \in scope : TRUE ELSE None

\* The input application is named at one end only, the other end is everything in
\* a scope given by a group.
FoundOpposite(x, app, here, there) ==
  /\ app \in Expanded(here.labels, here.groups)
  /\ app \notin Expanded(there.labels, there.groups)
  /\ there.all /\ x.scope.apps \cap GroupNames # {}
Tactical(x, app) ==
  /\ LocalApp(x, app) = None /\ x.name = "OUTBOUND2APA"
  /\ app \in Expanded(x.src.labels, x.src.groups)

\* Mutant: address lists are only seen at the source.
DirectionOfSource(src, dst) ==
  CASE src \in {"remote_app", "iplist"} /\ dst = "local" -> "incoming"
    [] src = "local" /\ dst = "remote_app" -> "outgoing"
    [] OTHER -> "undetermined"

\* The direction that the kinds of the two ends give.
Direction(src, dst) ==
  CASE src \in {"remote_app", "iplist"} /\ dst = "local" -> "incoming"
    [] src = "local" /\ dst \in {"remote_app", "iplist"} -> "outgoing"
    [] OTHER -> "undetermined"

\* Mutant: an unknown Kear is taken for the own one.
SameKearOrUnknown(remote, local) == remote \in {None, local}
SameKear(remote, local) == remote # None /\ remote = local

\* The Kear of the other end, where exactly one application stands there.
RemoteKear(remote, env) ==
  CASE remote = {} -> [kear |-> None, warning |-> ""]
    [] Cardinality(remote) > 1 -> [kear |-> None, warning |-> "REMOTE_KEAR_AMBIGUOUS"]
    [] OTHER -> IF ~input.microcosmos THEN [kear |-> None, warning |-> "REMOTE_KEAR_UNAVAILABLE"]
                ELSE LET x == CHOOSE a \in remote : TRUE
                     IN IF x \in Apps THEN Resolve(ModuleOf[x], env)
                        ELSE [kear |-> None, warning |-> "REMOTE_KEAR_NOT_FOUND"]

\* _rule_relationship: its early returns, then the kinds of the two ends.
Relationship(x, row, env) ==
  LET local == LocalApp(x, row.app)
      src == SideKind(x.src, local)
      dst == SideKind(x.dst, local)
      direction == Direction(src, dst)
      end == IF direction = "incoming" THEN x.src ELSE x.dst
      remote == IF SideKind(end, local) = "iplist" THEN {} ELSE RemoteApps(end, local)
      found == RemoteKear(remote, env)
      result(kear, way, warning) == [kear |-> kear, direction |-> way, warning |-> warning]
  IN CASE FoundOpposite(x, row.app, x.src, x.dst) -> result(None, "outgoing", "")
       [] FoundOpposite(x, row.app, x.dst, x.src) -> result(None, "incoming", "")
       [] Tactical(x, row.app) -> result(None, "outgoing", "")
       [] OTHER ->
            IF local = None THEN result(None, "undetermined", "LOCAL_SCOPE_UNDETERMINED")
            ELSE IF src = "local" /\ dst = "local" THEN result(row.kear, "intra-app", "")
            ELSE IF direction = "undetermined"
                 THEN result(None, direction, "DIRECTION_UNDETERMINED")
            ELSE result(found.kear,
                        IF SameKear(found.kear, row.kear) THEN "intra-app" ELSE direction,
                        found.warning)

\* _rule_category.
Category(x) ==
  IF x.name = "GLOBAL" THEN "infra_rule"
  ELSE IF x.strategic \/ "ZNOT" \in x.src.iplists \cup x.dst.iplists THEN "strategic_rule"
  ELSE "business_rule"

-----------------------------------------------------------------------------
(* Writing the report. *)

AppsOf(module) ==
  LET apps == {a \in Apps : ModuleOf[a] = module /\ module # None}
  IN IF apps = {} THEN {None} ELSE apps

\* _load_scope_input and _prepare_microcosmos_input: a row for each application
\* of the module, or one without application.
Prepared ==
  IF input.microcosmos
  THEN UNION {{[app |-> a, env |-> s.env, kear |-> s.kear] : a \in AppsOf(s.module)} :
                s \in input.sources}
  ELSE {[app |-> s.app, env |-> s.env, kear |-> None] : s \in input.sources}

Init ==
  /\ rule \in Policies /\ input \in Inputs
  /\ todo = SetToSeq(Prepared) /\ rows = {} /\ sheets = <<>>

Unmatched(row) ==
  [input |-> row, status |-> IF row.app = None THEN "APP_NOT_FOUND" ELSE "NO_MATCH",
   category |-> "", env |-> None,
   result |-> [kear |-> None, direction |-> "", warning |-> ""]]
Matched(row, env) ==
  [input |-> row, status |-> "MATCHED", category |-> Category(rule), env |-> env,
   result |-> Relationship(rule, row, env)]

\* One turn of the loop of generate_compliance_workbook over the input rows.
Evaluate ==
  /\ todo # <<>>
  /\ todo' = Tail(todo)
  /\ LET row == Head(todo)
     IN IF row.app # None /\ Matches(rule, row.app, row.env)
        THEN \E env \in IF rule.scope.envs = {} THEN {None} ELSE rule.scope.envs :
               rows' = rows \cup {Matched(row, env)}
        ELSE rows' = rows \cup {Unmatched(row)}
  /\ UNCHANGED <<rule, input, sheets>>

\* Mutant: strategic rules have no sheet.
PartitionBusinessOnly ==
  [business |-> {r \in rows : r.category = "business_rule"},
   infra |-> {r \in rows : r.category = "infra_rule"},
   quality |-> {r \in rows : r.status \in {"APP_NOT_FOUND", "NO_MATCH"}}]

\* _partition_compliance_rows.
Partition ==
  LET matched == {r \in rows : r.status \notin {"APP_NOT_FOUND", "NO_MATCH"}}
  IN [business |-> {r \in matched : r.category \in {"business_rule", "strategic_rule"}},
      infra |-> {r \in matched : r.category = "infra_rule"},
      quality |-> rows \ matched]

Publish ==
  /\ todo = <<>> /\ sheets = <<>>
  /\ sheets' = Partition
  /\ UNCHANGED <<rule, input, todo, rows>>

Next == Evaluate \/ Publish

Spec == Init /\ [][Next]_vars

-----------------------------------------------------------------------------
(* Properties. *)

TypeOK ==
  /\ rule \in Policies /\ input \in Inputs
  /\ ToSet(todo) \subseteq Prepared
  /\ \A r \in rows :
       /\ r.input \in Prepared \ ToSet(todo)
       /\ r.result.direction \in {"", "incoming", "outgoing", "intra-app", "undetermined"}
       /\ r.result.kear \in Kears \cup {None}
  /\ sheets # <<>> => todo = <<>> /\ UNION {sheets[name] : name \in DOMAIN sheets} = rows

\* Direction is relative: with source and destination exchanged, incoming becomes
\* outgoing, and the other end, its Kear and the warnings stay. Only the tactical
\* OUTBOUND2APA rules have a direction of their own.
Mirror(x) == [x EXCEPT !.src = x.dst, !.dst = x.src]
Opposite(direction) ==
  CASE direction = "incoming" -> "outgoing"
    [] direction = "outgoing" -> "incoming"
    [] OTHER -> direction
MirrorDirection ==
  rule.name # "OUTBOUND2APA" =>
    \A r \in rows : r.status = "MATCHED" =>
      Relationship(Mirror(rule), r.input, r.env) =
        [r.result EXCEPT !.direction = Opposite(@)]

\* "Resolve a remote app, preferring its environment without guessing": a Kear other
\* than the own one is shown only if it is the only one that the input has for some
\* application that the rule names, in its environment if there are rows of that.
NoKearGuessed ==
  \A r \in rows :
    r.result.kear \notin {None, r.input.kear} =>
      \E a \in Apps :
        /\ a \in Explicit(rule.src) \cup Explicit(rule.dst)
        /\ LET there == {s \in input.sources : s.module = ModuleOf[a] /\ s.kear # None}
               exact == {s \in there : s.env = r.env}
           IN \A s \in IF exact = {} THEN there ELSE exact : s.kear = r.result.kear

\* "Equal local and remote Kears are classified as intra-app", where the application
\* of the scope is local (integration-guide): intra-app with an application named at
\* the other end means that the two, if both have Kears, have one in common.
IntraAppKears(r) ==
  \A a, b \in Apps :
    /\ a # b
    /\ r.result.direction = "intra-app"
    /\ Expanded(rule.scope, {}) = {a}
    /\ {a, b} \cap {r.input.app} # {}
    /\ b \in Explicit(rule.src) \cup Explicit(rule.dst)
    /\ KearsIn(ModuleOf[a], Envs \cup {None}) # {}
    => KearsIn(ModuleOf[a], Envs \cup {None}) \cap KearsIn(ModuleOf[b], Envs \cup {None}) # {}

\* That holds of the rows of the scope's own application; the row of a remote one
\* compares its own Kear with itself.
OwnIntraAppIsTrue ==
  \A r \in rows : r.input.app \in Expanded(rule.scope, {}) => IntraAppKears(r)

=============================================================================
