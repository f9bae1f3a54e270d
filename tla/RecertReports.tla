----------------------------- MODULE RecertReports -----------------------------
(* report-batch: the recertification workbooks of a Microcosmos export          *)
(* (reporting/microcosmos.py), with the selection of the rules of a workbook    *)
(* and the expansion of their sides (reporting/workbook.py).                    *)
(*                                                                              *)
(* Simplifications. The last value of a dimension of a scope is the one that    *)
(* counts, so a scope has one of each. One role stands for the dimensions other *)
(* than app and env. Workloads are listed by side; IP lists, named workloads,   *)
(* addresses, services and the columns that are computed from them are left     *)
(* out, the usage columns are in UsageHistory. The references do not change     *)
(* during a batch (SnapshotReaders), the policy may: a report takes no lock.    *)
(* Names of applications and entities are not empty.                            *)
EXTENDS Naturals, FiniteSets

CONSTANTS
    Apps, Modules, ModuleOf,  \* application labels, and the module that each ends with
    Envs, Prd,                \* environments; Prd is that of production
    Null, None,               \* the scope env:null, and a dimension that is not written
    Entities, DirOf,          \* entities, and _safe_component of each
    Kears, Lower,             \* Kear Ids, and kear_id.lower() of each
    Listed,                   \* the applications of labels.csv and of the table workloads
    Workloads,                \* the workload reference: [app, env, role]
    Policies,                 \* inventories that may be published: sets of rules
    Inputs,                   \* Microcosmos files: sets of rows
    MaxPublications, MaxErrors

Side == [all : BOOLEAN, apps : SUBSET Apps, envs : SUBSET Envs, role : BOOLEAN]
Scope == [app : Apps \union {None}, env : Envs \union {Null, None}, role : BOOLEAN]
NoScope == [app |-> None, env |-> None, role |-> FALSE]
Rule == [scope : Scope, src : Side, dst : Side]
Row == [entity : Entities, kear : Kears \union {None}, module : Modules,
        env : Envs \union {None}, name : STRING]
Pairs == [app : Apps, env : Envs]

ASSUME RecertReportsAssumption ==
    /\ ModuleOf \in [Apps -> Modules] /\ Prd \in Envs /\ Listed \subseteq Apps
    /\ None \notin Apps \union Envs /\ Null \notin Envs \union {None}
    /\ \A policy \in Policies : policy \subseteq Rule
    /\ \A input \in Inputs : input \subseteq Row
    /\ Workloads \subseteq [app : Apps, env : Envs, role : BOOLEAN]
    /\ MaxPublications \in Nat /\ MaxErrors \in Nat

VARIABLES
    rules,         \* the rules marked present in SQLite
    input,         \* the rows of the file
    known,         \* the application labels that the batch knows
    seen,          \* history: the rules that it saw whenever it read them
    status,        \* Rules Recertify Status of each row, and the labels it was given
    groups,        \* the reports still to generate
    files,         \* the reports on disk: path, group, pairs, and the rules at that time
    pc,
    publications, errors

reportVars == <<rules, input, known, seen, status, groups, files, pc, publications, errors>>

-----------------------------------------------------------------------------
(* A workbook.                                                                 *)

\* _side_matches_pair.
SidePair(side, pair) ==
    pair.app \in side.apps /\ (side.envs = {} \/ pair.env \in side.envs)

\* _matching_rule_pairs: by the scope, if there is one, else by the sides.
RulePairs(x, pairs) ==
    {p \in pairs :
       IF x.scope = NoScope THEN SidePair(x.src, p) \/ SidePair(x.dst, p)
       ELSE x.scope.app = p.app /\ x.scope.env \in {p.env, Null}}

Selected(policy, pairs) == {x \in policy : RulePairs(x, pairs) # {}}

\* Mutant: applications and environments are matched one by one.
CrossedPairs(w, pairs) == (\E p \in pairs : p.app = w.app) /\ (\E p \in pairs : p.env = w.env)
InPairs(w, pairs) == [app |-> w.app, env |-> w.env] \in pairs

\* _matches_scope: env:null stands for the environments of the report.
InScope(w, scope, pairs) ==
    /\ scope.app \in {w.app, None}
    /\ IF scope.env = Null THEN InPairs(w, pairs) ELSE scope.env \in {w.env, None}
    /\ scope.role => w.role

\* _workload_matches_dimensions.
HasLabels(w, side) ==
    /\ side.apps = {} \/ w.app \in side.apps
    /\ side.envs = {} \/ w.env \in side.envs
    /\ side.role => w.role

\* _expand_side_details. "All Workloads" without a scope is a word, not a list.
Shown(x, side, pairs) ==
    {w \in Workloads :
       \/ side.all /\ x.scope # NoScope /\ InScope(w, x.scope, pairs)
       \/ /\ side.apps # {} \/ side.envs # {} \/ side.role
          /\ side.apps # {} \/ InPairs(w, pairs)
          /\ HasLabels(w, side)}

-----------------------------------------------------------------------------
(* The batch.                                                                  *)

Category(env) == IF env = Prd THEN "PRD" ELSE "NONPRD"
Group(row) == [entity |-> row.entity, kear |-> row.kear, category |-> Category(row.env)]
RowsOf(g) == {row \in DOMAIN status : status[row].is = "GROUPED" /\ Group(row) = g}

Path(g) == <<g.category, DirOf[g.entity], Lower[g.kear]>>

\* Mutant: the first label of a module is taken.
FirstLabel(row, policy) ==
    LET labels == {a \in known : /\ ModuleOf[a] = row.module
                                 /\ Selected(policy, {[app |-> a, env |-> row.env]}) # {}}
    IN IF labels = {} THEN {} ELSE {CHOOSE a \in labels : TRUE}

\* The application labels of a row that some rule applies to.
MatchingLabels(row, policy) ==
    {a \in known : /\ ModuleOf[a] = row.module
                   /\ Selected(policy, {[app |-> a, env |-> row.env]}) # {}}

ReportInit ==
    /\ rules \in Policies /\ input \in Inputs
    /\ known = {} /\ seen = {} /\ status = <<>> /\ groups = {} /\ files = {} /\ pc = "start"
    /\ publications = 0 /\ errors = 0

\* _known_application_labels: the references, and what the rules name.
Named(x) == ({x.scope.app} \ {None}) \union x.src.apps \union x.dst.apps
ReadLabels ==
    /\ pc = "start" /\ pc' = "labels"
    /\ known' = Listed \union UNION {Named(x) : x \in rules}
    /\ seen' = rules
    /\ UNCHANGED <<rules, input, status, groups, files, publications, errors>>

\* Why a row gets no report: no Kear or environment, no label of its module, no rule.
Refusal(row) ==
    IF None \in {row.kear, row.env} THEN "EMPTY"
    ELSE IF row.module \in {ModuleOf[a] : a \in known} THEN "UNUSED"
    ELSE "UNKNOWN"

\* The rules are read, in another transaction: every row is skipped or joins the report
\* of its entity, Kear and category.
Prepare ==
    /\ pc = "labels" /\ pc' = "reports"
    /\ seen' = seen \intersect rules
    /\ status' = [row \in input |->
         LET labels == IF None \in {row.kear, row.env} THEN {} ELSE MatchingLabels(row, rules)
         IN [is |-> IF labels = {} THEN Refusal(row) ELSE "GROUPED", labels |-> labels]]
    /\ groups' = {Group(row) : row \in {r \in input : status'[r].is = "GROUPED"}}
    /\ UNCHANGED <<rules, input, known, files, publications, errors>>

PairsOf(g) ==
    UNION {{[app |-> a, env |-> row.env] : a \in status[row].labels} : row \in RowsOf(g)}

Concludes(g, outcome) ==
    /\ groups' = groups \ {g}
    /\ status' = [row \in DOMAIN status |->
                    IF row \in RowsOf(g) THEN [status[row] EXCEPT !.is = outcome]
                    ELSE status[row]]

\* A report without one application name is not generated.
Inconsistent(g) ==
    /\ g \in groups /\ Cardinality({row.name : row \in RowsOf(g)}) # 1
    /\ Concludes(g, "INCONSISTENT")
    /\ UNCHANGED <<rules, input, known, seen, files, pc, publications, errors>>

\* generate_workbook reads the rules again and replaces what is at its path.
Generate(g) ==
    /\ g \in groups /\ Cardinality({row.name : row \in RowsOf(g)}) = 1
    /\ Concludes(g, "PROCESSED")
    /\ files' = {f \in files : f.path # Path(g)} \union
                {[path |-> Path(g), group |-> g, pairs |-> PairsOf(g), policy |-> rules]}
    /\ UNCHANGED <<rules, input, known, seen, pc, publications, errors>>

\* A ValueError or a RuntimeError is noted in the rows; any other, of the database or
\* the disk, ends the batch without an audit workbook.
Fails(g) ==
    /\ g \in groups /\ errors < MaxErrors /\ errors' = errors + 1
    /\ \/ Concludes(g, "ERROR") /\ UNCHANGED pc
       \/ pc' = "aborted" /\ groups' = {} /\ UNCHANGED status
    /\ UNCHANGED <<rules, input, known, seen, files, publications>>

Audit ==
    /\ pc = "reports" /\ groups = {} /\ pc' = "done"
    /\ UNCHANGED <<rules, input, known, seen, status, groups, files, publications, errors>>

\* A policy run commits another inventory while the batch is at work.
Republish ==
    /\ pc \in {"labels", "reports"} /\ publications < MaxPublications
    /\ publications' = publications + 1
    /\ rules' \in Policies
    /\ UNCHANGED <<input, known, seen, status, groups, files, pc, errors>>

ReportNext ==
    \/ ReadLabels \/ Prepare
    \/ \E g \in groups : Inconsistent(g) \/ Generate(g) \/ Fails(g)
    \/ Audit
    \/ Republish

ReportSpec == ReportInit /\ [][ReportNext]_reportVars

-----------------------------------------------------------------------------
(* Properties.                                                                 *)

\* Two entities whose names only differ in what a path cannot hold, or two Kear Ids
\* that only differ in case.
SharesPath(row) ==
    \E other \in input :
      /\ None \notin {other.kear, other.env}
      /\ Category(other.env) = Category(row.env)
      /\ DirOf[other.entity] = DirOf[row.entity] /\ Lower[other.kear] = Lower[row.kear]
      /\ <<other.entity, other.kear>> # <<row.entity, row.kear>>

\* What the audit says is true, whatever is published meanwhile. When a row is
\* PROCESSED, its report has every rule of its application labels and environment; when
\* it was skipped for the lack of a rule or of a label, there is none; and when it was
\* skipped for its application name, the rows of its report really differ in it. "Rule"
\* means one that was present each time the batch read them: one that is published
\* between two reads may be missed. The other exception are rows whose report another
\* one may have overwritten: the batch tells entities and Kear Ids apart that its paths
\* do not.
AppliesTo(x, row) ==
    \E a \in Apps : ModuleOf[a] = row.module /\ RulePairs(x, {[app |-> a, env |-> row.env]}) # {}
ReportOf(row) == {f \in files : f.group = Group(row)}
NamesIn(g) == {row.name : row \in {r \in input : Group(r) = g /\ status[r].labels # {}}}
AuditIsTrue ==
    pc = "done" =>
      \A row \in {r \in input : None \notin {r.kear, r.env}} :
        CASE status[row].is = "PROCESSED" ->
               SharesPath(row) \/ \E f \in ReportOf(row) :
                  \A x \in seen \intersect f.policy :
                    AppliesTo(x, row) => x \in Selected(f.policy, f.pairs)
          [] status[row].is = "UNUSED" -> \A x \in seen : ~AppliesTo(x, row)
          [] status[row].is = "UNKNOWN" ->
               \A a \in Listed \union UNION {Named(x) : x \in seen} : ModuleOf[a] # row.module
          [] status[row].is = "INCONSISTENT" -> Cardinality(NamesIn(Group(row))) # 1
          [] OTHER -> status[row].is = "ERROR"

\* Consolidating the rows of a Kear changes nothing: a rule of a report shows the
\* workloads that it shows in the reports of the single pairs, and no workload of an
\* application that neither its labels nor a pair of that very row name. "Selectors
\* without app remain constrained by the requested report pairs" (integration-guide).
ConsolidationIsExact ==
    \A f \in files : \A x \in Selected(f.policy, f.pairs) :
      LET pairs == RulePairs(x, f.pairs)
      IN \A side \in {x.src, x.dst} :
           /\ Shown(x, side, pairs) = UNION {Shown(x, side, {p}) : p \in pairs}
           /\ \A w \in Shown(x, side, pairs) :
                w.app \in side.apps
                \/ \E row \in {r \in input : Group(r) = f.group} : w.app \in status[row].labels /\ w.env = row.env
=============================================================================
