------------------------------ MODULE Deployment ------------------------------
(***************************************************************************)
(* An instance directory brought into service.  The provisioner            *)
(* (clickhouse_init.py with its runners) creates what the directory        *)
(* declares, statement by statement; a server process loads the catalogue  *)
(* when it starts and again on reload (catalogue_ref.py); loads of         *)
(* snapshot bindings publish new rows and rebuild every hierarchy mapping  *)
(* (analytical/provisioning.py), which the operator's command does too;    *)
(* the preflight compares the warehouse with the catalogue; and the read   *)
(* tools check filters and axes against the catalogue served, search its   *)
(* members and resolve them.  The operator may replace the directory, the  *)
(* warehouse may refuse any statement, and a job may die between two.      *)
(***************************************************************************)
EXTENDS CatalogueRules, RaggedHierarchy

CONSTANTS
    Instances,   \* a sequence of [files, live, scenarios, dims, views, first, later]
    Data,        \* live table -> its successive contents, the first when created
    Loaders,     \* processes that load snapshot bindings
    Serialised,  \* whether whoever calls lets no two of these jobs overlap
    MaxEdits,    \* bound on the operator's replacements of the directory
    MaxStops,    \* bound on failures that nothing in the warehouse explains
    Calls,       \* the report calls made: [statement, filters, axes]
    Searches     \* the member searches made: [dimension, reads, permitted]

Workers == Loaders \cup {"provisioner", "operator"}

VARIABLES
    disk,        \* the instance in the directory
    served,      \* the instance whose catalogue the server process holds, or 0
    store,       \* the relations of the warehouse -> whose definition each has
    registry,    \* the rows of semantic.scenarios: a sequence of [id, alias]
    contents,    \* live table -> which of its contents it holds
    closures,    \* hierarchy -> the rows of its materialised rollup
    jobs,        \* worker -> its job, or Idle
    owed,        \* what no complete rebuild of the mappings covers yet
    ready,       \* the instance the last completed provisioning applied, or 0
    answer,      \* the last report call and what became of it: <<>> or <<it>>
    edits,       \* replacements of the directory so far
    stops        \* unexplained failures so far
deploymentVars == <<disk, served, store, registry, contents, closures, jobs, owed, ready, answer, edits, stops>>

Idle == [kind |-> "idle"]
Catalogues == LET all == Instances IN [i \in DOMAIN all |-> Assembled(all[i].files)] \o <<>>
Accepting == LET all == Instances IN {i \in DOMAIN all : Accepted(all[i].files)}
Catalogue(i) == Catalogues[i]
Fits(i) == i \in Accepting
Busy(w) == jobs[w] # Idle
MayStart(w) == ~Busy(w) /\ (Serialised => \A v \in Workers : ~Busy(v))

-----------------------------------------------------------------------------
\* The statements of a job: what each does, what it makes, what must exist.

Makes(act, relation, needs) == [act |-> act, makes |-> relation, needs |-> needs]

\* live_ddl_runner.apply_all: each file in both schemas.
LiveStatements(i) ==
    FlattenSeq([n \in DOMAIN Instances[i].live |->
        <<Makes("table", <<"live", Instances[i].live[n]>>, {}),
          Makes("table", <<"staging", Instances[i].live[n]>>, {})>>])

ScenarioStatements ==
    <<Makes("table", <<"semantic", "scenarios">>, {}),
      Makes("seed", <<"semantic", "scenarios">>, {<<"semantic", "scenarios">>})>>

\* _apply_sql_dir: the files in their sorted order.
FileViews(views) ==
    [n \in DOMAIN views |-> Makes("view", <<"semantic", views[n].name>>, views[n].needs)]

PassthroughStatements(c, i) ==
    LET names == SetToSeq(Passthroughs(c, {v.name : v \in Range(Instances[i].dims)}))
    IN [n \in DOMAIN names |-> Makes("view", <<"semantic", names[n]>>, {<<"live", names[n]>>})]

\* build_ragged_views: the edges, the nodes and the rollup of one hierarchy.
Hierarchy(c, k) ==
    LET d == c.dims[k]
        leaf == c.dims[d.leaf_dimension].source.table
        provided == d.ragged_source.type = "provided"
        listed == IF provided THEN {d.ragged_source.node_table} ELSE Masters(Levels(c.dims, d))
        name(suffix) == <<"semantic", RaggedName(c, k) \o suffix>>
    IN [edges |-> Makes("view", name("_edges"), {IF provided THEN d.ragged_source.edge_table ELSE leaf}),
        nodes |-> Makes("view", name(""), {leaf} \cup listed),
        closure |-> Makes("closure", name("_rollup_materialized"), {leaf, name("_edges")}),
        rollup |-> Makes("view", name("_rollup"), {name("_rollup_materialized")})]

\* hierarchy_provisioning.
HierarchyStatements(c, refreshOnly) ==
    LET order == SetToSeq(RaggedDims(c))
        of(k) == LET h == Hierarchy(c, k)
                 IN IF refreshOnly THEN <<h.closure>> ELSE <<h.edges, h.nodes, h.closure, h.rollup>>
    IN FlattenSeq([n \in DOMAIN order |-> of(order[n])])

\* _apply_semantic, semantic_runner.apply_all: views last, they may read the rest.
SemanticStatements(i) ==
    FileViews(Instances[i].dims) \o PassthroughStatements(Catalogue(i), i)
      \o HierarchyStatements(Catalogue(i), FALSE) \o FileViews(Instances[i].views)

-----------------------------------------------------------------------------
\* The rows a hierarchy is built from, and its rollup.

RowsOf(ref) == Data[ref[2]][contents[ref[2]]]

EdgesNow(c, k) ==
    LET d == c.dims[k]
    IN IF d.ragged_source.type = "provided"
       THEN ProvidedEdges(RowsOf(d.ragged_source.edge_table), d.ragged_source)
       ELSE GeneratedEdges(RowsOf(c.dims[d.leaf_dimension].source.table), Levels(c.dims, d))

LeavesNow(c, k) ==
    LET source == c.dims[c.dims[k].leaf_dimension].source
    IN LeafNodes(RowsOf(source.table), source.key_column)

\* The node list; its view reads the rows of now.
NodesNow(c, k) ==
    LET d == c.dims[k]
        leaf == c.dims[d.leaf_dimension].source
        levels == Levels(c.dims, d)
    IN IF d.ragged_source.type = "provided"
       THEN ProvidedNodes(RowsOf(d.ragged_source.node_table), RowsOf(leaf.table), leaf.key_column,
                          d.leaf_dimension)
       ELSE GeneratedNodes(RowsOf(leaf.table), levels, [t \in Masters(levels) |-> RowsOf(t)])

\* The edges are those of the view, which an older catalogue may have defined.
Built(c, statement) ==
    LET k == CHOOSE x \in RaggedDims(c) : Hierarchy(c, x).closure = statement
        definer == Catalogue(store[Hierarchy(c, k).edges.makes])
    IN Rollup(EdgesNow(definer, k), LeavesNow(c, k))

-----------------------------------------------------------------------------
\* The names of what two hierarchies make do not run together: every one is a
\* key with a suffix, and nothing in the code keeps two of them apart.
NamesApart(c) ==
    \A k, l \in RaggedDims(c) :
        /\ Hierarchy(c, k).closure.makes = Hierarchy(c, l).closure.makes => k = l
        /\ {Hierarchy(c, k).closure.makes, <<"semantic", "scenarios">>}
              \cap {Hierarchy(c, l).edges.makes, Hierarchy(c, l).nodes.makes} = {}

\* The tables whose rows a hierarchy is built from.
TablesOf(c, k) ==
    {c.dims[c.dims[k].leaf_dimension].source.table}
      \cup IF c.dims[k].ragged_source.type = "provided"
           THEN {c.dims[k].ragged_source.edge_table, c.dims[k].ragged_source.node_table}
           ELSE Masters(Levels(c.dims, c.dims[k]))

IsSeq(s) == s \in Seq({s[n] : n \in DOMAIN s})

\* What is taken of the directories.  Lists in the files are sequences, and
\* there are finitely many definitions.  Of one that is accepted, moreover, that
\* the tables its hierarchies are built from exist in some state of the rows,
\* that the parents of a dimension are a dictionary (_parse_dimension), that no
\* dimension is called "", which stands for none here, that a domain is of one
\* of the kinds BackendKind declares (catalogue.py; the validation does not ask),
\* and that its names are apart.
ASSUME InstancesAssumption ==
    /\ IsSeq(Instances)
    /\ \A i \in DOMAIN Instances :
        /\ IsSeq(Instances[i].live) /\ IsSeq(Instances[i].scenarios)
        /\ IsSeq(Instances[i].dims) /\ IsSeq(Instances[i].views)
        /\ Instances[i].later \subseteq DOMAIN Instances
    /\ \A i \in Accepting :
        LET c == Catalogue(i)
        IN /\ IsFiniteSet(DOMAIN c.dims) /\ IsFiniteSet(DOMAIN c.metrics) /\ IsFiniteSet(DOMAIN c.statements)
           /\ IsSeq(c.order) /\ "" \notin DOMAIN c.dims
           /\ \A k \in DOMAIN c.dims : IsSeq(c.dims[k].parents) /\ ~Repeats(c.dims[k].parents)
           /\ \A k \in RaggedDims(c) :
                IsSeq(c.dims[k].levels) /\ \A ref \in TablesOf(c, k) : ref[2] \in DOMAIN Data
           /\ \A n \in DOMAIN c.domains : c.domains[n].backend_kind \in {"clickhouse", "ibis"}
           /\ \A n \in DOMAIN c.statements :
                LET s == ParseStatement(c.statements[n]) IN IsSeq(s.lines) /\ IsSeq(s.concat)
           /\ NamesApart(c)

\* What is taken of the rows: every table has some states, each of finitely many
\* rows, and none is named like the mark of the definitions that are owed.
ASSUME DataAssumption ==
    /\ "definitions" \notin DOMAIN Data
    /\ \A t \in DOMAIN Data :
         /\ IsSeq(Data[t]) /\ Data[t] # <<>>
         /\ \A n \in DOMAIN Data[t] : IsFiniteSet(Data[t][n])

-----------------------------------------------------------------------------
\* Checks of the warehouse against the catalogue.

\* Mutant: only the fact views are looked for.
FactViewsOnly(c) ==
    {c.domains[d].source_view : d \in {n \in DOMAIN c.domains : c.domains[n].backend_kind = "clickhouse"}}

\* _check_semantic_views: fact views, leaf tables, the objects of hierarchies.
CheckedObjects(c) ==
    {c.domains[d].source_view : d \in {n \in DOMAIN c.domains : c.domains[n].backend_kind = "clickhouse"}}
      \cup {c.dims[k].source.table :
              k \in {j \in DOMAIN c.dims : IsLeaf(c.dims[j]) /\ c.dims[j].source.table[1] = "semantic"}}
      \cup UNION {RaggedObjects(c, k) : k \in RaggedDims(c)}

\* check: the catalogue, the views, the scenarios.
PreflightPasses(i) ==
    /\ <<"semantic", "scenarios">> \in DOMAIN store /\ registry # <<>>
    /\ Fits(i)
    /\ CheckedObjects(Catalogue(i)) \subseteq DOMAIN store

-----------------------------------------------------------------------------
\* A report call is checked in one go: no other step is taken before its answer.
NoCall == answer = <<>> /\ answer' = <<>>

DeploymentInit ==
    /\ disk \in {i \in DOMAIN Instances : Instances[i].first}
    /\ served = 0 /\ store = <<>> /\ registry = <<>>
    /\ contents = [t \in DOMAIN Data |-> 1]
    /\ closures = <<>>
    /\ jobs = [w \in Workers |-> Idle]
    /\ owed = {} /\ ready = 0 /\ answer = <<>> /\ edits = 0 /\ stops = 0

\* _load_initial_catalogue: a rejected catalogue keeps the process down.
ColdStart ==
    /\ served = 0 /\ Fits(disk)
    /\ served' = disk
    /\ NoCall /\ UNCHANGED <<disk, store, registry, contents, closures, jobs, owed, ready, edits, stops>>

\* _CatalogueRef.reload: a rejected catalogue leaves the one served in place.
Reload ==
    /\ served # 0
    /\ served' = IF Fits(disk) THEN disk ELSE served
    /\ NoCall /\ UNCHANGED <<disk, store, registry, contents, closures, jobs, owed, ready, edits, stops>>

\* The operator replaces the directory; a run under way is no longer of it.
Edit(i) ==
    /\ edits < MaxEdits
    /\ disk' = i /\ edits' = edits + 1 /\ ready' = 0
    /\ jobs' = [w \in Workers |-> IF Busy(w) THEN [jobs[w] EXCEPT !.of = 0] ELSE jobs[w]]
    /\ owed' = owed \cup {<<"definitions", edits + 1>>}
    /\ NoCall /\ UNCHANGED <<served, store, registry, contents, closures, stops>>

-----------------------------------------------------------------------------
\* Jobs: a sequence of statements, stopped by the first that fails.

\* read is the instance whose catalogue the job goes by.
Job(kind, read, todo, covers) ==
    [kind |-> kind, of |-> disk, read |-> read, todo |-> todo, covers |-> covers, rows |-> <<>>]

\* What a rebuild under the views as they are covers.
RowsOnly(due) == {o \in due : o[1] # "definitions"}

\* provision: the steps of the plan; the catalogue is read when its step comes.
Provision ==
    /\ MayStart("provisioner")
    /\ jobs' = [jobs EXCEPT !["provisioner"] =
         Job("provision", 0,
             LiveStatements(disk) \o ScenarioStatements \o <<Makes("catalogue", <<>>, {})>>, {})]
    /\ NoCall /\ UNCHANGED <<disk, served, store, registry, contents, closures, owed, ready, edits, stops>>

\* cmd_hierarchy_refresh, with or without --provision.
RefreshCommand(provision) ==
    /\ MayStart("operator") /\ Fits(disk)
    /\ jobs' = [jobs EXCEPT !["operator"] =
         Job("refresh", disk, HierarchyStatements(Catalogue(disk), ~provision),
             IF provision THEN owed ELSE RowsOnly(owed))]
    /\ NoCall /\ UNCHANGED <<disk, served, store, registry, contents, closures, owed, ready, edits, stops>>

\* A load publishes its rows and then rebuilds the mappings with the catalogue
\* it reads for that; one the catalogue fails leaves them owed.
Publish(w, t) ==
    /\ MayStart(w) /\ w \in Loaders
    /\ <<"live", t>> \in DOMAIN store /\ contents[t] < Len(Data[t])
    /\ contents' = [contents EXCEPT ![t] = @ + 1]
    /\ owed' = owed \cup {<<t, contents[t] + 1>>}
    /\ jobs' = IF Fits(disk)
               THEN [jobs EXCEPT ![w] = Job("load", disk,
                                            HierarchyStatements(Catalogue(disk), TRUE),
                                            RowsOnly(owed'))]
               ELSE jobs
    /\ NoCall /\ UNCHANGED <<disk, served, store, registry, closures, ready, edits, stops>>

Due(w) == Head(jobs[w].todo)
Runs(w, act) == Busy(w) /\ jobs[w].todo # <<>> /\ Due(w).act = act /\ Due(w).needs \subseteq DOMAIN store
Advanced(w) == [jobs EXCEPT ![w].todo = Tail(@), ![w].rows = <<>>]
\* What CREATE OR REPLACE and CREATE ... IF NOT EXISTS leave.
Replaced(f, x, v) == [y \in DOMAIN f \cup {x} |-> IF y = x THEN v ELSE f[y]]
Ensured(f, x, v) == IF x \in DOMAIN f THEN f ELSE Replaced(f, x, v)

\* CREATE TABLE IF NOT EXISTS
CreateTable(w) ==
    /\ Runs(w, "table")
    /\ store' = Ensured(store, Due(w).makes, 0)
    /\ jobs' = Advanced(w)
    /\ NoCall /\ UNCHANGED <<disk, served, registry, contents, closures, owed, ready, edits, stops>>

\* CREATE OR REPLACE VIEW
CreateView(w) ==
    /\ Runs(w, "view")
    /\ store' = Replaced(store, Due(w).makes, jobs[w].read)
    /\ jobs' = Advanced(w)
    /\ NoCall /\ UNCHANGED <<disk, served, registry, contents, closures, owed, ready, edits, stops>>

\* scenario_runner.apply: a file with a repeated id or alias is refused; the
\* rows whose id the table does not have are inserted.
SeedScenarios(w) ==
    LET declared == Instances[disk].scenarios
        repeated == \E m, n \in DOMAIN declared :
                      m # n /\ (declared[m].id = declared[n].id \/ declared[m].alias = declared[n].alias)
        known == {r.id : r \in Range(registry)}
        absent == FlattenSeq([n \in DOMAIN declared |->
                                 IF declared[n].id \in known THEN <<>> ELSE <<declared[n]>>])
    IN /\ Runs(w, "seed")
       /\ registry' = IF repeated THEN registry ELSE registry \o absent
       /\ jobs' = IF repeated THEN [jobs EXCEPT ![w] = Idle] ELSE Advanced(w)
       /\ NoCall /\ UNCHANGED <<disk, served, store, contents, closures, owed, ready, edits, stops>>

\* _apply_semantic: a catalogue that is refused fails the step.
ReadCatalogue(w) ==
    /\ Runs(w, "catalogue")
    /\ jobs' = IF Fits(disk)
               THEN [jobs EXCEPT ![w].todo = SemanticStatements(disk), ![w].read = disk, ![w].covers = owed]
               ELSE [jobs EXCEPT ![w] = Idle]
    /\ NoCall /\ UNCHANGED <<disk, served, store, registry, contents, closures, owed, ready, edits, stops>>

\* CREATE OR REPLACE TABLE ... AS: the rows are read as they are now,
BuildClosure(w) ==
    /\ Runs(w, "closure") /\ jobs[w].rows = <<>>
    /\ jobs' = [jobs EXCEPT ![w].rows = <<Built(Catalogue(jobs[w].read), Due(w))>>]
    /\ NoCall /\ UNCHANGED <<disk, served, store, registry, contents, closures, owed, ready, edits, stops>>

\* and take the place of the table at the end.
ReplaceClosure(w) ==
    /\ Runs(w, "closure") /\ jobs[w].rows # <<>>
    /\ closures' = Replaced(closures, Due(w).makes[2], jobs[w].rows[1])
    /\ store' = Ensured(store, Due(w).makes, 0)
    /\ jobs' = Advanced(w)
    /\ NoCall /\ UNCHANGED <<disk, served, registry, contents, owed, ready, edits, stops>>

Complete(w) ==
    /\ Busy(w) /\ jobs[w].todo = <<>>
    /\ owed' = owed \ jobs[w].covers
    /\ ready' = IF jobs[w].kind = "provision" THEN jobs[w].of ELSE ready
    /\ jobs' = [jobs EXCEPT ![w] = Idle]
    /\ NoCall /\ UNCHANGED <<disk, served, store, registry, contents, closures, edits, stops>>

\* A statement fails, always when what it needs is missing: the job stops
\* there.  So does one whose process dies.
Stop(w) ==
    /\ Busy(w) /\ jobs[w].todo # <<>>
    /\ IF Due(w).needs \subseteq DOMAIN store THEN stops < MaxStops /\ stops' = stops + 1
                                       ELSE stops' = stops
    /\ jobs' = [jobs EXCEPT ![w] = Idle]
    /\ NoCall /\ UNCHANGED <<disk, served, store, registry, contents, closures, owed, ready, edits>>

-----------------------------------------------------------------------------
\* Report calls.

\* The base metrics a statement needs.
StatementMetrics(c, statement) ==
    UNION {BaseMetrics(c, k) : k \in Names(ResolveStatement(c, statement))}

\* resolve: every base metric of a request is asked of the domain of one of them.
QueriedDomains(c, statement) ==
    LET named == {c.metrics[m].domain : m \in StatementMetrics(c, statement)}
    IN IF named = {} THEN {"pnl"} ELSE named

\* dispatch: filters and axes are checked against the catalogue served.
Ask(call) ==
    /\ served # 0 /\ answer = <<>> /\ call.statement \in DOMAIN Catalogue(served).statements
    /\ LET c == Catalogue(served)
       IN \E ds \in StatementDomains(c, call.statement), domain \in QueriedDomains(c, call.statement) :
            LET checked == CheckedFilters(c, call.filters, FilterKeys(c, ds))
            IN answer' = <<[tool |-> "report", of |-> served, call |-> call, domain |-> domain, kept |-> checked.kept,
                         refused |-> checked.failed \/ AxesRefused(c, call.axes)]>>
    /\ UNCHANGED <<disk, served, store, registry, contents, closures, jobs, owed, ready, edits, stops>>

-----------------------------------------------------------------------------
\* Members: found by a search, resolved as filters.  A value is a node of a
\* hierarchy or <<"", member>>; a filter is <<dimension, value>>.

Exists(relation) == relation \in DOMAIN store

\* _resolve_leaf_filter.
LeafLeaves(c, k, v) ==
    LET source == c.dims[k].source
    IN IF Exists(source.table) THEN LeafNodes(RowsOf(source.table), source.key_column) \cap {v} ELSE {}

\* _resolve_derived_filter: by the first way.
DerivedLeaves(c, k, v) ==
    LET way == Transitive(c, k)[1]
    IN IF Transitive(c, k) # <<>> /\ Exists(way.table)
       THEN LeafNodes({r \in RowsOf(way.table) : <<"", r[way.column]>> = v}, way.key_column)
       ELSE {}

\* _resolve_ragged_filter.
RaggedLeaves(c, k, v) ==
    IF Exists(Hierarchy(c, k).rollup.makes)
    THEN {pair[2] : pair \in {x \in closures[Hierarchy(c, k).closure.makes[2]] : x[1] = v}}
    ELSE {}

\* resolve_single_value: the leaves of one filter, an error when there are none.
LeavesOf(c, k, v) ==
    IF IsLeaf(c.dims[k]) THEN LeafLeaves(c, k, v)
    ELSE IF IsDerived(c.dims[k]) THEN DerivedLeaves(c, k, v)
    ELSE RaggedLeaves(c, k, v)

\* resolve_filters: those of one leaf dimension are intersected, and given for
\* the column that dimension has in the view of the domain.
Resolved(c, filters, domain) ==
    LET column(f) == ViewColumn(c, domain, f[1])
    IN [failed |-> \E f \in filters : f[1] \notin DOMAIN c.dims \/ LeavesOf(c, f[1], f[2]) = {},
        columns |-> [name \in {column(f) : f \in filters} |->
                       {v \in UNION {LeavesOf(c, f[1], f[2]) : f \in filters} :
                          \A f \in filters : column(f) = name => v \in LeavesOf(c, f[1], f[2])}]]

Permitted(search, leaf, v) == leaf \in DOMAIN search.permitted => v \in search.permitted[leaf]

\* The dimensions searched: the one named with the hierarchies over it, or all.
Searched(c, search) ==
    IF ~search.reads THEN {}
    ELSE IF search.dimension \in DOMAIN c.dims
         THEN {search.dimension} \cup RaggedOver(c, {search.dimension})
         ELSE DOMAIN c.dims

LeafMembers(c, search, k) ==
    LET source == c.dims[k].source
    IN IF IsLeaf(c.dims[k]) /\ Exists(source.table)
       THEN {<<k, v>> : v \in {x \in LeafNodes(RowsOf(source.table), source.key_column) :
                                 Permitted(search, k, x)}}
       ELSE {}

DerivedMembers(c, search, k) ==
    LET way == Transitive(c, k)[1]
    IN IF IsDerived(c.dims[k]) /\ Transitive(c, k) # <<>> /\ Exists(way.table)
       THEN {<<k, <<"", r[way.column]>>>> :
               r \in {x \in RowsOf(way.table) : Permitted(search, way.leaf, <<"", x[way.key_column]>>)}}
       ELSE {}

\* The nodes with a permitted leaf under them.
ShownNodes(c, search, k, nodes) ==
    LET leaf == c.dims[k].leaf_dimension
    IN IF leaf \notin DOMAIN search.permitted THEN nodes
       ELSE {n \in nodes : \E v \in search.permitted[leaf] : v \in RaggedLeaves(c, k, n.id)}

\* A node of a hierarchy, with the filter it is used by.
HierarchyNodes(c, search, k) ==
    LET h == Hierarchy(c, k)
        leaf == c.dims[k].leaf_dimension
        nodes == {n \in NodesNow(Catalogue(store[h.nodes.makes]), k) : n.type # "all"}
    IN IF c.dims[k].ragged /\ Exists(h.nodes.makes)
       THEN {IF n.type = leaf THEN <<leaf, n.id>> ELSE <<k, n.id>> : n \in ShownNodes(c, search, k, nodes)}
       ELSE {}

\* search_hierarchy: a part whose query fails is left out.
Search(search) ==
    /\ served # 0 /\ answer = <<>>
    /\ LET c == Catalogue(served)
       IN answer' = <<[tool |-> "search", of |-> served, search |-> search,
                       found |-> UNION {LeafMembers(c, search, k) \cup DerivedMembers(c, search, k)
                                          \cup HierarchyNodes(c, search, k) : k \in Searched(c, search)}]>>
    /\ UNCHANGED <<disk, served, store, registry, contents, closures, jobs, owed, ready, edits, stops>>

\* The caller has the answer.
Answered == answer # <<>> /\ answer' = <<>>
            /\ UNCHANGED <<disk, served, store, registry, contents, closures, jobs, owed, ready, edits, stops>>

DeploymentNext ==
    \/ ColdStart
    \/ Reload
    \/ \E i \in Instances[disk].later : Edit(i)
    \/ Provision
    \/ \E provision \in BOOLEAN : RefreshCommand(provision)
    \/ \E w \in Loaders, t \in DOMAIN Data : Publish(w, t)
    \/ \E w \in Workers : CreateTable(w)
    \/ \E w \in Workers : CreateView(w)
    \/ \E w \in Workers : SeedScenarios(w)
    \/ \E w \in Workers : ReadCatalogue(w)
    \/ \E w \in Workers : BuildClosure(w)
    \/ \E w \in Workers : ReplaceClosure(w)
    \/ \E w \in Workers : Complete(w)
    \/ \E w \in Workers : Stop(w)
    \/ \E call \in Calls : Ask(call)
    \/ \E search \in Searches : Search(search)
    \/ Answered

DeploymentSpec == DeploymentInit /\ [][DeploymentNext]_deploymentVars

-----------------------------------------------------------------------------
\* Reference definitions.

\* What a node leads to: all that belongs to every set that holds what it
\* refers to and, with a node, what that refers to.
LeadsTo(graph, k) ==
    LET closed == {S \in SUBSET DOMAIN graph :
                     /\ graph[k] \cap DOMAIN graph \subseteq S
                     /\ \A x \in S : graph[x] \cap DOMAIN graph \subseteq S}
    IN {x \in DOMAIN graph : \A S \in closed : x \in S}

ParentGraph(c) == [k \in DOMAIN c.dims |-> Keys(c.dims[k].parents)]

\* A filter on k restricts the members of leaf.
Restricts(c, k, leaf) ==
    \/ k = leaf \/ k \in LeadsTo(ParentGraph(c), leaf)
    \/ c.dims[k].ragged /\ c.dims[k].leaf_dimension = leaf

\* Nothing runs and every publication has been followed by a complete rebuild.
Settled == (\A w \in Workers : ~Busy(w)) /\ owed = {} /\ Fits(disk)

\* What a search on k could find: the cells of its leaf's table, and the inner
\* nodes of a generated hierarchy.
Candidates(c, k) ==
    LET leaf == c.dims[FilterLeaf(c, k)].source
        inner == {pair[1] : pair \in UNION Range(closures)} \ ({Root} \cup LeafNodes(RowsOf(leaf.table), leaf.key_column))
    IN IF IsLeaf(c.dims[k]) THEN LeafNodes(RowsOf(leaf.table), leaf.key_column)
       ELSE IF IsDerived(c.dims[k]) THEN UNION {{<<"", r[f]>> : f \in DOMAIN r} : r \in RowsOf(leaf.table)}
       ELSE IF c.dims[k].ragged_source.type = "generated" THEN inner ELSE {}

\* The nodes of a generated hierarchy that every row which yields them yields
\* at a level with a table of its own, one that has no such member.
Orphans(c, k) ==
    LET rows == RowsOf(c.dims[c.dims[k].leaf_dimension].source.table)
        levels == Range(Levels(c.dims, c.dims[k]))
        known(r, l) == \A m \in l.master : \E x \in RowsOf(m.table) : x[m.key_column] = r[l.column]
    IN {v \in {NodeAt(r, l) : r \in rows, l \in levels} \ {Root} :
          \A r \in rows, l \in levels : NodeAt(r, l) = v => ~known(r, l)}

\* The instance's own files make the fact view of every domain.
Authored(i) ==
    /\ Instances[i].scenarios # <<>>
    /\ \A d \in {Catalogue(i).domains[n] : n \in DOMAIN Catalogue(i).domains} :
         d.backend_kind = "clickhouse" =>
            \E v \in Range(Instances[i].views) : <<"semantic", v.name>> = d.source_view

-----------------------------------------------------------------------------
\* Properties.

\* The catalogue served can be computed with: no metric and no dimension leads
\* to itself, each statement comes down to metrics of the catalogue without
\* meeting itself, the base metrics of a domain roll up as its backend can
\* compute, and each hierarchy ends in its own leaf (validate_catalogue).
ServedIsSound ==
    served # 0 =>
        LET c == Catalogue(served)
        IN /\ \A k \in DOMAIN c.metrics : k \notin LeadsTo(MetricGraph(c), k)
           /\ \A k \in DOMAIN c.dims : k \notin LeadsTo(ParentGraph(c), k)
           /\ \A n \in DOMAIN c.statements :
                Names(ResolveStatement(c, n)) \subseteq DOMAIN c.metrics
           /\ \A d \in {c.domains[n] : n \in DOMAIN c.domains} : \A k \in d.metrics :
                LET m == c.metrics[k]
                IN ~m.derived => /\ m.rollup_method = "avg" => m.aggregation = "sum"
                                 /\ d.backend_kind = "ibis" => m.rollup_method = "sum"
           /\ \A k \in RaggedDims(c) :
                c.dims[k].ragged_source.type = "generated" =>
                    Last(Levels(c.dims, c.dims[k])).column
                        = c.dims[c.dims[k].leaf_dimension].source.key_column

\* A filter that is kept for a report restricts a dimension bound to a domain the
\* statement's metrics rest on, and is resolved through a leaf it does restrict.
\* One is dropped only when no line of the statement is bound to make it apply:
\* when each rests on some domain it restricts nothing of.  So of a statement
\* whose every line rests on one domain, exactly what restricts it is kept
\* (context_validation, filter_resolver).
FiltersHonoured ==
    \A a \in Range(answer) : a.tool = "report" /\ ~a.refused =>
        LET c == Catalogue(a.of)
            lines == Names(ResolveStatement(c, a.call.statement))
            applies(k, d) == \E leaf \in Bound(c, {d}) : Restricts(c, k, leaf)
        IN /\ \A k \in a.kept :
                /\ k \in a.call.filters
                /\ \E line \in lines : \E d \in DomainsUnder(c, line) : applies(k, d)
                /\ FilterLeaf(c, k) # "" /\ Restricts(c, k, FilterLeaf(c, k))
           /\ \A k \in a.call.filters \ a.kept :
                \A line \in lines :
                   DomainsUnder(c, line) # {} => \E d \in DomainsUnder(c, line) : ~applies(k, d)

\* The preflight is right both ways.  A provisioning that ran to its end over an
\* unchanged directory, one whose files make its fact views, leaves a warehouse
\* that it passes; and when it passes, every relation the reading side of the
\* catalogue names exists (clickhouse_init: the order of the steps, and check;
\* analytical.runtime).
PreflightTells ==
    /\ ready # 0 /\ Authored(ready) => PreflightPasses(ready)
    /\ PreflightPasses(disk) => RequiredReads(Catalogue(disk)) \subseteq DOMAIN store

\* Once nothing runs and every publication has been followed by a complete
\* rebuild, each mapping holds the leaves under each node of the rows and the
\* catalogue of now; and the nodes of a generated one are those of its node
\* list, but for the orphans, which the list leaves out and the edges do not
\* (refresh_hierarchies, build_hierarchy_sql, build_generated_edges_sql).
SettledClosuresAreCurrent ==
    Settled =>
        LET c == Catalogue(disk)
        IN \A k \in RaggedDims(c) :
             LET name == Hierarchy(c, k).closure.makes[2]
                 mapped == {pair[1] : pair \in closures[name]}
             IN name \in DOMAIN closures =>
                  /\ closures[name] = Under(EdgesNow(c, k), LeavesNow(c, k))
                  /\ c.dims[k].ragged_source.type = "generated" =>
                       (mapped \cup {Root}) \ Orphans(c, k) = {n.id : n \in NodesNow(c, k)}

\* In a settled warehouse a search finds a member exactly when a filter on it
\* comes down to a leaf the caller may see: what it offers can be used, and
\* nothing usable is kept back but the orphans of a hierarchy, which a filter
\* resolves and no search finds.  A node list the operator provides may name
\* nodes with no leaf, and is left out (search_hierarchy, filter_resolver).
SearchTells ==
    \A a \in Range(answer) :
        a.tool = "search" /\ Settled /\ a.of = disk /\ PreflightPasses(disk) =>
            LET c == Catalogue(disk)
                usable(k, v) == LET res == Resolved(c, {<<k, v>>}, "pnl")
                                IN ~res.failed /\ \E l \in UNION Range(res.columns) :
                                                     Permitted(a.search, FilterLeaf(c, k), l)
                listed(k, v) == c.dims[k].ragged => v \notin Orphans(c, k)
            IN \A k \in Searched(c, a.search) : \A v \in Candidates(c, k) :
                 <<k, v>> \in a.found <=> listed(k, v) /\ usable(k, v)

\* Filters mean the same to the tool that finds their members and to the one
\* that applies them (validate_filters_for_report, search_hierarchy,
\* resolve_filters).
FiltersTell == FiltersHonoured /\ SearchTells
=============================================================================
