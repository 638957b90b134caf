---------------------------- MODULE CatalogueRules ----------------------------
(***************************************************************************)
(* The catalogue (engine/catalogue.py): how its files are read and merged, *)
(* the rules a catalogue is accepted by, and what the readers of an        *)
(* accepted one take from it (engine/context_validation.py,                *)
(* engine/filter_resolver.py, analytical/runtime.py,                       *)
(* engine/passthrough_views.py).                                           *)
(*                                                                         *)
(* What the YAML gives is a record with the fields it sets; the defaults   *)
(* are merged under it.  A dictionary whose order matters is a sequence of *)
(* records with a key.  A formula is the set of the names in it, and an    *)
(* object of the warehouse is <<schema, name>>, "" when no schema is given.*)
(***************************************************************************)
EXTENDS Integers, SequencesExt, FiniteSets, FiniteSetsExt, Functions, TLC

CONSTANT UnsafeNames  \* names that are not plain SQL identifiers

Keys(s) == {s[i].key : i \in DOMAIN s}
Repeats(s) == \E i, j \in DOMAIN s : i # j /\ s[i].key = s[j].key
\* A function as it is, and for TLC, which compares it, evaluated for all.
Tabulated(f) == CHOOSE g \in {f} : g = g
ByKey(s, Parsed(_)) ==
    Tabulated([k \in Keys(s) |-> Parsed(s[CHOOSE i \in DOMAIN s : s[i].key = k])])
\* What the file gives, and the defaults under it.
Over(raw, defaults) ==
    [field \in DOMAIN raw \cup DOMAIN defaults |->
        IF field \in DOMAIN raw THEN raw[field] ELSE defaults[field]]
Has(raw, field) == field \in DOMAIN raw
\* The elements of s that are in S, in their order.
Those(s, S) == FlattenSeq([i \in DOMAIN s |-> IF s[i] \in S THEN <<s[i]>> ELSE <<>>])
SafeName(name) == name \notin UnsafeNames

-----------------------------------------------------------------------------
\* The parts of a catalogue, and their defaults.

PredicateDefaults == [value |-> FALSE, values |-> {}]

MetricDefaults ==
    [derived |-> FALSE, formula |-> {}, source_column |-> "", aggregation |-> "sum",
     rollup_method |-> "sum", domain |-> "", where |-> <<>>]

AttributeDefaults == [values |-> <<>>, references |-> "", unique |-> FALSE]

DimensionDefaults ==
    [grain |-> "", attributes |-> <<>>, display_attribute |-> "", sort_attribute |-> "",
     extendability |-> "source-mastered", required |-> {}, source |-> <<>>,
     derived_from |-> <<>>, parents |-> <<>>, ragged |-> FALSE, leaf_dimension |-> "",
     levels |-> <<>>, ragged_source |-> <<>>]

CubeDefaults == [source |-> "", source_inline |-> FALSE, filterable |-> TRUE]

RaggedSourceDefaults ==
    [type |-> "generated", node_table |-> <<>>, edge_table |-> <<>>,
     child_column |-> "", parent_column |-> ""]

LevelDefaults == [node_prefix |-> ""]

PlanDefaults == [domain |-> "", dimensions |-> <<>>, metric_metadata |-> <<>>]
PlanDimensionDefaults == [source |-> "", level |-> "", values |-> <<>>]
MappingDefaults == [seeds |-> <<>>]

IsLeaf(d) == d.source # <<>>
IsDerived(d) == d.derived_from # <<>>

\* A file of the catalogue and the sections it need not have.
EmptyFile ==
    [dimensions |-> <<>>, domain |-> "", source_view |-> <<"", "">>, metrics |-> <<>>,
     cubes |-> <<>>, versioned |-> FALSE, native |-> "period", backend_kind |-> "clickhouse",
     inspect_enabled |-> FALSE, inspect_columns |-> <<>>, statements |-> <<>>,
     plans |-> <<>>, mappings |-> <<>>]

-----------------------------------------------------------------------------
\* Parsing one part.

Aggregations == {"sum", "count", "count_distinct", "avg", "min", "max"}

\* With a formula a metric is derived, whatever else its entry carries.
ParseMetric(raw, domain) ==
    IF Has(raw, "formula")
    THEN [MetricDefaults EXCEPT !.derived = TRUE, !.formula = raw.formula]
    ELSE Over(raw, [MetricDefaults EXCEPT !.domain = domain])

MetricParses(raw) ==
    \/ Has(raw, "formula")
    \/ /\ Has(raw, "source_column") /\ Has(raw, "aggregation") /\ Has(raw, "rollup_method")
       /\ ~Has(raw, "source_filter")
       /\ raw.aggregation \in Aggregations

ParsePredicate(raw) == Over(raw, PredicateDefaults)

\* An entry with lines, or with concat, or with neither or both.
ParseStatement(raw) == Over(raw, [lines |-> <<"unset">>, concat |-> <<"unset">>])

\* source is the leaf table's when it names a table and no type, and the
\* hierarchy's when the dimension is ragged.
ParseDimension(raw) ==
    LET d == Over(raw, DimensionDefaults)
        s == d.source
    IN [d EXCEPT
          !.attributes = [a \in DOMAIN d.attributes |-> Over(d.attributes[a], AttributeDefaults)],
          !.source = IF Has(s, "table") /\ ~Has(s, "type") THEN Over(s, [mapping |-> <<>>]) ELSE <<>>,
          !.leaf_dimension = IF d.ragged THEN @ ELSE "",
          !.levels = IF d.ragged THEN [i \in DOMAIN @ |-> Over(@[i], LevelDefaults)] ELSE <<>>,
          !.ragged_source = IF d.ragged THEN Over(s, RaggedSourceDefaults) ELSE <<>>]

DimensionParses(raw) ==
    LET d == Over(raw, DimensionDefaults)
    IN /\ Has(d.source, "table") /\ ~Has(d.source, "type") => Has(d.source, "key_column")
       /\ d.derived_from # <<>> => Has(d.derived_from, "dimension") /\ Has(d.derived_from, "source_column")

ParseCube(raw) ==
    LET d == Over(raw, CubeDefaults)
    IN IF d.source_inline /\ d.source = "" THEN [d EXCEPT !.source = d.key] ELSE d

ParsePlan(raw) ==
    LET p == Over(raw, PlanDefaults)
    IN [p EXCEPT !.dimensions = [i \in DOMAIN @ |-> Over(@[i], PlanDimensionDefaults)]]

ParseMapping(raw) == Over(raw, MappingDefaults)

\* MappingDataset.validate_seed_rows: a row has every column, and no two the
\* same scenario and source coordinates.
SeedsParse(raw) ==
    LET m == ParseMapping(raw)
        coordinates == {<<"scenario">>} \cup Range(m.source_coordinates)
        targets == {<<column>> : column \in m.target_columns}
    IN /\ \A i \in DOMAIN m.seeds : coordinates \cup targets \subseteq DOMAIN m.seeds[i]
       /\ \A i, j \in DOMAIN m.seeds :
            i # j => Restrict(m.seeds[i], coordinates) # Restrict(m.seeds[j], coordinates)

-----------------------------------------------------------------------------
\* Objects of the semantic layer.

RefAllowed(ref) == ref[1] \in {"", "semantic"}
Semantic(ref) == <<"semantic", ref[2]>>

\* _normalize_semantic_refs.
NormalizedDimension(d) ==
    LET source == IF d.source = <<>> THEN <<>> ELSE [d.source EXCEPT !.table = Semantic(@)]
        tree == IF d.ragged_source = <<>> THEN <<>> ELSE
                  [d.ragged_source EXCEPT !.node_table = IF @ = <<>> THEN @ ELSE Semantic(@),
                                          !.edge_table = IF @ = <<>> THEN @ ELSE Semantic(@)]
    IN [d EXCEPT !.source = source, !.ragged_source = tree]

RefsAllowed(d) ==
    /\ d.source # <<>> => RefAllowed(d.source.table)
    /\ d.ragged_source # <<>> =>
         \A t \in {d.ragged_source.node_table, d.ragged_source.edge_table} \ {<<>>} : RefAllowed(t)

-----------------------------------------------------------------------------
\* load_catalogue.

Listed(files, section) == FlattenSeq([i \in DOMAIN files |-> files[i][section]])

MetricsOf(file) == ByKey(file.metrics, LAMBDA raw : ParseMetric(raw, file.domain))

\* Two files of one domain: the later one is the domain, the metrics of both stay.
DomainFile(files, name) ==
    files[Max({i \in DOMAIN files : files[i].metrics # <<>> /\ files[i].domain = name})]

Domain(file) ==
    [source_view |-> IF file.backend_kind = "clickhouse" THEN Semantic(file.source_view)
                                                         ELSE file.source_view,
     metrics |-> Keys(file.metrics), cubes |-> [i \in DOMAIN file.cubes |-> ParseCube(file.cubes[i])],
     versioned |-> file.versioned, native |-> file.native, backend_kind |-> file.backend_kind,
     inspect_enabled |-> file.inspect_enabled, inspect_columns |-> file.inspect_columns]

Assembled(files) ==
    LET dims == Listed(files, "dimensions")
        named == {files[i].domain : i \in {j \in DOMAIN files : files[j].metrics # <<>>}}
    IN [order |-> [i \in DOMAIN dims |-> dims[i].key],
        dims |-> ByKey(dims, LAMBDA raw : NormalizedDimension(ParseDimension(raw))),
        metrics |-> FoldLeft(LAMBDA all, file : MetricsOf(file) @@ all, <<>>, files),
        domains |-> Tabulated([n \in named |-> Domain(DomainFile(files, n))]),
        statements |-> FoldLeft(LAMBDA all, file : file.statements @@ all, <<>>, files),
        plans |-> ByKey(Listed(files, "plans"), ParsePlan),
        mappings |-> ByKey(Listed(files, "mappings"), ParseMapping)]

\* What load_catalogue refuses before the assembled catalogue is looked at.
FilesLoad(files) ==
    /\ \A section \in {"dimensions", "metrics", "plans", "mappings"} :
         ~Repeats(Listed(files, section))
    /\ \A raw \in Range(Listed(files, "metrics")) : MetricParses(raw)
    /\ \A raw \in Range(Listed(files, "dimensions")) :
         DimensionParses(raw) /\ RefsAllowed(ParseDimension(raw))
    /\ \A raw \in Range(Listed(files, "mappings")) : SeedsParse(raw)
    /\ \A i \in DOMAIN files : files[i].metrics # <<>> /\ files[i].backend_kind = "clickhouse"
                                 => RefAllowed(files[i].source_view)

-----------------------------------------------------------------------------
\* Graphs: node -> the nodes it refers to.

\* Mutant: a node's reference to itself is not counted.
HasLongCycle(graph) ==
    LET Peeled[n \in 0 .. Cardinality(DOMAIN graph)] ==
            IF n = 0 THEN {}
            ELSE LET left == DOMAIN graph \ Peeled[n - 1]
                 IN Peeled[n - 1] \cup {k \in left : \A m \in left \ {k} : k \notin graph[m]}
    IN Peeled[Cardinality(DOMAIN graph)] # DOMAIN graph

\* _has_cycle: nodes nothing refers to are taken off until none is left.
HasCycle(graph) ==
    LET Peeled[n \in 0 .. Cardinality(DOMAIN graph)] ==
            IF n = 0 THEN {}
            ELSE LET left == DOMAIN graph \ Peeled[n - 1]
                 IN Peeled[n - 1] \cup {k \in left : \A m \in left : k \notin graph[m]}
    IN Peeled[Cardinality(DOMAIN graph)] # DOMAIN graph

\* _compute_transitive_closure's walk: the ancestors of a dimension, nearest
\* first, each with the column of the link it was met by. A step takes the next
\* dimension's new parents, and walks on from those that are declared.
KeysListed(s) == [i \in DOMAIN s |-> s[i].key]
Met(dims, s, new) ==
    [queue |-> Tail(s.queue) \o KeysListed(Those(new, {p \in Range(new) : p.key \in DOMAIN dims})),
     seen |-> s.seen \cup Keys(new), found |-> s.found \o new]

Walk(dims, start) ==
    LET Step(s) ==
            IF s.queue = <<>> THEN s
            ELSE LET parents == dims[Head(s.queue)].parents
                 IN Met(dims, s, Those(parents, {p \in Range(parents) : p.key \notin s.seen}))
        After[n \in 0 .. Cardinality(DOMAIN dims)] ==
            IF n = 0 THEN [queue |-> <<start>>, seen |-> {start}, found |-> <<>>]
            ELSE Step(After[n - 1])
    IN After[Cardinality(DOMAIN dims)].found

Ancestors(dims, k) == Keys(Walk(dims, k))

\* The leaves under a dimension, in catalogue order.
LeavesUnder(c, k) ==
    Those(c.order, {l \in DOMAIN c.dims : IsLeaf(c.dims[l]) /\ k \in Ancestors(c.dims, l)})

\* The ways from a dimension to those leaves' members: a query of the leaf's
\* table; for a ragged dimension, its rollup.
WaysTo(c, k, leaves) ==
    LET way(l, column) == [leaf |-> l, table |-> c.dims[l].source.table,
                           key_column |-> c.dims[l].source.key_column, column |-> column]
        link(l) == CHOOSE p \in Range(Walk(c.dims, l)) : p.key = k
        direct == [i \in DOMAIN leaves |-> way(leaves[i], link(leaves[i]).source_column)]
        leaf == c.dims[k].leaf_dimension
    IN IF c.dims[k].ragged /\ leaf \in DOMAIN c.dims /\ IsLeaf(c.dims[leaf])
       THEN IF leaf \in Range(leaves)
            THEN [i \in DOMAIN leaves |-> IF leaves[i] = leaf THEN way(leaf, "") ELSE direct[i]]
            ELSE Append(direct, way(leaf, ""))
       ELSE direct

\* The ways a filter on a dimension reaches leaf members.
Transitive(c, k) == WaysTo(c, k, LeavesUnder(c, k))

-----------------------------------------------------------------------------
\* validate_catalogue.

Builtins == {"abs", "round", "min", "max", "sum", "len", "int", "float", "bool"}
Refs(m) == m.formula \ Builtins

PredicateFits(raw) ==
    LET p == ParsePredicate(raw)
    IN /\ p.column # "" /\ SafeName(p.column)
       /\ p.op \in {"in", "not_in"} => p.values # {}
       /\ p.op \in {"is_null", "is_not_null"} => ~p.value /\ p.values = {}
       /\ p.op \notin {"in", "not_in", "is_null", "is_not_null"} => p.value

MetricGraph(c) == [k \in DOMAIN c.metrics |-> Refs(c.metrics[k])]

MetricsFit(c) ==
    /\ \A k \in DOMAIN c.metrics :
         /\ \A p \in Range(c.metrics[k].where) : PredicateFits(p)
         /\ Refs(c.metrics[k]) \subseteq DOMAIN c.metrics
    /\ ~HasCycle(MetricGraph(c))

Unset == <<"unset">>
Names(s) == Range(s) \ {"separator"}

StatementsFit(c) ==
    LET parsed == [n \in DOMAIN c.statements |-> ParseStatement(c.statements[n])]
    IN /\ \A n \in DOMAIN parsed :
            /\ (parsed[n].lines = Unset) # (parsed[n].concat = Unset)
            /\ parsed[n].lines # Unset => Names(parsed[n].lines) \subseteq DOMAIN c.metrics
            /\ parsed[n].concat # Unset => Names(parsed[n].concat) \subseteq DOMAIN parsed
       /\ ~HasCycle([n \in DOMAIN parsed |->
                        IF parsed[n].concat = Unset THEN {} ELSE Names(parsed[n].concat)])

AttributeFits(c, d, a) ==
    LET attribute == d.attributes[a]
        target == attribute.references
    IN /\ Cardinality(Range(attribute.values)) = Len(attribute.values)
       /\ attribute.values = <<>> \/ target = ""
       /\ target # "" => target \in DOMAIN c.dims /\ ~c.dims[target].ragged
       /\ attribute.unique => IsLeaf(d) /\ a \in DOMAIN d.source.mapping

DimensionFits(c, d) ==
    /\ Cardinality({t \in {<<1, IsLeaf(d)>>, <<2, IsDerived(d)>>, <<3, d.ragged>>} : t[2]}) = 1
    /\ IsLeaf(d) =>
         /\ d.source.table[2] # "" /\ d.source.key_column # ""
         /\ DOMAIN d.source.mapping \subseteq DOMAIN d.attributes
    /\ {d.display_attribute, d.sort_attribute} \ {""} \subseteq DOMAIN d.attributes
    /\ d.required \subseteq DOMAIN d.attributes
    /\ d.extendability # "source-mastered" => IsLeaf(d)
    /\ \A a \in DOMAIN d.attributes : AttributeFits(c, d, a)

DerivedFits(c, d) ==
    IsDerived(d) => d.derived_from.dimension \in DOMAIN c.dims /\ d.derived_from.source_column # ""

RaggedFits(c, d) ==
    d.ragged =>
        /\ d.leaf_dimension \in DOMAIN c.dims /\ IsLeaf(c.dims[d.leaf_dimension])
        /\ IF d.ragged_source.type = "provided"
           THEN /\ {<<>>} \cap {d.ragged_source.node_table, d.ragged_source.edge_table} = {}
                /\ "" \notin {d.ragged_source.child_column, d.ragged_source.parent_column}
           ELSE /\ d.levels # <<>>
                /\ Last(d.levels).dimension = d.leaf_dimension
                /\ \A i \in DOMAIN d.levels : d.levels[i].dimension \in DOMAIN c.dims

DimensionsFit(c) ==
    /\ \A k \in DOMAIN c.dims :
         /\ DimensionFits(c, c.dims[k])
         /\ DerivedFits(c, c.dims[k])
         /\ Keys(c.dims[k].parents) \subseteq DOMAIN c.dims
         /\ RaggedFits(c, c.dims[k])
    /\ ~HasCycle([k \in DOMAIN c.dims |-> Keys(c.dims[k].parents)])

\* The rules of a domain: its inspected columns, its rollups, its backend.
DomainFits(c, d) ==
    LET base == {c.metrics[k] : k \in {m \in d.metrics : ~c.metrics[m].derived}}
    IN /\ \A column \in Range(d.inspect_columns) : SafeName(column)
       /\ Cardinality(Range(d.inspect_columns)) = Len(d.inspect_columns)
       /\ d.inspect_enabled => d.inspect_columns # <<>>
       /\ \A m \in base : m.rollup_method = "avg" => m.aggregation = "sum"
       /\ d.backend_kind = "ibis" =>
            /\ ~d.versioned
            /\ \A m \in base : m.aggregation = "sum" /\ m.rollup_method = "sum"

CubeFits(c, d, cube) ==
    IF cube.source_inline THEN d.backend_kind = "ibis" /\ ~cube.filterable
    ELSE cube.source # "" /\ cube.key \in DOMAIN c.dims

PlanDimensionFits(c, d) ==
    /\ (d.source # "") # (d.values # <<>>)
    /\ "" \notin Range(d.values) /\ Cardinality(Range(d.values)) = Len(d.values)
    /\ d.source # "" => d.source \in DOMAIN c.dims /\ d.level \in DOMAIN c.dims \cup {""}

\* Each member of the plan's metric dimension is described, and no other.
MetadataFits(c, p) ==
    p.metric_metadata # <<>> =>
        /\ \E i \in DOMAIN p.dimensions :
             /\ p.dimensions[i].key = "metric"
             /\ p.dimensions[i].values # <<>>
             /\ Range(p.dimensions[i].values) = DOMAIN p.metric_metadata
        /\ \A m \in DOMAIN p.metric_metadata :
             /\ p.metric_metadata[m].named
             /\ p.metric_metadata[m].contributes_to \subseteq DOMAIN c.domains

PlanFits(c, p) ==
    /\ p.table # "" /\ p.value_column # "" /\ p.dimensions # <<>>
    /\ p.domain # "" => p.domain \in DOMAIN c.domains
                          /\ c.domains[p.domain].backend_kind = "clickhouse"
    /\ ~Repeats(p.dimensions)
    /\ \A i \in DOMAIN p.dimensions : PlanDimensionFits(c, p.dimensions[i])
    /\ MetadataFits(c, p)

\* A source coordinate is <<plan dimension>> or <<plan dimension, attribute>>.
CoordinateFits(c, plan, coordinate) ==
    \/ Len(coordinate) = 1 /\ coordinate[1] \in Keys(plan.dimensions)
    \/ /\ Len(coordinate) = 2
       /\ \E i \in DOMAIN plan.dimensions :
            LET bound == plan.dimensions[i]
            IN /\ bound.key = coordinate[1] /\ bound.source \in DOMAIN c.dims
               /\ coordinate[2] \in DOMAIN c.dims[bound.source].attributes
               /\ c.dims[bound.source].extendability = "planner-extendable"
                    => coordinate[2] \in c.dims[bound.source].required

MappingFits(c, m) ==
    /\ m.source_dataset \in DOMAIN c.plans
    /\ m.source_coordinates # <<>> /\ m.target_columns # {}
    /\ Cardinality(Range(m.source_coordinates)) = Len(m.source_coordinates)
    /\ \A x \in Range(m.source_coordinates) : CoordinateFits(c, c.plans[m.source_dataset], x)
    /\ \A x \in Range(m.source_coordinates) : \A i \in DOMAIN x : SafeName(x[i])
    /\ \A x \in m.target_columns : SafeName(x)

Valid(c) ==
    /\ MetricsFit(c) /\ StatementsFit(c) /\ DimensionsFit(c)
    /\ \A n \in DOMAIN c.domains :
         /\ DomainFits(c, c.domains[n])
         /\ \A cube \in Range(c.domains[n].cubes) : CubeFits(c, c.domains[n], cube)
    /\ \A k \in DOMAIN c.plans : PlanFits(c, c.plans[k])
    /\ \A k \in DOMAIN c.mappings : MappingFits(c, c.mappings[k])

\* load_and_validate.
Accepted(files) == FilesLoad(files) /\ Valid(Assembled(files))

-----------------------------------------------------------------------------
\* What the readers of an accepted catalogue ask of it.

\* resolve_statement: the lines of a statement, those of the statements it
\* joins put in their place; "circular" where the recursion meets itself.
ResolveStatement(c, name) ==
    LET all == DOMAIN c.statements
        line(below, n, visiting) ==
            LET s == ParseStatement(c.statements[n])
                joined(e) == IF e = "separator" THEN <<e>> ELSE below[e]
            IN IF n \in visiting THEN <<"circular">>
               ELSE IF s.lines # Unset THEN s.lines
               ELSE FlattenSeq([i \in DOMAIN s.concat |-> joined(s.concat[i])])
        Lines[visiting \in SUBSET all] ==
            [n \in all |-> line(Lines[visiting \cup {n}], n, visiting)]
    IN Lines[{}][name]

\* The base metrics a metric is computed from; a formula that meets itself
\* has met every metric by then.
BaseMetrics(c, k) ==
    LET Reached[n \in 0 .. Cardinality(DOMAIN c.metrics)] ==
            IF n = 0 THEN {k}
            ELSE Reached[n - 1] \cup UNION {Refs(c.metrics[m]) \cap DOMAIN c.metrics : m \in Reached[n - 1]}
    IN {m \in Reached[Cardinality(DOMAIN c.metrics)] : ~c.metrics[m].derived}

\* The domains of the base metrics under a metric.
DomainsUnder(c, k) == {c.metrics[m].domain : m \in BaseMetrics(c, k)}

\* _resolve_metric_domain: one domain for each metric with a base metric, that of
\* the first one met; which metric of a formula the walk follows first depends
\* on the order of a set, and is the same wherever the formula is met.
MetricDomains(c) ==
    LET under == Tabulated([k \in DOMAIN c.metrics |-> DomainsUnder(c, k)])
        based == {k \in DOMAIN c.metrics : under[k] # {}}
    IN {domain \in [based -> UNION Range(under)] :
          \A k \in based :
             /\ domain[k] \in under[k]
             /\ c.metrics[k].derived => \E m \in Refs(c.metrics[k]) \cap based : domain[k] = domain[m]}

\* _resolve_domains_for_statement: what the domains of a statement may come to.
StatementDomains(c, name) ==
    {{domain[k] : k \in Names(ResolveStatement(c, name)) \cap DOMAIN domain} : domain \in MetricDomains(c)}

Bound(c, ds) ==
    {cube.key : cube \in {x \in UNION {Range(c.domains[d].cubes) : d \in ds \cap DOMAIN c.domains} :
                            ~x.source_inline}}

Inline(c, ds) ==
    {cube.key : cube \in {x \in UNION {Range(c.domains[d].cubes) : d \in ds \cap DOMAIN c.domains} :
                            x.source_inline}}

RaggedOver(c, leaves) == {k \in DOMAIN c.dims : c.dims[k].ragged /\ c.dims[k].leaf_dimension \in leaves}

\* Mutant: only the immediate parents of a bound dimension are offered.
NearFilterKeys(c, ds) ==
    Bound(c, ds) \cup (UNION {Keys(c.dims[k].parents) : k \in Bound(c, ds)}) \cup RaggedOver(c, Bound(c, ds))

\* _get_valid_filter_keys_for_domains.
FilterKeys(c, ds) ==
    Bound(c, ds) \cup (UNION {Ancestors(c.dims, k) : k \in Bound(c, ds)}) \cup RaggedOver(c, Bound(c, ds))

\* _get_valid_dimension_keys_for_domains.
DimensionKeys(c, ds) == FilterKeys(c, ds) \cup Inline(c, ds)

\* The leaf a filter is resolved to: itself, the first way, or the hierarchy's.
FilterLeaf(c, k) ==
    IF IsLeaf(c.dims[k]) THEN k
    ELSE IF c.dims[k].ragged THEN c.dims[k].leaf_dimension
    ELSE IF Transitive(c, k) = <<>> THEN "" ELSE Transitive(c, k)[1].leaf

\* _map_to_view_column: the domain's column for that leaf, or else the key of
\* the leaf's own table.
ViewColumn(c, domain, k) ==
    LET ways == Transitive(c, k)
        leaf == IF IsLeaf(c.dims[k]) THEN k
                ELSE IF ways # <<>> THEN ways[1].leaf
                ELSE IF c.dims[k].ragged THEN c.dims[k].leaf_dimension ELSE k
        bound == {cube \in UNION {Range(c.domains[d].cubes) : d \in {domain} \cap DOMAIN c.domains} :
                    cube.key = leaf}
    IN IF bound # {} THEN (CHOOSE cube \in bound : TRUE).source
       ELSE IF leaf \in DOMAIN c.dims /\ IsLeaf(c.dims[leaf]) THEN c.dims[leaf].source.key_column ELSE leaf

\* validate_dimension_map, validate_filters_for_report: a filter that names no
\* dimension is an error; one that does not concern the report is left out.
CheckedFilters(c, filters, keys) ==
    [kept |-> filters \cap DOMAIN c.dims \cap keys, failed |-> ~(filters \subseteq DOMAIN c.dims)]

\* validate_dimensions_for_report: an axis of another domain passes.
AxesRefused(c, axes) == ~(axes \subseteq DimensionKeys(c, DOMAIN c.domains))

\* build_passthrough_views: the leaf tables with no dims file of their own.
Passthroughs(c, existing) ==
    {c.dims[k].source.table[2] : k \in {j \in DOMAIN c.dims : IsLeaf(c.dims[j])}} \ existing

RaggedName(c, k) == c.dims[k].leaf_dimension \o "_" \o k
RaggedObjects(c, k) ==
    {<<"semantic", RaggedName(c, k) \o suffix>> : suffix \in {"", "_edges", "_rollup"}}
RaggedDims(c) == {k \in DOMAIN c.dims : c.dims[k].ragged}

\* required_read_columns: the relations the reading side names.
RequiredReads(c) ==
    {c.domains[d].source_view : d \in {n \in DOMAIN c.domains : c.domains[n].backend_kind # "ibis"}}
      \cup {c.dims[k].source.table : k \in {j \in DOMAIN c.dims : IsLeaf(c.dims[j])}}
      \cup (UNION {RaggedObjects(c, k) : k \in RaggedDims(c)})
      \cup {<<"semantic", "scenarios">>}
=============================================================================
