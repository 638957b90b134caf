---------------------------- MODULE ReportEngine ----------------------------
(***************************************************************************)
(* One report, from the question to the rows (engine/): the plan of        *)
(* queries, the filters, the security scope, the forks, the retrieval on   *)
(* either backend, the re-alignment of shifted periods, the arithmetic     *)
(* between metrics and scenarios, the rows; and the drill to the records   *)
(* behind a figure.                                                        *)
(*                                                                         *)
(* A figure is kept symbolic: the sum of a set of facts is                 *)
(* <<"sum", facts>>, so two figures are equal only when they add the same  *)
(* facts.  A month is counted from year 0, a quarter and a year likewise;  *)
(* a week is 100 * year + number.                                          *)
(***************************************************************************)
EXTENDS Integers, FiniteSets, FiniteSetsExt, Functions, ScenarioKeys

CONSTANTS
    Registry,   \* rows of semantic.scenarios: id, alias, variantOf
    Domains,    \* name -> backend, native (its time dimension), versioned, axes
    Facts,      \* rows of the fact views: domain, scenario, month, week, cc, client, draft
    Members,    \* leaf dimension -> its members
    Division,   \* cost centre -> the division that is its parent
    Nodes,      \* node of the ragged hierarchy -> cost centres below it
    Children,   \* node of the ragged hierarchy -> nodes
    Calendar,   \* the weeks in the order of their seq
    Asks        \* the requests, each with the scopes of the caller

VARIABLES
    stage,      \* where the request is
    ask,        \* the request
    plan,       \* its data queries
    filters,    \* leaf dimension -> members, after the scope
    raw,        \* scenario key -> dimension key -> metric -> figure
    report,     \* dimension key -> metric -> the figure of each block
    records     \* the block of a drill and its rows

reportVars == <<stage, ask, plan, filters, raw, report, records>>

\* The rows are ones ScenarioRegistry accepts, and aliases are texts.
ASSUME RegistryLoads == Loadable(Registry) /\ \A s \in Registry : s.alias \in Seq(STRING)

\* A row of a view has all its columns.
ASSUME FactsAssumption ==
    \A f \in Facts :
        /\ f = [domain |-> f.domain, scenario |-> f.scenario, month |-> f.month, week |-> f.week,
                cc |-> f.cc, client |-> f.client, draft |-> f.draft]
        /\ f.month \in Int /\ f.week \in Int /\ f.draft \in BOOLEAN

\* The calendar has a week once.
ASSUME CalendarAssumption ==
    /\ Calendar \in Seq(Int)
    /\ \A i, j \in DOMAIN Calendar : Calendar[i] = Calendar[j] => i = j

\* The catalogue is one that was accepted: a federated domain has no drafts.
ASSUME DomainsAssumption ==
    \A d \in DOMAIN Domains :
        /\ Domains[d].backend = "ibis" => ~Domains[d].versioned
        /\ Domains[d].axes \subseteq {"week", "period", "quarter", "fiscal_year",
                                     "cc", "client", "division", "tree"}

\* There are two leaf dimensions.  A request is a list of blocks, each with a
\* text for its key, over a window of whole periods, a week of some year from 1 on;
\* the tools ask for subtotals only with the total (run_metric); filters and
\* scopes name axes of the catalogue.
ASSUME AsksAssumption ==
    /\ DOMAIN Members = {"cc", "client"}
    /\ \A a \in Asks :
         /\ a.domain \in DOMAIN Domains
         /\ a.from \in Int /\ a.to \in Int /\ a.grain \in {"week", "month", "quarter", "year"}
         /\ a.dims \in Seq({a.dims[i] : i \in DOMAIN a.dims})
         /\ a.grain = "week" => a.from > 0
         /\ a.grains.subtotals => a.grains.total
         /\ DOMAIN a.filters \subseteq {"cc", "client", "division", "tree"}
         /\ \A id \in DOMAIN a.scope :
              DOMAIN a.scope[id].allow \cup DOMAIN a.scope[id].deny
                \subseteq {"cc", "client", "division", "tree"}
         /\ Range(a.metrics) \subseteq {"flow", "billed", "mean", "stock", "ratio", "spread"}
         /\ a.blocks \in Seq({a.blocks[i] : i \in DOMAIN a.blocks})
         /\ \A i \in DOMAIN a.blocks :
              LET b == a.blocks[i]
              IN /\ b.key \in Seq(STRING) /\ b = [key |-> b.key, fork |-> b.fork, reads |-> b.reads]
                 /\ b.reads \in {"committed", "uncommitted", "uncommitted_delta"}

-----------------------------------------------------------------------------
\* Periods.

GrainOf == [period |-> "month", quarter |-> "quarter", fiscal_year |-> "year",
            week |-> "week"]
TimeDims == DOMAIN GrainOf
Rank == [week |-> 1, month |-> 2, quarter |-> 3, year |-> 4]

InGrain(month, g) ==
    CASE g = "month" -> month [] g = "quarter" -> month \div 3
      [] OTHER -> month \div 12

TimeOf(f, g) == IF g = "week" THEN f.week ELSE InGrain(f.month, g)

PerYear == [week |-> 100, month |-> 12, quarter |-> 4, year |-> 1]
StepMonths == [month |-> 1, quarter |-> 3, year |-> 12]

\* shift_year and step_period; a week has no closed-form predecessor and keeps
\* its window, which the calendar then maps back.
Earlier(n, g, shift) ==
    IF shift = "py" THEN n - PerYear[g] ELSE IF g = "week" THEN n ELSE n - 1

\* time_offset: the months the remap has to put back.
OffsetOf(g, shift) ==
    IF shift = "py" THEN 12 ELSE IF g = "week" THEN 0 ELSE StepMonths[g]

\* _shift_time_value.
Forward(n, dim, months) ==
    CASE dim = "period" -> n + months
      [] dim = "quarter" -> (n * 3 + months) \div 3
      [] dim = "fiscal_year" -> (n * 12 + months) \div 12
      [] dim = "week" -> n + 100 * (months \div 12)

\* The weeks whose successor lies in the window.
Preceding(from, to) ==
    {Calendar[i - 1] : i \in {j \in 2 .. Len(Calendar) : Calendar[j] \in from .. to}}

\* _successor_remap.
Succeeding(week, from, to) ==
    LET later == {i \in 2 .. Len(Calendar) :
                    Calendar[i] \in from .. to /\ Calendar[i - 1] = week}
    IN IF later = {} THEN week ELSE Calendar[CHOOSE i \in later : TRUE]

-----------------------------------------------------------------------------
\* The plan.

\* A block's key as its data is filed: the public key of what it names.
Filed(b) == [b EXCEPT !.key = KeyOf(Resolve(Registry, b.key))]

Plain(key) == [key |-> key, fork |-> <<"none">>, reads |-> "committed"]

\* The data a block needs: itself, or the two sides of a comparison.
Parts(b) ==
    LET ref == Resolve(Registry, b.key)
    IN IF Compares(ref) THEN {Plain(KeyOf(ref.left)), Plain(KeyOf(ref.right))}
                        ELSE {Filed(b)}

BlocksOf(a) == {a.blocks[i] : i \in DOMAIN a.blocks}
AllParts(a) == UNION {Parts(b) : b \in BlocksOf(a)}

ShiftOf(ref) == IF ref.node = "shifted" THEN ref.shift ELSE "none"

QueryFor(a, p) ==
    LET ref   == Resolve(Registry, p.key)
        shift == ShiftOf(ref)
    IN [part |-> p, scenario |-> ref.base.id,
        from |-> IF shift = "none" THEN a.from ELSE Earlier(a.from, a.grain, shift),
        to   |-> IF shift = "none" THEN a.to ELSE Earlier(a.to, a.grain, shift),
        offset |-> IF shift = "none" THEN 0 ELSE OffsetOf(a.grain, shift),
        calendar |-> shift = "pp" /\ a.grain = "week"]

\* Mutant: the calendar left out of what tells two queries apart.
SameRowsOffCalendar(q, r) ==
    /\ q.scenario = r.scenario /\ q.from = r.from /\ q.to = r.to
    /\ q.part.fork = r.part.fork /\ q.part.reads = r.part.reads

\* Two queries that read the same rows are asked once: one of them stays.
SameRows(q, r) ==
    /\ q.scenario = r.scenario /\ q.from = r.from /\ q.to = r.to
    /\ q.part.fork = r.part.fork /\ q.part.reads = r.part.reads
    /\ q.calendar = r.calendar

Deduplicated(qs) == {q \in qs : q = CHOOSE r \in qs : SameRows(q, r)}

\* A shifted scenario is not broken down finer than the filter.
Misaligned(a) ==
    \E p \in AllParts(a), i \in DOMAIN a.dims :
        /\ Resolve(Registry, p.key).node = "shifted"
        /\ a.dims[i] \in TimeDims
        /\ Rank[GrainOf[a.dims[i]]] < Rank[a.grain]

\* _detect_ragged_breakdown: the sole axis, on ClickHouse, under one node of it.
RaggedRefused(a) ==
    /\ "tree" \in Range(a.dims)
    /\ \/ Len(a.dims) > 1
       \/ Domains[a.domain].backend # "clickhouse"
       \/ "tree" \notin DOMAIN a.filters

Refused(a) ==
    \/ a.from > a.to
    \/ \E b \in BlocksOf(a) :
         LET ref == Resolve(Registry, b.key)
         IN \/ ref = Unknown
            \/ Compares(ref) /\ (b.fork # <<"none">> \/ b.reads # "committed")
    \/ a.grain = "week" /\ "week" \notin Domains[a.domain].axes
    \/ \E i \in DOMAIN a.dims : a.dims[i] \notin Domains[a.domain].axes

-----------------------------------------------------------------------------
\* Filters and scope.

LeafOf == [cc |-> "cc", client |-> "client", division |-> "cc", tree |-> "cc"]

\* The leaf members a filter value stands for.
Leaves(axis, v) ==
    CASE axis = "division" -> {c \in Members.cc : Division[c] = v}
      [] axis = "tree" -> IF v \in DOMAIN Nodes THEN Nodes[v] ELSE {}
      [] OTHER -> Members[axis] \cap {v}

Unmatched(fs) == \E axis \in DOMAIN fs : Leaves(axis, fs[axis]) = {}

\* resolve_filters: filters on one leaf dimension intersect.
ResolveFilters(fs) ==
    [d \in {LeafOf[axis] : axis \in DOMAIN fs} |->
        {m \in Members[d] :
            \A axis \in DOMAIN fs : LeafOf[axis] = d => m \in Leaves(axis, fs[axis])}]

\* _resolve_scope_members: allowed axes of one leaf dimension intersect, denied
\* ones add up.
ScopeMembers(axes, intersect) ==
    [d \in {LeafOf[axis] : axis \in DOMAIN axes} |->
        LET reached(axis) == UNION {Leaves(axis, v) : v \in axes[axis]}
            here == {axis \in DOMAIN axes : LeafOf[axis] = d}
        IN IF intersect THEN {m \in Members[d] : \A axis \in here : m \in reached(axis)}
                        ELSE UNION {reached(axis) : axis \in here}]

\* resolve_scope_filters: what the scope leaves of each dimension it mentions.
ScopeFilters(s) ==
    LET allowed == ScopeMembers(s.allow, TRUE)
        denied  == ScopeMembers(s.deny, FALSE)
    IN [d \in DOMAIN allowed \cup DOMAIN denied |->
          (IF d \in DOMAIN allowed THEN allowed[d] ELSE Members[d])
            \ (IF d \in DOMAIN denied THEN denied[d] ELSE {})]

\* merge_dimension_filters: the caller's filter cannot exceed the scope.
Merge(user, scope) ==
    [d \in DOMAIN user \cup DOMAIN scope |->
        IF d \notin DOMAIN scope THEN user[d]
        ELSE IF d \notin DOMAIN user THEN scope[d] ELSE user[d] \cap scope[d]]

\* check_domain_access: deny wins over allow.
DomainBarred(s, domain) == domain \notin s.admits \/ domain \in s.bars

Effective(s, user) == IF s.open THEN user ELSE Merge(user, ScopeFilters(s))

Row(id) == CHOOSE s \in Registry : s.id = id
Parent(id) == IF Row(id).variantOf = <<"none">> THEN id ELSE Row(id).variantOf

\* The scenario a query reads once its fork is put in.
Substituted(q) ==
    CASE q.part.fork = <<"none">> -> q
      [] q.part.fork = <<"parent">> -> [q EXCEPT !.scenario = Parent(q.scenario)]
      [] OTHER -> [q EXCEPT !.scenario = q.part.fork]

\* Mutant: the permission is asked for the scenario in the key only.
InvolvedBeforeFork(b) == Dependencies(Resolve(Registry, b.key))

\* The scenarios a block's permission is asked for: those behind its key, and
\* those its fork reads.
InvolvedBy(b) ==
    LET ids == Dependencies(Resolve(Registry, b.key))
    IN CASE b.fork = <<"none">> -> ids
         [] b.fork = <<"parent">> -> ids \cup {Parent(id) : id \in ids}
         [] OTHER -> ids \cup {b.fork}

InvolvedIn(a) == UNION {InvolvedBy(b) : b \in BlocksOf(a)}
Scopes(a) == {a.scope[id] : id \in InvolvedIn(a)}

\* _permission_gate: every scenario behind a block must be readable.
GateCloses(a) ==
    ~(InvolvedIn(a) \subseteq DOMAIN a.scope)

\* union_read_member_sets: a dimension is restricted only where every readable
\* scenario restricts it, and then to what any of them leaves.
Discoverable(a, d) ==
    LET kept == {ScopeFilters(a.scope[id]) : id \in {i \in DOMAIN a.scope : ~a.scope[i].open}}
    IN IF DOMAIN a.scope = {} THEN {}
       ELSE IF (\E id \in DOMAIN a.scope : a.scope[id].open) \/ \E fs \in kept : d \notin DOMAIN fs
       THEN Members[d]
       ELSE UNION {fs[d] : fs \in kept}

\* enforce_cross_scenario_scope: every scenario must leave the same filters.
ScopesDiffer(a, user) ==
    \/ \E s \in Scopes(a) : ~s.open /\ DomainBarred(s, a.domain)
    \/ Cardinality({Effective(s, user) : s \in Scopes(a)}) > 1

-----------------------------------------------------------------------------
\* Retrieval.

Rolled == <<"rolled">>

ValueOf(f, dim) ==
    CASE dim \in TimeDims -> <<dim, TimeOf(f, GrainOf[dim])>>
      [] dim = "division" -> <<dim, Division[f.cc]>>
      [] OTHER -> <<dim, f[dim]>>

\* The prefixes of the dimensions a request is grouped by (_grouping_sets).
GroupingSets(a) ==
    LET n == Len(a.dims)
    IN IF n = 0 THEN {0}
       ELSE (IF a.grains.detail THEN {n} ELSE {})
              \cup (IF a.grains.subtotals THEN 1 .. n - 1 ELSE {})
              \cup (IF a.grains.total THEN {0} ELSE {})

KeyAt(f, dims, j) ==
    [i \in DOMAIN dims |-> IF i <= j THEN ValueOf(f, dims[i]) ELSE Rolled]

TotalKey(dims) == [i \in DOMAIN dims |-> Rolled]

InGroup(f, dims, k) ==
    \A i \in DOMAIN dims : k[i] # Rolled => k[i] = ValueOf(f, dims[i])

\* GROUP BY GROUPING SETS: the facts of each row; the grand total has its row
\* even over nothing.
Grouped(S, dims, prefixes) ==
    [k \in {KeyAt(f, dims, j) : f \in S, j \in prefixes}
             \cup (IF 0 \in prefixes THEN {TotalKey(dims)} ELSE {}) |->
        {f \in S : InGroup(f, dims, k)}]

Sum(S) == <<"sum", S>>
None == <<"null">>
IsZero(x) == x = Sum({})

NativeGrain(a) == GrainOf[Domains[a.domain].native]
Natives(a, S) == {TimeOf(f, NativeGrain(a)) : f \in S}
Average(a, S) == IF S = {} THEN None ELSE <<"avg", S, Cardinality(Natives(a, S))>>

Rollup == [flow |-> "sum", billed |-> "sum", mean |-> "avg", stock |-> "closing"]
Formula == [ratio |-> <<"/", "flow", "stock">>, spread |-> <<"-", "ratio", "mean">>]
Metrics == DOMAIN Rollup \cup DOMAIN Formula

\* A metric's where: on both backends a row it does not hold for adds nothing.
Holds(m, f) == m = "billed" => f.client = "k1"

\* _resolve_metric_dependencies.
BaseOf[m \in Metrics] ==
    IF m \in DOMAIN Rollup THEN {m} ELSE BaseOf[Formula[m][2]] \cup BaseOf[Formula[m][3]]

\* Mutant: a formula over formulas keeps only its direct inputs.
DirectBaseMetrics(a) ==
    UNION {IF m \in DOMAIN Rollup THEN {m} ELSE {Formula[m][2], Formula[m][3]} \cap DOMAIN Rollup :
             m \in Range(a.metrics)}

BaseMetrics(a) == UNION {BaseOf[m] : m \in Range(a.metrics)}
RangeMetrics(a) == {m \in BaseMetrics(a) : Rollup[m] # "closing"}
ClosingMetrics(a) == BaseMetrics(a) \ RangeMetrics(a)

\* The rows of a scenario, and those of them in the query's window.
Rows(a, q) == {f \in Facts : f.domain = a.domain /\ f.scenario = q.scenario}

InWindow(a, q, f) ==
    IF q.calendar THEN f.week \in Preceding(q.from, q.to)
    ELSE TimeOf(f, a.grain) \in q.from .. q.to

Versioned(a, q, f) ==
    ~Domains[a.domain].versioned \/
        CASE q.part.reads = "committed" -> ~f.draft
          [] q.part.reads = "uncommitted_delta" -> f.draft
          [] OTHER -> TRUE

KeptRows(a, q, fs) ==
    {f \in Rows(a, q) : (\A d \in DOMAIN fs : f[d] \in fs[d]) /\ Versioned(a, q, f)}

\* Closing metrics take the last native period of each live time group.
TimeGroups(a) ==
    LET dims == Range(a.dims) \cap TimeDims
    IN IF Domains[a.domain].native = "period" THEN dims \ {"period", "week"} ELSE dims

\* _where_clause with closing_only.
IsClosing(a, q, f, groups) ==
    LET native == NativeGrain(a)
        peers  == {g \in Rows(a, q) :
                     /\ TimeOf(g, a.grain) \in q.from .. q.to
                     /\ \A d \in groups : ValueOf(g, d) = ValueOf(f, d)}
    IN CASE q.calendar -> InWindow(a, q, f)
         [] ~q.calendar /\ groups = {} /\ native = "month" ->
              a.grain = "month" /\ f.month = q.to
         [] OTHER -> InWindow(a, q, f) /\ TimeOf(f, native) = Max(Natives(a, peers))

Dict(a, S, range, closing) ==
    [m \in range \cup closing |->
        IF Rollup[m] = "avg" THEN Average(a, S) ELSE Sum({f \in S : Holds(m, f)})]

\* _merge_row_into_results over the rows of every query of a scenario.
Merged(tables) ==
    [k \in UNION {DOMAIN t : t \in tables} |->
        LET dicts == {t[k] : t \in {u \in tables : k \in DOMAIN u}}
        IN [m \in UNION {DOMAIN d : d \in dicts} |->
              (CHOOSE d \in dicts : m \in DOMAIN d)[m]]]

Dicts(a, groups, metrics) == [k \in DOMAIN groups |-> Dict(a, groups[k], metrics, {})]

\* The closing metrics where a time dimension is rolled up: grouped by the
\* other dimensions, at the end of the whole window (_closing_totals_query).
ClosingTotals(a, q, fs, timeDims, rolled) ==
    LET S == {f \in KeptRows(a, q, fs) : IsClosing(a, q, f, {})}
        live(j) == {i \in 1 .. j : a.dims[i] \notin timeDims}
        key(f, j) == [i \in DOMAIN a.dims |->
                        IF i \in live(j) THEN ValueOf(f, a.dims[i]) ELSE Rolled]
    IN [k \in {key(f, j) : f \in S, j \in rolled}
               \cup (IF \E j \in rolled : live(j) = {} THEN {TotalKey(a.dims)} ELSE {}) |->
          {f \in S : InGroup(f, a.dims, k)}]

\* generate_sql and what ClickHouse answers: one table per statement.
ClickHouse(a, q, fs) ==
    LET prefixes == GroupingSets(a)
        native   == Domains[a.domain].native
        single   == native \in Range(a.dims)
        groups   == TimeGroups(a)
        timeDims == groups \cup (IF single THEN {native} ELSE {})
        isLive(j) == \A i \in DOMAIN a.dims : a.dims[i] \in timeDims => i <= j
        live     == {j \in prefixes : isLive(j)}
        inRange  == {f \in KeptRows(a, q, fs) : InWindow(a, q, f)}
        closing  == {f \in KeptRows(a, q, fs) :
                       IF single THEN InWindow(a, q, f) ELSE IsClosing(a, q, f, groups)}
    IN {Dicts(a, Grouped(inRange, a.dims, prefixes), RangeMetrics(a)) :
           x \in RangeMetrics(a)}
       \cup {Dicts(a, Grouped(closing, a.dims, live), ClosingMetrics(a)) :
               x \in {m \in ClosingMetrics(a) : live # {}}}
       \cup {Dicts(a, ClosingTotals(a, q, fs, timeDims, prefixes \ live), ClosingMetrics(a)) :
               x \in {m \in ClosingMetrics(a) : prefixes # live}}

\* generate_ragged_sql: the anchor node and its children, each over its own
\* cost centres; the anchor's row becomes the total.
Ragged(a, q, fs) ==
    LET anchor == a.filters.tree
        table(S, metrics) ==
          [k \in {<<IF n = anchor THEN Rolled ELSE <<"tree", n>> >> :
                     n \in {x \in {anchor} \cup Children[anchor] :
                              \E f \in S : f.cc \in Nodes[x]}} |->
              Dict(a, {f \in S : f.cc \in Nodes[IF k[1] = Rolled THEN anchor ELSE k[1][2]]},
                   metrics, {})]
        inRange == {f \in KeptRows(a, q, fs) : InWindow(a, q, f)}
        closing == {f \in KeptRows(a, q, fs) : IsClosing(a, q, f, {})}
    IN {table(inRange, RangeMetrics(a)) : x \in RangeMetrics(a)}
       \cup {table(closing, ClosingMetrics(a)) : x \in ClosingMetrics(a)}

\* The federated backend returns the detail rows, filtered on the month column
\* whatever the grain of the bounds (codes compare as text), and the engine
\* rolls them up (rollup_detail_rows).
TextInWindow(q, g, month) ==
    CASE g = "month" -> month \in q.from .. q.to
      [] g = "quarter" -> month \div 12 > q.from \div 4 /\ month \div 12 <= q.to \div 4
      [] OTHER -> month \div 12 >= q.from /\ month \div 12 < q.to

Federated(a, q, fs) ==
    LET S == {f \in Rows(a, q) : (\A d \in DOMAIN fs : f[d] \in fs[d])
                                   /\ TextInWindow(q, a.grain, f.month)}
        detail == Grouped(S, a.dims, {Len(a.dims)})
    IN {[k \in DOMAIN Grouped(S, a.dims, GroupingSets(a)) |->
           Dict(a, UNION {detail[d] : d \in {e \in DOMAIN detail :
                     \A i \in DOMAIN a.dims : k[i] # Rolled => e[i] = k[i]}},
                BaseMetrics(a), {})]}

FederatedRefused(a) ==
    Domains[a.domain].backend = "ibis" /\ \E m \in BaseMetrics(a) : Rollup[m] # "sum"

Retrieved(a, q, fs) ==
    Merged(CASE Domains[a.domain].backend = "ibis" -> Federated(a, q, fs)
             [] "tree" \in Range(a.dims) -> Ragged(a, q, fs)
             [] OTHER -> ClickHouse(a, q, fs))

\* The time values of a shifted scenario are put back on the axis asked for.
Realigned(a, q, table) ==
    LET value(x, dim) ==
          IF x = Rolled \/ dim \notin TimeDims THEN x
          ELSE IF q.offset # 0 THEN <<dim, Forward(x[2], dim, q.offset)>>
          ELSE IF q.calendar /\ dim = "week" THEN <<dim, Succeeding(x[2], q.from, q.to)>>
          ELSE x
        moved(k) == [i \in DOMAIN k |-> value(k[i], a.dims[i])]
    IN [k \in {moved(o) : o \in DOMAIN table} |->
          table[CHOOSE o \in DOMAIN table : moved(o) = k]]

-----------------------------------------------------------------------------
\* Arithmetic (transformer.py) and the rows (formatter.py).

Apply(op, x, y) ==
    IF None \in {x, y} \/ (op # "-" /\ IsZero(y)) THEN None ELSE <<op, x, y>>

\* A metric from a row's base figures; formulas evaluate in dependency order.
Evaluated(dict) ==
    LET value[m \in {n \in Metrics : BaseOf[n] \subseteq DOMAIN dict}] ==
          IF m \in DOMAIN Rollup THEN dict[m]
          ELSE Apply(Formula[m][1], value[Formula[m][2]], value[Formula[m][3]])
    IN value

\* A formula over a metric the row does not have is an error.
Lacking(a, table) ==
    \E k \in DOMAIN table, m \in Range(a.metrics) :
        m \in DOMAIN Formula /\ ~(BaseOf[m] \subseteq DOMAIN table[k])

Figure(table, k, m) ==
    IF k \in DOMAIN table /\ m \in DOMAIN Evaluated(table[k])
    THEN Evaluated(table[k])[m] ELSE None

RowKeys(data) == UNION {DOMAIN data[p] : p \in DOMAIN data}

\* compute_scenario, or the scenario's own figure.
BlockFigure(data, b, k, m) ==
    LET ref == Resolve(Registry, b.key)
        side(r) == Figure(data[Plain(KeyOf(r))], k, m)
    IN IF ref.node = "variance" THEN Apply("-", side(ref.left), side(ref.right))
       ELSE IF ref.node = "variance_pct" THEN Apply("%", side(ref.left), side(ref.right))
       ELSE Figure(data[Filed(b)], k, m)

BlockKeys(data, b) ==
    IF Compares(Resolve(Registry, b.key)) THEN RowKeys(data) ELSE DOMAIN data[Filed(b)]

\* A comparison whose side was never filed is an error; a block's is blank.
Unfiled(a, data) ==
    \E b \in BlocksOf(a) : Compares(Resolve(Registry, b.key)) /\ ~(Parts(b) \subseteq DOMAIN data)

\* format_response: a row per key of any block and metric, blank where a block
\* has nothing.
Formatted(a, data) ==
    LET whole == [p \in AllParts(a) |-> IF p \in DOMAIN data THEN data[p] ELSE <<>>]
    IN [k \in UNION {BlockKeys(whole, b) : b \in BlocksOf(a)} |->
         [m \in Range(a.metrics) |->
           [i \in DOMAIN a.blocks |-> BlockFigure(whole, a.blocks[i], k, m)]]]

-----------------------------------------------------------------------------
\* The request.

ReportInit ==
    /\ stage = "asked"
    /\ ask \in Asks
    /\ plan = {} /\ filters = <<>> /\ raw = <<>> /\ report = <<>> /\ records = <<>>

Refuse == stage' = "refused" /\ UNCHANGED <<ask, plan, filters, raw, report, records>>

\* resolve, and the checks execute_report makes before the filters.
Plan ==
    /\ stage = "asked"
    /\ IF Refused(ask) THEN Refuse
       ELSE IF GateCloses(ask) \/ Misaligned(ask) \/ RaggedRefused(ask) THEN Refuse
       ELSE /\ stage' = "planned"
            /\ plan' = Deduplicated({QueryFor(ask, p) : p \in AllParts(ask)})
            /\ UNCHANGED <<ask, filters, raw, report, records>>

\* resolve_filters, enforce_cross_scenario_scope, then the forks.
Scope ==
    /\ stage = "planned"
    /\ IF Unmatched(ask.filters) THEN Refuse
       ELSE LET user == ResolveFilters(ask.filters)
            IN IF ScopesDiffer(ask, user) THEN Refuse
               ELSE /\ stage' = "scoped"
                    /\ filters' = CHOOSE fs \in {Effective(s, user) : s \in Scopes(ask)} : TRUE
                    /\ plan' = {Substituted(q) : q \in plan}
                    /\ UNCHANGED <<ask, raw, report, records>>

Retrieve ==
    /\ stage = "scoped"
    /\ IF FederatedRefused(ask) THEN Refuse
       ELSE LET query(p) == CHOOSE q \in plan : q.part = p
            IN /\ stage' = "retrieved"
               /\ raw' = [p \in {q.part : q \in plan} |->
                            Realigned(ask, query(p), Retrieved(ask, query(p), filters))]
               /\ UNCHANGED <<ask, plan, filters, report, records>>

\* transform and format_response.
Present ==
    /\ stage = "retrieved"
    /\ IF Unfiled(ask, raw) \/ \E p \in DOMAIN raw : Lacking(ask, raw[p])
       THEN stage' = "failed" /\ UNCHANGED <<ask, plan, filters, raw, report, records>>
       ELSE /\ stage' = "answered"
            /\ report' = Formatted(ask, raw)
            /\ UNCHANGED <<ask, plan, filters, raw, records>>

\* Mutant: the drill reads drafts.
InspectedWithDrafts(a, id) ==
    LET fs == Effective(a.scope[id], ResolveFilters(a.filters))
    IN {f \in Facts : /\ f.domain = a.domain /\ f.scenario = id
                      /\ TimeOf(f, a.grain) \in a.from .. a.to
                      /\ \A d \in DOMAIN fs : f[d] \in fs[d]}

\* inspect_rows: the committed records of a scenario, under its own scope.
Inspected(a, id) ==
    LET fs == Effective(a.scope[id], ResolveFilters(a.filters))
    IN {f \in Facts : /\ f.domain = a.domain /\ f.scenario = id
                      /\ TimeOf(f, a.grain) \in a.from .. a.to
                      /\ \A d \in DOMAIN fs : f[d] \in fs[d]
                      /\ Domains[a.domain].versioned => ~f.draft}

\* The drill from a block of the report.
Drill(i) ==
    /\ stage = "answered"
    /\ Resolve(Registry, ask.blocks[i].key).node = "real"
    /\ records' = <<i, Inspected(ask, Resolve(Registry, ask.blocks[i].key).base.id)>>
    /\ stage' = "drilled"
    /\ UNCHANGED <<ask, plan, filters, raw, report>>

\* search_hierarchy over every dimension: leaf members, the divisions that have
\* one, the hierarchy's nodes above one.
Discover ==
    /\ stage = "asked"
    /\ stage' = "discovered"
    /\ records' = [cc |-> Discoverable(ask, "cc"), client |-> Discoverable(ask, "client"),
                   division |-> {Division[c] : c \in Discoverable(ask, "cc")},
                   tree |-> {n \in DOMAIN Nodes : Nodes[n] \cap Discoverable(ask, "cc") # {}}]
    /\ UNCHANGED <<ask, plan, filters, raw, report>>

Done == stage \in {"refused", "discovered", "failed", "answered", "drilled"} /\ UNCHANGED reportVars

ReportNext == Plan \/ Discover \/ Scope \/ Retrieve \/ Present
          \/ (\E i \in DOMAIN ask.blocks : Drill(i)) \/ Done

ReportSpec == ReportInit /\ [][ReportNext]_reportVars

-----------------------------------------------------------------------------
\* What a report should say, from the question alone.

\* A fact as a shifted scenario shows it: moved forward by the shift.
Shown(f, grain, shift) ==
    CASE shift = "none" -> f
      [] shift = "pp" /\ grain = "week" ->
           LET next == {i \in 2 .. Len(Calendar) : Calendar[i - 1] = f.week}
           IN [f EXCEPT !.week = IF next = {} THEN 0 ELSE Calendar[CHOOSE i \in next : TRUE]]
      [] shift = "pp" /\ grain # "week" -> [f EXCEPT !.month = @ + StepMonths[grain]]
      [] OTHER -> [f EXCEPT !.month = @ + 12, !.week = @ + 100]

\* The caller's own words about a fact: what the filters ask for, and what the
\* scope of the fact's scenario allows.
AskedFor(a, f) == \A axis \in DOMAIN a.filters : f[LeafOf[axis]] \in Leaves(axis, a.filters[axis])

Admitted(s, f) ==
    s.open \/ /\ f.domain \in s.admits \ s.bars
              /\ \A axis \in DOMAIN s.allow :
                    \E v \in s.allow[axis] : f[LeafOf[axis]] \in Leaves(axis, v)
              /\ \A axis \in DOMAIN s.deny :
                    \A v \in s.deny[axis] : f[LeafOf[axis]] \notin Leaves(axis, v)

\* The scenario a part of a report is about, fork included.
About(p) ==
    LET id == Resolve(Registry, p.key).base.id
    IN CASE p.fork = <<"none">> -> id
         [] p.fork = <<"parent">> -> Parent(id)
         [] OTHER -> p.fork

As(a, p, f) == Shown(f, a.grain, ShiftOf(Resolve(Registry, p.key)))

\* The facts a part of a report is about: all there is of the scenario in the
\* window, and what of it this caller asked for and may see.
InPlay(a, p) ==
    {f \in Facts : /\ f.domain = a.domain /\ f.scenario = About(p)
                   /\ TimeOf(As(a, p, f), a.grain) \in a.from .. a.to}

Meant(a, p) ==
    {f \in InPlay(a, p) :
        /\ AskedFor(a, f) /\ Admitted(a.scope[About(p)], f)
        /\ Domains[a.domain].versioned =>
             f.draft \in [committed |-> {FALSE}, uncommitted |-> BOOLEAN,
                          uncommitted_delta |-> {TRUE}][p.reads]}

\* A fact under a row's label; a node of the tree holds what is below it.
Under(a, f, k) ==
    \A i \in DOMAIN k :
        k[i] # Rolled => IF k[i][1] = "tree" THEN f.cc \in Nodes[k[i][2]]
                                             ELSE ValueOf(f, a.dims[i]) = k[i]

\* The last period of a row: the end of the window where the row is not itself
\* a period, else the last one the scenario has anything for.
Latest(a, S) == IF S = {} THEN 0 ELSE Max(Natives(a, S))

LastPeriod(a, p, k) ==
    LET times == {i \in DOMAIN k : k[i] # Rolled /\ a.dims[i] \in TimeDims}
    IN IF times = {} /\ NativeGrain(a) = a.grain /\ a.grain = "month" THEN a.to
       ELSE Latest(a, {f \in {As(a, p, g) : g \in InPlay(a, p)} :
                         \A i \in times : ValueOf(f, a.dims[i]) = k[i]})

\* A metric over the facts under a label and over those of its last period; a
\* total is a sum even over nothing.
Computed(a, under, last, total, metric) ==
    LET sum(S) == IF S = {} /\ ~total THEN None ELSE Sum(S)
        value[x \in Metrics] ==
          CASE x = "flow"  -> sum(under)
            [] x = "billed" -> IF sum(under) = None THEN None
                               ELSE Sum({f \in under : f.client = "k1"})
            [] x = "mean"  -> Average(a, under)
            [] x = "stock" -> sum(last)
            [] OTHER -> Apply(Formula[x][1], value[Formula[x][2]], value[Formula[x][3]])
    IN value[metric]

\* A figure is the facts behind it, whatever period they were filed under.
MeantFigure(a, p, k, m) ==
    LET under == {f \in Meant(a, p) : Under(a, As(a, p, f), k)}
    IN Computed(a, under,
                {f \in under : TimeOf(As(a, p, f), NativeGrain(a)) = LastPeriod(a, p, k)},
                "tree" \notin Range(a.dims) /\ \A i \in DOMAIN k : k[i] = Rolled, m)

\* The rows: the labels the data has at the grains asked for, unless every
\* figure under one is blank.
Labels(a, p) ==
    IF "tree" \in Range(a.dims)
    THEN {<<Rolled>>} \cup {<< <<"tree", n>> >> : n \in Children[a.filters.tree]}
    ELSE {KeyAt(As(a, p, f), a.dims, j) : f \in Meant(a, p), j \in GroupingSets(a)}
           \cup {TotalKey(a.dims) : j \in GroupingSets(a) \cap {0}}

MeantKeys(a, p) ==
    {k \in Labels(a, p) :
        ("tree" \notin Range(a.dims) /\ k = TotalKey(a.dims))
          \/ \E m \in BaseMetrics(a) : MeantFigure(a, p, k, m) # None}

MeantBlock(a, b, k, m) ==
    LET figure(p) == MeantFigure(a, p, k, m)
        compared(ref) == Apply(IF ref.node = "variance" THEN "-" ELSE "%",
                               figure(Plain(KeyOf(ref.left))), figure(Plain(KeyOf(ref.right))))
    IN IF Compares(Resolve(Registry, b.key)) THEN compared(Resolve(Registry, b.key))
       ELSE figure(Filed(b))

Presented == stage \in {"answered", "drilled"}

\* Every figure of a report is the facts its labels name and no others: the
\* scenario, moved forward for a prior period, in the row, in the window, asked
\* for and permitted; no row is missing and none is made up (resolver.py,
\* retriever.py, ibis_retriever.py, transformer.py, formatter.py together).
FiguresMeanTheirLabels ==
    Presented =>
        /\ DOMAIN report = UNION {MeantKeys(ask, p) : p \in AllParts(ask)}
        /\ \A k \in DOMAIN report, m \in Range(ask.metrics), i \in DOMAIN ask.blocks :
              report[k][m][i] = MeantBlock(ask, ask.blocks[i], k, m)

\* The facts in a figure that was retrieved.
Behind(x) == IF x[1] \in {"sum", "avg"} THEN x[2] ELSE {}

\* No figure retrieved, on either backend and through any fork, adds a fact that
\* the scope this caller has in that fact's own scenario does not admit
\* (scope_enforcer.py; the scope was checked before the forks were put in).
NothingOutOfScope ==
    \A p \in DOMAIN raw : \A k \in DOMAIN raw[p] : \A m \in DOMAIN raw[p][k] :
        \A f \in Behind(raw[p][k][m]) : Admitted(ask.scope[f.scenario], f)

\* A question the plan, the filters and the scope let through is answered: the
\* arithmetic never meets a figure that was not retrieved (transformer.py).
AcceptedIsAnswered == stage # "failed"

\* The records behind a figure add up to it: drilling into a plain block returns
\* the facts its total adds (inspect.py builds the conditions of retriever.py a
\* second time).
DrillExplainsFigure ==
    stage = "drilled" =>
        LET b == ask.blocks[records[1]]
        IN /\ b = Plain(b.key) /\ "flow" \in Range(ask.metrics)
           /\ TotalKey(ask.dims) \in DOMAIN report /\ "tree" \notin Range(ask.dims)
           => report[TotalKey(ask.dims)]["flow"][records[1]] = Sum(records[2])

\* Discovery names exactly what some readable scenario admits: no axis value
\* without a permitted member below it, and no permitted member left out
\* (scope_enforcer.py union_read_member_sets, read_tools.py search_hierarchy).
Allows(s, d, m) ==
    s.open \/ /\ \A axis \in DOMAIN s.allow : LeafOf[axis] = d =>
                    \E v \in s.allow[axis] : m \in Leaves(axis, v)
              /\ \A axis \in DOMAIN s.deny : LeafOf[axis] = d =>
                    \A v \in s.deny[axis] : m \notin Leaves(axis, v)

DiscoveryIsUnion ==
    stage = "discovered" =>
        \A d \in DOMAIN Members :
            records[d] = {m \in Members[d] :
                            \E id \in DOMAIN ask.scope : Allows(ask.scope[id], d, m)}

\* Scopes hold for the figures of a report and for what discovery lists.
ScopesHold == NothingOutOfScope /\ DiscoveryIsUnion

\* "closing for balances (take the last period's value rather than adding)"
\* (docs/configuration/catalogue-and-semantic.md), "Month/quarter/fiscal-year
\* work everywhere" (docs/reference/mcp-tools.md): the total of a balance is its
\* last period's.
ClosingIsLastPeriod ==
    Presented =>
        \A i \in DOMAIN ask.blocks :
            LET k == TotalKey(ask.dims)
            IN report[k]["stock"][i] = MeantBlock(ask, ask.blocks[i], k, "stock")
=============================================================================
