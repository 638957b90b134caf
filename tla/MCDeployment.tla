----------------------------- MODULE MCDeployment -----------------------------
(***************************************************************************)
(* Instances of Deployment: the graphs three metrics, three statements or  *)
(* three dimensions can make, one instance with every section of the       *)
(* catalogue and ways to break one rule of it, and the rows of its         *)
(* hierarchies before and after a load.                                    *)
(***************************************************************************)
EXTENDS Deployment

Dim(key, parents) ==
    [key |-> key, parents |-> parents,
     source |-> [table |-> <<"", "dim_" \o key>>, key_column |-> "id"]]
Link(key) == [key |-> key, source_column |-> key \o "_id"]
Links(keys) == LET s == SetToSeq(keys) IN [i \in DOMAIN s |-> Link(s[i])]
Base(key) ==
    [key |-> key, source_column |-> "amount", aggregation |-> "sum", rollup_method |-> "sum"]
Formula(key, names) == [key |-> key, formula |-> names]

FactFile(name, metrics, cubes) ==
    [domain |-> name, source_view |-> <<"", "v_" \o name>>, metrics |-> metrics, cubes |-> cubes]
        @@ EmptyFile
Small(dims, metrics, statements) ==
    [files |-> <<[dimensions |-> dims] @@ EmptyFile,
                 FactFile("gl", metrics, [i \in DOMAIN dims |-> [key |-> dims[i].key, source |-> "x"]]),
                 [statements |-> statements] @@ EmptyFile>>,
     live |-> <<>>, scenarios |-> <<>>, dims |-> <<>>, views |-> <<>>, first |-> TRUE, later |-> {}]

Letters == <<"a", "b", "c">>

\* The n-th of the 512 graphs over the letters.
Graph(n) ==
    [x \in Range(Letters) |->
       {y \in Range(Letters) :
          \E i, j \in 1 .. 3 : /\ <<Letters[i], Letters[j]>> = <<x, y>>
                               /\ (n \div 2 ^ (3 * i + j - 4)) % 2 = 1}]

\* Formulas over each other and, where they are over nothing else, a base metric.
MetricCase(g) ==
    Small(<<>>, <<Base("m")>> \o [i \in 1 .. 3 |->
                      Formula(Letters[i], IF g[Letters[i]] = {} THEN {"m", "sum"} ELSE g[Letters[i]])],
           ("s" :> [lines |-> <<"a", "separator", "m">>]))
StatementCase(g) ==
    Small(<<>>, <<Base("m")>>,
          [x \in DOMAIN g |-> IF g[x] = {} THEN [lines |-> <<"m">>]
                              ELSE [concat |-> SetToSeq(g[x])]])
DimensionCase(g) ==
    LET i == Small([n \in 1 .. 3 |-> Dim(Letters[n], Links(g[Letters[n]]))], <<Base("m")>>,
                    ("s" :> [lines |-> <<"m">>]))
    IN [i EXCEPT !.files[2].cubes = <<[key |-> "a", source |-> "a_id"]>>]

-----------------------------------------------------------------------------
\* An instance with every section, and changes to it.

Org == [key |-> "org", ragged |-> TRUE, leaf_dimension |-> "cc",
        levels |-> <<[dimension |-> "div", node_prefix |-> "v:"],
                     [dimension |-> "dept", node_prefix |-> "d:"],
                     [dimension |-> "cc"]>>]
Book == [key |-> "book", ragged |-> TRUE, leaf_dimension |-> "cc",
         source |-> [type |-> "provided", node_table |-> <<"", "book_nodes">>,
                     edge_table |-> <<"", "book_edges">>, child_column |-> "c", parent_column |-> "p"]]
Derived(key, parents) ==
    [key |-> key, parents |-> parents, derived_from |-> [dimension |-> "cc", source_column |-> key \o "_id"]]

RichDims ==
    <<Dim("cc", <<Link("dept"), Link("div")>>), Derived("dept", <<Link("div")>>), Dim("div", <<>>), Org, Book,
      [attributes |-> ("size" :> [values |-> <<"s", "l">>]), display_attribute |-> "size"] @@ Dim("item", <<>>)>>
RichFiles ==
    <<[dimensions |-> RichDims] @@ EmptyFile,
      FactFile("gl", <<Base("m"), [where |-> <<[column |-> "kind", op |-> "in", values |-> {1}]>>] @@ Base("n"),
                       Formula("net", {"m", "n"}), Formula("rate", {"net", "hours"})>>,
               <<[key |-> "cc", source |-> "cc_id"]>>),
      [backend_kind |-> "ibis"] @@
        FactFile("log", <<Base("hours")>>,
                 <<[key |-> "item", source |-> "item_id"],
                   [key |-> "week", source_inline |-> TRUE, filterable |-> FALSE]>>),
      [statements |-> ("pnl" :> [lines |-> <<"m", "separator", "net">>])
                   @@ ("work" :> [lines |-> <<"hours">>])
                   @@ ("rates" :> [lines |-> <<"rate">>])
                   @@ ("nets" :> [concat |-> <<"pnl">>])] @@ EmptyFile,
      [plans |-> <<[key |-> "budget", table |-> "entries", value_column |-> "v", domain |-> "gl",
                    dimensions |-> <<[key |-> "unit", source |-> "cc"],
                                     [key |-> "metric", values |-> <<"m">>]>>,
                    metric_metadata |-> ("m" :> [named |-> TRUE, contributes_to |-> {"gl"}])]>>,
       mappings |-> <<[key |-> "units", source_dataset |-> "budget",
                       source_coordinates |-> <<<<"unit">>>>, target_columns |-> {"account"}]>>]
        @@ EmptyFile>>

Rich(files) ==
    [files |-> files, live |-> <<"dim_cc", "dim_div", "dim_item">>,
     scenarios |-> <<[id |-> "actuals", alias |-> "ac"], [id |-> "budget", alias |-> "bu"]>>,
     dims |-> <<[name |-> "book_edges", needs |-> {<<"live", "dim_cc">>}],
                [name |-> "book_nodes", needs |-> {<<"live", "dim_cc">>}]>>,
     views |-> <<[name |-> "v_gl", needs |-> {<<"semantic", "dim_cc">>}]>>,
     first |-> TRUE, later |-> {}]

\* One rule broken each.
BrokenFiles(rich) ==
    <<[rich EXCEPT ![1].dimensions[1].parents = <<Link("nowhere")>>],
     [rich EXCEPT ![1].dimensions[2].derived_from.dimension = "nowhere"],
     [rich EXCEPT ![1].dimensions[4].levels = Tail(@) \o <<Head(@)>>],
     [rich EXCEPT ![1].dimensions[4].levels = <<>>],
     [rich EXCEPT ![1].dimensions[5].source.child_column = ""],
     [rich EXCEPT ![1].dimensions[6].display_attribute = "colour"],
     [rich EXCEPT ![1].dimensions[1].source.table = <<"live", "dim_cc">>],
     [rich EXCEPT ![1].dimensions = Append(@, Derived("dept", <<>>))],
     [rich EXCEPT ![2].metrics[1].aggregation = "median"],
     [rich EXCEPT ![2].metrics[1] = [aggregation |-> "count", rollup_method |-> "avg"] @@ @],
     [rich EXCEPT ![2].metrics[2].where[1].column = "1=1"],
     [rich EXCEPT ![2].metrics[3].formula = {"m", "ghost"}],
     [rich EXCEPT ![2].cubes[1].key = "nowhere"],
     [rich EXCEPT ![2].metrics = Append(@, Base("hours"))],
     [rich EXCEPT ![3].versioned = TRUE],
     [rich EXCEPT ![3].metrics[1].rollup_method = "closing"],
     [rich EXCEPT ![3].cubes[2].filterable = TRUE],
     [rich EXCEPT ![3].inspect_columns = <<"a", "a">>],
     [rich EXCEPT ![4].statements.pnl.lines = <<"ghost">>],
     [rich EXCEPT ![4].statements.nets = [lines |-> <<"m">>, concat |-> <<"pnl">>]],
     [rich EXCEPT ![5].plans[1].domain = "log"],
     [rich EXCEPT ![5].plans[1].dimensions[1].source = "nowhere"],
     [rich EXCEPT ![5].plans[1].metric_metadata = ("other" :> [named |-> TRUE, contributes_to |-> {}])],
     [rich EXCEPT ![5].mappings[1].source_coordinates = <<<<"unit">>, <<"unit">>>>],
     [rich EXCEPT ![5].mappings[1] = [seeds |-> <<(<<"scenario">> :> "x")>>] @@ @]>>

\* The rich instance without its second hierarchy and the top level of the
\* first, and what the operator may replace it with: the whole of it, and a
\* broken one.  On their own: a scenario file with a repeated alias, a directory
\* with no live tables, and all the rest.
Plain == Rich(RichFiles)
Reduced(files) ==
    Rich([files EXCEPT ![1].dimensions = <<@[1], @[2], @[3], [Org EXCEPT !.levels = Tail(@)], @[6]>>])
Looping(files) == Rich([files EXCEPT ![2].metrics[3].formula = {"net"}])
OwnCases(plain) ==
    <<[Reduced(plain.files) EXCEPT !.later = 2 .. 3], [plain EXCEPT !.first = FALSE],
      [Looping(plain.files) EXCEPT !.first = FALSE],
      [plain EXCEPT !.scenarios[2].alias = "ac"], [plain EXCEPT !.live = <<>>]>>
Unprovisioned(broken) == [n \in DOMAIN broken |-> [Rich(broken[n]) EXCEPT !.live = <<>>]]
AllInstances ==
    OwnCases(Plain) \o Unprovisioned(BrokenFiles(RichFiles))
      \o [n \in 1 .. 512 |-> MetricCase(Graph(n - 1))]
      \o [n \in 1 .. 512 |-> StatementCase(Graph(n - 1))]
      \o [n \in 1 .. 512 |-> DimensionCase(Graph(n - 1))]
MCInstances == AllInstances  \* named apart: TLC evaluates a definition once, a substitution each time

-----------------------------------------------------------------------------
\* Rows: leaves in departments in divisions, one of which its table lacks; a book
\* with a leaf under two nodes that meet again, a loop, and a node no list has.
Row(id, dept, div) == [id |-> id, dept_id |-> dept, div_id |-> div]
MCData ==
    ("dim_item" :> <<{[id |-> "i1"]}>>)
    @@ ("dim_div" :> <<{[id |-> "W"]}>>)
    @@ ("book_nodes" :> <<{[node_id |-> n, node_type |-> "book"] : n \in {"x", "y", "z"}}>>)
    @@ ("dim_cc" :> <<{}, {Row("1", "A", "W"), Row("3", "B", "V")}>>)
    @@ ("book_edges" :>
          <<{[c |-> "1", p |-> "x"], [c |-> "1", p |-> "y"], [c |-> "x", p |-> "z"], [c |-> "y", p |-> "z"],
             [c |-> "z", p |-> "x"], [c |-> "3", p |-> "y"]}>>)

MCCalls ==
    {[statement |-> "s", filters |-> {"a", "b", "c"}, axes |-> {"a"}],
     [statement |-> "pnl", filters |-> {"cc", "dept", "div", "org", "book", "item"}, axes |-> {"cc"}],
     [statement |-> "work", filters |-> {"cc", "item"}, axes |-> {"week"}],
     [statement |-> "rates", filters |-> {"cc", "item"}, axes |-> {}],
     [statement |-> "nets", filters |-> {"ghost"}, axes |-> {}],
     [statement |-> "all", filters |-> {"cc"}, axes |-> {"org"}]}

\* A caller without limits, one who may see one leaf, one with no scenario to
\* read.
MCSearches ==
    {[dimension |-> "", reads |-> TRUE, permitted |-> <<>>],
     [dimension |-> "cc", reads |-> TRUE, permitted |-> ("cc" :> {<<"", "1">>})],
     [dimension |-> "org", reads |-> FALSE, permitted |-> <<>>]}
===============================================================================
