--------------------------- MODULE RaggedHierarchy ---------------------------
(***************************************************************************)
(* Hierarchies of unequal depth (engine/ragged_views.py): the child-parent *)
(* edges and the node list of a hierarchy, whether derived from the leaf   *)
(* table's columns or supplied by the operator, and the rollup from every  *)
(* node to the leaves under it that filters and scopes are resolved with.  *)
(*                                                                         *)
(* A node is <<prefix, value>>; a row is a function from its columns.      *)
(***************************************************************************)
EXTENDS Integers, SequencesExt, FiniteSets, Functions

Root == <<"", "all">>

Ends(e) == {e[1], e[2]}

\* _resolve_level_info: the column and the prefix of each level that has one, and
\* the table of its own an inner level is joined with, if any; a level that is
\* itself a ragged hierarchy has no column and is left out.
Levels(dims, h) ==
    LET n == Len(h.levels)
        at(i) == dims[h.levels[i].dimension]
        hasColumn(i) ==
            /\ h.levels[i].dimension \in DOMAIN dims
            /\ at(i).derived_from # <<>> \/ at(i).source # <<>>
        above(i) == {p \in Range(dims[h.leaf_dimension].parents) :
                        p.key = h.levels[i].dimension}
        column(i) ==
            IF at(i).derived_from # <<>> THEN at(i).derived_from.source_column
            ELSE IF i < n /\ above(i) # {} THEN (CHOOSE p \in above(i) : TRUE).source_column
            ELSE at(i).source.key_column
        joined(i) == at(i).derived_from = <<>> /\ i < n /\ above(i) # {}
        level(i) == [type |-> h.levels[i].dimension, column |-> column(i),
                     prefix |-> IF i = n THEN "" ELSE h.levels[i].node_prefix,
                     master |-> IF joined(i) THEN {at(i).source} ELSE {}]
    IN FlattenSeq([i \in 1 .. n |-> IF hasColumn(i) THEN <<level(i)>> ELSE <<>>])

NodeAt(row, level) == <<level.prefix, row[level.column]>>

\* build_generated_edges_sql: each level to the one above it, the top to the root.
GeneratedEdges(rows, levels) ==
    (UNION {{<<NodeAt(r, levels[i]), NodeAt(r, levels[i - 1])>> : r \in rows} :
              i \in 2 .. Len(levels)})
      \cup {<<NodeAt(r, levels[1]), Root>> : r \in rows}

\* build_provided_edges_sql.
ProvidedEdges(rows, source) ==
    {<<<<"", r[source.child_column]>>, <<"", r[source.parent_column]>>>> : r \in rows}

Node(id, type) == [id |-> id, type |-> type]

\* The tables the levels with one of their own are joined with.
Masters(levels) == {m.table : m \in UNION {l.master : l \in Range(levels)}}

\* An inner join: a row whose key the level's own table does not have is left out.
InMaster(row, level, masters) ==
    \A m \in level.master : \E x \in masters[m.table] : x[m.key_column] = row[level.column]

\* Mutant: an outer join.
EveryNode(rows, levels, masters) ==
    {Node(NodeAt(r, levels[i]), levels[i].type) : r \in rows, i \in DOMAIN levels}
      \cup {Node(Root, "all")}

\* build_hierarchy_sql: the nodes of every level, and the root.
GeneratedNodes(rows, levels, masters) ==
    {Node(NodeAt(x[1], levels[x[2]]), levels[x[2]].type) :
       x \in {y \in rows \X DOMAIN levels : InMaster(y[1], levels[y[2]], masters)}}
      \cup {Node(Root, "all")}

LeafNodes(rows, key) == {<<"", r[key]>> : r \in rows}

\* build_provided_node_master_sql: the operator's nodes and every leaf.
ProvidedNodes(rows, leafRows, key, leaf) ==
    {Node(<<"", r.node_id>>, r.node_type) : r \in rows}
      \cup {Node(l, leaf) : l \in LeafNodes(leafRows, key)}

\* Mutant: the walk stops below the top.
ShallowPaths(edges, leaves) ==
    {<<l>> : l \in leaves}
      \cup {<<e[1], e[2]>> : e \in {x \in edges : x[1] \in leaves}}

\* _recursive_rollup_cte: every climb from a leaf that meets no node twice.
Paths(edges, leaves) ==
    LET longest == Cardinality(leaves \cup UNION {Ends(e) : e \in edges})
        Climb[n \in 0 .. longest] ==
            IF n = 0 THEN {<<l>> : l \in leaves}
            ELSE {Append(x[1], x[2][2]) :
                    x \in {y \in Climb[n - 1] \X edges :
                             Last(y[1]) = y[2][1] /\ y[2][2] \notin Range(y[1])}}
    IN UNION {Climb[n] : n \in 0 .. longest}

\* build_recursive_rollup_sql.
Rollup(edges, leaves) == {<<Last(p), Head(p)>> : p \in Paths(edges, leaves)}

\* What a rollup is: a leaf is under every node that belongs to each set that
\* holds the leaf and, with a child, its parents.
Under(edges, leaves) ==
    LET all == leaves \cup UNION {Ends(e) : e \in edges}
        closed == {S \in SUBSET all : \A e \in edges : e[1] \in S => e[2] \in S}
    IN {x \in all \X leaves : \A S \in closed : x[2] \in S => x[1] \in S}
=============================================================================
