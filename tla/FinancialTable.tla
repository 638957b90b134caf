--------------------------- MODULE FinancialTable ---------------------------
(***************************************************************************)
(* A report as it is shown (engine/formatter.py, table_builder.py,         *)
(* excel/worksheet.py, excel/block_emit.py, excel/extract_emit.py): the    *)
(* lines, the table in one of four layouts, the live and the saved         *)
(* worksheet, and the flat extract.                                        *)
(*                                                                         *)
(* A label says what a reader takes from it: names of members, a metric, a *)
(* scenario block.  A cell is read by the labels of its row and column, as *)
(* on the sheet: a group by the header above it, a column group by the     *)
(* last one to its left.                                                   *)
(***************************************************************************)
EXTENDS ReportEngine, SequencesExt

CONSTANT Names      \* code of a member -> the name it is shown by

VARIABLE sheets     \* the worksheets made of the report

-----------------------------------------------------------------------------
\* The lines (formatter.py).

NameOf(v) ==
    IF v[1] \in TimeDims \/ v[2] \notin DOMAIN Names THEN v ELSE <<v[1], Names[v[2]]>>

Live(k) == SelectSeq(k, LAMBDA v : v # Rolled)
NamesOf(k) == [i \in DOMAIN Live(k) |-> NameOf(Live(k)[i])]

\* The total sorts first; the order of two rows of one grain is left open.
InAnyOrder(S) == FoldSet(LAMBDA k, s : Append(s, k), <<>>, S)
KeysInOrder(keys, n) ==
    FlattenSeq([j \in 1 .. n + 1 |-> InAnyOrder({k \in keys : Len(Live(k)) = j - 1})])

HideIfZero == {"billed", "stock"}
Percentages == {"ratio"}

\* A figure that is blank or nought.
Nil(x) == x \in {None, Sum({})} \/ (x[1] \in {"-", "%"} /\ x[2] = x[3])

GrainOfKey(k, n) ==
    IF Len(Live(k)) = n THEN "detail" ELSE IF Live(k) = <<>> THEN "grand_total" ELSE "subtotal"

\* format_response: a line per key and metric, but for metrics hidden when nought.
Lines(a, rep) ==
    LET n    == Len(a.dims)
        keys == KeysInOrder(DOMAIN rep, n)
        of(k) == SelectSeq([j \in DOMAIN a.metrics |->
                    [grain |-> GrainOfKey(k, n), names |-> NamesOf(k), item |-> a.metrics[j],
                     values |-> rep[k][a.metrics[j]]]],
                    LAMBDA l : ~(l.item \in HideIfZero /\ \A i \in DOMAIN l.values : Nil(l.values[i])))
    IN FlattenSeq([j \in DOMAIN keys |-> of(keys[j])])

OfGrain(lines, g) == SelectSeq(lines, LAMBDA l : l.grain = g)

\* A statement is asked for with its total and no subtotals.
IsStatement(a) == a.grains.total /\ ~a.grains.subtotals

-----------------------------------------------------------------------------
\* The table (table_builder.py).

Saying(names, items, blocks) == [names |-> names, items |-> items, blocks |-> blocks]
Nothing == Saying(<<>>, {}, {})
Member(names) == Saying(names, {}, {})
Metric(m) == Saying(<<>>, {m}, {})
Scenario(i) == Saying(<<>>, {}, {i})

IsPercent(a, i) == Resolve(Registry, a.blocks[i].key).node = "variance_pct"

Once(s) == FoldLeft(LAMBDA acc, x : IF x \in Range(acc) THEN acc ELSE Append(acc, x), <<>>, s)

Items(lines) == Once([j \in DOMAIN lines |-> lines[j].item])

\* _scenario_columns: keyed by the scenario.
ScenarioColumns(a) ==
    [i \in DOMAIN a.blocks |->
        [key |-> <<i>>, group |-> Nothing, label |-> Scenario(i),
         format |-> IF IsPercent(a, i) THEN "percent" ELSE "none"]]

FormatOf(m) == IF m \in Percentages THEN "percent" ELSE "amount"

Row_(type, label, values, format) ==
    [type |-> type, label |-> label, values |-> values, format |-> format]

Keyed(values) == [key \in {<<i>> : i \in DOMAIN values} |-> values[key[1]]]

AggregateTable(a, lines) ==
    [columns |-> ScenarioColumns(a), grouped |-> FALSE,
     rows |-> [j \in DOMAIN lines |->
                 Row_("line_item", Metric(lines[j].item), Keyed(lines[j].values),
                      FormatOf(lines[j].item))]]

\* Mutant: a subtotal of any depth taken for its leftmost dimension.
LevelOneOrDeeper(subtotals) == subtotals

\* Only the subtotals of the leftmost dimension have a row.
LevelOne(subtotals) == SelectSeq(subtotals, LAMBDA s : Len(s.names) = 1)

\* Rows grouped by the leftmost dimension, the group's subtotal in its header
\* and after it; the total last.
Grouping(a, entries) ==
    LET detail == OfGrain(entries, "detail")
        total  == OfGrain(entries, "grand_total")
        under(g) == SelectSeq(detail, LAMBDA e : e.names[1] = g)
        subtotal(g) == SelectSeq(LevelOne(OfGrain(entries, "subtotal")), LAMBDA e : e.names[1] = g)
        row(type, label, e) == Row_(type, Member(label), e.values, e.format)
        group(g) ==
          LET st == subtotal(g)
          IN <<IF st = <<>> THEN Row_("group_header", Member(<<g>>), <<>>, "none")
                            ELSE row("group_header", <<g>>, st[Len(st)])>>
             \o [j \in DOMAIN under(g) |-> row("line_item", Tail(under(g)[j].names), under(g)[j])]
             \o (IF st = <<>> THEN <<>> ELSE <<row("subtotal", <<g>>, st[Len(st)])>>)
        groups == Once([j \in DOMAIN detail |-> detail[j].names[1]])
    IN (IF Len(a.dims) >= 2 THEN FlattenSeq([j \in DOMAIN groups |-> group(groups[j])])
        ELSE [j \in DOMAIN detail |-> row("line_item", detail[j].names, detail[j])])
       \o (IF total = <<>> THEN <<>> ELSE <<row("total", <<>>, total[1])>>)

\* One metric: scenarios across.
DimensionTable(a, lines) ==
    [columns |-> ScenarioColumns(a), grouped |-> FALSE,
     rows |-> Grouping(a, [j \in DOMAIN lines |->
                [grain |-> lines[j].grain, names |-> lines[j].names,
                 values |-> Keyed(lines[j].values), format |-> FormatOf(lines[j].item)]])]

\* Several metrics: metrics across, and under each the scenarios if there are
\* several; the lines of one grain and one set of names are one row.
MetricColumnsTable(a, lines) ==
    LET several == Len(a.blocks) > 1
        columns(m) ==
          [i \in DOMAIN a.blocks |->
             [key |-> <<m, i>>, group |-> IF several THEN Metric(m) ELSE Nothing,
              label |-> IF several THEN Scenario(i) ELSE Metric(m),
              format |-> IF IsPercent(a, i) THEN "percent" ELSE FormatOf(m)]]
        places == Once([j \in DOMAIN lines |-> <<lines[j].grain, lines[j].names>>])
        merged(p) ==
          FoldLeft(LAMBDA vs, l : IF <<l.grain, l.names>> = p
                                  THEN [key \in {<<l.item, i>> : i \in DOMAIN l.values} |->
                                          l.values[key[2]]] @@ vs
                                  ELSE vs, <<>>, lines)
    IN [columns |-> FlattenSeq([j \in DOMAIN Items(lines) |-> columns(Items(lines)[j])]),
        grouped |-> several,
        rows |-> Grouping(a, [j \in DOMAIN places |->
                   [grain |-> places[j][1], names |-> places[j][2],
                    values |-> merged(places[j]), format |-> "none"]])]

\* pivot_rows_to_grid: the columns, the total first, and the grid.
Pivot(lines) ==
    LET details == Once([j \in DOMAIN lines |-> lines[j].names])
    IN [columns |-> SelectSeq(details, LAMBDA n : n = <<>>) \o SelectSeq(details, LAMBDA n : n # <<>>),
        values |-> FoldLeft(LAMBDA vs, l :
                       [x \in {<<l.names, l.item, i>> : i \in DOMAIN l.values} |-> l.values[x[3]]] @@ vs,
                     <<>>, lines)]

\* A statement: combinations of members across, and under each the scenarios.
CrosstabTable(a, lines) ==
    LET several == Len(a.blocks) > 1
        grid == Pivot(lines)
        columns(names) ==
          [i \in DOMAIN a.blocks |->
             [key |-> <<names, i>>, group |-> IF several THEN Member(names) ELSE Nothing,
              label |-> IF several THEN Scenario(i) ELSE Member(names),
              format |-> IF IsPercent(a, i) THEN "percent" ELSE "none"]]
        values(m) == [key \in {<<n, i>> : n \in Range(grid.columns), i \in DOMAIN a.blocks} |->
                        LET at == <<key[1], m, key[2]>>
                        IN IF at \in DOMAIN grid.values THEN grid.values[at] ELSE None]
    IN [columns |-> FlattenSeq([j \in DOMAIN grid.columns |-> columns(grid.columns[j])]),
        grouped |-> several,
        rows |-> [j \in DOMAIN Items(lines) |->
                    Row_("line_item", Metric(Items(lines)[j]), values(Items(lines)[j]),
                         FormatOf(Items(lines)[j]))]]

\* build_financial_table_block.
Table(a, lines) ==
    IF a.dims = <<>> THEN AggregateTable(a, lines)
    ELSE IF IsStatement(a) THEN CrosstabTable(a, lines)
    ELSE IF Len(Items(OfGrain(lines, "detail"))) > 1 THEN MetricColumnsTable(a, lines)
    ELSE DimensionTable(a, lines)

-----------------------------------------------------------------------------
\* The worksheets.

\* report_cell_number_format: a percentage scenario wins, else the row's unit.
CellFormat(row, column) ==
    IF column.format = "percent" \/ row.format = "none" THEN column.format ELSE row.format

Cell(row, column) ==
    [figure |-> IF column.key \in DOMAIN row.values THEN row.values[column.key] ELSE None,
     percent |-> CellFormat(row, column) = "percent"]

Body(t) ==
    [r \in DOMAIN t.rows |->
        [type |-> t.rows[r].type, label |-> t.rows[r].label,
         cells |-> [c \in DOMAIN t.columns |-> Cell(t.rows[r], t.columns[c])]]]

Heads(t) == [c \in DOMAIN t.columns |-> t.columns[c].label]

\* report_worksheet: a group is written where it differs from the last one.
LiveSheet(t) ==
    LET group(c) == t.columns[c].group
    IN [heads |-> (IF t.grouped
                   THEN <<[c \in DOMAIN t.columns |->
                             IF c > 1 /\ group(c - 1) = group(c) THEN Nothing ELSE group(c)]>>
                   ELSE <<>>) \o <<Heads(t)>>,
        body |-> Body(t), grains |-> {"detail", "subtotal", "grand_total"}, first |-> 1, named |-> {},
        region |-> Len(t.rows) + (IF t.grouped THEN 3 ELSE 2)]

\* write_block_to_sheet: below the title, a group merged over its columns.
SavedSheet(t, title) ==
    LET header == IF title THEN 3 ELSE 1
        data   == header + (IF t.grouped THEN 2 ELSE 1)
    IN [heads |-> (IF t.grouped THEN <<[c \in DOMAIN t.columns |-> t.columns[c].group]>>
                                   ELSE <<>>) \o <<Heads(t)>>,
        body |-> Body(t), grains |-> {"detail", "subtotal", "grand_total"}, first |-> header, named |-> {},
        region |-> data + Len(t.rows)]

\* flatten_extract: the detail lines, keyed by their names and, where there are
\* several, their metric.
ExtractRows(a, lines) ==
    LET detail == OfGrain(lines, "detail")
        named  == IsStatement(a) \/ Len(Items(detail)) > 1
    IN [j \in DOMAIN detail |->
          [label |-> Saying(detail[j].names, IF named THEN {detail[j].item} ELSE {}, {}),
           item |-> detail[j].item, values |-> detail[j].values]]

\* extract_worksheet: headers in the first row, the region down to the footer.
ExtractSheet(a, lines) ==
    LET rows == ExtractRows(a, lines)
    IN [heads |-> <<[i \in DOMAIN a.blocks |-> Scenario(i)]>>,
        body |-> [j \in DOMAIN rows |->
                    [type |-> "line_item", label |-> rows[j].label,
                     cells |-> [i \in DOMAIN a.blocks |->
                        [figure |-> rows[j].values[i],
                         percent |-> IsPercent(a, i) \/ FormatOf(rows[j].item) = "percent"]]]],
        grains |-> {"detail"}, first |-> 1, named |-> {}, region |-> 2 + Len(rows)]

\* extract_to_excel names the rows of each scenario's column.
SavedExtract(a, lines) ==
    [ExtractSheet(a, lines) EXCEPT !.named = 2 .. 1 + Len(ExtractRows(a, lines))]

-----------------------------------------------------------------------------
\* The report is shown, or saved.

TableInit == ReportInit /\ sheets = {}

Reportable == stage = "answered" /\ sheets = {} /\ Lines(ask, report) # <<>>

\* run_metric and run_statement for a widget, and the sheet beside it.
Render ==
    /\ Reportable
    /\ sheets' = {LiveSheet(Table(ask, Lines(ask, report)))}
    /\ UNCHANGED reportVars

\* report_to_excel.
Save(title) ==
    /\ Reportable
    /\ sheets' = {SavedSheet(Table(ask, Lines(ask, report)), title)}
    /\ UNCHANGED reportVars

\* The flat sheet beside a report, and its export, if there is a row.
Extract ==
    /\ Reportable
    /\ OfGrain(Lines(ask, report), "detail") # <<>>
    /\ sheets' = {ExtractSheet(ask, Lines(ask, report)), SavedExtract(ask, Lines(ask, report))}
    /\ UNCHANGED reportVars

TableNext ==
    \/ ReportNext /\ UNCHANGED sheets
    \/ Render
    \/ \E title \in BOOLEAN : Save(title)
    \/ Extract

TableSpec == TableInit /\ [][TableNext]_<<reportVars, sheets>>

-----------------------------------------------------------------------------
\* What a reader takes from a sheet.

\* The header of the group a row stands in.
GroupOf(s, r) ==
    LET headers == {i \in 1 .. r : s.body[i].type = "group_header"}
    IN IF s.body[r].type # "line_item" \/ headers = {} THEN Nothing
       ELSE s.body[Max(headers)].label

\* The group a column stands under.
ColumnGroup(s, c) ==
    LET written == {i \in 1 .. c : s.heads[1][i] # Nothing}
    IN IF Len(s.heads) = 1 \/ written = {} THEN Nothing ELSE s.heads[1][Max(written)]

\* A table that names no metric is about the one it has.
SoleMetric == Head(OfGrain(Lines(ask, report), "detail") \o Lines(ask, report)).item

ReadAt(s, r, c) ==
    LET labels == <<GroupOf(s, r), s.body[r].label, ColumnGroup(s, c), s.heads[Len(s.heads)][c]>>
        items  == UNION {labels[j].items : j \in DOMAIN labels}
        blocks == UNION {labels[j].blocks : j \in DOMAIN labels}
    IN [names |-> FlattenSeq([j \in DOMAIN labels |-> labels[j].names]),
        items |-> IF items = {} THEN {SoleMetric} ELSE items,
        blocks |-> IF blocks = {} THEN {1} ELSE blocks]

CellsOf(s) == (DOMAIN s.body) \X (DOMAIN s.heads[1])

\* The figures a sheet answers for: in a table, no subtotal below the leftmost
\* dimension (LevelOne); with one metric in its detail lines, only that metric.
Answered(s) ==
    {k \in DOMAIN report : /\ GrainOfKey(k, Len(ask.dims)) \in s.grains
                           /\ GrainOfKey(k, Len(ask.dims)) = "subtotal" =>
                                Len(Live(k)) = 1 /\ ~IsStatement(ask)}

AnsweredMetrics ==
    IF \/ ask.dims = <<>> \/ IsStatement(ask)
       \/ Len(Items(OfGrain(Lines(ask, report), "detail"))) > 1
    THEN Range(ask.metrics) ELSE {SoleMetric}

\* Every layout says what the report says: a filled cell is the figure of the
\* one row, metric and scenario its labels name, in that figure's unit; every
\* figure that is not nought has a cell; and the region a refresh replaces is
\* the sheet from its first header to its footer, a named column its figures (table_builder.py,
\* worksheet.py, block_emit.py).  Two figures never share a place.
SheetsShowReport ==
    \A s \in sheets :
        LET read == [x \in CellsOf(s) |-> ReadAt(s, x[1], x[2])]
            figure(x) == s.body[x[1]].cells[x[2]]
        IN /\ \A x \in CellsOf(s) : figure(x).figure # None =>
                 /\ \E k \in DOMAIN report : NamesOf(k) = read[x].names
                 /\ \A k \in DOMAIN report, m \in read[x].items, i \in read[x].blocks :
                       NamesOf(k) = read[x].names =>
                         /\ report[k][m][i] = figure(x).figure
                         /\ figure(x).percent <=> (IsPercent(ask, i) \/ m \in Percentages)
           /\ \A k \in Answered(s), m \in AnsweredMetrics, i \in DOMAIN ask.blocks :
                 ~Nil(report[k][m][i]) =>
                    \E x \in CellsOf(s) : /\ read[x] = [names |-> NamesOf(k), items |-> {m}, blocks |-> {i}]
                                          /\ figure(x).figure = report[k][m][i]
           /\ s.region - s.first = Len(s.heads) + Len(s.body)
           /\ s.named \in {{}, s.first + Len(s.heads) .. s.region - 1}
=============================================================================
