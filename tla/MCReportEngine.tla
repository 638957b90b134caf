--------------------------- MODULE MCReportEngine ---------------------------
(* Instances of ReportEngine for TLC. *)
EXTENDS FinancialTable

S1 == <<"id", "s1">>
S2 == <<"id", "s2">>
S3 == <<"id", "s3">>
NoParent == <<"none">>

\* Actuals, a budget, and a forecast forked from the budget.
MCRegistry ==
    {[id |-> S1, alias |-> <<"actuals">>, variantOf |-> NoParent],
     [id |-> S2, alias |-> <<"budget">>, variantOf |-> NoParent],
     [id |-> S3, alias |-> <<"forecast">>, variantOf |-> S2]}

\* The ledger, by month; the time sheets, by week; a federated ledger.
MCDomains ==
    [gl |-> [backend |-> "clickhouse", native |-> "period", versioned |-> TRUE,
             axes |-> {"period", "quarter", "fiscal_year", "cc", "client", "division", "tree"}],
     ts |-> [backend |-> "clickhouse", native |-> "week", versioned |-> FALSE,
             axes |-> {"week", "period", "cc", "client", "division"}],
     ext |-> [backend |-> "ibis", native |-> "period", versioned |-> FALSE,
              axes |-> {"period", "cc", "client"}]]

Fact(domain, scenario, month, week, cc, client, draft) ==
    [domain |-> domain, scenario |-> scenario, month |-> month, week |-> week,
     cc |-> cc, client |-> client, draft |-> draft]

MCMembers == [cc |-> {"c1", "c2"}, client |-> {"k1", "k2"}]
MCDivision == [c \in {"c1", "c2"} |-> IF c = "c1" THEN "north" ELSE "south"]
MCNodes == [all |-> {"c1", "c2"}, one |-> {"c1"}, two |-> {"c2"}]
MCChildren == [all |-> {"one", "two"}, one |-> {}, two |-> {}]

\* Year 2 counts its months from 24 and its weeks from 201; the last week of
\* year 1 is the 104th of the calendar's own numbering.
MCCalendar == <<101, 102, 103, 104, 201, 202, 203>>

MCFacts ==
    {Fact("gl", S1, m, 0, c, k, FALSE) :
        m \in {12, 13, 14, 23, 24, 25, 26, 27}, c \in {"c1"}, k \in {"k1"}}
    \cup {Fact("gl", S1, m, 0, "c2", "k2", FALSE) : m \in {14, 23, 25, 26}}
    \cup {Fact("gl", S2, m, 0, "c1", "k1", FALSE) : m \in {12, 24, 25, 26}}
    \cup {Fact("gl", S2, 25, 0, "c2", "k1", FALSE), Fact("gl", S2, 26, 0, "c2", "k1", TRUE),
          Fact("gl", S3, 13, 0, "c1", "k1", FALSE)}
    \cup {Fact("gl", S3, m, 0, "c1", "k2", FALSE) : m \in {24, 26}}
    \cup {Fact("gl", S3, 26, 0, "c2", "k1", FALSE)}
    \cup {Fact("ts", S1, 12 + (w \div 200) * 12, w, "c1", "k1", FALSE) :
            w \in {101, 103, 104, 201, 202}}
    \cup {Fact("ts", S1, 12 + (w \div 200) * 12, w, "c2", "k1", FALSE) : w \in {102, 202}}
    \cup {Fact("ext", S1, m, 0, "c1", "k1", FALSE) : m \in {12, 24, 25}}
    \cup {Fact("ext", S1, 25, 0, "c2", "k2", FALSE)}

Block(key) == Plain(key)
Open == [open |-> TRUE, admits |-> {}, bars |-> {}, allow |-> <<>>, deny |-> <<>>]
Scoped(allow, deny) ==
    [open |-> FALSE, admits |-> {"gl", "ts", "ext"}, bars |-> {}, allow |-> allow, deny |-> deny]
Same(s) == [id \in {S1, S2, S3} |-> s]

Detail == [detail |-> TRUE, subtotals |-> FALSE, total |-> FALSE]
Statement == [detail |-> TRUE, subtotals |-> FALSE, total |-> TRUE]
Everything == [detail |-> TRUE, subtotals |-> TRUE, total |-> TRUE]

Ask(domain, blocks, metrics, dims, grain, from, to) ==
    [domain |-> domain, blocks |-> blocks, metrics |-> metrics, dims |-> dims,
     grain |-> grain, from |-> from, to |-> to, filters |-> <<>>,
     grains |-> Everything, scope |-> Same(Open)]

Actuals == Block(<<"actuals">>)
LastYear == Block(<<"actuals", "py">>)
LastPeriodOf == Block(<<"actuals", "pp">>)
Budget == Block(<<"budget">>)
Growth == Block(<<"actuals", "vs", "actuals", "py", "pct">>)
Against == Block(<<"actuals", "vs", "budget">>)
Step == Block(<<"actuals", "vs", "actuals", "pp">>)
Legacy == Block(<<"prior", "year">>)

\* A: shifts, comparisons, windows, breakdowns and grains.
AskA ==
    {Ask("gl", bs, ms, ds, w[1], w[2], w[3]) :
        bs \in {<<Actuals, LastYear>>, <<LastPeriodOf>>, <<Actuals, Growth>>,
                <<Against, Budget>>, <<Step, Legacy>>},
        ms \in {<<"flow", "mean">>, <<"stock">>},
        ds \in {<<>>, <<"period">>, <<"quarter">>, <<"cc">>, <<"cc", "period">>,
                <<"quarter", "division">>},
        w \in {<<"month", 24, 26>>, <<"month", 26, 27>>, <<"month", 25, 25>>}}
    \cup
    {Ask("gl", bs, <<"flow", "mean">>, ds, w[1], w[2], w[3]) :
        bs \in {<<Actuals, LastYear>>, <<LastPeriodOf>>, <<Growth, Budget>>, <<Step>>},
        ds \in {<<>>, <<"quarter">>, <<"cc">>, <<"fiscal_year", "cc">>, <<"period">>},
        w \in {<<"quarter", 8, 8>>, <<"quarter", 8, 9>>, <<"quarter", 9, 8>>}}

\* B: what the caller asks for, what it may see, and forks.
User == {<<>>, [cc |-> "c1"], [division |-> "south"], [division |-> "north", cc |-> "c2"],
         [client |-> "k1", division |-> "north"], [cc |-> "c9"]}
Scopes3 ==
    {Same(Open),
     Same(Scoped([cc |-> {"c1"}], <<>>)),
     Same(Scoped([division |-> {"south"}, client |-> {"k1", "k2"}], [client |-> {"k2"}])),
     Same(Scoped(<<>>, [division |-> {"north"}, cc |-> {"c2"}])),
     Same([Scoped(<<>>, <<>>) EXCEPT !.bars = {"gl"}]),
     [id \in {S1, S2} |-> IF id = S1 THEN Scoped([cc |-> {"c1"}], <<>>)
                          ELSE Scoped([cc |-> {"c2"}, client |-> {"k1"}], <<>>)],
     <<>>,
     [Same(Open) EXCEPT ![S2] = Scoped([cc |-> {"c1"}], <<>>)],
     [Same(Open) EXCEPT ![S3] = Scoped([cc |-> {"c2"}], <<>>)]}
Forked(key, fork) == [Block(key) EXCEPT !.fork = fork]
Reading(key, reads) == [Block(key) EXCEPT !.reads = reads]
AskB ==
    {[Ask("gl", bs, <<"flow", "billed">>, ds, "month", 24, 26) EXCEPT !.filters = fs, !.scope = sc] :
        bs \in {<<Actuals, Against>>, <<Forked(<<"forecast">>, <<"parent">>)>>,
                <<Actuals, Forked(<<"budget", "py">>, S3)>>,
                <<Block(<<"forecast">>), Reading(<<"budget">>, "uncommitted")>>,
                <<Reading(<<"budget">>, "uncommitted_delta")>>, <<Block(<<"s", "x">>)>>,
                <<Forked(<<"actuals", "vs", "budget">>, S3)>>},
        ds \in {<<>>, <<"cc">>},
        fs \in User, sc \in Scopes3}

\* C: the ragged hierarchy.
AskC ==
    {[Ask(d, bs, ms, ds, "month", 24, 26) EXCEPT !.filters = fs, !.scope = sc,
                                                 !.grains = Detail] :
        d \in {"gl", "ext"}, bs \in {<<Actuals, LastYear>>, <<Against>>},
        ms \in {<<"flow">>, <<"stock", "flow">>},
        ds \in {<<"tree">>, <<"tree", "cc">>},
        fs \in {<<>>, [tree |-> "all"], [tree |-> "one"], [tree |-> "all", client |-> "k1"]},
        sc \in {Same(Open), Same(Scoped([cc |-> {"c1"}], <<>>))}}

\* D: weeks, across the end of a year.
AskD ==
    {Ask("ts", bs, ms, ds, "week", w[1], w[2]) :
        bs \in {<<Actuals, LastPeriodOf>>, <<LastYear>>, <<Step>>},
        ms \in {<<"flow", "mean">>}, ds \in {<<>>, <<"week">>, <<"cc", "week">>},
        w \in {<<201, 202>>, <<104, 201>>, <<202, 203>>}}
    \cup {Ask("ts", <<Actuals, Growth>>, <<"stock", "flow">>, ds, "week", w[1], w[2]) :
        ds \in {<<>>, <<"week">>, <<"cc">>},
        w \in {<<201, 202>>, <<202, 203>>}}
    \cup {Ask("gl", <<Actuals>>, <<"flow">>, ds, "week", 201, 202) : ds \in {<<>>, <<"week">>}}

\* E: the federated backend.
AskE ==
    {[Ask("ext", bs, ms, ds, "month", w[1], w[2]) EXCEPT !.grains = g] :
        bs \in {<<Actuals, LastYear>>, <<LastPeriodOf, Growth>>},
        ms \in {<<"flow", "billed">>, <<"mean">>}, ds \in {<<>>, <<"cc">>, <<"cc", "period">>},
        w \in {<<24, 25>>, <<25, 25>>}, g \in {Detail, Statement, Everything}}

\* F: formulas.
AskF ==
    {Ask("gl", <<Actuals>>, ms, ds, "month", 24, 26) :
        ms \in {<<"ratio">>, <<"spread", "flow">>}, ds \in {<<>>, <<"period">>, <<"cc">>}}

\* G: layouts: statements, three dimensions, hidden lines.
AskG ==
    {[Ask("gl", bs, <<"flow", "stock", "ratio", "billed">>, d[1], "month", 24, d[2])
        EXCEPT !.grains = Statement] :
        bs \in {<<Actuals>>, <<Actuals, Growth>>},
        d \in {<< <<"cc">>, 26>>, << <<"period", "client">>, 26>>, << <<"period", "client">>, 27>>}}
    \cup {Ask("gl", bs, ms, <<"division", "client", "period">>, "month", 24, 26) :
            bs \in {<<Actuals>>, <<Budget, Growth>>}, ms \in {<<"flow">>, <<"flow", "mean">>}}

MCNames == [c1 |-> "Cloud", c2 |-> "Sales", k1 |-> "Client one"]

\* Left out: a prior period broken down by a time coarser than the window's,
\* which the code does not put back on the axis asked for.
Coarser(a) ==
    \E p \in AllParts(a), i \in DOMAIN a.dims :
        /\ ShiftOf(Resolve(Registry, p.key)) = "pp"
        /\ a.dims[i] \in TimeDims /\ Rank[GrainOf[a.dims[i]]] > Rank[a.grain]

Known(a) == \A b \in BlocksOf(a) : Resolve(Registry, b.key) # Unknown

MCAsks ==
    {a \in AskA \cup AskB \cup AskC \cup AskD \cup AskE \cup AskF \cup AskG : Known(a) => ~Coarser(a)}

\* A balance asked for by the quarter, and two shifts of one year.
MCClosingAsks == {Ask("gl", <<Actuals>>, <<"stock">>, <<>>, "quarter", q, 8) : q \in {7, 8}}
=============================================================================
