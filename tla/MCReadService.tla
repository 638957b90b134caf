--------------------------- MODULE MCReadService ---------------------------
(* Instances of ReadService for TLC. *)
EXTENDS ReadService

CONSTANTS r1, r2

NoParent == <<"none">>
Actuals == [id |-> <<"ACT">>, alias |-> <<"actuals">>, kind |-> "ACTUAL", variantOf |-> NoParent]
Budget == [id |-> <<"BUD">>, alias |-> <<"budget">>, kind |-> "BUDGET", variantOf |-> NoParent]
Forecast == [id |-> <<"FC">>, alias |-> <<"forecast">>, kind |-> "FORECAST", variantOf |-> NoParent]

\* A budget, then a forecast, are created.
MCRegistries == <<{Actuals, Budget}, {Actuals, Budget, Forecast}>>

\* An analyst of everything; a planner who reads the budget whole, its
\* actuals in one division, and nothing else; the same, in another division.
Reader == <<"*">> :> ("analyst" :> Everything)
InDivision(d) ==
    (<<"ACT">> :> ("analyst" :> d)) @@ (<<"PLAN">> :> ("manager" :> "east" @@ "planner" :> Everything))
MCFirstProfile == Reader
MCProfiles == {InDivision("north")}

Run(k) == [tool |-> "run", key |-> k]
Search == [tool |-> "search", key |-> <<>>]
Chart == [tool |-> "chart", key |-> <<>>]
MCBatches ==
    {<<Run(<<"actuals", "vs", "forecast">>), Chart>>, <<Run(<<>>)>>, <<Search>>}

MCDefaultKey == <<"actuals">>
MCUsers == {"ann", "bob"}
Same == r1 :> "ann" @@ r2 :> "ann"
Apart == r1 :> "ann" @@ r2 :> "bob"
MCSettings ==
    {[owner |-> Same, caps |-> [user |-> 2, global |-> 2]],
     [owner |-> Same, caps |-> [user |-> 1, global |-> 2]],
     [owner |-> Apart, caps |-> [user |-> 1, global |-> 1]]}
=============================================================================
