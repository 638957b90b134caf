----------------------------- MODULE LiveTables -----------------------------
(***************************************************************************)
(* What ingestion promises to a reader of the live tables, without saying  *)
(* how.  A slice is what one load replaces: one period of a period-keyed   *)
(* table, or the whole of a snapshot table.  A slice is empty until it is  *)
(* first loaded; afterwards it holds the complete extract of exactly one   *)
(* load, and it changes only by one load being published over it whole.    *)
(* A load is published at most once.                                       *)
(***************************************************************************)

CONSTANTS
    Loads,     \* load ids
    Slices,    \* slices of the live tables
    Parts      \* the rows of one complete extract, in the unit an insert lands

VARIABLES
    live,      \* [Slices -> SUBSET (Loads \X Parts)], the rows a reader sees
    published  \* the loads that have been published

vars == <<live, published>>

\* The complete extract of load l, every row tagged with its load id.
Whole(l) == {l} \X Parts

Init ==
    /\ live = [s \in Slices |-> {}]
    /\ published = {}

Publish(l, s) ==
    /\ l \notin published
    /\ live' = [live EXCEPT ![s] = Whole(l)]
    /\ published' = published \union {l}

Next == \E l \in Loads, s \in Slices : Publish(l, s)

Spec == Init /\ [][Next]_vars
=============================================================================
