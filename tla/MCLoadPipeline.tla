--------------------------- MODULE MCLoadPipeline ---------------------------
(* Instances of LoadPipeline for TLC. *)
EXTENDS LoadPipeline, TLC

CONSTANTS l1, l2, l3, gl, cust, ledger, customers, p1, p2, x, y

MCTarget == [b \in Bindings |-> IF b = cust THEN customers ELSE ledger]
MCSnapshots == {cust} \intersect Bindings
MCSymmetry == Permutations(Loads) \union Permutations(Parts)
=============================================================================
