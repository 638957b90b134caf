---------------------------- MODULE ScenarioKeys ----------------------------
(***************************************************************************)
(* The names a caller may give a scenario, and what they stand for         *)
(* (engine/scenario_registry.py).  A key is the sequence of the words its  *)
(* underscores separate: "actuals_vs_budget_pct" is                        *)
(* <<"actuals", "vs", "budget", "pct">>.  A registry is the set of the     *)
(* rows of semantic.scenarios it was built from.                           *)
(***************************************************************************)
EXTENDS Integers, Sequences, SequencesExt, FiniteSets

\* COMPATIBILITY_ALIASES.
Compatible == [k \in {<<"prior", "year">>, <<"prior", "period">>} |->
                 IF k = <<"prior", "year">> THEN <<"actuals", "py">>
                                            ELSE <<"actuals", "pp">>]

Canonical(k) == IF k \in DOMAIN Compatible THEN Compatible[k] ELSE k

EndsIn(k, w) == Len(k) > 1 /\ k[Len(k)] = w

\* _validate_alias: the syntax of generated keys is reserved.
ValidAlias(a) ==
    /\ a # <<>>
    /\ \A i \in 2 .. Len(a) - 1 : a[i] # "vs"
    /\ \A w \in {"py", "pp", "pct"} : ~EndsIn(a, w)
    /\ a \notin DOMAIN Compatible

\* A name that can be read in one way only, also with a suffix appended to it.
Unmistakable(a) == ValidAlias(a) /\ ~EndsIn(a, "vs")
Spellings(s) == {s.alias, s.id}

\* ScenarioRegistry.__init__ accepts the rows.
Loadable(reg) ==
    /\ \A s \in reg : ValidAlias(s.alias)
    /\ \A s, t \in reg : s # t => s.alias # t.alias /\ s.id # t.id

Unknown == [node |-> "unknown"]
Real(s) == [node |-> "real", base |-> s]
Moved(s, w) == [node |-> "shifted", base |-> s, shift |-> w]

\* A real scenario, by alias before id.
FindReal(reg, k) ==
    IF \E s \in reg : s.alias = k THEN Real(CHOOSE s \in reg : s.alias = k)
    ELSE IF \E s \in reg : s.id = k THEN Real(CHOOSE s \in reg : s.id = k)
    ELSE Unknown

\* _resolve_shifted: a suffix on an alias, never on an id.
FindShifted(reg, k) ==
    LET based == {s \in reg : s.alias = Front(k)}
    IN IF (EndsIn(k, "py") \/ EndsIn(k, "pp")) /\ based # {}
       THEN Moved(CHOOSE s \in based : TRUE, k[Len(k)])
       ELSE Unknown

\* What resolve_key makes of a key that holds no comparison.
FindSimple(reg, k) ==
    LET c == Canonical(k)
        r == IF c = <<>> THEN Unknown ELSE FindReal(reg, c)
    IN IF c = <<>> \/ r # Unknown THEN r ELSE FindShifted(reg, c)

\* _resolve_variance: the body splits at its first "_vs_".
FindVariance(reg, k) ==
    LET pct  == EndsIn(k, "pct")
        body == IF pct THEN Front(k) ELSE k
        cuts == {i \in 2 .. Len(body) - 1 : body[i] = "vs"}
    IN IF cuts = {} THEN Unknown
       ELSE LET i == CHOOSE c \in cuts : \A d \in cuts : c <= d
                l == FindSimple(reg, SubSeq(body, 1, i - 1))
                r == FindSimple(reg, SubSeq(body, i + 1, Len(body)))
            IN IF Unknown \in {l, r} THEN Unknown
               ELSE [node |-> IF pct THEN "variance_pct" ELSE "variance",
                     left |-> l, right |-> r]

Resolve(reg, k) ==
    LET s == FindSimple(reg, k)
    IN IF s # Unknown \/ k = <<>> THEN s ELSE FindVariance(reg, Canonical(k))

Compares(ref) == ref.node \in {"variance", "variance_pct"}

\* The public key of a reference.
KeyOf(ref) ==
    LET simple(r) == IF r.node = "real" THEN r.base.alias
                                        ELSE Append(r.base.alias, r.shift)
    IN IF Compares(ref)
       THEN simple(ref.left) \o <<"vs">> \o simple(ref.right)
              \o (IF ref.node = "variance_pct" THEN <<"pct">> ELSE <<>>)
       ELSE simple(ref)

\* expand_dependencies: the ids of the real scenarios behind a reference.
Dependencies(ref) ==
    IF Compares(ref) THEN {ref.left.base.id, ref.right.base.id} ELSE {ref.base.id}

\* resolve_writable: the scenario itself, nothing generated from one.
Writable(reg, k) == Resolve(reg, k).node = "real"

\* list_variants: the scenarios forked from one.
VariantsOf(reg, id) == {s \in reg : s.variantOf = id}

\* to_reporting_vocabulary: each row as the words it was composed from and
\* the reference it is meant to name.
ShiftedRows(reg) ==
    {[key |-> Append(s.alias, w), means |-> Moved(s, w)] : s \in reg, w \in {"py", "pp"}}

ComparisonRows(reg) ==
    LET pair(l, r) ==
          LET v == [node |-> "variance", left |-> l, right |-> r]
              p == [v EXCEPT !.node = "variance_pct"]
          IN {[key |-> KeyOf(v), means |-> v], [key |-> KeyOf(p), means |-> p]}
    IN UNION ({pair(Real(s), Real(t)) : s, t \in reg} \ {pair(Real(s), Real(s)) : s \in reg})
       \cup UNION {pair(Real(s), Moved(s, "py")) : s \in reg}

Vocabulary(reg) ==
    {[key |-> s.alias, means |-> Real(s)] : s \in reg}
      \cup ShiftedRows(reg) \cup ComparisonRows(reg)

\* filter_reporting_vocabulary: the rows whose scenarios the caller may read.
VisibleRows(reg, readable) ==
    {row \in Vocabulary(reg) : Dependencies(row.means) \subseteq readable}

\* ... and the compatibility aliases that still lead somewhere.
VisibleAliases(reg, readable) ==
    {k \in DOMAIN Compatible :
        \E row \in VisibleRows(reg, readable) :
            ~Compares(row.means) /\ row.key = Compatible[k]}
=============================================================================
