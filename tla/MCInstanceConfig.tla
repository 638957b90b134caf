-------------------------- MODULE MCInstanceConfig --------------------------
EXTENDS InstanceConfig, TLC

\* Bindings, targets and revisions are interchangeable, and the properties
\* are invariants.
Symmetry == Permutations(Bindings) \cup Permutations(Targets)
                \cup Permutations(Revisions)
=============================================================================
