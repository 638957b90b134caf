------------------------------ MODULE MCAccounts ------------------------------
\* Two operators and one realm: behaviours rich in account operations, in profile
\* operations and in changes of the realm.
EXTENDS Accounts

MCKinds == {"refused", "lost", "crash"}
Behaviour(a, g, r, d, f) ==
    [accounts |-> a, grants |-> g, reconciles |-> r, drifts |-> d, faults |-> f, kinds |-> MCKinds]
MCBudgets == {Behaviour(3, 0, 0, 0, 1), Behaviour(1, 3, 0, 0, 0), Behaviour(0, 3, 0, 0, 1),
              Behaviour(0, 0, 2, 2, 1), Behaviour(2, 0, 1, 1, 0)}
=============================================================================
