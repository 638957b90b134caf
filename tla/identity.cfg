CONSTANTS
    Operators = {o1, o2}
    Users = {u1, u2}
    Profiles = {p1}
    Legacy = {u2}
    Budgets <- MCBudgets
SPECIFICATION Spec
INVARIANTS CreationIsWhole LockedOut EnabledIsRepaired InForceIsRecorded
CHECK_DEADLOCK FALSE
