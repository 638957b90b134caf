SPECIFICATION Spec
CONSTANTS
    Sources = {s1}
    Bindings = {b1, b2}
    Targets = {t1, t2}
    Revisions = {r1, r2}
    Threads = {e1}
    ByReference = ByReference
    Absent = Absent
    Broken = Broken
    Torn = Torn
    MaxRequests = 2
    MaxEdits = 1
    MaxReloads = 1
    MaxCrashes = 1
INVARIANTS
    ServedIsConsistent
    AnswersTell
    ReloadDropsConnections
SYMMETRY Symmetry
CHECK_DEADLOCK FALSE
