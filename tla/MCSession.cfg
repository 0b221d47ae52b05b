SPECIFICATION SessionSpec
CONSTANTS
    Procs = {p1, p2}
    Old = old
    Reqs = {r1, r2}
    MaxLogins = 1
    Keys = {k1, k2}
    Values = {v1, v2}
    MaxOps = 2
INVARIANTS
    RefreshPresentsCurrent
    StoredSessionUsable
    ConsoleConsistent
PROPERTIES
    CallsEnd
    SessionRenewed
CHECK_DEADLOCK FALSE
