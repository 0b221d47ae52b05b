SPECIFICATION FwSpec
CONSTANTS
    FwCallers = {c1, c2}
    RuleKeys = {k1, k2}
    Versions = {1}
    MaxFwCalls = 4
PROPERTY OthersUntouched
CHECK_DEADLOCK FALSE
