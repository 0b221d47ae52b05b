SPECIFICATION SystemSpec
CONSTANTS
    Callers = {c1, c2}
    AnchorNames = {n1, n2}
    Certs = {x, y}
    MaxTrustCalls = 3
    FwCallers = {c1, c2}
    RuleKeys = {k1, k2}
    Versions = {1, 2}
    MaxFwCalls = 3
    AcCallers = {c1, c2}
    Passwords = {"p1", "p2"}
    MaxAcCalls = 4
    LkCallers = {c1, c2}
    LkKeys = {"ka", "kb"}
    Slots = {"0", "1"}
    FirstKey = "ka"
    MaxLkCalls = 2
    ConfCallers = {c1, c2}
    Pkgs = {"p1", "p2"}
    Sections = {"s1", "s2"}
    Servers = {"u1", "u2"}
    MaxConfCalls = 3
    MaxRemovals = 1
    MaxMoves = 3
    MaxCalls = 3
    Values = {"new"}
    MaxNetCalls = 2
    MaxUnitSteps = 2
VIEW Running
INVARIANTS
    
    
    AccountReady
    
    ConfAsAsked
    OutsideKept
    WritesWhole
    AppliedLive
    
PROPERTIES
    OthersLeftAlone
CHECK_DEADLOCK FALSE
