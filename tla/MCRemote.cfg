SPECIFICATION RemoteSpec
CONSTANTS
    Callers = {c1, c2}
    MaxVersion = 2
    Keys = {1, 2}
    MaxPuts = 3
    MaxFaults = 1
    Files = {1, 2, 3}
    Commits = {1, 2}
    Tracked <- TwoTrees
    MaxMishaps = 1
    Cap = 3
    IntMax = 7
    StreamMax = 6
    Paths = {p1, p2}
    MaxEntries = 3
    RepoNames = {"r1", "r2"}
    Urls = {"u", "v", "ux"}
    SignKeys = {"g1", "g2"}
    BadUrls = {"v"}
    Within <- OneWithin
    MaxRepoCalls = 3
    Others = {o1}
    MaxVer = 2
    MaxPkCalls = 2
    MaxInodes = 2
    Apps = {"a", "b"}
    MaxHoldCalls = 1
    MaxStirs = 3
    Parcels = {"a", "b"}
    Patched = {"a"}
    MaxUpCalls = 1
    MaxNudges = 1
INVARIANTS
    
    ExtractedWithinCap
    
    AppliedStands
    OneTransaction
PROPERTIES
    RemovesOnlyItsOwn
    
    
