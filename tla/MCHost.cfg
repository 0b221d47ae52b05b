SPECIFICATION HostSpec
CONSTANTS
    MaxVersion = 3
    Eap = {1, 3}
    MaxFaults = 3
    Closers = {c1, c2}
    Resizers = {z1, z2}
    LineLengths = {1, 3}
    MaxLines = 2
    ChanCap = 1
    MaxOutputBytes = 3
    DayMinutes = 4
    GroupWindows <- TwoGroups
INVARIANTS
    HostConsistent
    MatchedPair
    CertsKept
    AllowedWhileOpen
PROPERTIES
    InstalledUnlessOld
    ProcessEnds
    OpensAgain
CHECK_DEADLOCK FALSE
