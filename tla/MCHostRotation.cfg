SPECIFICATION FairSpec
CONSTANTS
    MaxVersion = 3
    Eap = {1, 2, 3}
    MaxFaults = 1
PROPERTY RotationInstalled
CHECK_DEADLOCK FALSE
