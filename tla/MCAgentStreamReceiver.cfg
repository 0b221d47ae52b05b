SPECIFICATION Spec
CONSTANTS
    Requests = {r1}
    Oneways = {}
    MaxStreams = 1
    Guarded = FALSE
INVARIANT ReceiverNeverPanics
CHECK_DEADLOCK FALSE
