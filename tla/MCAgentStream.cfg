SPECIFICATION FairSpec
CONSTANTS
    Requests = {r1}
    Oneways = {w1}
    MaxStreams = 2
    Guarded = TRUE
INVARIANTS
    OneSendInFlight
    NoStrandedWaiter
    AnswerSurvivesClose
PROPERTIES
    CallsReturn
CHECK_DEADLOCK FALSE
