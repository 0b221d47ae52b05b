SPECIFICATION Spec
CONSTANTS
    Callers = {c1}
    MaxVersion = 2
INVARIANT PrunedOnlyByPin
