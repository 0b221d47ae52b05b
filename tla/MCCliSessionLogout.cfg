SPECIFICATION Spec
CONSTANTS
    Procs = {p1, p2}
    Old = old
INVARIANT LogoutSticks
CHECK_DEADLOCK FALSE
