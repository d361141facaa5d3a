SPECIFICATION Spec
CONSTANTS
    Requests = {r1, r2}
    Fids = {f1}
    MaxFaults = 0
    MaxCrashes = 1
    MaxWeeks = 0
INVARIANT
    SameNonceSameMessage
CHECK_DEADLOCK FALSE
