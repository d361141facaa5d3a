SPECIFICATION FairSpec
CONSTANTS
    Requests = {r1, r2, r3}
    Fids = {f1, f2}
    MaxFaults = 1
    MaxCrashes = 1
    MaxWeeks = 1
INVARIANTS
    TypeOK
    AtMostOnce
    AcknowledgedIsSent
    BadIdDestroysNothing
PROPERTIES
    ClaimEnds
    Answered
CHECK_DEADLOCK FALSE
