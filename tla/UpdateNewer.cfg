SPECIFICATION EventsSpec
CONSTANTS
    Users <- OneUser
    Devices <- TwoDevices
    Changers = {c1}
    Ulp = 2
    MaxChanges = 2
    MaxSteps = 0
    MaxFailures = 0
INVARIANT
    NewerChangeIsKept
CHECK_DEADLOCK FALSE
