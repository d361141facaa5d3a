SPECIFICATION FairSpec
CONSTANTS
    Users <- OneUser
    Devices <- TwoDevices
    Changers = {c1, c2}
    Ulp = 2
    MaxChanges = 2
    MaxSteps = 1
    MaxFailures = 2
INVARIANTS
    StaleIsTold
PROPERTIES
    QueueDrains
CHECK_DEADLOCK FALSE
