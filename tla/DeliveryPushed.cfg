SPECIFICATION Spec
CONSTANTS
    Users <- MCUsers
    Founders = {1, 2}
    Homes = {1, 2}
    MaxTs = 4
    MaxDay = 1
    MaxCrashes = 0
    MaxFaults = 0
    FaultSites <- NoSites
    MaxUnfinished = 2
    RetainDays = 0
INVARIANT
    RecipientsArePushed
