SPECIFICATION FairSpec
CONSTANTS
    Users <- MCUsers
    Founders = {1, 2}
    Homes = {1, 2}
    MaxTs = 1
    MaxDay = 1
    MaxCrashes = 0
    MaxFaults = 1
    FaultSites <- DirsSite
    MaxUnfinished = 2
    RetainDays = 0
PROPERTY
    UnfinishedIsRetried
