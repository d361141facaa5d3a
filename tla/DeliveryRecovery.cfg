SPECIFICATION FairSpec
CONSTANTS
    Users <- MCUsers
    Founders = {1}
    Homes = {1, 2}
    MaxTs = 3
    MaxDay = 3
    MaxCrashes = 1
    MaxFaults = 2
    FaultSites <- FinishSites
    MaxUnfinished = 1
    RetainDays = 1
INVARIANTS
    NothingForgotten
PROPERTIES
    ImplementsMailbox
    AcceptedIsRouted
    RejectionIsTold
