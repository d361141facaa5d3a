SPECIFICATION Spec
CONSTANTS
    Users <- MCTrio
    Founders = {1, 2}
    Homes = {1, 2}
    MaxTs = 3
    MaxDay = 1
    MaxCrashes = 0
    MaxFaults = 1
    FaultSites <- AllSites
    MaxUnfinished = 1
    RetainDays = 0
INVARIANTS
    TypeOK
    RoutedMeansQueued
    BouncedForCause
PROPERTIES
    StoredStaysStored
    NoRepush
