SPECIFICATION FairSpec
CONSTANTS
    Fids = {f1, f2}
    Thumbs = {t1, t2}
    Sends = {m1}
    Deleters = {d1, d2}
    Quota = 2
    MaxStaged = 1
    Cases = {{f1, f2, d1, d2}, {f1, t1, t2, d1}}
    MaxFaults = 1
    MaxCrashes = 1
INVARIANTS
    CounterCovers
    PreviewMatches
PROPERTIES
    RecountExact
    DriftEnds
