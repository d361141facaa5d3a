SPECIFICATION Spec
CONSTANTS
    Fids = {f1, f2}
    Thumbs = {}
    Sends = {m1}
    Deleters = {d1}
    Quota = 1
    MaxStaged = 1
    Cases = {{f1, f2, d1}}
    MaxFaults = 0
    MaxCrashes = 0
INVARIANT QuotaHolds
