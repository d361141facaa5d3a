SPECIFICATION Spec
CONSTANTS
    Fids = {f1}
    Thumbs = {t1}
    Sends = {m1}
    Deleters = {d1}
    Quota = 2
    MaxStaged = 1
    Cases = {{f1, t1}}
    MaxFaults = 0
    MaxCrashes = 0
INVARIANT KeyImpliesFile
