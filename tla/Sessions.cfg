SPECIFICATION Spec
CONSTANTS
    Users = {a, b}
    Logins = {l1, l2}
    Changers = {c1}
    Resetters = {k1}
    None = None
    a = a
    b = b
    k1 = k1
    Accounts <- MCAccounts
    MaxEdits = 2
    MaxCrashes = 1
INVARIANTS
    RevocationReaches
    ChangesStick
    SweepIsComplete
CHECK_DEADLOCK FALSE
SYMMETRY MCSymmetry
