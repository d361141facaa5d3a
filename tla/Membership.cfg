SPECIFICATION Spec
CONSTANTS
  Users = {f, u, v, w}
  Founders = {f}
  Adders = {a1, a2}
  Readers = {r}
  MaxMembers = 2
  Absent = Absent
  Empty = Empty
  MaxTs = 4
  MaxMessages = 2
  MaxLeaves = 1
  MaxFaults = 1
  MaxRestarts = 1
SYMMETRY Alike
INVARIANTS GateIsExact ReadsAreGated OvershootBounded
CHECK_DEADLOCK FALSE
