SPECIFICATION Spec
CONSTANTS
  Messages = {m1, m2}
  System = {}
  Sender = s
  Recipients = {b}
  Requests = {t1, t2}
  MaxLeaves = 1
  MaxArchived = 1
  MaxFaults = 1
SYMMETRY Alike
INVARIANTS ReadImpliesDelivered FlagsAreTold ReceiptsAreKept
