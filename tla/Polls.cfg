SPECIFICATION Spec
CONSTANTS
  Conns = {c1, c2}
  Users = {u}
  Nobody = Nobody
  MaxConnections = 2
  MaxPolls = 1
  MaxTyping = 2
  MaxFailedStarts = 1
INVARIANTS SlotsComeBack PollsAreCounted RevokedIsCut
PROPERTY ParkedPollsEnd
