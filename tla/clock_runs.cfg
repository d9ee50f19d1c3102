SPECIFICATION Spec
CONSTANTS
  u1 = u1
  u2 = u2
  u3 = u3
  NoOne = NoOne
  User <- TwoUsers
  TurnDuration = 3
  ReconnectCushion = 2
  InboxSize = 10
INVARIANTS
  TableClockRuns
