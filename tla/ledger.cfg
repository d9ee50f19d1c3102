SPECIFICATION FairSpec
CONSTANTS
  None = None
  r1 = r1
  r2 = r2
  c1 = c1
  c2 = c2
  Rooms = {r1, r2}
  Codes = {c1, c2}
  CodeOf <- OwnCode
  Users = {u1}
  Retries = 2
  MaxSeq = 3
  Scopes <- OneOrTwo
  Recycle = FALSE
INVARIANTS
  TypeOK
  AcceptedSurvives
PROPERTIES
  KeepsALedger
  StoreCatchesUp
  MatchesAreRecorded
CHECK_DEADLOCK FALSE
