CONSTANTS
  r1 = r1
  r2 = r2
  s1 = s1
  s2 = s2
  g1 = g1
  g2 = g2
  g3 = g3
  Rooms = {r1}
  Invited = {r1}
  Sockets = {s1, s2}
  Guests = {}
  Accounts = {g1}
  NoRoom = NoRoom
  NoUser = NoUser
  NoSocket = NoSocket
  Home = Home
  Idle = Idle
  MaxMoves = 0
  MaxCommands = 2
  MaxFaults = 1
  MaxQueue = 5
  TabHides = FALSE
  RequestsFail = FALSE
  LateCloses = {FALSE}
SPECIFICATION FairSpec
PROPERTIES
  CommandsAreDelivered
  LossIsMadeUpFor
CHECK_DEADLOCK FALSE
