CONSTANTS
  r1 = r1
  r2 = r2
  s1 = s1
  s2 = s2
  g1 = g1
  g2 = g2
  g3 = g3
  Rooms = {r1, r2}
  Invited = {r1}
  Sockets = {s1, s2}
  Guests = {g1, g2}
  Accounts = {g3, NoUser}
  NoRoom = NoRoom
  NoUser = NoUser
  NoSocket = NoSocket
  Home = Home
  Idle = Idle
  MaxMoves = 1
  MaxCommands = 1
  MaxFaults = 2
  MaxQueue = 2
  TabHides = TRUE
  RequestsFail = TRUE
  LateCloses = {TRUE, FALSE}
SPECIFICATION Spec
SYMMETRY Alike
INVARIANTS
  AppliedOnce
  PendingIsKept
  ShownRoomIsJoined
CHECK_DEADLOCK FALSE
