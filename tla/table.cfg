CONSTANTS
  u1 = u1
  u2 = u2
  aceS = aceS
  aceH = aceH
  kingS = kingS
  kingH = kingH
  Ace = Ace
  King = King
  NoOne = NoOne
  NoRank = NoRank
  NoPlay = NoPlay
  NoResult = NoResult
  User <- TwoUsers
  Rank = {Ace, King}
  Face <- FourFaces
  RankOf <- FaceRank
  AceOfSpades = aceS
  GroupSize = 2
  MaxSeats = 3
  ConfigDecks = {1}
  ConfigWinners = {0}
  Me = u1
  Capacity = 4
  MaxBacklog = 1
  MaxSeq = 6
  MaxMoves = 2
  MaxLosses = 1
SPECIFICATION FairTable
INVARIANTS
  ViewAgrees
PROPERTIES
  MovesMeetTheirPile
  ViewSettles
CHECK_DEADLOCK FALSE
