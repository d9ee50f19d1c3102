SPECIFICATION Spec
CONSTANTS
  u1 = u1
  u2 = u2
  u3 = u3
  aceS = aceS
  aceH = aceH
  kingS = kingS
  kingH = kingH
  Ace = Ace
  King = King
  NoOne = NoOne
  NoRank = NoRank
  NoPlay = NoPlay
  NoResult = NoResult
  User <- ThreeUsers
  Rank = {Ace, King}
  Face <- ThreeFaces
  RankOf <- FaceRank
  AceOfSpades = aceS
  GroupSize = 2
  MaxSeats = 3
  ConfigDecks = {1}
  ConfigWinners = {0, 2}
SYMMETRY Symmetry
INVARIANTS
  ReadyResultsCanRestart
