CONSTANTS
  NoForm = NoForm
  NoMove = NoMove
  NoOne = NoOne
  NoRank = NoRank
  NoPlay = NoPlay
  NoRecord = NoRecord
  Off = Off
  p1 = p1
  p2 = p2
  c1 = c1
  c2 = c2
  c3 = c3
  c4 = c4
  u1 = u1
  u2 = u2
  aceS = aceS
  aceH = aceH
  kingS = kingS
  kingH = kingH
  Ace = Ace
  King = King
  ann = ann
  bob = bob
  laptop = laptop
  phone = phone
  other = other
  nobody = nobody
  lostName = lostName
  an = an
  empty = empty
  r1 = r1
  r2 = r2
  NoRoom = NoRoom
  Speakers = {p1, p2}
  MaxVoice = 2
  MaxOffers = 3
  MaxMounts = 3
  MaxAsks = 1
  MaxBreaks = 1
  User = {u1, u2}
  Me = u1
  Rank = {Ace, King}
  Face = {aceS, aceH, kingS, kingH}
  FewFaces = {aceS, aceH, kingS}
  RankOf <- FaceRank
  AceOfSpades = aceS
  Cards = {c1, c2, c3, c4}
  DealtHands <- TwoDeals
  MaxMoves = 6
  MaxMatches = 2
  MaxDrops = 1
  Friendly = {ann, bob}
  Hubs = {laptop, phone, other}
  Owner <- AnnHasTwo
  MaxAsked = 3
  MaxAnswers = 2
  MaxRemovals = 1
  Handles = {ann, bob}
  Strangers = {nobody}
  Shorts = {an}
  Empty = empty
  MaxTyped = 3
  MaxSubmits = 1
  MaxOffered = 1
  Addresses = {ann, bob, lostName}
  MaxVisits = 4
  MaxBids = 2
  Rooms = {r1, r2}
  Bells = {laptop, phone}
  Linked = {laptop}
  MaxInvites = 2
  MaxPolls = 1
  MaxClicks = 2
  MaxChanges = 1
  MaxFailures = 1
SPECIFICATION Spec
CONSTRAINT Explored
SYMMETRY AlikeSpeakers
INVARIANTS
  VoiceEndsWithItsControls
  DeclarationsFit
  FlightsBringTheHand
  FriendsAgreed
  ListSettles
  SearchAnswersTheText
  RecordIsOfHandle
  InviteAnsweredOnce
  InvitesAreFound
PROPERTIES
  ComposedPlaysAreLegal
CHECK_DEADLOCK FALSE
