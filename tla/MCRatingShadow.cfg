SPECIFICATION FairSpec
CONSTANTS
  r1 = r1
  r2 = r2
  r3 = r3
  p1 = p1
  p2 = p2
  w1 = w1
  w2 = w2
  c1 = c1
  v1 = v1
  d1 = d1
  NoDeck = NoDeck
  NoCandidate = NoCandidate
  NoItem = NoItem
  Rooms = {r1, r2, r3}
  Finished = {r1, r2}
  Players = {p1, p2}
  PlayersOf <- TestPlayers
  FilledAt <- TestFilled
  AvailableAt <- TestAvailable
  Position <- TestPosition
  RoomBaseline <- TestRoomBaseline
  RoomDeck <- TestRoomDeck
  Candidates = {c1}
  Baseline <- TestBaseline
  Deck <- TestDeck
  Cutoff <- TestCutoff
  ActivatedAt <- TestActivated
  EndedAt <- TestEnded
  FillDelay <- TestFillDelay
  ResultDelay <- TestResultDelay
  Extreme <- TestExtreme
  Workers = {w1, w2}
  Skew <- NoSkew
  LeaseDuration = 3
  FailureBackoff = 1
  MaxTime = 6
  LastSlow = 2
  LastFault = 2
  MaxFaults = 1
INVARIANTS
  TypeOK
  NoLeakage
  EvidenceIsPaired
  FollowsTimeline
PROPERTY
  TimelineDrains
CHECK_DEADLOCK FALSE
