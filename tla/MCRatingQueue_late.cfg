SPECIFICATION Spec
CONSTANTS
  e1 = e1
  e2 = e2
  e3 = e3
  p1 = p1
  p2 = p2
  w1 = w1
  w2 = w2
  NoResult = NoResult
  Results = {e1, e2, e3}
  Players = {p1, p2}
  PlayersOf <- TestPlayers
  AvailableAt <- SpacedAvailable
  Position <- TestPosition
  Rank <- TestRank
  ReportDelay = 1
  Workers = {w1, w2}
  Skew <- AheadSkew
  LeaseDuration = 2
  FailureBackoff = 1
  MaxTime = 5
  LastFault = 3
  MaxFaults = 0
INVARIANT
  RatingsAreSerial
CHECK_DEADLOCK FALSE
