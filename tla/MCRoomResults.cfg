SPECIFICATION FairSpec
CONSTANTS
  r1 = r1
  r2 = r2
  p1 = p1
  p2 = p2
  i1 = i1
  i2 = i2
  report = report
  rival = rival
  reuse = reuse
  altered = altered
  stray = stray
  s1 = s1
  s2 = s2
  d1 = d1
  NoCommand = NoCommand
  Rooms = {r1, r2}
  Players = {p1, p2}
  Identities = {i1, i2}
  Commands = {report, rival, reuse, altered, stray}
  IdentityOf <- TestIdentities
  RoomOf <- TestRooms
  FinishedAt <- TestFinished
  AvailableAt <- TestAvailable
  QuitsOf <- TestQuits
  Suited = {report, rival, reuse, altered}
  Seated = {report, rival, reuse, altered, stray}
  Servers = {s1, s2}
  Runners = {d1}
  Skew <- TestSkew
  ResultTimeout = 2
  AllocationLags = {0, 1}
  BatchSize = 1
  MaxTime = 3
  LastFill = 0
  MaxRequests = 3
INVARIANTS
  TypeOK
  OneEnding
  AnswersAgree
  EndsInTime
PROPERTIES
  StoredIsNeverRefused
  RoomsEnd
CHECK_DEADLOCK FALSE
