SPECIFICATION FairSpec
CONSTANTS
  t1 = t1
  t2 = t2
  t3 = t3
  p1 = p1
  p2 = p2
  r1 = r1
  r2 = r2
  w1 = w1
  w2 = w2
  c1 = c1
  c2 = c2
  NoRoom = NoRoom
  Tickets = {t1, t2}
  PlayerOf <- FaultPlayers
  Skill <- FaultSkill
  Capacity = 2
  InitialSkillGap = 1
  MaxSkillGap = 2
  ExpansionInterval = 1
  FillTimeout = 1
  AgePriorityAfter = 1
  RoomLimit = 1
  PreferNearlyFull = TRUE
  BalancedRooms <- FaultBalanced
  Rooms = {r1}
  Workers = {w1, w2}
  Skew <- LiveSkew
  RequestOffsets = {0}
  CancelCommands = {}
  BatchSize = 1
  LeaseDuration = 2
  FailureBackoff = 1
  StaleRetryDelay = 1
  RoomWindow = 1
  ResultTimeout = 1
  MaxTime = 4
  LastRequest = 0
  LastFault = 1
  MaxFaults = 1
PROPERTY
  EveryTicketEnds
