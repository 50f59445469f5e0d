SPECIFICATION Spec
CONSTANTS
  t1 = t1
  t2 = t2
  t3 = t3
  p1 = p1
  p2 = p2
  r1 = r1
  r2 = r2
  w1 = w1
  w2 = w2
  c1 = c1
  c2 = c2
  NoRoom = NoRoom
  Tickets = {t1, t2, t3}
  PlayerOf <- ContentionPlayers
  Skill <- ContentionSkill
  Capacity = 2
  InitialSkillGap = 1
  MaxSkillGap = 2
  ExpansionInterval = 1
  FillTimeout = 1
  AgePriorityAfter = 1
  RoomLimit = 2
  PreferNearlyFull = TRUE
  BalancedRooms <- ContentionBalanced
  Rooms = {r1, r2}
  Workers = {w1, w2}
  Skew <- AheadSkew
  RequestOffsets <- LateOffsets
  CancelCommands = {}
  BatchSize = 1
  LeaseDuration = 2
  FailureBackoff = 1
  StaleRetryDelay = 1
  RoomWindow = 1
  ResultTimeout = 1
  MaxTime = 2
  LastRequest = 0
  LastFault = 1
  MaxFaults = 0
INVARIANTS
  ScoredMembersAreActual
  RoomsAreFair
  RoomFillsExactlyOnce
  OutcomeInTime
CHECK_DEADLOCK FALSE
SYMMETRY RoomSymmetry
