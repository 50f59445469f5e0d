SPECIFICATION Spec
CONSTANTS
  e1 = e1
  e2 = e2
  e3 = e3
  ticketA = ticketA
  ticketB = ticketB
  w1 = w1
  w2 = w2
  Events = {e1, e2}
  AggregateOf <- PairAggregates
  VersionOf <- PairVersions
  Workers = {w1, w2}
  Skew <- AheadSkew
  OccurredOffsets <- StatedOffsets
  BatchSize = 1
  LeaseDuration = 1
  RetryBaseDelay = 1
  RetryMaxDelay = 3
  MaxTime = 3
  LastInsert = 1
  LastFault = 3
  MaxFaults = 2
INVARIANTS
  TypeOK
  DeliveredWasAccepted
PROPERTIES
  DeliveryIsOrdered
  SettledEventsRest
  ClaimsAreFenced
CHECK_DEADLOCK FALSE
