SPECIFICATION FairSpec
CONSTANTS
  e1 = e1
  e2 = e2
  e3 = e3
  ticketA = ticketA
  ticketB = ticketB
  w1 = w1
  w2 = w2
  Events = {e1, e2, e3}
  AggregateOf <- TripleAggregates
  VersionOf <- TripleVersions
  Workers = {w1}
  Skew <- SoloSkew
  OccurredOffsets = {0}
  BatchSize = 2
  LeaseDuration = 2
  RetryBaseDelay = 1
  RetryMaxDelay = 3
  MaxTime = 4
  LastInsert = 0
  LastFault = 1
  MaxFaults = 2
PROPERTY
  DeliveredUnlessBuried
CHECK_DEADLOCK FALSE
