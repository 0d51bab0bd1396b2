SPECIFICATION MCFairSpec
PROPERTIES
  MadeWhole
  LeaseEnds
  RoundEnds
  PoolRefills
CHECK_DEADLOCK FALSE
