SPECIFICATION MCSpec
CONSTANTS
  w1 = w1
  w2 = w2
  k1 = k1
  k2 = k2
  Workers <- MCWorkers
  Commitment <- MCCommitment
  Validity = 1
  MaxAttempts = 2
  MaxHeight = 4
  MaxObserved = 3
  MaxPrune = 0
INVARIANTS
  AtMostOnce
  JournalTruthful
  
  OperatingMoney
PROPERTIES
  VerdictsStay
CHECK_DEADLOCK FALSE
