SPECIFICATION MCSpec
CONSTANTS
  o1 = o1
  o2 = o2
  o3 = o3
  Owners <- MCOwners
  Amounts <- MCAmounts
  OfferedTerms <- MCTerms
  SplitBps <- MCSplit
  Vesting <- MCVesting
  Supply = 10007
  OpensAtTolerance = 0
  VestingSpan = 2
  MaxCommits = 2
  MaxDonation = 1
  MaxTime = 4
INVARIANTS
  SettledSolvent
  
  

  
CHECK_DEADLOCK FALSE
