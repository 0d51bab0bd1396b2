SPECIFICATION Spec
CONSTANTS
  o1 = o1
  o2 = o2
  o3 = o3
  Owners <- MCOwners
  Amounts <- MCAmounts
  OfferedTerms <- MCTerms
  MAX_RECEIPTS_V2 = 3
  MIN_COMMIT_V2 = 101
  SOFT_FLOOR_V2 = 300
  COLLATERAL_V2 = 3
  Supply = 10007
  OpensAtTolerance = 1
  MaxSchedule = 2
  MaxWindow = 2
  VestingSpan = 2
  LaunchCost = 1
  MaxCommits = 2
  MaxDonation = 1
  MaxSetup = 1
  MaxTime = 4
CHECK_DEADLOCK FALSE
SYMMETRY MCSymmetry
INVARIANTS
  BooksBalance
  RefundsCovered
  LaunchNeverShort
  ClaimsCovered
PROPERTIES
  DecisionsAreFinal
