SPECIFICATION MCSpec
CONSTANTS
  r1 = r1
  r2 = r2
  s1 = s1
  s2 = s2
  s3 = s3
  Jobs <- OneJob
  Campaign <- OneCampaign
  Rank <- OneRank
  Deadline <- OneDeadline
  Runners <- TwoRunners
  Slots <- ThreeSlots
  Owner <- OwnerOfThree
  Ttl = 1
  MaxAttempts = 2
  MaxDelay = 1
  MaxToken = 3
  MaxPackets = 2
INVARIANTS
  OneHolder
  SqliteRows
  TurnsFair
PROPERTIES
  
  SqliteSteps
CHECK_DEADLOCK FALSE
