CONSTANTS
  Receipts = 2
  SliceSize = 1
  MaxRetries = 2
  MaxRunning = 7
  Loads = {"exact"}
  Displays = {TRUE}
  Grants = {}
  Outsiders = FALSE
  MaxFaults = 0
SPECIFICATION FairSpec
PROPERTIES AccountingFinishes
CHECK_DEADLOCK FALSE
