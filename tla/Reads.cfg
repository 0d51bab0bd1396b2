SPECIFICATION MCSpec
INVARIANTS
  
  
  WithinRate
PROPERTIES
  RowsForward
CHECK_DEADLOCK FALSE
