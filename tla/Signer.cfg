SPECIFICATION MCSpec
CONSTANTS
  Procs = {p1, p2}
  None = None
  Ttl = 4
  Margin = 1
  MaxSkew = 1
  MaxNow = 6
INVARIANTS
  OneValidOwner
  
PROPERTIES
  LostIsTerminal
  FencedSigning
CHECK_DEADLOCK FALSE
