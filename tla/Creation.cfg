SPECIFICATION MCSpec
INVARIANTS
  QuotesKept
  WorkFenced
  TermsMatchChain
  
PROPERTIES
  CreationForward
CHECK_DEADLOCK FALSE
