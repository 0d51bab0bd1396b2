SPECIFICATION MCSpec
CONSTANTS
  Bindings = {b1, b2}
  Messages = {x1}
  AssetIntents = {a1}
  PlanIntents = {}
  Scopes = {c1}
  MaxMints = 1
  MaxTickets = 3
  MaxRetry = 0
  MaxLaunches = 0
  MaxAttempts = 1
  Fallback = FALSE
  Reservers = {r1, r2}
  Reconcilers = {k1, k2}
  MaxLeases = 3
INVARIANTS
  StockSound
  ApprovalFinal
PROPERTIES
  LifeSpec
  StockSteps
CHECK_DEADLOCK FALSE
