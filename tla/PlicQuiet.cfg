SPECIFICATION Spec
CONSTANTS
  NumSources = 2
  NumContexts = 2
  MaxPriority = 2
  QuietClaims = TRUE
INVARIANTS TypeOK ClosedIsHeld ServedOnce Offered
PROPERTIES NotWithdrawn
