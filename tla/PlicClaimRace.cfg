SPECIFICATION Spec
CONSTANTS
  NumSources = 2
  NumContexts = 1
  MaxPriority = 1
  QuietClaims = FALSE
INVARIANT ClosedIsHeld
