SPECIFICATION Spec
CONSTANTS
  Beats = 8
  BURST_EN = TRUE
  LSUKinds = {"line", "evict", "clean", "load", "store", "amo"}
  MaxWalk = 2
  Cuts = TRUE
INVARIANTS
  InOrder
