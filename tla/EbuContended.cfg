SPECIFICATION FairSpec
CONSTANTS
  Beats = 8
  BURST_EN = TRUE
  LSUKinds = {"line", "evict", "clean", "load", "store"}
  MaxWalk = 2
  Cuts = TRUE
INVARIANTS
  TypeOK
  InOrder
  DataReaches
 
PROPERTIES
  BusRules
  Served
