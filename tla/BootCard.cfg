SPECIFICATION FairSpec
CONSTANTS
  Depth = 8
  Halves = 4
  Counts <- MCCounts
  BlockBytes = 16
  Warm = 1
  MaxTries = 3
  MaxGap = 1
  Most = 10
INVARIANTS FlagsAreSafe
PROPERTIES NothingDropped Intact Boots
