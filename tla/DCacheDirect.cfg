SPECIFICATION MCFairSpec
CONSTANTS
  NumSets = 2
  NumWays = 1
  NumWords = 2
  Tags = {t1, t2}
  Values = {0, 1}
  Zero = 0
  CMOs = {"clean", "zero"}
  CMOSpaced = TRUE
  LateTraps = {"WRITEBACK"}
  ProgramWords = {0}
  ProgramValues = {1}
ACTION_CONSTRAINT ProgramBound
INVARIANTS FenceWritesAll
PROPERTIES Transparent Served
