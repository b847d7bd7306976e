SPECIFICATION MCSpec
CONSTANTS
  NumSets = 1
  NumWays = 2
  NumWords = 2
  Tags = {t1, t2, t3}
  Values = {0, 1}
  Zero = 0
  CMOs = {"inval", "flush", "clean"}
  CMOSpaced = TRUE
  LateTraps = {"FETCH", "WRITEBACK", "WRITE_LINE", "ADDRESS_SETUP"}
  ProgramWords = {0}
  ProgramValues = {0, 1}
ACTION_CONSTRAINT ProgramBound
SYMMETRY Symmetry
INVARIANTS TypeOK NoAlias Placement CleanMatchesMemory LoadValue CMOReachesMemory BurstIsCommitted
PROPERTIES Transparent
