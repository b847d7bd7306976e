SPECIFICATION MCSpec
CONSTANTS
  NumSets = 1
  NumWays = 2
  NumWords = 2
  Tags = {t1, t2}
  Values = {0, 1}
  Zero = 0
  CMOs = {"zero"}
  CMOSpaced = TRUE
  LateTraps = {}
  ProgramWords = {0}
  ProgramValues = {0, 1}
ACTION_CONSTRAINT ProgramBound
SYMMETRY Symmetry
INVARIANT NoAlias
