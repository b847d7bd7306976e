SPECIFICATION Spec
CONSTANTS
  Depth = 3
  Trigger = 2
  Chars = {a, b}
  None = None
  Nul = Nul
  Garbled = Garbled
  Races = {}
CONSTRAINT OneDirection
VIEW Live
SYMMETRY Symmetry
INVARIANTS TypeOK ErrorsReported IdleIsSent
PROPERTIES Faithful EmptyIsAnnounced
