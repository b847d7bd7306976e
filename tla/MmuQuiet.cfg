SPECIFICATION FairSpec
CONSTANTS
  VPN1 = {0}
  VPN0 = {0, 1}
  RootValues = {{"V"}, {"V", "R", "W", "U"}, {"V", "A"}}
  NextValues = {{}, {"V", "R", "W", "X", "A", "ppn0"}}
  Ops = {"read", "write"}
  DTLBLines = 2
  ITLBLines = 1
  Updating = {TRUE, FALSE}
  Coincidences = {}
INVARIANTS
  TypeOK
  AsTablesSay
PROPERTIES
  EarnedUpdate
  Served
