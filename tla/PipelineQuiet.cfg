SPECIFICATION FairSpec
CONSTANTS
  Kinds = {"alu", "mem", "io", "memFault", "bad", "fence", "ret", "wfi"}
  Classes = {"other", "jump", "div"}
  Coincidences = {}
INVARIANTS
  TypeOK
  InOrder
  ExactlyOnce
  FaultTraps
  OwnHalves
PROPERTY Progress
