SPECIFICATION Spec
CONSTANTS
  Kinds = {"alu", "mem", "io", "memFault", "bad", "fence", "ret", "wfi"}
  Classes = {"other", "jump", "div"}
  Coincidences = {"WalkFault"}
INVARIANT ExactlyOnce
