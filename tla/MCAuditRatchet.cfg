SPECIFICATION RatchetSpec
CONSTANTS
  Names = {"a", "b", "d", "u", "x"}
  Libs = {"StabilityCondition", "DGCategory"}
  Lib <- MCLib
  Hidden = {"x"}
  Split = {"StabilityCondition"}
  MaxEdits = 3
INVARIANTS
  BacklogAccepted
  TaintAccepted
  CeilingHolds
CHECK_DEADLOCK FALSE
