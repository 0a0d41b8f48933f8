SPECIFICATION Spec
CONSTANTS
  Modules = {"a", "b"}
  Versions = {"v1", "v2"}
  Pins = {"p1", "p2"}
  Trees <- MCTrees
  None = None
INVARIANTS
  TypeOK
  BuiltIsExact
  SettledIsWarm
PROPERTY
  WarmFinishes
