SPECIFICATION Spec
CONSTANTS
  Owners <- MCOwners
  LAYER <- MCLAYER
  Families = {"Dqc"}
  Trees <- MCTrees
INVARIANTS
  SearchIsExact
  CycleIsReal
  NothingClimbs
PROPERTY
  Terminates
CHECK_DEADLOCK FALSE
