SPECIFICATION Spec
CONSTANTS
  Paths = {"gate", "record"}
  Guarded = {"gate", "record"}
  Records = {"record"}
  Labels = {"trust-reviewed"}
  MaxActs = 3
INVARIANTS
  TypeOK
  SettledAgrees
PROPERTY
  HeadIsJudged
CHECK_DEADLOCK FALSE
