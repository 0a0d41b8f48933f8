SPECIFICATION Spec
CONSTANTS
  PRs <- MCPRs
  Slices <- MCSlices
  Work <- MCWork
  Added <- MCAdded
  File <- MCFile
  Prefix <- MCPrefix
  BootstrapFiles = {"gates"}
  Drafts = {2}
  Outcomes = {"SUCCESS", "FAILURE"}
  Jobs = {"ci"}
  MaxDisturb = 1
INVARIANTS
  TypeOK
  DoneSound
  BuildsBounded
  WorkBounded
PROPERTIES
  VerdictStands
  StackOrder
  Quiesces
