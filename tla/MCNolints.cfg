SPECIFICATION Spec
CONSTANTS
  PRs = {"a", "b"}
  Agent = {"b"}
  Entries = {"x", "y"}
  Linters = {"docBlame"}
  LinterOf <- MCLinterOf
  CEILING = 1
  PER_LINTER_CEILING <- MCPerLinter
  InitList = {"x"}
  Diffs <- MCDiffs
  Green <- MCGreen
  MaxHead <- MCMaxHead
  MaxFaults = 1


PROPERTIES
  ListNeverGrows
CHECK_DEADLOCK FALSE
