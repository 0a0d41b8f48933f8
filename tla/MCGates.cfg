SPECIFICATION Spec
CONSTANTS
  Paths <- MCPaths
  Absent = Absent
  Dir <- MCDir
  Hidden = {"N"}
  Retired = {"R"}
  Gone = {"R"}
  Lakefile = "toml"
  LakefileLean = "lean"
  RetiredLib = {}
  Upstream = {"mattrobball"}
  Sweep = "Sweep"
  Imports <- MCImports
  Decls = {"def", "sorry"}
  Sorry = {"sorry"}
  Included = {"A", "B", "C", "K", "N"}
  Excluded = {"N", "R"}
  StyleErrors = {"old", "bad"}
  Docs = {"doc"}
  NeedsDoc = {"def"}
  base <- MCBase
  PinsFile = "pins"
  Manifest = "manifest"
  Toolchain = "tool"
  CI = "ci"
  Pin <- MCPin
  Map = "map"
  Claim <- MCClaim
  Version <- MCVersion
  Words <- MCWords
  MapHeader = {}
  Corpus = {}
  Legacy = {}
  TensorUnit = {"unit"}
  Binder = {"unit"}
  LegacyDefining = {"K"}
  UnitDefining = "B"
  UnitCompat = "K"
  Trees = {"mine", "theirs"}
  Runs = {"r1", "r2"}
  In <- MCIn
  Modes <- MCModes
  Start0 <- MCStart0
  Drafts <- MCDrafts
  Editable = {"mine"}
  MaxEdits = 1
  Listed <- MCListed
  Caught <- MCCaught
INVARIANT
  TypeOK
PROPERTIES
  PassIsDeserved
  FailIsDeserved
CHECK_DEADLOCK FALSE
