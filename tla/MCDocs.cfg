SPECIFICATION SiteSpec
CONSTANTS
  DAY = 4
  CAP = 2
  LANDING = 2
  MaxCommits = 2
  MaxDispatches = 2
  MaxFaults = 1
INVARIANTS
  SiteTypeOK
  AtMostADayBehind
PROPERTY
  NeverOlder
