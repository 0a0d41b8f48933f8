SPECIFICATION Spec
CONSTANTS
  Entries = {"e1", "e2", "d", "t", "m", "gone"}
  Issues = {1, 2, 3, 4, 5}
  Milestones = {1}
  Roadmaps <- MCRoadmaps
  Trackers <- MCTrackers
  RM06_KNOWN_GAPS = {}
  None = None
  MaxMoves = 1
INVARIANTS
  OneHome
  PlanMeetsProgress
  StayedIsSeen
CHECK_DEADLOCK FALSE
