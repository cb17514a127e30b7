SPECIFICATION Spec
CONSTANTS
  Slugs <- MCSlugs
  Unreachable = {}
  MinSessions = 1
  MaxSessions = 1
  MaxRuns = 1
  MaxEdits = 2
  MaxFaults = 1
PROPERTY ManualIsKept
PROPERTY OneRecord
PROPERTY EveryProjectHasRecord
CHECK_DEADLOCK FALSE
