SPECIFICATION Spec
CONSTANTS
  Ids <- MCIds
  NoMemory = "nobody"
  Refs = {"copies", "notes", "skills"}
  Live = {"copies", "notes"}
  Origin <- MCOrigin
  Kind <- MCKind
  Bodies = {"a", "task", "beat"}
  NoBody = "nothing"
  Marks <- MCMarks
  Legacy <- MCLegacy
  Standing <- MCStanding
  Ttl = 1
  Never = 9
  MaxTime = 1
  MaxEdits = 1
  MaxIngests = 1
  MaxRuns = 2
  MaxBumps = 1
  MaxFails = 1
INVARIANT SurvivorRemains
INVARIANT VisibleIsEmbedded
INVARIANT HashIsStored
PROPERTY HiddenHasCopy
CHECK_DEADLOCK FALSE
