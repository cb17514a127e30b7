SPECIFICATION FairSpec
CONSTANTS
  m1 = m1  m2 = m2
  Memories = {m1, m2}
  Loggers = {"daemon","mcp"}
  MaxCalls = 2
  MaxRows = 2
  MaxFiles = 1
  MaxReplay = 1
  MaxEvents = 1
  Faults = {"busy", "delete", "break", "hide", "logcrash"}
  Runners = {"loop", "command"}
  NoRunner = NoRunner
  Full = 3
  Seed = 1
  MaxBump = 1
  Sourced = {m1}
  MaxIngests = 1
INVARIANT CountedOnce
INVARIANT NonePassedOver
INVARIANT SpooledOnce
CHECK_DEADLOCK FALSE
PROPERTY RowsArePassed
