SPECIFICATION DistillSpec
CONSTANTS
  Order <- MCOrder
  First <- MCFirst
  Since <- MCSince
  Found <- MCFound
  Refused = {"s1"}
  MinWords = 1
  MinNew = 2
  MinUnread = 1
  DefaultCap = 1
  Window = 1
  MaxAttempts = 2
  CoolDown = 1
  PerCycle = 1
  MaxWords = 3
  MaxCap = 2
  MaxTime = 1
  MaxRuns = 1
  MaxFaults = 1
INVARIANT OneSummary
INVARIANT CurrentIsCurrent
INVARIANT CallsAreCapped
PROPERTY EverySessionIsDistilled
CHECK_DEADLOCK FALSE
