SPECIFICATION FairSpec
CONSTANTS
  d1 = d1  c1 = c1  c2 = c2
  Loops = {d1}
  Commands = {c1, c2}
  MaxEvents = 3
  Faults = {"fail", "crash", "cancel", "slow"}
PROPERTY TakeTurns
PROPERTY DueIsRun
CHECK_DEADLOCK FALSE
