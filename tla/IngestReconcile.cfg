SPECIFICATION FairSpec
CONSTANTS
  Refs = {"log", "note"}
  Sessions = {"log"}
  Bodies = {"a", "b", "c", "d", "boot"}
  Noise = {"boot"}
  Texts <- PlainTexts
  Slot <- PlainSlots
  MaxIds = 6
  Threads = {"reconcile", "live"}
  Watched = {"log"}
  Fleeting = {"note"}
  ValveFloor = 1
  MaxEvents = 1
  Faults = {"unmount", "forget", "crash", "fail"}
INVARIANT NeverStranded
INVARIANT SkippedIsStored
PROPERTY KeepsLive
PROPERTY HidesGone
CHECK_DEADLOCK FALSE
