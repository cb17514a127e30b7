SPECIFICATION FairSpec
CONSTANTS
  Refs = {"note", "copy", "log"}
  Sessions = {"log"}
  Bodies = {"a", "b", "c", "d"}
  Noise = {}
  Texts <- SharedTexts
  Slot <- PlainSlots
  MaxIds = 5
  Threads = {"reconcile"}
  Watched = {}
  Fleeting = {"log"}
  ValveFloor = 0
  MaxEvents = 2
  Faults = {"unmount", "forget"}
INVARIANT StoredOnce
INVARIANT SkippedIsStored
PROPERTY KeepsLive
CHECK_DEADLOCK FALSE
