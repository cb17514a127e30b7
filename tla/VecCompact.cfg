SPECIFICATION Spec
CONSTANTS
  Memories = {1, 2}
  Texts = {"a", "b", "c"}
  Bodies <- MCBodies
  Nothing = Nothing
  NoTable = NoTable
  BatchSize = 1
  ChunkSlots = 2
  MinDead = 2
  MaxSlots = 4
  MaxEdits = 3
  MaxFaults = 1
PROPERTY CompactorKeepsRows
PROPERTY SwapKeepsVectors
PROPERTY TableIsCompacted
CHECK_DEADLOCK FALSE
