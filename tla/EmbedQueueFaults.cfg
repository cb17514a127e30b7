SPECIFICATION Spec
CONSTANTS
  m1 = m1  m2 = m2  w1 = w1  w2 = w2
  Memories = {m1}
  Workers = {w1, w2}
  Writers = {"p1"}
  NoMemory = NoMemory
  NoWorker = NoWorker
  Texts = {"a", "b", "c"}
  Poison = {}
  Scripts <- AnyScript
  MaxVersion = 2
  MaxEvents = 2
  BatchSize = 1
  MaxRetries = 2
  Faults = {"slow", "crash", "writercrash", "delete", "handedit"}
INVARIANT TypeOK
PROPERTY ConsumedIsFresh
SYMMETRY WorkerSymmetry
CHECK_DEADLOCK FALSE
