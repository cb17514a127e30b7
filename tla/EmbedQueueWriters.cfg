SPECIFICATION Spec
CONSTANTS
  m1 = m1  m2 = m2  w1 = w1  w2 = w2
  Memories = {m1}
  Workers = {w1, w2}
  Writers = {"p1", "p2"}
  NoMemory = NoMemory
  NoWorker = NoWorker
  Texts = {"a", "b", "c"}
  Poison = {}
  Scripts <- DistinctScript
  MaxVersion = 3
  MaxEvents = 2
  BatchSize = 1
  MaxRetries = 2
  Faults = {"crash", "handedit"}
INVARIANT OneWorkerPerRecord
INVARIANT CertifiedVectors
INVARIANT NothingForgotten
CHECK_DEADLOCK FALSE
