SPECIFICATION FairSpec
CONSTANTS
  m1 = m1  m2 = m2  w1 = w1  w2 = w2
  Memories = {m1, m2}
  Workers = {w1}
  Writers = {"p1"}
  NoMemory = NoMemory
  NoWorker = NoWorker
  Texts = {"a", "b", "c"}
  Poison = {"b"}
  Scripts <- PoisonScript
  MaxVersion = 2
  MaxEvents = 1
  BatchSize = 1
  MaxRetries = 3
  Faults = {"crash"}
PROPERTY Converges
PROPERTY RequestsEnd
CHECK_DEADLOCK FALSE
