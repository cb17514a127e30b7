SPECIFICATION Spec
CONSTANTS
  Memories = {"m1", "m2", "m3"}
  None = None
  Shared = Shared
  Callers = {"s1", "s2"}
  Asks <- MCAsks
  FtsLists <- MCFts
  VecLists <- MCVec
  Traits <- MCTraits
  QuerySim <- MCQuerySim
  PairSim <- MCPairSim
  NBodies = 2
  Judge <- MCJudge
  JevScores <- MCJevScores
  RrfK = 60
  Unit <- MCUnit
  RecencyTenths = 2
  LambdaTenths = 7
  Limit = 2
  Overfetch = 2
  SemanticWorkers = 1
  PoolMax = 1
  PoolSize = 1
  MaxLull = 1
  Plans <- MCPlans
INVARIANT NothingLeaks
INVARIANT InterruptsOwnScan
INVARIANT ServedMatchesVault
INVARIANT ScoresFitBodies
PROPERTY SearchAnswers
PROPERTY IngestProceeds
CHECK_DEADLOCK FALSE
