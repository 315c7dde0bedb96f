CONSTANTS
  w1 = w1
  w2 = w2
  Workers <- TwoWorkers
  Count = 9
  BatchSize = 2
  PerWorker = 1
  Backends <- AllBackends
SPECIFICATION FairSpec
INVARIANTS
  TypeOK
  NothingLost
  OneTimePerBatch
PROPERTIES
  Implements
  InsertReturns
