CONSTANTS
  Count = 5
  BatchSize = 2
  MaxAttempts = 3
  LibraryAttempts = 2
  Brokers <- AllBrokers
SPECIFICATION FairSpec
INVARIANTS
  RecordedMeansStored
  CopiesBounded
  OneWriterOpen
PROPERTY ProduceReturns
