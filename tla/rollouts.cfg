SPECIFICATION FairSpec
CONSTANTS
  MaxInstances = 6
  FirstStep = 2
  Flags <- AllTools
INVARIANTS
  ReadyMeansServing
  RecoveryMeasures
  CleanSlate
  NothingLeft
PROPERTY
  WaitsEnd
