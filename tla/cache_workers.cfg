CONSTANT Flags <- SafeLines
SPECIFICATION FairSpec
INVARIANTS
  DistinctKeys
  SetWritesAllKeys
  OkMeansComplete
  MixedRatio
PROPERTY Completes
