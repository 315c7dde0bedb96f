CONSTANT Flags <- CrowdedLine
SPECIFICATION FairSpec
PROPERTY MemcachedSetReturns
CHECK_DEADLOCK FALSE
