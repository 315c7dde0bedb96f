\* sync-latency and bulk of loadgen-gitops on a cluster that an earlier run kept.
CONSTANTS
  MaxInstances = 3
  FirstStep = 2
  Flags <- Kept
SPECIFICATION Spec
INVARIANT SyncMeasures
