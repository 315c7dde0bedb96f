CONSTANTS
  Flags <- TwoChunks
  ItemChunk = 2
  SpansPerTrace = 5
SPECIFICATION Spec
INVARIANT ItemsActive
