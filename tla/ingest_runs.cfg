\* Chunks of two items in place of 500, so that five series need three.
CONSTANTS
  Flags <- ManyLines
  ItemChunk = 2
  SpansPerTrace = 5
SPECIFICATION FairSpec
INVARIANTS
  ReportedIsQueryable
  FirstChunkStored
  RunsNotMixed
PROPERTY RunEnds
