SPECIFICATION Spec
CONSTANTS
  ChunkSize = 7
  ChunkOverlap = 4
  Strategy = "smart"
  Files <- SomeFiles
INVARIANT TypeOK
INVARIANT SpansKept
INVARIANT SegmentsKept
INVARIANT SourcesNamed
INVARIANT OversizedIsOneSegment
INVARIANT CutsAreNeeded
CHECK_DEADLOCK FALSE
