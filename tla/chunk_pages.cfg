SPECIFICATION Spec
CONSTANTS
  ChunkSize = 7
  ChunkOverlap = 2
  Strategy = "smart"
  Files <- SomeFiles
INVARIANT PagesAreSources
CHECK_DEADLOCK FALSE
