SPECIFICATION Spec
CONSTANTS
  Sizes = 256
  WordBits = 10
  IntBits = 4
  ChunkBytes = 8
  Sources <- UniqueIds
  MaxFrames = 2
  MaxRuns = 1
INVARIANT EveryFieldHashed
CHECK_DEADLOCK FALSE
