SPECIFICATION CompilerSpec
CONSTANTS
  Sizes = 256
  Packages <- MCPackages
  Accessors <- MCAccessors
  Sources <- PackageSources
  MaxFrames = 4
  MaxRuns = 2
  WordBits = 10
  IntBits = 4
  ChunkBytes = 8
INVARIANTS TypeOK LayoutRight FailureLeaves PackageAgrees ActiveBitsRight UnhashedExplained OverflowIsCycle DepthsRight ReadRight ReadIsSource RecursionBounded
PROPERTIES RunEnds ReadingEnds ImplementsFlatc
CHECK_DEADLOCK FALSE
