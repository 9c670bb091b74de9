SPECIFICATION Spec
CONSTANTS
  Sizes = 1024
  Base = 8
  Nil = Nil
  Types <- StructArrays
  Values <- MCValues
  MaxSends = 1
INVARIANTS RoundTrip
CHECK_DEADLOCK FALSE
