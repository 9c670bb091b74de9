SPECIFICATION Spec
CONSTANTS
  T <- MCShapeBeyond
  Values <- MCValues
  Statements <- BeyondCapacity
  MaxPending = 3
INVARIANT Coherent
