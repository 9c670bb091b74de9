SPECIFICATION Spec
CONSTANTS
  T <- MCShape
  Values <- MCValues
  Statements <- InRange
  MaxPending = 3
INVARIANTS TypeOK CachesSound NoWriteLost FusedCommit
PROPERTY ImplementsUncached
