SPECIFICATION Spec
CONSTANTS
  t1 = t1
  t2 = t2
  t3 = t3
  h1 = h1
  h2 = h2
  h3 = h3
  h4 = h4
  h5 = h5
  Threads <- MCThreads
  Hashers <- MCHashers
  NoThread = NoThread
  NoHasher = NoHasher
  MaxPool = 1
  Runtimes = {"csharp"}
  MaxWrites = 1
  MaxCalls = 2
SYMMETRY Symmetry
INVARIANT PoolBound
CHECK_DEADLOCK FALSE
