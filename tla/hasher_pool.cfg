SPECIFICATION FairSpec
CONSTANTS
  t1 = t1
  t2 = t2
  t3 = t3
  h1 = h1
  h2 = h2
  h3 = h3
  h4 = h4
  h5 = h5
  Threads <- TwoThreads
  Hashers <- FourHashers
  NoThread = NoThread
  NoHasher = NoHasher
  MaxPool = 1
  Runtimes = {"rust", "nim", "csharp"}
  MaxWrites = 2
  MaxCalls = 2
INVARIANTS TypeOK Exclusive RootIsOwn LockedPoolBound HashersBounded
PROPERTY CallsReturn
CHECK_DEADLOCK FALSE
