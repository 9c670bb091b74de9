SPECIFICATION Spec
CONSTANTS
  ChunkSize = 2
  MaxDepth = 8
  Pow2 <- MCPow2
  ZeroHash <- MCZeroHash
  Schemas <- SparseOnly
  BitsPerByte = 2
  LimitRespected = TRUE
INVARIANT FirstFieldIndexStable
