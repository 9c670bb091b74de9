------------------------------- MODULE Chunks -------------------------------
(***************************************************************************)
(* Byte strings, chunks and the two-to-one compression function, as the    *)
(* SSZ runtimes use them.                                                  *)
(*                                                                         *)
(* A buffer is a sequence of cells, one cell per byte.  A cell is either a *)
(* byte of data, Byte(n), or one byte of a digest.  Digests are symbolic:  *)
(* the first cell of Digest(x, y) records both operands and the others are *)
(* blank, so two digests are equal exactly when their operands are.  A     *)
(* little-endian integer occupies as many cells as it has bytes; its value *)
(* is kept in the first one.                                               *)
(***************************************************************************)
EXTENDS Naturals, Sequences, Functions

CONSTANTS
  ChunkSize,    (* Bytes per chunk; 32 in the code.                         *)
  MaxDepth,     (* Last index of the table of zero hashes; 64 in the code.  *)
  Pow2,         (* Pow2[i] is 2^i, for i in 0..MaxDepth.                    *)
  ZeroHash      (* ZeroHash[i] is the root of an all-zero tree of depth i.  *)

Byte(n) == <<n>>
Zeros(n) == [k \in 1..n |-> Byte(0)]
ZeroChunk == Zeros(ChunkSize)

\* A number written little-endian into a chunk of its own.
NumberChunk(n) == [k \in 1..ChunkSize |-> IF k = 1 THEN Byte(n) ELSE Byte(0)]

\* A number of the given width, appended without padding.
NumberCells(n, width) == [k \in 1..width |-> IF k = 1 THEN Byte(n) ELSE Byte(0)]

Bytes(s) == [k \in 1..Len(s) |-> Byte(s[k])]

Digest(x, y) == [k \in 1..ChunkSize |-> IF k = 1 THEN <<x, y>> ELSE <<>>]

-----------------------------------------------------------------------------
ASSUME ChunkSizeAssumption == ChunkSize \in Nat \ {0}

ASSUME MaxDepthAssumption == MaxDepth \in Nat

ASSUME Pow2Assumption ==
  /\ Pow2 \in [0..MaxDepth -> Nat]
  /\ Pow2[0] = 1
  /\ \A i \in 1..MaxDepth : Pow2[i] = 2 * Pow2[i - 1]

\* compute_zero_hashes: each entry hashes the previous one with itself.
ZeroHashTable ==
  /\ DOMAIN ZeroHash = 0..MaxDepth
  /\ ZeroHash[0] = ZeroChunk
  /\ \A i \in 1..MaxDepth : ZeroHash[i] = Digest(ZeroHash[i - 1], ZeroHash[i - 1])

ASSUME ZeroHashAssumption == ZeroHashTable

-----------------------------------------------------------------------------
CeilDiv(n, d) == (n + d - 1) \div d

\* Faulty: rounds down to a power of two.
GetDepthRoundedDown(n) ==
  CHOOSE d \in 0..MaxDepth :
    /\ Pow2[d] <= n
    /\ \A e \in 0..MaxDepth : Pow2[e] <= n => e <= d

\* The smallest depth whose tree has at least n leaves.
GetDepth(n) ==
  CHOOSE d \in 0..MaxDepth :
    /\ n <= Pow2[d]
    /\ \A e \in 0..MaxDepth : n <= Pow2[e] => d <= e

\* A buffer extended with zero bytes to a multiple of the chunk size.
PadToChunk(s) ==
  IF Len(s) % ChunkSize = 0 THEN s ELSE s \o Zeros(ChunkSize - (Len(s) % ChunkSize))

\* The n-th chunk of a buffer, counting from 0.
ChunkAt(s, n) == SubSeq(s, n * ChunkSize + 1, (n + 1) * ChunkSize)

\* The cells of a buffer after its first n, and its first n (or fewer).
Above(s, n) == SubSeq(s, n + 1, Len(s))
Below(s, n) == SubSeq(s, 1, IF n <= Len(s) THEN n ELSE Len(s))
=============================================================================
