---------------------------- MODULE HasherProofs ----------------------------
(***************************************************************************)
(* The merkleization engine keeps its stack of calls and its buffer in     *)
(* step, for every chunk size, every table depth and every schema.         *)
(*                                                                         *)
(* The inductive invariant IInv says, for each moment of a call, how many  *)
(* chunks lie above each index.  A call that writes elements with a chunk  *)
(* of their own has an aligned buffer; a call that merkleizes owns whole   *)
(* chunks, no more than the layers that remain can join; and a list counts *)
(* exactly the elements it has written, so that the limit of its elements  *)
(* is a limit of its chunks.                                               *)
(*                                                                         *)
(* First come facts about the operators of Hasher: chunk arithmetic, the   *)
(* length of what each operation leaves in the buffer, the depth of a      *)
(* tree, and the size of a parsed bit list.  Last, that hashing a layer in *)
(* place gives what hashing it into a scratch buffer gives.                *)
(***************************************************************************)
EXTENDS InPlace, Integers, SequenceTheorems, WellFoundedInduction, TLAPS

-----------------------------------------------------------------------------
(* Arithmetic.                                                             *)

LEMMA DivModFacts ==
  ASSUME NEW n \in Nat, NEW d \in Nat \ {0}
  PROVE  /\ n \div d \in Nat /\ n % d \in Nat /\ n % d < d
         /\ n = (n \div d) * d + (n % d)
OBVIOUS

\* A quotient is determined by its remainder's range.
LEMMA DivUnique ==
  ASSUME NEW d \in Nat \ {0}, NEW q \in Nat, NEW r \in Nat, r < d
  PROVE  (q * d + r) \div d = q /\ (q * d + r) % d = r
<1> DEFINE n == q * d + r
<1> DEFINE p == n \div d
<1> DEFINE m == n % d
<1>1. p \in Nat /\ m \in Nat /\ m < d /\ n = p * d + m /\ n \in Nat
  BY DivModFacts
<1> HIDE DEF p, m
<1>2. CASE p < q
  <2>1. (q - p) * d >= d
    BY <1>1, <1>2
  <2> QED BY <2>1, <1>1
<1>3. CASE p > q
  <2>1. (p - q) * d >= d
    BY <1>1, <1>3
  <2> QED BY <2>1, <1>1
<1>4. p = q
  BY <1>1, <1>2, <1>3
<1>5. m = r
  BY <1>1, <1>4
<1> QED
  BY <1>4, <1>5 DEF p, m

LEMMA Multiple ==
  ASSUME NEW d \in Nat \ {0}, NEW n \in Nat
  PROVE  /\ n % d = 0 => n = (n \div d) * d
         /\ \A q \in Nat : n = q * d => n % d = 0 /\ n \div d = q
<1>1. n % d = 0 => n = (n \div d) * d
  BY DivModFacts
<1>2. ASSUME NEW q \in Nat, n = q * d PROVE n % d = 0 /\ n \div d = q
  <2>1. n = q * d + 0
    BY <1>2
  <2> QED BY <2>1, DivUnique
<1> QED
  BY <1>1, <1>2

LEMMA DivMonotone ==
  ASSUME NEW d \in Nat \ {0}, NEW m \in Nat, NEW n \in Nat, m <= n
  PROVE  m \div d <= n \div d
<1>1. PICK p \in Nat, r \in Nat : p = m \div d /\ r < d /\ m = p * d + r
  BY DivModFacts
<1>2. PICK q \in Nat, t \in Nat : q = n \div d /\ t < d /\ n = q * d + t
  BY DivModFacts
<1>3. CASE p > q
  <2>1. (p - q) * d >= d
    BY <1>3
  <2> QED BY <1>1, <1>2, <2>1
<1> QED
  BY <1>1, <1>2, <1>3

LEMMA SumOfMultiples ==
  ASSUME NEW d \in Nat \ {0}, NEW m \in Nat, NEW n \in Nat, m % d = 0, n % d = 0
  PROVE  (m + n) % d = 0 /\ (m + n) \div d = (m \div d) + (n \div d)
<1> DEFINE p == m \div d
<1> DEFINE q == n \div d
<1>1. p \in Nat /\ q \in Nat /\ m = p * d /\ n = q * d
  BY Multiple, DivModFacts
<1> HIDE DEF p, q
<1>2. m + n = (p + q) * d
  BY <1>1
<1>3. p + q \in Nat /\ m + n \in Nat
  BY <1>1
<1> QED
  BY <1>2, <1>3, Multiple DEF p, q

LEMMA DifferenceOfMultiples ==
  ASSUME NEW d \in Nat \ {0}, NEW m \in Nat, NEW n \in Nat, m % d = 0, n % d = 0, n <= m
  PROVE  (m - n) % d = 0 /\ (m - n) \div d = (m \div d) - (n \div d)
<1> DEFINE p == m \div d
<1> DEFINE q == n \div d
<1>1. p \in Nat /\ q \in Nat /\ m = p * d /\ n = q * d
  BY Multiple, DivModFacts
<1> HIDE DEF p, q
<1>2. m - n = (p - q) * d /\ m - n \in Nat
  BY <1>1
<1>3. p - q \in Nat
  <2>1. CASE p < q
    <3>1. (q - p) * d >= d BY <1>1, <2>1
    <3> QED BY <3>1, <1>1, <1>2
  <2> QED BY <2>1, <1>1
<1> QED
  BY <1>2, <1>3, Multiple DEF p, q

\* CeilDiv rounds up.
LEMMA CeilDivFacts ==
  ASSUME NEW n \in Nat, NEW d \in Nat \ {0}
  PROVE  /\ CeilDiv(n, d) \in Nat
         /\ n <= CeilDiv(n, d) * d /\ CeilDiv(n, d) * d < n + d
         /\ \A m \in Nat : n <= m * d => CeilDiv(n, d) <= m
         /\ n % d = 0 => CeilDiv(n, d) = n \div d
         /\ CeilDiv(n, d) <= n
<1> DEFINE q == (n + d - 1) \div d
<1> DEFINE r == (n + d - 1) % d
<1>1. q \in Nat /\ r \in Nat /\ r < d /\ n + d - 1 = q * d + r
  <2>1. n + d - 1 \in Nat OBVIOUS
  <2> QED BY <2>1, DivModFacts
<1> HIDE DEF q, r
<1>2. n <= q * d /\ q * d < n + d
  BY <1>1
<1>3. ASSUME NEW m \in Nat, n <= m * d PROVE q <= m
  <2>1. CASE q > m
    <3>1. (q - m) * d >= d BY <1>1, <2>1
    <3> QED BY <3>1, <1>2, <1>3, <1>1
  <2> QED BY <2>1, <1>1
<1>4. ASSUME n % d = 0 PROVE q = n \div d
  <2> DEFINE p == n \div d
  <2>1. p \in Nat /\ n = p * d BY <1>4, DivModFacts
  <2> HIDE DEF p
  <2>2. n + d - 1 = p * d + (d - 1) /\ d - 1 \in Nat /\ d - 1 < d BY <2>1
  <2>3. (p * d + (d - 1)) \div d = p BY <2>1, <2>2, DivUnique
  <2> QED BY <2>2, <2>3 DEF p, q
<1>5. q <= n
  <2>1. n <= n * d OBVIOUS
  <2> QED BY <2>1, <1>3
<1>6. CeilDiv(n, d) = q
  BY DEF CeilDiv, q
<1> QED
  BY <1>1, <1>2, <1>3, <1>4, <1>5, <1>6

-----------------------------------------------------------------------------
(* Buffers.                                                                *)

LEMMA SeqIsBuffer ==
  ASSUME NEW S, NEW s \in Seq(S)
  PROVE  IsBuffer(s) /\ Len(s) \in Nat
BY DEF IsBuffer, Range

LEMMA FunctionIsBuffer ==
  ASSUME NEW n \in Nat, NEW f, f = [k \in 1..n |-> f[k]]
  PROVE  IsBuffer(f) /\ Len(f) = n
<1>1. f \in [1..n -> {f[k] : k \in 1..n}]
  OBVIOUS
<1>2. f \in Seq({f[k] : k \in 1..n}) /\ Len(f) = n
  BY <1>1, SeqDef
<1> QED
  BY <1>2, SeqIsBuffer

LEMMA ConcatIsBuffer ==
  ASSUME NEW s, NEW t, IsBuffer(s), IsBuffer(t)
  PROVE  IsBuffer(s \o t) /\ Len(s \o t) = Len(s) + Len(t)
<1> DEFINE S == Range(s) \union Range(t)
<1>1. s \in Seq(S) /\ t \in Seq(S)
  BY DEF IsBuffer, Range
<1> HIDE DEF S
<1>2. s \o t \in Seq(S) /\ Len(s \o t) = Len(s) + Len(t)
  BY <1>1
<1> QED
  BY <1>2, SeqIsBuffer

\* What lies above an index, and what lies below it.
LEMMA AboveBelow ==
  ASSUME NEW s, IsBuffer(s), NEW n \in Nat
  PROVE  /\ n <= Len(s) => IsBuffer(Above(s, n)) /\ Len(Above(s, n)) = Len(s) - n
         /\ IsBuffer(Below(s, n))
         /\ Len(Below(s, n)) = IF n <= Len(s) THEN n ELSE Len(s)
<1>1. s \in Seq(Range(s)) /\ Len(s) \in Nat
  BY SeqIsBuffer DEF IsBuffer
<1>2. ASSUME n <= Len(s)
      PROVE  IsBuffer(Above(s, n)) /\ Len(Above(s, n)) = Len(s) - n
  <2>1. /\ SubSeq(s, n + 1, Len(s)) \in Seq(Range(s))
        /\ Len(SubSeq(s, n + 1, Len(s))) = Len(s) - n
    <3>1. \A i \in (n + 1)..Len(s) : s[i] \in Range(s)
      BY <1>1
    <3>2. n + 1 \in Int /\ Len(s) \in Int
      BY <1>1
    <3> QED BY <1>1, <1>2, <3>1, <3>2, SubSeqProperties
  <2> QED BY <2>1, SeqIsBuffer DEF Above
<1>3. ASSUME NEW m \in 0..Len(s)
      PROVE  IsBuffer(SubSeq(s, 1, m)) /\ Len(SubSeq(s, 1, m)) = m
  <2>1. SubSeq(s, 1, m) \in Seq(Range(s)) /\ Len(SubSeq(s, 1, m)) = m
    <3>1. \A i \in 1..m : s[i] \in Range(s)
      BY <1>1
    <3> QED BY <1>1, <3>1, SubSeqProperties
  <2> QED BY <2>1, SeqIsBuffer
<1>4. IsBuffer(Below(s, n)) /\ Len(Below(s, n)) = IF n <= Len(s) THEN n ELSE Len(s)
  BY <1>1, <1>3 DEF Below
<1> QED
  BY <1>2, <1>4

LEMMA ZerosIsBuffer ==
  ASSUME NEW n \in Nat
  PROVE  IsBuffer(Zeros(n)) /\ Len(Zeros(n)) = n
BY FunctionIsBuffer DEF Zeros

LEMMA CellsAreBuffers ==
  /\ \A n : IsBuffer(NumberChunk(n)) /\ Len(NumberChunk(n)) = ChunkSize
  /\ \A n, w \in Nat : IsBuffer(NumberCells(n, w)) /\ Len(NumberCells(n, w)) = w
  /\ \A x, y : IsBuffer(Digest(x, y)) /\ Len(Digest(x, y)) = ChunkSize
<1>1. ASSUME NEW n PROVE IsBuffer(NumberChunk(n)) /\ Len(NumberChunk(n)) = ChunkSize
  BY FunctionIsBuffer, ChunkSizeAssumption DEF NumberChunk
<1>2. ASSUME NEW n \in Nat, NEW w \in Nat
      PROVE  IsBuffer(NumberCells(n, w)) /\ Len(NumberCells(n, w)) = w
  BY FunctionIsBuffer DEF NumberCells
<1>3. ASSUME NEW x, NEW y PROVE IsBuffer(Digest(x, y)) /\ Len(Digest(x, y)) = ChunkSize
  BY FunctionIsBuffer, ChunkSizeAssumption DEF Digest
<1> QED
  BY <1>1, <1>2, <1>3

LEMMA BytesIsBuffer ==
  ASSUME NEW s, IsBuffer(s)
  PROVE  IsBuffer(Bytes(s)) /\ Len(Bytes(s)) = Len(s)
BY FunctionIsBuffer, SeqIsBuffer DEF Bytes, IsBuffer

\* Every zero hash is one chunk.
LEMMA ZeroHashIsChunk ==
  ASSUME NEW i \in 0..MaxDepth
  PROVE  IsBuffer(ZeroHash[i]) /\ Len(ZeroHash[i]) = ChunkSize
<1>1. CASE i = 0
  BY <1>1, ZeroHashAssumption, ChunkSizeAssumption, ZerosIsBuffer DEF ZeroHashTable, ZeroChunk
<1>2. CASE i \in 1..MaxDepth
  BY <1>2, ZeroHashAssumption, CellsAreBuffers DEF ZeroHashTable
<1> QED
  BY <1>1, <1>2, MaxDepthAssumption

\* Padding completes the last chunk and nothing else.
LEMMA PadToChunkFacts ==
  ASSUME NEW s, IsBuffer(s)
  PROVE  /\ IsBuffer(PadToChunk(s))
         /\ Len(PadToChunk(s)) = Count(s) * ChunkSize
         /\ Len(PadToChunk(s)) % ChunkSize = 0
         /\ Len(s) % ChunkSize = 0 => PadToChunk(s) = s
<1>1. Len(s) \in Nat /\ ChunkSize \in Nat \ {0}
  BY SeqIsBuffer, ChunkSizeAssumption DEF IsBuffer
<1>2. PICK q \in Nat, r \in Nat :
        /\ q = Len(s) \div ChunkSize /\ r = Len(s) % ChunkSize
        /\ r < ChunkSize /\ Len(s) = q * ChunkSize + r
  BY <1>1, DivModFacts
<1>3. CASE r = 0
  <2>1. PadToChunk(s) = s /\ Count(s) = q
    BY <1>1, <1>2, <1>3, CeilDivFacts DEF PadToChunk, Count
  <2>2. Len(s) = q * ChunkSize
    BY <1>1, <1>2, <1>3
  <2> QED BY <1>2, <1>3, <2>1, <2>2
<1>4. CASE r # 0
  <2>1. PadToChunk(s) = s \o Zeros(ChunkSize - r)
    BY <1>2, <1>4 DEF PadToChunk
  <2>2. ChunkSize - r \in Nat
    BY <1>1, <1>2
  <2>3. IsBuffer(PadToChunk(s)) /\ Len(PadToChunk(s)) = Len(s) + (ChunkSize - r)
    BY <2>1, <2>2, ZerosIsBuffer, ConcatIsBuffer
  <2>4. q + 1 \in Nat /\ Len(PadToChunk(s)) = (q + 1) * ChunkSize
    BY <1>1, <1>2, <2>3
  <2>5. (q + 1) * ChunkSize \in Nat
    BY <1>1, <2>4
  <2>6. Len(PadToChunk(s)) % ChunkSize = 0
    BY <1>1, <2>4, <2>5, Multiple
  <2>7. Count(s) = q + 1
    <3>1. Count(s) \in Nat /\ Len(s) <= Count(s) * ChunkSize
          /\ (Len(s) <= (q + 1) * ChunkSize => Count(s) <= q + 1)
      BY <1>1, <2>4, CeilDivFacts DEF Count
    <3>2. Len(s) <= (q + 1) * ChunkSize /\ Len(s) > q * ChunkSize
      BY <1>1, <1>2, <1>4
    <3>3. CASE Count(s) <= q
      <4>1. Count(s) * ChunkSize <= q * ChunkSize
        BY <3>1, <3>3, <1>1, <1>2
      <4>2. Count(s) * ChunkSize \in Nat /\ q * ChunkSize \in Nat
        BY <3>1, <1>1, <1>2
      <4> QED BY <4>1, <4>2, <3>1, <3>2, <1>1
    <3> QED BY <3>1, <3>2, <3>3, <1>2
  <2> QED BY <1>2, <1>4, <2>3, <2>4, <2>6, <2>7
<1> QED
  BY <1>2, <1>3, <1>4

-----------------------------------------------------------------------------
(* The depth of a tree.                                                    *)

\* Every non-empty set of naturals has a least element.
LEMMA LeastNat ==
  ASSUME NEW T \in SUBSET Nat, T # {}
  PROVE  \E x \in T : \A y \in T : x <= y
<1>1. PICK x \in T : \A y \in T : ~ (<<y, x>> \in OpToRel(<, Nat))
  BY WFMin, NatLessThanWellFounded
<1>2. \A y \in T : <<y, x>> \in OpToRel(<, Nat) <=> y < x
  BY DEF OpToRel
<1>3. \A y \in T : ~ (y < x)
  BY <1>1, <1>2, Zenon
<1> QED
  BY <1>3

LEMMA Pow2Facts ==
  /\ \A i \in 0..MaxDepth : Pow2[i] \in Nat
  /\ Pow2[0] = 1
  /\ \A i \in 1..MaxDepth : i - 1 \in 0..MaxDepth /\ Pow2[i] = 2 * Pow2[i - 1]
BY Pow2Assumption, MaxDepthAssumption

\* GetDepth finds a tree that is large enough.
LEMMA GetDepthFacts ==
  ASSUME NEW n \in Nat, n <= Pow2[MaxDepth]
  PROVE  GetDepth(n) \in 0..MaxDepth /\ n <= Pow2[GetDepth(n)]
<1> DEFINE T == {e \in 0..MaxDepth : n <= Pow2[e]}
<1>1. T \in SUBSET Nat /\ MaxDepth \in T
  BY MaxDepthAssumption
<1>2. PICK d \in T : \A e \in T : d <= e
  <2> HIDE DEF T
  <2> QED BY <1>1, LeastNat
<1>3. \E e \in 0..MaxDepth :
        /\ n <= Pow2[e]
        /\ \A f \in 0..MaxDepth : n <= Pow2[f] => e <= f
  BY <1>2
<1> QED
  BY <1>3 DEF GetDepth

-----------------------------------------------------------------------------
(* Merkleizing.  A tree of some depth is hashed from a whole number of     *)
(* chunks, at least one, and each layer halves it, rounding up.            *)

\* What the code before the loop leaves, for a limit that the table of zero
\* hashes can serve.
LEMMA PrologueFacts ==
  ASSUME NEW s, IsBuffer(s), NEW limit \in Nat,
         limit <= Pow2[MaxDepth], Count(s) <= Pow2[MaxDepth]
  PROVE  /\ IsBuffer(Prologue(s, limit))
         /\ LayerCount(s, limit) \in 0..MaxDepth
         /\ \E q \in Nat :
              /\ q >= 1 /\ (q = 1 \/ q <= Count(s))
              /\ Len(Prologue(s, limit)) = q * ChunkSize
              /\ (limit = 0 \/ Count(s) <= limit) => q <= Pow2[LayerCount(s, limit)]
<1> DEFINE e == Effective(s, limit)
<1>1. Len(s) \in Nat /\ ChunkSize \in Nat \ {0} /\ Count(s) \in Nat /\ MaxDepth \in Nat
  BY SeqIsBuffer, ChunkSizeAssumption, CeilDivFacts, MaxDepthAssumption DEF IsBuffer, Count
<1>2. e \in Nat /\ e <= Pow2[MaxDepth]
  BY <1>1 DEF Effective
<1>3. 0 \in 0..MaxDepth /\ Pow2[0] = 1
  BY <1>1, Pow2Facts
<1>4. ASSUME NEW t, IsBuffer(t), Len(t) = ChunkSize, Prologue(s, limit) = t,
             LayerCount(s, limit) = 0
      PROVE  /\ IsBuffer(Prologue(s, limit))
             /\ LayerCount(s, limit) \in 0..MaxDepth
             /\ \E q \in Nat :
                  /\ q >= 1 /\ (q = 1 \/ q <= Count(s))
                  /\ Len(Prologue(s, limit)) = q * ChunkSize
                  /\ (limit = 0 \/ Count(s) <= limit) => q <= Pow2[LayerCount(s, limit)]
  <2>1. 1 \in Nat /\ 1 >= 1 /\ ChunkSize = 1 * ChunkSize /\ 1 <= Pow2[0]
    BY <1>1, <1>3
  <2> QED BY <1>3, <1>4, <2>1
<1>5. CASE e = 0
  <2>1. Prologue(s, limit) = ZeroHash[0] /\ LayerCount(s, limit) = 0
    BY <1>5 DEF Prologue, LayerCount
  <2> QED BY <1>3, <1>4, <2>1, ZeroHashIsChunk
<1>6. CASE e = 1
  <2>1. LayerCount(s, limit) = 0
    BY <1>6 DEF LayerCount
  <2>2. CASE Len(s) >= ChunkSize
    <3>1. Prologue(s, limit) = Below(s, ChunkSize)
      BY <1>6, <2>2 DEF Prologue
    <3>2. IsBuffer(Below(s, ChunkSize)) /\ Len(Below(s, ChunkSize)) = ChunkSize
      BY <1>1, <2>2, AboveBelow
    <3> QED BY <1>4, <2>1, <3>1, <3>2
  <2>3. CASE ~ (Len(s) >= ChunkSize)
    <3>1. Prologue(s, limit) = ZeroHash[0]
      BY <1>6, <2>3 DEF Prologue
    <3> QED BY <1>3, <1>4, <2>1, <3>1, ZeroHashIsChunk
  <2> QED BY <2>2, <2>3
<1>7. CASE e > 1 /\ Len(s) = 0
  <2>1. LayerCount(s, limit) = 0 /\ Prologue(s, limit) = ZeroHash[GetDepth(limit)]
    BY <1>7, <1>2 DEF Prologue, LayerCount
  <2>2. GetDepth(limit) \in 0..MaxDepth
    BY GetDepthFacts
  <2> QED BY <1>4, <2>1, <2>2, ZeroHashIsChunk
<1>8. CASE e > 1 /\ Len(s) # 0
  <2>1. Prologue(s, limit) = PadToChunk(s) /\ LayerCount(s, limit) = GetDepth(e)
    BY <1>8, <1>2 DEF Prologue, LayerCount
  <2>2. GetDepth(e) \in 0..MaxDepth /\ e <= Pow2[GetDepth(e)]
    <3> HIDE DEF e
    <3> QED BY <1>2, GetDepthFacts
  <2>3. IsBuffer(PadToChunk(s)) /\ Len(PadToChunk(s)) = Count(s) * ChunkSize
    BY PadToChunkFacts
  <2>4. Count(s) >= 1
    <3>1. Len(s) <= Count(s) * ChunkSize
      BY <1>1, CeilDivFacts DEF Count
    <3>2. Count(s) # 0
      BY <1>1, <1>8, <3>1
    <3> QED BY <1>1, <3>2
  <2>5. limit = 0 \/ Count(s) <= limit => Count(s) <= e
    BY <1>1 DEF Effective
  <2>6. Pow2[GetDepth(e)] \in Nat
    BY <2>2, Pow2Facts
  <2>7. limit = 0 \/ Count(s) <= limit => Count(s) <= Pow2[GetDepth(e)]
    <3> HIDE DEF e
    <3> QED BY <1>1, <1>2, <2>2, <2>5, <2>6
  <2>8. Count(s) \in Nat /\ Count(s) <= Count(s)
    BY <1>1
  <2> QED BY <2>1, <2>2, <2>3, <2>4, <2>7, <2>8
<1> QED
  <2> HIDE DEF e
  <2>1. e = 0 \/ e = 1 \/ e > 1
    BY <1>2
  <2> QED BY <1>5, <1>6, <1>7, <1>8, <2>1

\* One iteration of the loop.
LEMMA HashLayerFacts ==
  ASSUME NEW s, IsBuffer(s), NEW layer \in 0..MaxDepth,
         NEW q \in Nat, q >= 1, Len(s) = q * ChunkSize
  PROVE  /\ IsBuffer(HashLayer(s, layer))
         /\ \E p \in Nat : /\ p >= 1 /\ p <= q /\ 2 * p <= q + 1
                           /\ Len(HashLayer(s, layer)) = p * ChunkSize
<1> DEFINE t == EvenLayer(s, layer)
<1>1. ChunkSize \in Nat \ {0} /\ Len(s) \in Nat
  BY SeqIsBuffer, ChunkSizeAssumption DEF IsBuffer
<1>2. Len(s) \div ChunkSize = q
  BY <1>1, Multiple
<1>3. PICK p \in Nat : /\ p >= 1 /\ p <= q /\ 2 * p <= q + 1
                       /\ IsBuffer(t) /\ Len(t) = (2 * p) * ChunkSize
  <2>1. PICK h \in Nat, r \in Nat : r = q % 2 /\ r < 2 /\ q = h * 2 + r
    <3>1. 2 \in Nat \ {0}
      OBVIOUS
    <3>2. q \div 2 \in Nat /\ q % 2 \in Nat /\ q % 2 < 2 /\ q = (q \div 2) * 2 + (q % 2)
      BY <3>1, DivModFacts
    <3> QED BY <3>2
  <2>2. CASE r = 1
    <3>1. t = s \o ZeroHash[layer]
      BY <1>2, <2>1, <2>2 DEF EvenLayer
    <3>2. IsBuffer(t) /\ Len(t) = Len(s) + ChunkSize
      BY <3>1, ZeroHashIsChunk, ConcatIsBuffer
    <3> HIDE DEF t
    <3>3. Len(t) = (2 * (h + 1)) * ChunkSize
      <4>1. Len(t) = (q + 1) * ChunkSize
        BY <1>1, <3>2
      <4>2. q + 1 = 2 * (h + 1)
        BY <2>1, <2>2
      <4> QED BY <4>1, <4>2
    <3>4. h + 1 \in Nat /\ h + 1 >= 1 /\ h + 1 <= q /\ 2 * (h + 1) <= q + 1
      BY <2>1, <2>2
    <3> QED BY <3>2, <3>3, <3>4
  <2>3. CASE r = 0
    <3>1. t = s
      BY <1>2, <2>1, <2>3 DEF EvenLayer
    <3>2. h >= 1 /\ h <= q /\ 2 * h <= q + 1 /\ q = 2 * h
      BY <2>1, <2>3
    <3> QED BY <3>1, <3>2
  <2> QED BY <2>1, <2>2, <2>3
<1>4. Len(t) \div (2 * ChunkSize) = p
  <2> HIDE DEF t
  <2>1. Len(t) = p * (2 * ChunkSize) /\ 2 * ChunkSize \in Nat \ {0} /\ Len(t) \in Nat
    BY <1>1, <1>3
  <2> QED BY <2>1, Multiple
<1>5. IsBuffer(HashPairs(t)) /\ Len(HashPairs(t)) = p * ChunkSize
  <2> HIDE DEF t
  <2>1. p * ChunkSize \in Nat
    BY <1>1
  <2> DEFINE f == HashPairs(t)
  <2>2. f = [k \in 1..(p * ChunkSize) |-> f[k]]
    BY <1>4 DEF HashPairs
  <2> HIDE DEF f
  <2>3. IsBuffer(f) /\ Len(f) = p * ChunkSize
    BY <2>1, <2>2, FunctionIsBuffer
  <2> QED BY <2>3 DEF f
<1> QED
  BY <1>3, <1>5 DEF HashLayer

LEMMA MixInFacts ==
  ASSUME NEW b, IsBuffer(b), NEW idx, NEW num
  PROVE  IsBuffer(MixIn(b, idx, num)) /\ Len(MixIn(b, idx, num)) = Len(b)
<1> DEFINE f == MixIn(b, idx, num)
<1>1. f = [k \in 1..Len(b) |-> f[k]] /\ Len(b) \in Nat
  BY SeqIsBuffer DEF MixIn, IsBuffer
<1> HIDE DEF f
<1>2. IsBuffer(f) /\ Len(f) = Len(b)
  BY <1>1, FunctionIsBuffer
<1> QED
  BY <1>2 DEF f

\* The progressive tree of filled chunks is one chunk, whatever its shape.
LEMMA ProgressiveFacts ==
  ASSUME NEW s, IsBuffer(s), Len(s) % ChunkSize = 0
  PROVE  IsBuffer(MerkleizeProgressive(s)) /\ Len(MerkleizeProgressive(s)) = ChunkSize
<1>1. Len(s) \in Nat /\ ChunkSize \in Nat \ {0} /\ Count(s) \in Nat /\ MaxDepth \in Nat
  BY SeqIsBuffer, ChunkSizeAssumption, CeilDivFacts, MaxDepthAssumption DEF IsBuffer, Count
<1>2. CASE Count(s) = 0
  <2>1. MerkleizeProgressive(s) = ZeroHash[0]
    BY <1>2 DEF MerkleizeProgressive
  <2> QED BY <1>1, <2>1, ZeroHashIsChunk
<1>3. CASE Count(s) = 1
  <2>1. MerkleizeProgressive(s) = Below(s, ChunkSize)
    BY <1>3 DEF MerkleizeProgressive
  <2>2. Len(s) = ChunkSize
    <3>1. Len(s) \div ChunkSize = 1
      BY <1>1, <1>3, CeilDivFacts DEF Count
    <3>2. Len(s) = (Len(s) \div ChunkSize) * ChunkSize
      BY <1>1, Multiple
    <3>3. Len(s) = 1 * ChunkSize
      BY <3>1, <3>2
    <3> QED BY <1>1, <3>3
  <2> QED BY <1>1, <2>1, <2>2, AboveBelow
<1>4. CASE Count(s) > 1
  <2>1. \E x, y : MerkleizeProgressive(s) = Digest(x, y)
    BY <1>1, <1>4 DEF MerkleizeProgressive
  <2> QED BY <2>1, CellsAreBuffers
<1> QED
  BY <1>1, <1>2, <1>3, <1>4

-----------------------------------------------------------------------------
(* Bit lists.                                                              *)

LEMMA MsbFacts ==
  ASSUME NEW n \in Nat, n > 0, n < Pow2[BitsPerByte]
  PROVE  Msb(n) \in 0..(BitsPerByte - 1) /\ Pow2[Msb(n)] <= n /\ n < 2 * Pow2[Msb(n)]
<1> DEFINE T == {e \in 0..BitsPerByte : n < Pow2[e]}
<1>1. BitsPerByte \in Nat \ {0} /\ BitsPerByte <= MaxDepth /\ MaxDepth \in Nat
  BY CallAssumption, MaxDepthAssumption
<1>2. T \in SUBSET Nat /\ BitsPerByte \in T
  BY <1>1
<1>3. PICK d \in T : \A e \in T : d <= e
  <2> HIDE DEF T
  <2> QED BY <1>2, LeastNat
<1>4. d \in 1..BitsPerByte
  BY <1>1, <1>3, Pow2Facts
<1>5. d - 1 \in 0..(BitsPerByte - 1) /\ Pow2[d - 1] \in Nat /\ Pow2[d] = 2 * Pow2[d - 1]
  BY <1>1, <1>4, Pow2Facts
<1>6. ~ (n < Pow2[d - 1])
  <2>1. d - 1 \in 0..BitsPerByte /\ ~ (d <= d - 1)
    BY <1>1, <1>4
  <2> QED BY <1>3, <2>1
<1>7. Pow2[d - 1] <= n /\ n < 2 * Pow2[d - 1]
  BY <1>3, <1>5, <1>6
<1> QED
  BY <1>5, <1>7 DEF Msb

\* What is dropped is zero, and what is kept does not end in zero.
LEMMA TrimZerosFacts ==
  ASSUME NEW bs \in Seq(Nat)
  PROVE  /\ TrimZeros(bs) \in Seq(Nat)
         /\ Len(TrimZeros(bs)) <= Len(bs)
         /\ Len(bs) > 0 /\ bs[Len(bs)] = 0 => Len(TrimZeros(bs)) < Len(bs)
<1> DEFINE T == {n \in 0..Len(bs) : \A k \in (n + 1)..Len(bs) : bs[k] = 0}
<1> DEFINE P(n) == /\ n > 0 => bs[n] # 0
                   /\ \A k \in (n + 1)..Len(bs) : bs[k] = 0
<1> DEFINE m == CHOOSE n \in 0..Len(bs) : P(n)
<1>1. Len(bs) \in Nat
  OBVIOUS
<1>2. T \in SUBSET Nat /\ Len(bs) \in T
  BY <1>1
<1>3. PICK n \in T : \A y \in T : n <= y
  <2> HIDE DEF T
  <2> QED BY <1>2, LeastNat
<1>4. n > 0 => bs[n] # 0
  <2> SUFFICES ASSUME n > 0, bs[n] = 0 PROVE FALSE
    OBVIOUS
  <2>1. n - 1 \in 0..Len(bs) /\ \A k \in n..Len(bs) : bs[k] = 0
    <3>1. n \in 0..Len(bs) /\ \A k \in (n + 1)..Len(bs) : bs[k] = 0
      BY <1>3
    <3> QED BY <1>1, <3>1
  <2>2. n - 1 \in T
    BY <1>1, <1>3, <2>1
  <2>3. n <= n - 1 /\ n \in Nat
    <3>1. n \in Nat
      BY <1>1, <1>3
    <3> HIDE DEF T
    <3> QED BY <1>3, <2>2, <3>1
  <2> QED BY <2>3
<1>5. \E x \in 0..Len(bs) : P(x)
  BY <1>3, <1>4
<1>6. m \in 0..Len(bs) /\ P(m)
  <2> HIDE DEF P
  <2> QED BY <1>5
<1>7. TrimZeros(bs) = SubSeq(bs, 1, m)
  BY DEF TrimZeros
<1> HIDE DEF m, P
<1>8. SubSeq(bs, 1, m) \in Seq(Nat) /\ Len(SubSeq(bs, 1, m)) = m
  <2>1. \A i \in 1..m : bs[i] \in Nat
    BY <1>1, <1>6
  <2>2. m \in Nat
    BY <1>1, <1>6
  <2> QED BY <2>1, <2>2, SubSeqProperties
<1>9. m <= Len(bs) /\ (Len(bs) > 0 /\ bs[Len(bs)] = 0 => m < Len(bs))
  <2>1. m > 0 => bs[m] # 0
    BY <1>6 DEF P
  <2>2. m \in 0..Len(bs)
    BY <1>6
  <2> QED BY <1>1, <2>1, <2>2
<1> QED
  BY <1>6, <1>7, <1>8, <1>9

\* The bytes that are kept hold no more than the bits of the list: the byte
\* of the sentinel is kept only when a bit of the list is in it.
LEMMA ParseBitlistFacts ==
  ASSUME NEW s \in Schemas, NEW bs \in s.strings
  PROVE  /\ bs \in Seq(Nat)
         /\ ParseBitlist(bs).bits \in Seq(Nat)
         /\ ParseBitlist(bs).size \in Nat
         /\ Len(ParseBitlist(bs).bits) <= Len(bs)
         /\ Len(ParseBitlist(bs).bits) * BitsPerByte
              <= ParseBitlist(bs).size + (BitsPerByte - 1)
<1>1. bs \in Seq(Nat) /\ Len(bs) \in Nat
  <2>1. s.strings \in SUBSET Seq(Nat)
    BY CallAssumption DEF Schema
  <2> QED BY <2>1
<1>2. BitsPerByte \in Nat \ {0} /\ BitsPerByte <= MaxDepth /\ MaxDepth \in Nat
  BY CallAssumption, MaxDepthAssumption
<1>3. CASE bs = <<>> \/ bs[Len(bs)] = 0
  <2>1. ParseBitlist(bs) = [bits |-> <<>>, size |-> 0]
    BY <1>3 DEF ParseBitlist
  <2>2. ParseBitlist(bs).bits = <<>> /\ ParseBitlist(bs).size = 0
    BY <2>1
  <2> QED BY <1>1, <1>2, <2>2
<1>4. CASE ~ (bs = <<>> \/ bs[Len(bs)] = 0)
  <2> DEFINE last == bs[Len(bs)]
  <2> DEFINE msb == Msb(last)
  <2> DEFINE cleared == [bs EXCEPT ![Len(bs)] = @ - Pow2[msb]]
  <2>1. Len(bs) > 0 /\ last \in Nat /\ last > 0
    BY <1>1, <1>4
  <2>2. last < Pow2[BitsPerByte]
    BY <1>1, <2>1, CallAssumption
  <2>3. msb \in 0..(BitsPerByte - 1) /\ Pow2[msb] <= last /\ last < 2 * Pow2[msb]
    BY <2>1, <2>2, MsbFacts
  <2>4. Pow2[msb] \in Nat /\ (msb = 0 => Pow2[msb] = 1)
    BY <1>2, <2>3, Pow2Facts
  <2>5. ParseBitlist(bs) = [bits |-> TrimZeros(cleared),
                            size |-> BitsPerByte * (Len(bs) - 1) + msb]
    BY <1>4 DEF ParseBitlist
  <2> HIDE DEF msb
  <2>6. cleared \in Seq(Nat) /\ Len(cleared) = Len(bs)
        /\ cleared[Len(bs)] = last - Pow2[msb]
    BY <1>1, <2>1, <2>3, <2>4
  <2> HIDE DEF cleared, last
  <2> DEFINE n == Len(TrimZeros(cleared))
  <2>7. /\ TrimZeros(cleared) \in Seq(Nat) /\ n \in Nat /\ n <= Len(bs)
        /\ msb = 0 => n <= Len(bs) - 1
    <3>1. TrimZeros(cleared) \in Seq(Nat) /\ n <= Len(bs)
      BY <2>6, TrimZerosFacts
    <3>2. msb = 0 => cleared[Len(cleared)] = 0
      BY <2>1, <2>3, <2>4, <2>6
    <3>3. msb = 0 => n < Len(bs)
      BY <2>1, <2>6, <3>2, TrimZerosFacts
    <3> QED BY <1>1, <3>1, <3>3
  <2> HIDE DEF n
  <2>8. BitsPerByte * (Len(bs) - 1) + msb \in Nat
    <3>1. Len(bs) - 1 \in Nat /\ msb \in Nat
      BY <1>1, <1>2, <2>1, <2>3
    <3>2. BitsPerByte * (Len(bs) - 1) \in Nat
      BY <1>2, <3>1
    <3> QED BY <3>1, <3>2
  <2>9. n * BitsPerByte <= BitsPerByte * (Len(bs) - 1) + msb + (BitsPerByte - 1)
    <3> DEFINE l == Len(bs) - 1
    <3>0. l \in Nat /\ Len(bs) = l + 1
      BY <1>1, <2>1
    <3> HIDE DEF l
    <3>1. CASE msb = 0
      <4>1. n <= l
        BY <2>7, <3>1 DEF l
      <4>2. n * BitsPerByte <= l * BitsPerByte /\ l * BitsPerByte = BitsPerByte * l
        BY <1>2, <2>7, <3>0, <4>1
      <4>3. n * BitsPerByte \in Int /\ BitsPerByte * l \in Int
        BY <1>2, <2>7, <3>0
      <4>4. n * BitsPerByte <= BitsPerByte * l + msb + (BitsPerByte - 1)
        BY <1>2, <3>1, <4>2, <4>3
      <4> QED BY <4>4 DEF l
    <3>2. CASE msb # 0
      <4>1. n <= l + 1
        BY <2>7, <3>0
      <4>2. n * BitsPerByte <= (l + 1) * BitsPerByte
            /\ (l + 1) * BitsPerByte = BitsPerByte * l + BitsPerByte
        BY <1>2, <2>7, <3>0, <4>1
      <4>3. msb \in Int /\ msb >= 1
        BY <1>2, <2>3, <3>2
      <4>4. n * BitsPerByte \in Int /\ BitsPerByte * l \in Int
        BY <1>2, <2>7, <3>0
      <4>5. n * BitsPerByte <= BitsPerByte * l + msb + (BitsPerByte - 1)
        BY <1>2, <4>2, <4>3, <4>4
      <4> QED BY <4>5 DEF l
    <3> QED BY <3>1, <3>2
  <2>10. ParseBitlist(bs).bits = TrimZeros(cleared)
         /\ ParseBitlist(bs).size = BitsPerByte * (Len(bs) - 1) + msb
    BY <2>5
  <2> QED BY <1>1, <2>7, <2>8, <2>9, <2>10 DEF n
<1> QED
  BY <1>3, <1>4

-----------------------------------------------------------------------------
(* Shapes and their limits.                                                *)

LEMMA CountOfChunks ==
  ASSUME NEW s, IsBuffer(s), NEW q \in Nat, Len(s) = q * ChunkSize
  PROVE  Count(s) = q /\ Len(s) % ChunkSize = 0
<1>1. ChunkSize \in Nat \ {0} /\ Len(s) \in Nat
  BY SeqIsBuffer, ChunkSizeAssumption DEF IsBuffer
<1>2. Len(s) % ChunkSize = 0 /\ Len(s) \div ChunkSize = q
  BY <1>1, Multiple
<1> QED
  BY <1>1, <1>2, CeilDivFacts DEF Count

\* An index on a chunk boundary divides the chunks of a buffer.
LEMMA CountAbove ==
  ASSUME NEW b, IsBuffer(b), NEW idx \in Nat, idx <= Len(b), idx % ChunkSize = 0
  PROVE  /\ IsBuffer(Above(b, idx)) /\ Len(Above(b, idx)) = Len(b) - idx
         /\ Count(b) = (idx \div ChunkSize) + Count(Above(b, idx))
         /\ Len(b) % ChunkSize = 0 => Len(Above(b, idx)) % ChunkSize = 0
<1>1. ChunkSize \in Nat \ {0} /\ Len(b) \in Nat
  BY SeqIsBuffer, ChunkSizeAssumption DEF IsBuffer
<1>2. IsBuffer(Above(b, idx)) /\ Len(Above(b, idx)) = Len(b) - idx
  BY <1>1, AboveBelow
<1> DEFINE m == Len(b) - idx
<1>3. m \in Nat /\ Len(b) = idx + m
  BY <1>1
<1> HIDE DEF m
<1>4. PICK j \in Nat : j = idx \div ChunkSize /\ idx = j * ChunkSize
  BY <1>1, Multiple, DivModFacts
<1>5. PICK c \in Nat : c = CeilDiv(m, ChunkSize) /\ m <= c * ChunkSize
                       /\ c * ChunkSize < m + ChunkSize
  BY <1>1, <1>3, CeilDivFacts
<1>6. PICK x \in Nat : /\ x = CeilDiv(Len(b), ChunkSize) /\ Len(b) <= x * ChunkSize
                       /\ \A k \in Nat : Len(b) <= k * ChunkSize => x <= k
  BY <1>1, CeilDivFacts
<1>7. (j + c) * ChunkSize = j * ChunkSize + c * ChunkSize
      /\ j * ChunkSize \in Nat /\ c * ChunkSize \in Nat /\ x * ChunkSize \in Nat
  <2>1. \A d, k, l \in Nat : (k + l) * d = k * d + l * d /\ k * d \in Nat
    OBVIOUS
  <2> QED BY <1>1, <2>1
<1> DEFINE y == j + c
<1>8. PICK u \in Nat, v \in Nat, w \in Nat :
         /\ u = idx /\ v = c * ChunkSize /\ w = x * ChunkSize
         /\ y * ChunkSize = u + v
  BY <1>4, <1>7
<1>9. m <= v /\ v < m + ChunkSize /\ Len(b) = u + m /\ Len(b) <= w
  BY <1>3, <1>5, <1>6, <1>8
<1>10. x <= y
  <2>1. Len(b) <= y * ChunkSize
    <3>1. u + m <= u + v
      BY <1>3, <1>9
    <3> QED BY <1>8, <1>9, <3>1
  <2>2. y \in Nat
    OBVIOUS
  <2> HIDE DEF y
  <2> QED BY <1>6, <2>1, <2>2
<1>11. ~ (x < y)
  <2> SUFFICES ASSUME x < y PROVE FALSE
    OBVIOUS
  <2>1. y - x \in Nat /\ y - x >= 1 /\ y \in Nat
    OBVIOUS
  <2>2. (y - x) * ChunkSize >= ChunkSize
    <3> HIDE DEF y
    <3> QED BY <1>1, <2>1
  <2>3. (y - x) * ChunkSize = y * ChunkSize - x * ChunkSize
    <3> HIDE DEF y
    <3> QED BY <1>1, <2>1
  <2>4. u + v - w >= ChunkSize
    BY <1>8, <2>2, <2>3
  <2>5. u + m <= w
    BY <1>9
  <2> QED BY <1>1, <1>3, <1>9, <2>4, <2>5
<1>12. x = j + c
  BY <1>10, <1>11
<1>13. Len(b) % ChunkSize = 0 => Len(Above(b, idx)) % ChunkSize = 0
  <2>1. Len(b) % ChunkSize = 0 => (Len(b) - idx) % ChunkSize = 0
    BY <1>1, DifferenceOfMultiples
  <2> QED BY <1>2, <2>1
<1>14. Count(Above(b, idx)) = c
  BY <1>2, <1>5 DEF Count, m
<1> QED
  BY <1>2, <1>4, <1>6, <1>12, <1>13, <1>14 DEF Count

LEMMA ShapeFacts ==
  ASSUME NEW s \in Schemas, NEW shape \in Openable(s) \union Writable(s)
  PROVE  /\ shape \in Shape
         /\ shape.kind \in Containers => shape.width = 0
         /\ shape.kind \notin Limited => ChunkLimit(shape) = 0
         /\ shape.kind \in ByteStrings => shape \in Writable(s)
         /\ shape.kind = "progressive" => "progressive" \in s.kinds
         /\ shape.width <= ChunkSize
<1>1. s \in Schema /\ ChunkSize \in Nat \ {0}
  BY CallAssumption, ChunkSizeAssumption
<1>2. s.kinds \subseteq Kinds /\ s.widths \subseteq Nat \ {0} /\ s.limits \subseteq Nat
  BY <1>1 DEF Schema
<1>3. shape \in Shape
  BY <1>2 DEF Shape, Openable, Writable, Kinds, Containers, Series, ByteStrings, Bitlists
<1>4. /\ shape.kind \in Containers => shape.width = 0
      /\ shape.kind = "progressive" => "progressive" \in s.kinds
      /\ shape.kind \in ByteStrings => shape \in Writable(s)
      /\ shape.width \in s.widths \union {0, 1}
  BY DEF Openable, Writable, Containers, Series, ByteStrings, Bitlists
<1>5. shape.kind \notin Limited => ChunkLimit(shape) = 0
  BY <1>3 DEF ChunkLimit, Limited
<1>6. \A w \in s.widths : w <= ChunkSize
  <2> SUFFICES ASSUME NEW w \in s.widths PROVE w <= ChunkSize
    OBVIOUS
  <2>1. w \in Nat \ {0} /\ ChunkSize % w = 0
    BY <1>2, CallAssumption
  <2>2. ChunkSize \div w \in Nat /\ ChunkSize = (ChunkSize \div w) * w
    BY <1>1, <2>1, Multiple, DivModFacts
  <2>3. ChunkSize \div w # 0
    BY <1>1, <2>1, <2>2
  <2> DEFINE q == ChunkSize \div w
  <2>4. q \in Nat /\ q >= 1 /\ ChunkSize = q * w
    BY <2>2, <2>3
  <2> HIDE DEF q
  <2>5. q * w >= w
    BY <2>1, <2>4
  <2> QED BY <1>1, <2>1, <2>4, <2>5
<1>7. shape.width <= ChunkSize
  BY <1>1, <1>4, <1>6
<1> QED
  BY <1>3, <1>4, <1>5, <1>7

\* The limit in chunks depends on the shape alone, and the table of zero
\* hashes serves it.
LEMMA ChunkLimitFacts ==
  ASSUME NEW s \in Schemas, NEW shape \in Openable(s) \union Writable(s), NEW f,
         f.kind = shape.kind, f.width = shape.width, f.limit = shape.limit
  PROVE  /\ ChunkLimit(f) = ChunkLimit(shape)
         /\ ChunkLimit(f) \in Nat /\ ChunkLimit(f) <= Pow2[MaxDepth]
<1>1. ChunkLimit(f) = ChunkLimit(shape)
  BY DEF ChunkLimit
<1>2. ChunkLimit(shape) <= Pow2[MaxDepth]
  BY DepthAssumption
<1>3. ChunkLimit(shape) \in Nat
  <2>1. /\ shape.limit \in Nat /\ shape.width \in Nat
        /\ ChunkSize \in Nat \ {0} /\ BitsPerByte \in Nat \ {0}
    BY ShapeFacts, ChunkSizeAssumption, CallAssumption DEF Shape
  <2>2. shape.limit * shape.width \in Nat /\ ChunkSize * BitsPerByte \in Nat \ {0}
    BY <2>1
  <2>3. /\ CeilDiv(shape.limit * shape.width, ChunkSize) \in Nat
        /\ CeilDiv(shape.limit, ChunkSize) \in Nat
        /\ CeilDiv(shape.limit, ChunkSize * BitsPerByte) \in Nat
    BY <2>1, <2>2, CeilDivFacts
  <2> HIDE DEF CeilDiv
  <2> QED BY <2>1, <2>3 DEF ChunkLimit
<1> QED
  BY <1>1, <1>2, <1>3

\* A value within its limit of elements has no more chunks than its limit.
LEMMA LimitFits ==
  ASSUME NEW s \in Schemas, NEW shape \in Openable(s) \union Writable(s),
         NEW b, IsBuffer(b), NEW num \in Nat, num <= shape.limit,
         \/ shape.kind = "list" /\ shape.width = 0 /\ Len(b) = num * ChunkSize
         \/ shape.kind = "list" /\ shape.width > 0 /\ Len(b) = num * shape.width
         \/ shape.kind = "bytelist" /\ Len(b) = num
         \/ shape.kind = "bitlist" /\ Len(b) * BitsPerByte <= num + (BitsPerByte - 1)
  PROVE  Count(b) <= ChunkLimit(shape)
<1>1. /\ shape.limit \in Nat /\ shape.width \in Nat /\ Len(b) \in Nat
      /\ ChunkSize \in Nat \ {0} /\ BitsPerByte \in Nat \ {0}
  BY ShapeFacts, ChunkSizeAssumption, CallAssumption, SeqIsBuffer DEF Shape, IsBuffer
<1>2. \A m \in Nat : Len(b) <= m * ChunkSize => Count(b) <= m
  BY <1>1, CeilDivFacts DEF Count
<1>3. CASE shape.kind = "list" /\ shape.width = 0 /\ Len(b) = num * ChunkSize
  <2>1. ChunkLimit(shape) = shape.limit
    BY <1>3 DEF ChunkLimit
  <2>2. Count(b) = num
    BY <1>3, CountOfChunks
  <2> QED BY <2>1, <2>2
<1>4. CASE shape.kind = "list" /\ shape.width > 0 /\ Len(b) = num * shape.width
  <2> DEFINE l == CeilDiv(shape.limit * shape.width, ChunkSize)
  <2>1. ChunkLimit(shape) = l
    BY <1>1, <1>4 DEF ChunkLimit
  <2>2. shape.limit * shape.width \in Nat /\ num * shape.width <= shape.limit * shape.width
    BY <1>1
  <2>3. l \in Nat /\ shape.limit * shape.width <= l * ChunkSize
    BY <1>1, <2>2, CeilDivFacts
  <2> HIDE DEF l
  <2>4. l * ChunkSize \in Nat /\ num * shape.width \in Nat
    BY <1>1, <2>3
  <2>5. Len(b) <= l * ChunkSize
    BY <1>4, <2>2, <2>3, <2>4
  <2> QED BY <1>2, <2>1, <2>3, <2>5
<1>5. CASE shape.kind = "bytelist" /\ Len(b) = num
  <2> DEFINE l == CeilDiv(shape.limit, ChunkSize)
  <2>1. ChunkLimit(shape) = l
    BY <1>5 DEF ChunkLimit
  <2>2. l \in Nat /\ shape.limit <= l * ChunkSize
    BY <1>1, CeilDivFacts
  <2> HIDE DEF l
  <2>3. l * ChunkSize \in Nat
    BY <1>1, <2>2
  <2>4. Len(b) <= l * ChunkSize
    BY <1>1, <1>5, <2>2, <2>3
  <2> QED BY <1>2, <2>1, <2>2, <2>4
<1>6. CASE shape.kind = "bitlist" /\ Len(b) * BitsPerByte <= num + (BitsPerByte - 1)
  <2> DEFINE l == CeilDiv(shape.limit, ChunkSize * BitsPerByte)
  <2>1. ChunkLimit(shape) = l
    BY <1>6 DEF ChunkLimit
  <2>2. ChunkSize * BitsPerByte \in Nat \ {0}
    BY <1>1
  <2>3. l \in Nat /\ shape.limit <= l * (ChunkSize * BitsPerByte)
    BY <1>1, <2>2, CeilDivFacts
  <2> HIDE DEF l
  <2> DEFINE m == l * ChunkSize
  <2>4. m \in Nat /\ l * (ChunkSize * BitsPerByte) = m * BitsPerByte
    BY <1>1, <2>3
  <2>5. Len(b) <= m
    <3> HIDE DEF m
    <3>1. m * BitsPerByte \in Nat /\ Len(b) * BitsPerByte \in Nat
      BY <1>1, <2>4
    <3>2. Len(b) * BitsPerByte < m * BitsPerByte + BitsPerByte
      BY <1>1, <1>6, <2>3, <2>4, <3>1
    <3>3. CASE Len(b) >= m + 1
      <4>0. \A x, y, d \in Nat : x >= y => x * d >= y * d
        OBVIOUS
      <4>1. Len(b) * BitsPerByte >= (m + 1) * BitsPerByte
        BY <1>1, <2>4, <3>3, <4>0
      <4>2. (m + 1) * BitsPerByte = m * BitsPerByte + BitsPerByte
        BY <1>1, <2>4
      <4> QED BY <1>1, <3>1, <3>2, <4>1, <4>2
    <3> QED BY <1>1, <2>4, <3>3
  <2> QED BY <1>2, <2>1, <2>3, <2>5
<1> QED
  BY <1>3, <1>4, <1>5, <1>6

-----------------------------------------------------------------------------
(* The inductive invariant.                                                *)

ShapeOf(f) == [kind |-> f.kind, width |-> f.width, limit |-> f.limit]

\* Every call is one that the schema declares, made while the buffer was
\* within its bound.
Declared ==
  \A i \in 1..Len(frames) :
    /\ ShapeOf(frames[i]) \in Openable(schema) \union Writable(schema)
    /\ frames[i].idx <= schema.maxCells

\* Only values that leave whole chunks between writes make calls.
Waiting ==
  \A i \in 1..(Len(frames) - 1) :
    frames[i].width = 0 /\ frames[i].kind \in Containers \union Series

Bounded == Count(buf) <= Pow2[MaxDepth]

WriteOK ==
  pc = "write" =>
    /\ frames = <<>> => buf = <<>>
    /\ frames # <<>> => /\ Top.kind \in Containers \union Series
                        /\ Top.width = 0 => Len(buf) % ChunkSize = 0

LayersOK ==
  pc = "layers" =>
    /\ frames # <<>>
    /\ merkle.layer <= merkle.depth
    /\ \E q \in 1..Len(buf) :
         /\ Len(buf) = Top.idx + q * ChunkSize
         /\ LimitRespected => q <= Pow2[merkle.depth - merkle.layer]

DoneOK == pc = "done" => frames = <<>>

\* Lists are within their limits, and have written what they have counted: a
\* list that makes a call has counted the element the call is for.
ListsLimited ==
  LimitRespected =>
    \A i \in 1..Len(frames) : frames[i].kind = "list" => frames[i].num <= frames[i].limit

ListsCounted ==
  LimitRespected =>
    \A i \in 1..(Len(frames) - 1) : frames[i].kind = "list" =>
      frames[i + 1].idx + ChunkSize = frames[i].idx + frames[i].num * ChunkSize

TopCounted ==
  LimitRespected =>
    (pc = "write" /\ frames # <<>> /\ Top.kind = "list" =>
       Len(buf) = Top.idx + Top.num * (IF Top.width = 0 THEN ChunkSize ELSE Top.width))

IInv ==
  /\ TypeOK /\ IndicesNest
  /\ Declared /\ Waiting /\ Bounded
  /\ WriteOK /\ LayersOK /\ DoneOK
  /\ ListsLimited /\ ListsCounted /\ TopCounted

-----------------------------------------------------------------------------
(* Basic facts of a state.                                                 *)

LEMMA StateFacts ==
  ASSUME IInv
  PROVE  /\ schema \in Schemas /\ schema \in Schema /\ schema.maxCells \in Nat
         /\ IsBuffer(buf) /\ Len(buf) \in Nat
         /\ ChunkSize \in Nat \ {0} /\ MaxDepth \in Nat
         /\ frames \in Seq(Call) /\ Len(frames) \in Nat
         /\ frames # <<>> => Top \in Call /\ Len(frames) \in 1..Len(frames)
         /\ schema.maxCells + ChunkSize <= Pow2[MaxDepth]
         /\ Pow2[MaxDepth] \in Nat
<1>1. schema \in Schemas /\ IsBuffer(buf) /\ frames \in Seq(Call)
  BY DEF IInv, TypeOK
<1>2. schema \in Schema
  BY <1>1, CallAssumption
<1>3. schema.maxCells \in Nat
  BY <1>2 DEF Schema
<1>4. Len(buf) \in Nat /\ Len(frames) \in Nat
  BY <1>1, SeqIsBuffer DEF IsBuffer
<1>5. frames # <<>> => Len(frames) \in 1..Len(frames) /\ Top \in Call
  <2>1. frames # <<>> => Len(frames) > 0
    BY <1>1
  <2> QED BY <1>1, <1>4, <2>1 DEF Top
<1>6. schema.maxCells + ChunkSize <= Pow2[MaxDepth] /\ Pow2[MaxDepth] \in Nat
  BY <1>1, DepthAssumption, Pow2Facts, MaxDepthAssumption
<1> QED
  BY <1>1, <1>2, <1>3, <1>4, <1>5, <1>6, ChunkSizeAssumption, MaxDepthAssumption

\* The innermost call and its shape.
LEMMA TopFacts ==
  ASSUME IInv, frames # <<>>
  PROVE  /\ Top.idx \in Nat /\ Top.num \in Nat /\ Top.width \in Nat /\ Top.limit \in Nat
         /\ Top.idx <= Len(buf) /\ Top.idx % ChunkSize = 0
         /\ Top.idx <= schema.maxCells
         /\ ShapeOf(Top) \in Openable(schema) \union Writable(schema)
         /\ Top.kind \in Containers => Top.width = 0
         /\ Top.width <= ChunkSize
         /\ Top.kind = "progressive" => "progressive" \in schema.kinds
<1>1. Top \in Call /\ Len(frames) \in 1..Len(frames)
  BY StateFacts
<1>2. /\ ShapeOf(Top) \in Openable(schema) \union Writable(schema)
      /\ Top.idx <= schema.maxCells
  BY <1>1 DEF IInv, Declared, Top
<1>3. Top.idx <= Len(buf) /\ Top.idx % ChunkSize = 0
  BY <1>1 DEF IInv, IndicesNest, Top
<1>4. /\ ShapeOf(Top).kind = Top.kind /\ ShapeOf(Top).width = Top.width
      /\ ShapeOf(Top).limit = Top.limit
  BY DEF ShapeOf
<1>5. /\ Top.kind \in Containers => Top.width = 0
      /\ Top.width <= ChunkSize
      /\ Top.kind = "progressive" => "progressive" \in schema.kinds
  <2>1. schema \in Schemas
    BY StateFacts
  <2> HIDE DEF ShapeOf
  <2> QED BY <1>2, <1>4, <2>1, ShapeFacts
<1> QED
  BY <1>1, <1>2, <1>3, <1>5 DEF Call

\* The calls that wait for the innermost one.
LEMMA CallersFacts ==
  ASSUME IInv, frames # <<>>
  PROVE  /\ Callers \in Seq(Call) /\ Len(Callers) = Len(frames) - 1
         /\ \A i \in 1..(Len(frames) - 1) : Callers[i] = frames[i]
<1> DEFINE n == Len(frames)
<1>1. frames \in Seq(Call) /\ n \in Nat /\ n \in 1..n
  BY StateFacts
<1>2. \A i \in 1..(n - 1) : frames[i] \in Call
  BY <1>1
<1>3. 1 \in Int /\ n - 1 \in Int /\ n >= 1
  BY <1>1
<1> HIDE DEF n
<1>4. /\ SubSeq(frames, 1, n - 1) \in Seq(Call)
      /\ Len(SubSeq(frames, 1, n - 1)) = IF 1 <= n - 1 THEN n - 1 - 1 + 1 ELSE 0
      /\ \A i \in 1..(n - 1 - 1 + 1) : SubSeq(frames, 1, n - 1)[i] = frames[1 + i - 1]
  BY <1>2, <1>3, SubSeqProperties
<1>5. Len(SubSeq(frames, 1, n - 1)) = n - 1
  BY <1>1, <1>3, <1>4
<1>6. \A i \in 1..(n - 1) : SubSeq(frames, 1, n - 1)[i] = frames[i]
  BY <1>1, <1>4
<1> QED
  BY <1>4, <1>5, <1>6 DEF Callers, n

\* The innermost index is the highest.
LEMMA IndicesBelowTop ==
  ASSUME IInv, frames # <<>>
  PROVE  \A i \in 1..Len(frames) : frames[i].idx <= Top.idx
<1> DEFINE n == Len(frames)
<1> DEFINE T == {k \in 0..(n - 1) : ~ (frames[n - k].idx <= Top.idx)}
<1>1. n \in Nat /\ n >= 1 /\ Top = frames[n] /\ Top.idx \in Nat
  BY StateFacts, TopFacts DEF Top
<1>2. \A i \in 1..n : frames[i].idx \in Nat
  <2>1. \A i \in 1..n : frames[i] \in Call
    BY StateFacts
  <2> QED BY <2>1 DEF Call
<1>3. \A i \in 1..n : i > 1 => frames[i - 1].idx <= frames[i].idx
  BY DEF IInv, IndicesNest
<1> HIDE DEF n
<1>4. T = {}
  <2> SUFFICES ASSUME T # {} PROVE FALSE
    OBVIOUS
  <2>1. PICK k \in T : \A y \in T : k <= y
    <3>1. T \in SUBSET Nat
      BY <1>1
    <3> HIDE DEF T
    <3> QED BY <3>1, LeastNat
  <2>2. k \in 0..(n - 1) /\ ~ (frames[n - k].idx <= Top.idx)
    BY <2>1
  <2>3. k # 0
    BY <1>1, <2>2
  <2>4. k - 1 \in 0..(n - 1) /\ ~ (k <= k - 1)
    BY <1>1, <2>2, <2>3
  <2>5. frames[n - (k - 1)].idx <= Top.idx
    BY <2>1, <2>4
  <2>6. n - (k - 1) \in 1..n /\ n - k \in 1..n
        /\ n - (k - 1) > 1 /\ n - (k - 1) - 1 = n - k
    BY <1>1, <2>2, <2>3
  <2>7. frames[n - k].idx <= frames[n - (k - 1)].idx
    BY <1>3, <2>6
  <2>8. frames[n - k].idx \in Nat /\ frames[n - (k - 1)].idx \in Nat
    BY <1>2, <2>6
  <2>9. frames[n - k].idx <= Top.idx
    BY <1>1, <2>5, <2>7, <2>8
  <2> QED BY <2>2, <2>9, Zenon
<1>5. \A i \in 1..n : n - i \in 0..(n - 1) /\ n - (n - i) = i
  BY <1>1
<1>6. \A i \in 1..n : frames[i].idx <= Top.idx
  <2> SUFFICES ASSUME NEW i \in 1..n, ~ (frames[i].idx <= Top.idx) PROVE FALSE
    OBVIOUS
  <2>1. n - i \in T
    BY <1>5
  <2> QED BY <1>4, <2>1
<1> QED
  BY <1>6 DEF n

LEMMA CountedFacts ==
  ASSUME NEW f \in Call, NEW position, f.kind = "progressive" => position \in 0..MaxDepth
  PROVE  /\ Counted(f, position) \in Call
         /\ Counted(f, position).idx = f.idx /\ Counted(f, position).kind = f.kind
         /\ Counted(f, position).width = f.width /\ Counted(f, position).limit = f.limit
         /\ f.kind \in Series => Counted(f, position).num = f.num + 1
<1>1. CASE f.kind = "progressive"
  <2>1. Counted(f, position) = [f EXCEPT !.num = @ + Pow2[position]]
    <3>1. f.kind \notin Series
      BY <1>1 DEF Series
    <3> QED BY <1>1, <3>1 DEF Counted
  <2>2. f.num + Pow2[position] \in Nat
    BY <1>1, Pow2Facts DEF Call
  <2>3. f.kind \notin Series
    BY <1>1 DEF Series
  <2> QED BY <2>1, <2>2, <2>3 DEF Call
<1>2. CASE f.kind \in Series
  <2>1. Counted(f, position) = [f EXCEPT !.num = @ + 1]
    <3>1. f.kind # "progressive"
      BY <1>2 DEF Series
    <3> QED BY <1>2, <3>1 DEF Counted
  <2>2. f.num + 1 \in Nat
    BY DEF Call
  <2> QED BY <2>1, <2>2 DEF Call
<1>3. CASE f.kind # "progressive" /\ f.kind \notin Series
  <2>1. Counted(f, position) = f
    BY <1>3 DEF Counted
  <2> QED BY <1>3, <2>1
<1> QED
  BY <1>1, <1>2, <1>3

\* Counting a field or an element changes the number of the innermost call
\* and nothing else.
LEMMA HolderFacts ==
  ASSUME IInv, Writing
  PROVE  /\ Holder \in Seq(Call) /\ Len(Holder) = Len(frames)
         /\ \A i \in 1..(Len(frames) - 1) : Holder[i] = frames[i]
         /\ \A i \in 1..Len(frames) :
              /\ Holder[i].idx = frames[i].idx
              /\ ShapeOf(Holder[i]) = ShapeOf(frames[i])
         /\ frames # <<>> /\ Top.kind \in Series => Holder[Len(frames)].num = Top.num + 1
<1>1. CASE frames = <<>>
  <2>1. Holder = <<>> /\ Len(frames) = 0 /\ <<>> \in Seq(Call) /\ Len(<<>>) = 0
    BY <1>1 DEF Holder
  <2> HIDE DEF ShapeOf
  <2>2. 1..Len(frames) = {} /\ 1..(Len(frames) - 1) = {}
    BY <2>1
  <2> QED BY <1>1, <2>1, <2>2
<1>2. CASE frames # <<>>
  <2> DEFINE n == Len(frames)
  <2> DEFINE position == (Len(buf) - Top.idx) \div ChunkSize
  <2> DEFINE f == Counted(Top, position)
  <2>1. frames \in Seq(Call) /\ n \in 1..n /\ n \in Nat /\ Top \in Call
    BY <1>2, StateFacts
  <2>2. Top.kind = "progressive" => position \in 0..MaxDepth
    <3> SUFFICES ASSUME Top.kind = "progressive" PROVE position \in 0..MaxDepth
      OBVIOUS
    <3>1. /\ Len(buf) - Top.idx \in Nat /\ Len(buf) - Top.idx <= schema.maxCells
          /\ schema.maxCells \in Nat /\ ChunkSize \in Nat \ {0} /\ MaxDepth \in Nat
      BY <1>2, TopFacts, StateFacts DEF Writing
    <3>2. "progressive" \in schema.kinds
      BY <1>2, TopFacts
    <3>3. schema.maxCells \div ChunkSize <= MaxDepth
      BY <3>2, StateFacts, DepthAssumption
    <3> DEFINE m == Len(buf) - Top.idx
    <3> HIDE DEF m
    <3>4. m \div ChunkSize <= schema.maxCells \div ChunkSize
      BY <3>1, DivMonotone DEF m
    <3>5. m \div ChunkSize \in Nat /\ schema.maxCells \div ChunkSize \in Nat
      BY <3>1, DivModFacts DEF m
    <3> QED BY <3>1, <3>3, <3>4, <3>5 DEF m
  <2> HIDE DEF position
  <2>3. /\ f \in Call /\ f.idx = Top.idx /\ f.kind = Top.kind
        /\ f.width = Top.width /\ f.limit = Top.limit
        /\ Top.kind \in Series => f.num = Top.num + 1
    BY <2>1, <2>2, CountedFacts
  <2>4. Holder = Append(Callers, f)
    BY <1>2 DEF Holder, position
  <2>5. /\ Callers \in Seq(Call) /\ Len(Callers) = n - 1
        /\ \A i \in 1..(n - 1) : Callers[i] = frames[i]
    BY <1>2, CallersFacts
  <2> HIDE DEF f
  <2>6. /\ Holder \in Seq(Call) /\ Len(Holder) = n /\ Holder[n] = f
        /\ \A i \in 1..(n - 1) : Holder[i] = frames[i]
    BY <2>1, <2>3, <2>4, <2>5
  <2>7. ASSUME NEW i \in 1..n
        PROVE  Holder[i].idx = frames[i].idx /\ ShapeOf(Holder[i]) = ShapeOf(frames[i])
    <3>1. CASE i = n
      BY <2>3, <2>6, <3>1 DEF Top, ShapeOf
    <3>2. CASE i # n
      BY <2>1, <2>6, <3>2
    <3> QED BY <3>1, <3>2
  <2> QED BY <2>3, <2>6, <2>7
<1> QED
  BY <1>1, <1>2

-----------------------------------------------------------------------------
(* Opening a value, and merkleizing it.                                    *)

\* A call may be made only at a chunk boundary, so its index is one.
LEMMA CallsAreAligned ==
  ASSUME IInv, NEW shape, CanOpen(shape)
  PROVE  /\ Len(buf) % ChunkSize = 0
         /\ frames # <<>> => Top.width = 0 /\ Top.kind \in Containers \union Series
<1>1. pc = "write"
  BY DEF CanOpen, Writing
<1>2. CASE frames = <<>>
  <2>1. buf = <<>> /\ Len(<<>>) = 0
    BY <1>1, <1>2 DEF IInv, WriteOK
  <2>2. 0 % ChunkSize = 0
    BY ChunkSizeAssumption
  <2> QED BY <1>2, <2>1, <2>2
<1>3. CASE frames # <<>>
  <2>1. Top.kind \in Containers \union Series /\ (Top.width = 0 => Len(buf) % ChunkSize = 0)
    BY <1>1, <1>3 DEF IInv, WriteOK
  <2>2. Top.kind \in Containers \/ Top.width = 0
    BY <1>3 DEF CanOpen, CanHold, Top
  <2>3. Top.width = 0
    BY <1>3, <2>2, TopFacts
  <2> QED BY <1>3, <2>1, <2>3
<1> QED
  BY <1>2, <1>3

\* The stack after a call has been made.
LEMMA PushFacts ==
  ASSUME IInv, NEW shape \in Openable(schema) \union Writable(schema), NEW num \in Nat,
         CanOpen(shape), frames' = Append(Holder, Frame(shape, num)),
         schema' = schema, Len(buf') \in Nat, Len(buf') >= Len(buf)
  PROVE  /\ frames' \in Seq(Call) /\ frames' # <<>>
         /\ Top' = Frame(shape, num)
         /\ IndicesNest' /\ Declared' /\ Waiting' /\ ListsCounted'
         /\ (LimitRespected /\ shape.kind = "list" => num <= shape.limit) => ListsLimited'
<1> DEFINE n == Len(frames)
<1> DEFINE new == Frame(shape, num)
<1>1. /\ schema \in Schemas /\ Len(buf) \in Nat /\ n \in Nat /\ frames \in Seq(Call)
      /\ ChunkSize \in Nat \ {0} /\ schema.maxCells \in Nat
  BY StateFacts
<1>2. \A i \in 1..n : frames[i] \in Call /\ frames[i].idx \in Nat
  <2>1. \A i \in 1..n : frames[i] \in Call
    BY <1>1
  <2> QED BY <2>1 DEF Call
<1>3. /\ \A i \in 1..(n + 1) : i \in 1..n \/ i = n + 1
      /\ \A i \in 1..n : i \in 1..(n - 1) \/ i = n
  BY <1>1
<1>4. ASSUME n # 0
      PROVE  n \in 1..n /\ frames # <<>> /\ Top = frames[n] /\ Top \in Call
  BY <1>1, <1>4 DEF Top
<1>5. pc = "write" /\ Len(buf) <= schema.maxCells /\ Writing
  BY DEF CanOpen, Writing
<1>6. /\ Len(buf) % ChunkSize = 0
      /\ frames # <<>> => Top.width = 0 /\ Top.kind \in Containers \union Series
  BY CallsAreAligned
<1>7. shape \in Shape
  BY <1>1, ShapeFacts
<1>8. new \in Call /\ ShapeOf(new) = shape /\ new.idx = Len(buf) /\ new.num = num
      /\ new.kind = shape.kind /\ new.limit = shape.limit
  BY <1>1, <1>7 DEF Frame, Call, Shape, ShapeOf
<1>9. /\ Holder \in Seq(Call) /\ Len(Holder) = n
      /\ \A i \in 1..(n - 1) : Holder[i] = frames[i]
      /\ \A i \in 1..n : /\ Holder[i].idx = frames[i].idx
                         /\ ShapeOf(Holder[i]) = ShapeOf(frames[i])
      /\ frames # <<>> /\ Top.kind \in Series => Holder[n].num = Top.num + 1
  BY <1>5, HolderFacts
<1> HIDE DEF n, new
<1>10. /\ frames' \in Seq(Call) /\ Len(frames') = n + 1 /\ frames' # <<>>
       /\ frames'[n + 1] = new /\ \A i \in 1..n : frames'[i] = Holder[i]
  <2>1. frames' = Append(Holder, new)
    BY DEF new
  <2> QED BY <1>1, <1>8, <1>9, <2>1, AppendProperties
<1>11. Top' = Frame(shape, num)
  BY <1>10 DEF Top, new
<1>12. \A i \in 1..n : /\ frames'[i].idx = frames[i].idx
                       /\ ShapeOf(frames'[i]) = ShapeOf(frames[i])
  BY <1>9, <1>10
<1>13. \A i \in 1..n : /\ frames'[i].kind = frames[i].kind
                       /\ frames'[i].width = frames[i].width
                       /\ frames'[i].limit = frames[i].limit
  BY <1>12 DEF ShapeOf
<1>14. IndicesNest'
  <2>1. ASSUME NEW i \in 1..(n + 1)
        PROVE  /\ frames'[i].idx % ChunkSize = 0
               /\ frames'[i].idx <= Len(buf')
               /\ i > 1 => frames'[i - 1].idx <= frames'[i].idx
    <3>1. CASE i \in 1..n
      <4>1. /\ frames[i].idx % ChunkSize = 0 /\ frames[i].idx <= Len(buf)
            /\ i > 1 => frames[i - 1].idx <= frames[i].idx
        BY <3>1 DEF IInv, IndicesNest, n
      <4>2. i > 1 => i - 1 \in 1..n
        BY <1>1, <3>1
      <4>3. frames'[i].idx = frames[i].idx /\ frames[i].idx \in Nat
        BY <1>2, <1>12, <3>1
      <4>4. frames'[i].idx % ChunkSize = 0 /\ frames'[i].idx <= Len(buf')
        BY <1>1, <4>1, <4>3
      <4>5. i > 1 => frames'[i - 1].idx <= frames'[i].idx
        BY <1>12, <4>1, <4>2, <4>3
      <4> QED BY <4>4, <4>5
    <3>2. CASE i = n + 1
      <4>1. frames'[i].idx = Len(buf)
        BY <1>8, <1>10, <3>2
      <4>2. i > 1 => n \in 1..n /\ i - 1 = n
        BY <1>1, <3>2
      <4>3. \A j \in 1..n : frames[j].idx <= Len(buf)
        BY DEF IInv, IndicesNest, n
      <4>4. frames'[i].idx % ChunkSize = 0 /\ frames'[i].idx <= Len(buf')
        BY <1>1, <1>6, <4>1
      <4>5. i > 1 => frames'[i - 1].idx <= frames'[i].idx
        <5> SUFFICES ASSUME i > 1 PROVE frames'[i - 1].idx <= frames'[i].idx
          OBVIOUS
        <5>1. frames'[i - 1].idx = frames[n].idx /\ frames[n].idx <= Len(buf)
          BY <1>12, <4>2, <4>3
        <5> QED BY <4>1, <5>1
      <4> QED BY <4>4, <4>5
    <3> QED BY <1>3, <3>1, <3>2, Zenon
  <2>2. frames'[1].idx = 0
    <3>1. CASE n = 0
      <4>1. frames = <<>> /\ buf = <<>> /\ Len(<<>>) = 0
        BY <1>1, <1>5, <3>1 DEF IInv, WriteOK, n
      <4> QED BY <1>8, <1>10, <3>1, <4>1
    <3>2. CASE n # 0
      <4>1. frames # <<>> /\ 1 \in 1..n
        BY <1>1, <1>4, <3>2
      <4>2. frames[1].idx = 0
        BY <4>1 DEF IInv, IndicesNest, n
      <4> QED BY <1>12, <4>1, <4>2
    <3> QED BY <3>1, <3>2
  <2> QED BY <1>10, <2>1, <2>2 DEF IndicesNest
<1>15. Declared'
  <2>1. ASSUME NEW i \in 1..(n + 1)
        PROVE  /\ ShapeOf(frames'[i]) \in Openable(schema) \union Writable(schema)
               /\ frames'[i].idx <= schema.maxCells
    <3>1. CASE i \in 1..n
      BY <1>12, <3>1 DEF IInv, Declared, n
    <3>2. CASE i = n + 1
      BY <1>5, <1>8, <1>10, <3>2
    <3> QED BY <1>3, <3>1, <3>2, Zenon
  <2> QED BY <1>10, <2>1 DEF Declared, Openable, Writable, ShapeOf
<1>16. Waiting'
  <2>1. ASSUME NEW i \in 1..n
        PROVE  frames'[i].width = 0 /\ frames'[i].kind \in Containers \union Series
    <3>1. CASE i = n
      <4>1. n # 0
        BY <1>1, <3>1
      <4>2. n \in 1..n /\ frames # <<>> /\ Top = frames[n]
        BY <1>4, <4>1
      <4>3. frames[n].width = 0 /\ frames[n].kind \in Containers \union Series
        BY <1>6, <4>2
      <4>4. frames'[n].width = frames[n].width /\ frames'[n].kind = frames[n].kind
        BY <1>13, <4>2
      <4> QED BY <3>1, <4>3, <4>4
    <3>2. CASE i # n
      <4>1. i \in 1..(n - 1)
        BY <1>3, <3>2
      <4>2. frames[i].width = 0 /\ frames[i].kind \in Containers \union Series
        BY <4>1 DEF IInv, Waiting, n
      <4> QED BY <1>13, <4>2
    <3> QED BY <3>1, <3>2
  <2>2. Len(frames') - 1 = n
    BY <1>1, <1>10
  <2> QED BY <2>1, <2>2 DEF Waiting
<1>17. ListsCounted'
  <2> SUFFICES ASSUME LimitRespected, NEW i \in 1..n, frames'[i].kind = "list"
               PROVE  frames'[i + 1].idx + ChunkSize = frames'[i].idx + frames'[i].num * ChunkSize
    <3>1. Len(frames') - 1 = n
      BY <1>1, <1>10
    <3> QED BY <3>1 DEF ListsCounted
  <2>1. frames[i].kind = "list"
    BY <1>13
  <2>2. CASE i = n
    <3>0. n # 0
      BY <1>1, <2>2
    <3>1. frames # <<>> /\ Top = frames[n] /\ Top \in Call /\ Top.kind = "list" /\ Top.width = 0
      BY <1>6, <1>4, <2>1, <2>2, <3>0, Zenon
    <3>2. Len(buf) = Top.idx + Top.num * ChunkSize
      BY <1>5, <3>1 DEF IInv, TopCounted
    <3>3. frames'[n].num = Top.num + 1
      BY <1>9, <1>10, <2>2, <3>1 DEF Series
    <3>4. frames'[n + 1].idx = Len(buf) /\ frames'[n].idx = Top.idx
      BY <1>8, <1>10, <1>12, <2>2, <3>1
    <3>5. Top.num \in Nat /\ Top.idx \in Nat
      BY <3>1 DEF Call
    <3>6. (Top.num + 1) * ChunkSize = Top.num * ChunkSize + ChunkSize /\ Top.num * ChunkSize \in Nat
      BY <1>1, <3>5
    <3>7. Len(buf) + ChunkSize = Top.idx + (Top.num + 1) * ChunkSize
      BY <1>1, <3>2, <3>5, <3>6
    <3>8. frames'[n + 1].idx + ChunkSize = frames'[n].idx + frames'[n].num * ChunkSize
      BY <3>3, <3>4, <3>7
    <3> QED BY <2>2, <3>8
  <2>3. CASE i # n
    <3>1. i \in 1..(n - 1) /\ i + 1 \in 1..n
      BY <1>1, <2>3
    <3>2. frames[i + 1].idx + ChunkSize = frames[i].idx + frames[i].num * ChunkSize
      BY <2>1, <3>1 DEF IInv, ListsCounted, n
    <3>3. frames'[i] = frames[i] /\ frames'[i + 1].idx = frames[i + 1].idx
      BY <1>9, <1>10, <1>12, <3>1
    <3> QED BY <3>2, <3>3
  <2> QED BY <2>2, <2>3
<1>18. ASSUME LimitRespected /\ shape.kind = "list" => num <= shape.limit
       PROVE  ListsLimited'
  <2> SUFFICES ASSUME LimitRespected, NEW i \in 1..(n + 1), frames'[i].kind = "list"
               PROVE  frames'[i].num <= frames'[i].limit
    BY <1>10 DEF ListsLimited
  <2>1. CASE i = n + 1
    BY <1>8, <1>10, <1>18, <2>1
  <2>2. CASE i \in 1..(n - 1)
    <3>1. frames'[i] = frames[i]
      BY <1>1, <1>9, <1>10, <2>2
    <3> QED BY <1>1, <2>2, <3>1 DEF IInv, ListsLimited, n
  <2>3. CASE i = n
    <3>0. n # 0 /\ n \in 1..n
      <4>1. n # 0
        BY <1>1, <2>3
      <4> QED BY <1>4, <4>1
    <3>1. frames # <<>> /\ Top = frames[n] /\ Top \in Call /\ Top.kind = "list"
      BY <1>13, <1>4, <2>3, <3>0, Zenon
    <3>2. Top.num < Top.limit
      BY <3>1 DEF CanOpen, HasRoom
    <3>3. frames'[n].num = Top.num + 1 /\ frames'[n].limit = Top.limit
      BY <1>9, <1>10, <1>13, <2>3, <3>1 DEF Series
    <3> QED BY <2>3, <3>1, <3>2, <3>3 DEF Call
  <2> QED BY <1>3, <2>1, <2>2, <2>3, Zenon
<1> QED
  BY <1>10, <1>11, <1>14, <1>15, <1>16, <1>17, <1>18

\* A call to merkleize at a chunk boundary leaves whole chunks there: no more
\* than there were, or one; and no more than its layers join, if the value
\* respects the limit.
LEMMA MerkleizeFacts ==
  ASSUME NEW s \in Schemas, NEW shape \in Openable(s) \union Writable(s), NEW f,
         ShapeOf(f) = ShapeOf(shape),
         NEW b, IsBuffer(b), Count(b) <= Pow2[MaxDepth],
         NEW idx \in Nat, idx <= Len(b), idx % ChunkSize = 0, idx <= s.maxCells,
         f.kind \in ProgressiveKinds => Len(b) % ChunkSize = 0,
         Merkleize(f, b, idx)
  PROVE  /\ IsBuffer(buf') /\ Count(buf') <= Pow2[MaxDepth]
         /\ pc' = "layers"
         /\ merkle' \in [layer : 0..MaxDepth, depth : 0..MaxDepth]
         /\ merkle'.layer = 0
         /\ \E q \in Nat :
              /\ q >= 1 /\ Len(buf') = idx + q * ChunkSize
              /\ (f.kind \in Limited => Count(Above(b, idx)) <= ChunkLimit(f))
                   => q <= Pow2[merkle'.depth]
<1> DEFINE above == Above(b, idx)
<1> DEFINE limit == ChunkLimit(f)
<1>1. /\ ChunkSize \in Nat \ {0} /\ MaxDepth \in Nat /\ Len(b) \in Nat
      /\ s.maxCells \in Nat /\ Pow2[MaxDepth] \in Nat /\ Pow2[0] = 1
      /\ s.maxCells + ChunkSize <= Pow2[MaxDepth] /\ 0 \in 0..MaxDepth
  <2>1. s.maxCells \in Nat
    BY CallAssumption DEF Schema
  <2>2. s.maxCells + ChunkSize <= Pow2[MaxDepth]
    BY DepthAssumption
  <2>3. MaxDepth \in Nat /\ 0 \in 0..MaxDepth /\ Pow2[MaxDepth] \in Nat /\ Pow2[0] = 1
    BY Pow2Facts, MaxDepthAssumption
  <2> QED BY <2>1, <2>2, <2>3, ChunkSizeAssumption, SeqIsBuffer DEF IsBuffer
<1>2. /\ IsBuffer(above) /\ Len(above) = Len(b) - idx
      /\ Count(b) = (idx \div ChunkSize) + Count(above)
      /\ Len(b) % ChunkSize = 0 => Len(above) % ChunkSize = 0
  BY CountAbove
<1>3. idx \div ChunkSize \in Nat /\ idx = (idx \div ChunkSize) * ChunkSize /\ Count(above) \in Nat
  <2>1. Len(above) \in Nat
    BY <1>2, SeqIsBuffer DEF IsBuffer
  <2> QED BY <1>1, <2>1, Multiple, DivModFacts, CeilDivFacts DEF Count
<1>4. IsBuffer(Below(b, idx)) /\ Len(Below(b, idx)) = idx
  BY AboveBelow
<1>5. /\ f.kind = shape.kind /\ f.width = shape.width /\ f.limit = shape.limit
  BY DEF ShapeOf
<1>6. /\ limit \in Nat /\ limit <= Pow2[MaxDepth]
      /\ f.kind \notin Limited => limit = 0
  BY <1>5, ChunkLimitFacts, ShapeFacts
\* Whatever replaces the cells above the index, its size decides.
<1>7. ASSUME NEW t, IsBuffer(t), NEW q \in Nat, q >= 1, q = 1 \/ q <= Count(above),
             Len(t) = q * ChunkSize, buf' = Below(b, idx) \o t
      PROVE  IsBuffer(buf') /\ Count(buf') <= Pow2[MaxDepth] /\ Len(buf') = idx + q * ChunkSize
  <2>1. IsBuffer(buf') /\ Len(buf') = idx + q * ChunkSize
    BY <1>4, <1>7, ConcatIsBuffer
  <2> DEFINE j == idx \div ChunkSize
  <2>2. j \in Nat /\ idx = j * ChunkSize
    BY <1>3
  <2>3. Len(buf') = (j + q) * ChunkSize /\ j + q \in Nat
    <3> HIDE DEF j
    <3> QED BY <1>1, <2>1, <2>2
  <2>4. Count(buf') = j + q
    BY <2>1, <2>3, CountOfChunks
  <2>5. j + q <= Pow2[MaxDepth]
    <3>1. CASE q <= Count(above)
      BY <1>1, <1>2, <1>3, <3>1
    <3>2. CASE q = 1
      <4> HIDE DEF j
      <4>1. j <= j * ChunkSize
        BY <1>1, <2>2
      <4> QED BY <1>1, <2>2, <3>2, <4>1
    <3> QED BY <1>7, <3>1, <3>2
  <2> QED BY <2>1, <2>4, <2>5
<1> HIDE DEF above, limit
<1>8. CASE f.kind \in ProgressiveKinds
  <2>1. buf' = Below(b, idx) \o MerkleizeProgressive(above) /\ merkle' = NoLoop /\ pc' = "layers"
    BY <1>8 DEF Merkleize, above
  <2>2. IsBuffer(MerkleizeProgressive(above)) /\ Len(MerkleizeProgressive(above)) = 1 * ChunkSize
    <3>1. Len(above) % ChunkSize = 0
      BY <1>2, <1>8
    <3>2. ChunkSize = 1 * ChunkSize
      BY <1>1
    <3> QED BY <1>2, <3>1, <3>2, ProgressiveFacts
  <2>3. IsBuffer(buf') /\ Count(buf') <= Pow2[MaxDepth] /\ Len(buf') = idx + 1 * ChunkSize
    BY <1>7, <2>1, <2>2
  <2>4. merkle' = [layer |-> 0, depth |-> 0]
    BY <2>1 DEF NoLoop
  <2>5. 1 \in Nat /\ 1 >= 1 /\ 1 <= Pow2[merkle'.depth]
    BY <1>1, <2>4
  <2> QED BY <1>1, <2>1, <2>3, <2>4, <2>5
<1>9. CASE f.kind \notin ProgressiveKinds
  <2>1. /\ buf' = Below(b, idx) \o Prologue(above, limit) /\ pc' = "layers"
        /\ merkle' = [layer |-> 0, depth |-> LayerCount(above, limit)]
    BY <1>9 DEF Merkleize, above, limit
  <2>2. Count(above) <= Pow2[MaxDepth]
    BY <1>1, <1>2, <1>3
  <2>3. PICK q \in Nat :
          /\ q >= 1 /\ (q = 1 \/ q <= Count(above))
          /\ IsBuffer(Prologue(above, limit)) /\ Len(Prologue(above, limit)) = q * ChunkSize
          /\ LayerCount(above, limit) \in 0..MaxDepth
          /\ limit = 0 \/ Count(above) <= limit => q <= Pow2[LayerCount(above, limit)]
    BY <1>2, <1>6, <2>2, PrologueFacts
  <2>4. IsBuffer(buf') /\ Count(buf') <= Pow2[MaxDepth] /\ Len(buf') = idx + q * ChunkSize
    BY <1>7, <2>1, <2>3
  <2>5. (f.kind \in Limited => Count(above) <= limit) => q <= Pow2[merkle'.depth]
    BY <1>6, <2>1, <2>3
  <2> QED BY <1>1, <2>1, <2>3, <2>4, <2>5 DEF above, limit
<1> QED
  BY <1>8, <1>9

-----------------------------------------------------------------------------
(* The invariant holds initially and is preserved by every action.         *)

LEMMA EmptyBuffer == IsBuffer(<<>>) /\ Len(<<>>) = 0 /\ Count(<<>>) <= Pow2[MaxDepth]
<1>1. IsBuffer(<<>>) /\ Len(<<>>) = 0
  <2>1. <<>> \in Seq({}) /\ Len(<<>>) = 0
    OBVIOUS
  <2> QED BY <2>1, SeqIsBuffer
<1>2. Count(<<>>) <= 0 /\ Count(<<>>) \in Nat
  BY <1>1, ChunkSizeAssumption, CeilDivFacts DEF Count
<1>3. Pow2[MaxDepth] \in Nat
  BY Pow2Facts, MaxDepthAssumption
<1> QED
  BY <1>1, <1>2, <1>3

LEMMA InitIInv ==
  ASSUME Init
  PROVE  IInv
<1>1. /\ schema \in Schemas /\ buf = <<>> /\ frames = <<>> /\ pc = "write"
      /\ merkle = NoLoop /\ input = <<>> /\ root = <<>>
  BY DEF Init, NoRoot
<1>2. Len(frames) = 0 /\ 1..Len(frames) = {} /\ 1..(Len(frames) - 1) = {}
  BY <1>1
<1>3. TypeOK
  <2>1. NoLoop \in [layer : 0..MaxDepth, depth : 0..MaxDepth]
    BY MaxDepthAssumption DEF NoLoop
  <2>2. frames \in Seq(Call)
    BY <1>1
  <2> QED BY <1>1, <2>1, <2>2, EmptyBuffer DEF TypeOK
<1>4. IndicesNest /\ Declared /\ Waiting /\ ListsLimited /\ ListsCounted
  BY <1>1, <1>2 DEF IndicesNest, Declared, Waiting, ListsLimited, ListsCounted
<1>5. Bounded
  BY <1>1, EmptyBuffer DEF Bounded
<1>6. WriteOK /\ LayersOK /\ DoneOK /\ TopCounted
  BY <1>1 DEF WriteOK, LayersOK, DoneOK, TopCounted
<1> QED
  BY <1>3, <1>4, <1>5, <1>6 DEF IInv

LEMMA OpenStep ==
  ASSUME IInv, NEW shape \in Openable(schema), Open(shape)
  PROVE  IInv'
<1>1. /\ CanOpen(shape) /\ frames' = Append(Holder, Frame(shape, 0)) /\ root' = <<>>
      /\ schema' = schema /\ buf' = buf /\ pc' = pc /\ merkle' = merkle /\ input' = input
  BY DEF Open, NoRoot
<1>2. pc = "write"
  BY <1>1 DEF CanOpen, Writing
<1>3. Len(buf) \in Nat /\ shape \in Openable(schema) \union Writable(schema) /\ schema \in Schemas
      /\ ChunkSize \in Nat \ {0}
  BY StateFacts
<1>4. shape.kind \in Containers \union Series /\ shape \in Shape
  <2>1. shape.kind \in Containers \union Series
    BY DEF Openable, Series
  <2> QED BY <1>3, <2>1, ShapeFacts
<1>5. LimitRespected /\ shape.kind = "list" => 0 <= shape.limit
  BY <1>4 DEF Shape
<1>6. /\ frames' \in Seq(Call) /\ frames' # <<>>
      /\ Top' = Frame(shape, 0)
      /\ IndicesNest' /\ Declared' /\ Waiting' /\ ListsCounted' /\ ListsLimited'
  <2>1. 0 \in Nat /\ Len(buf') \in Nat /\ Len(buf') >= Len(buf)
    BY <1>1, <1>3
  <2> QED BY <1>1, <1>3, <1>5, <2>1, PushFacts
<1>7. Top'.idx = Len(buf) /\ Top'.num = 0 /\ Top'.kind = shape.kind /\ Top'.width = shape.width
  BY <1>6 DEF Frame
<1>8. TypeOK'
  BY <1>1, <1>6, EmptyBuffer DEF IInv, TypeOK, IsBuffer, Range
<1>9. Bounded' /\ LayersOK' /\ DoneOK'
  BY <1>1, <1>2 DEF IInv, Bounded, Count, LayersOK, DoneOK
<1>10. WriteOK'
  <2>1. Len(buf') % ChunkSize = 0
    BY <1>1, CallsAreAligned
  <2> QED BY <1>4, <1>6, <1>7, <2>1 DEF WriteOK
<1>11. TopCounted'
  <2>1. \A w \in Nat : 0 * w = 0
    OBVIOUS
  <2>2. 0 * (IF shape.width = 0 THEN ChunkSize ELSE shape.width) = 0
    BY <1>3, <1>4, <2>1 DEF Shape
  <2>3. Len(buf') = Top'.idx + Top'.num * (IF Top'.width = 0 THEN ChunkSize ELSE Top'.width)
    BY <1>1, <1>3, <1>7, <2>2
  <2> QED BY <2>3 DEF TopCounted
<1> QED
  BY <1>6, <1>8, <1>9, <1>10, <1>11 DEF IInv

\* What the end of a call to merkleize establishes, whatever made it.
LEMMA MerkleizedStep ==
  ASSUME schema' \in Schemas, IsBuffer(input'), IsBuffer(root'), frames' \in Seq(Call),
         frames' # <<>>, Len(buf') \in Nat, Top'.idx \in Nat, pc' = "layers",
         IsBuffer(buf'), Count(buf') <= Pow2[MaxDepth],
         merkle' \in [layer : 0..MaxDepth, depth : 0..MaxDepth], merkle'.layer = 0,
         NEW q \in Nat, q >= 1, Len(buf') = Top'.idx + q * ChunkSize,
         LimitRespected => q <= Pow2[merkle'.depth]
  PROVE  TypeOK' /\ Bounded' /\ WriteOK' /\ LayersOK' /\ DoneOK' /\ TopCounted'
<1>1. TypeOK'
  BY DEF TypeOK, IsBuffer, Range
<1>2. Bounded' /\ WriteOK' /\ DoneOK' /\ TopCounted'
  BY DEF Bounded, Count, WriteOK, DoneOK, TopCounted
<1>3. LayersOK'
  <2>1. merkle'.layer <= merkle'.depth /\ merkle'.depth - merkle'.layer = merkle'.depth
    BY MaxDepthAssumption
  <2>2. q \in 1..Len(buf')
    <3>1. q <= q * ChunkSize /\ q * ChunkSize \in Nat
      BY ChunkSizeAssumption
    <3> QED BY <3>1
  <2> QED BY <2>1, <2>2 DEF LayersOK
<1> QED
  BY <1>1, <1>2, <1>3

LEMMA OpenStringStep ==
  ASSUME IInv, NEW shape \in Writable(schema), NEW bs \in schema.strings, OpenString(shape, bs)
  PROVE  IInv'
<1> DEFINE parsed == IF shape.kind \in Bitlists THEN ParseBitlist(bs)
                                                ELSE [bits |-> bs, size |-> Len(bs)]
<1> DEFINE cells == Bytes(parsed.bits)
<1> DEFINE written == AppendBytes32(buf, cells)
<1> DEFINE new == Frame(shape, parsed.size)
<1>1. /\ CanOpen(shape) /\ Fits(shape, parsed.size)
      /\ frames' = Append(Holder, new)
      /\ input' = Bytes(IF shape.kind \in Bitlists THEN bs ELSE parsed.bits)
      /\ Merkleize(shape, written, Len(buf))
      /\ schema' = schema /\ root' = root
  BY DEF OpenString
<1>2. /\ schema \in Schemas /\ IsBuffer(buf) /\ Len(buf) \in Nat
      /\ ChunkSize \in Nat \ {0} /\ schema.maxCells \in Nat /\ Pow2[MaxDepth] \in Nat
      /\ Len(buf) <= schema.maxCells
      /\ shape \in Openable(schema) \union Writable(schema) /\ shape \in Shape
  <2>1. Len(buf) <= schema.maxCells
    BY <1>1 DEF CanOpen, Writing
  <2> QED BY <2>1, StateFacts, ShapeFacts
<1>3. /\ bs \in Seq(Nat) /\ parsed.bits \in Seq(Nat) /\ parsed.size \in Nat
      /\ Len(parsed.bits) <= Len(bs)
      /\ shape.kind \notin Bitlists => Len(parsed.bits) = parsed.size
      /\ shape.kind \in Bitlists
           => Len(parsed.bits) * BitsPerByte <= parsed.size + (BitsPerByte - 1)
  <2>1. CASE shape.kind \in Bitlists
    BY <1>2, <2>1, ParseBitlistFacts
  <2>2. CASE shape.kind \notin Bitlists
    <3>1. bs \in Seq(Nat)
      BY <1>2, ParseBitlistFacts
    <3> QED BY <2>2, <3>1
  <2> QED BY <2>1, <2>2
<1> HIDE DEF parsed
<1>4. /\ IsBuffer(cells) /\ Len(cells) = Len(parsed.bits) /\ IsBuffer(input')
      /\ Len(cells) \in Nat /\ Len(cells) <= Len(bs) /\ Len(bs) \in Nat
  <2>1. IsBuffer(bs) /\ IsBuffer(parsed.bits) /\ Len(bs) \in Nat
    BY <1>3, SeqIsBuffer
  <2>2. IsBuffer(cells) /\ Len(cells) = Len(parsed.bits) /\ Len(cells) \in Nat
    BY <1>3, <2>1, BytesIsBuffer, SeqIsBuffer
  <2>3. IsBuffer(input')
    BY <1>1, <2>1, BytesIsBuffer
  <2> QED BY <1>3, <2>1, <2>2, <2>3
<1> HIDE DEF cells
<1> DEFINE padded == PadToChunk(cells)
<1>5. /\ IsBuffer(padded) /\ Len(padded) = Count(cells) * ChunkSize
      /\ Len(padded) % ChunkSize = 0 /\ Count(cells) \in Nat /\ Count(cells) <= Len(cells)
      /\ Len(padded) \in Nat /\ Count(padded) = Count(cells)
  <2>1. /\ IsBuffer(padded) /\ Len(padded) = Count(cells) * ChunkSize
        /\ Len(padded) % ChunkSize = 0
    BY <1>4, PadToChunkFacts
  <2>2. Count(cells) \in Nat /\ Count(cells) <= Len(cells)
    BY <1>2, <1>4, CeilDivFacts DEF Count
  <2>3. Len(padded) \in Nat
    BY <2>1, SeqIsBuffer DEF IsBuffer
  <2> HIDE DEF padded
  <2>4. Count(padded) = Count(cells)
    BY <2>1, <2>2, CountOfChunks
  <2> QED BY <2>1, <2>2, <2>3, <2>4
<1>6. written = buf \o padded
  BY DEF AppendBytes32
<1> HIDE DEF padded, written
<1>7. Len(buf) % ChunkSize = 0
  BY <1>1, CallsAreAligned
<1>8. /\ IsBuffer(written) /\ Len(written) = Len(buf) + Len(padded)
      /\ Len(written) % ChunkSize = 0
      /\ Len(buf) <= Len(written) /\ Len(written) \in Nat
  <2>1. IsBuffer(written) /\ Len(written) = Len(buf) + Len(padded)
    BY <1>2, <1>5, <1>6, ConcatIsBuffer
  <2>2. (Len(buf) + Len(padded)) % ChunkSize = 0
    BY <1>2, <1>5, <1>7, SumOfMultiples
  <2> QED BY <1>2, <1>5, <2>1, <2>2
<1> DEFINE above == Above(written, Len(buf))
<1>9. /\ IsBuffer(above) /\ Len(above) = Len(padded)
      /\ Count(written) = (Len(buf) \div ChunkSize) + Count(above)
  <2>1. /\ IsBuffer(above) /\ Len(above) = Len(written) - Len(buf)
        /\ Count(written) = (Len(buf) \div ChunkSize) + Count(above)
    <3>1. IsBuffer(written) /\ Len(buf) \in Nat /\ Len(buf) <= Len(written)
          /\ Len(buf) % ChunkSize = 0
      BY <1>2, <1>7, <1>8
    <3> QED BY <3>1, CountAbove
  <2> HIDE DEF above
  <2> QED BY <1>2, <1>5, <1>8, <2>1
<1>10. Count(above) = Count(cells)
  BY <1>5, <1>9 DEF Count
<1>11. Count(written) <= Pow2[MaxDepth]
  <2>1. Len(buf) \div ChunkSize \in Nat /\ Len(buf) \div ChunkSize <= Len(buf)
    <3> DEFINE j == Len(buf) \div ChunkSize
    <3>1. j \in Nat /\ Len(buf) = j * ChunkSize
      BY <1>2, <1>7, Multiple, DivModFacts
    <3> HIDE DEF j
    <3>2. j <= j * ChunkSize
      BY <1>2, <3>1
    <3> QED BY <3>1, <3>2 DEF j
  <2>2. schema.maxCells + ChunkSize + Len(bs) <= Pow2[MaxDepth]
    BY <1>2, DepthAssumption
  <2>3. Len(bs) \in Nat /\ Count(cells) \in Nat /\ Count(cells) <= Len(bs)
    BY <1>4, <1>5
  <2>4. Count(written) = (Len(buf) \div ChunkSize) + Count(cells)
    BY <1>9, <1>10
  <2> HIDE DEF above
  <2>5. Count(written) <= schema.maxCells + Len(bs)
    BY <1>2, <2>1, <2>3, <2>4
  <2>6. Count(written) \in Nat
    BY <2>1, <2>3, <2>4
  <2> QED BY <1>2, <2>2, <2>3, <2>5, <2>6
<1>12. ASSUME LimitRespected, shape.kind \in Limited
       PROVE  Count(above) <= ChunkLimit(shape)
  <2>1. parsed.size <= shape.limit
    BY <1>1, <1>12 DEF Fits
  <2>2. shape.kind \in {"bytelist", "bitlist"}
    BY <1>12 DEF Limited, Writable
  <2>3. \/ shape.kind = "bytelist" /\ Len(cells) = parsed.size
        \/ shape.kind = "bitlist"
             /\ Len(cells) * BitsPerByte <= parsed.size + (BitsPerByte - 1)
    BY <1>3, <1>4, <2>2 DEF Bitlists
  <2>4. Count(cells) <= ChunkLimit(shape)
    BY <1>2, <1>3, <1>4, <2>1, <2>3, LimitFits
  <2> QED BY <1>10, <2>4
<1>13. /\ IsBuffer(buf') /\ Count(buf') <= Pow2[MaxDepth]
       /\ pc' = "layers"
       /\ merkle' \in [layer : 0..MaxDepth, depth : 0..MaxDepth]
       /\ merkle'.layer = 0
       /\ \E q \in Nat :
            /\ q >= 1 /\ Len(buf') = Len(buf) + q * ChunkSize
            /\ (shape.kind \in Limited => Count(above) <= ChunkLimit(shape))
                 => q <= Pow2[merkle'.depth]
  <2>1. ShapeOf(shape) = ShapeOf(shape)
    OBVIOUS
  <2>2. shape.kind \in ProgressiveKinds => Len(written) % ChunkSize = 0
    BY <1>8
  <2>3. IsBuffer(written) /\ Len(buf) <= Len(written)
    BY <1>8
  <2> HIDE DEF above
  <2>4. Above(written, Len(buf)) = above
    BY DEF above
  <2> QED BY <1>1, <1>2, <1>7, <1>11, <2>1, <2>2, <2>3, <2>4, MerkleizeFacts
<1>14. PICK q \in Nat :
         /\ q >= 1 /\ Len(buf') = Len(buf) + q * ChunkSize
         /\ LimitRespected => q <= Pow2[merkle'.depth]
  BY <1>12, <1>13
<1>15. Len(buf') \in Nat /\ Len(buf') >= Len(buf)
  <2>1. q * ChunkSize \in Nat
    BY <1>2
  <2> QED BY <1>2, <1>14, <2>1
<1>16. LimitRespected /\ shape.kind = "list" => parsed.size <= shape.limit
  BY <1>1 DEF Fits, Limited
<1>17. /\ frames' \in Seq(Call) /\ frames' # <<>> /\ Top' = new
       /\ IndicesNest' /\ Declared' /\ Waiting' /\ ListsCounted' /\ ListsLimited'
  BY <1>1, <1>2, <1>3, <1>15, <1>16, PushFacts
<1>18. Top'.idx = Len(buf)
  BY <1>17 DEF Frame
<1>19. TypeOK' /\ Bounded' /\ WriteOK' /\ LayersOK' /\ DoneOK' /\ TopCounted'
  <2>1. schema' \in Schemas /\ IsBuffer(root')
    BY <1>1, <1>2 DEF IInv, TypeOK, IsBuffer, Range
  <2>2. Top'.idx \in Nat /\ Len(buf') = Top'.idx + q * ChunkSize
    BY <1>2, <1>14, <1>18
  <2> QED BY <1>4, <1>13, <1>14, <1>15, <1>17, <2>1, <2>2, MerkleizedStep
<1> QED
  BY <1>17, <1>19 DEF IInv

LEMMA CloseStep ==
  ASSUME IInv, Close
  PROVE  IInv'
<1> DEFINE b == IF Top.width > 0 \/ Top.kind \notin Plain THEN PadToChunk(buf) ELSE buf
<1> DEFINE shape == ShapeOf(Top)
<1>1. /\ frames # <<>> /\ pc = "write" /\ input' = Above(buf, Top.idx)
      /\ Merkleize(Top, b, Top.idx)
      /\ schema' = schema /\ frames' = frames /\ root' = root
  BY DEF Close
<1>2. /\ schema \in Schemas /\ IsBuffer(buf) /\ Len(buf) \in Nat
      /\ ChunkSize \in Nat \ {0} /\ Top \in Call
      /\ frames \in Seq(Call)
  BY <1>1, StateFacts
<1>3. /\ Top.idx \in Nat /\ Top.num \in Nat /\ Top.width \in Nat /\ Top.limit \in Nat
      /\ Top.idx <= Len(buf) /\ Top.idx % ChunkSize = 0 /\ Top.idx <= schema.maxCells
      /\ shape \in Openable(schema) \union Writable(schema)
  BY <1>1, TopFacts
<1>4. shape.kind = Top.kind /\ shape.width = Top.width /\ shape.limit = Top.limit
      /\ ShapeOf(Top) = ShapeOf(shape)
  BY DEF ShapeOf
<1>5. Top.kind \in Containers \union Series /\ (Top.width = 0 => Len(buf) % ChunkSize = 0)
  BY <1>1 DEF IInv, WriteOK
\* Padding the buffer is padding the value.
<1>6. /\ IsBuffer(b) /\ Len(b) % ChunkSize = 0 /\ Len(b) = Count(buf) * ChunkSize
      /\ Count(buf) \in Nat /\ Len(buf) <= Len(b) /\ Len(b) \in Nat
  <2>1. b = PadToChunk(buf)
    <3>1. CASE Top.width = 0
      BY <1>2, <1>5, <3>1, PadToChunkFacts
    <3>2. CASE Top.width # 0
      <4>1. Top.width > 0
        BY <1>3, <3>2
      <4> QED BY <4>1
    <3> QED BY <3>1, <3>2
  <2>2. /\ IsBuffer(b) /\ Len(b) % ChunkSize = 0 /\ Len(b) = Count(buf) * ChunkSize
    BY <1>2, <2>1, PadToChunkFacts
  <2>3. Len(buf) <= Count(buf) * ChunkSize /\ Count(buf) \in Nat
    BY <1>2, CeilDivFacts DEF Count
  <2> HIDE DEF b
  <2>4. Len(b) \in Nat
    BY <2>2, SeqIsBuffer DEF IsBuffer
  <2> QED BY <2>2, <2>3, <2>4
<1> HIDE DEF b, shape
<1>7. Count(b) = Count(buf) /\ Count(buf) <= Pow2[MaxDepth]
  BY <1>6, CountOfChunks DEF IInv, Bounded
<1> DEFINE above == Above(b, Top.idx)
<1> DEFINE value == Above(buf, Top.idx)
<1>8. /\ IsBuffer(value) /\ Len(value) = Len(buf) - Top.idx
      /\ Count(above) = Count(value)
  <2>0. Top.idx <= Len(b)
    BY <1>2, <1>3, <1>6
  <2>1. Count(b) = (Top.idx \div ChunkSize) + Count(above)
    BY <1>3, <1>6, <2>0, CountAbove
  <2>2. /\ IsBuffer(value) /\ Len(value) = Len(buf) - Top.idx
        /\ Count(buf) = (Top.idx \div ChunkSize) + Count(value)
    BY <1>2, <1>3, CountAbove
  <2>3. Count(above) \in Nat /\ Count(value) \in Nat /\ Top.idx \div ChunkSize \in Nat
    <3>1. IsBuffer(above)
      BY <1>3, <1>6, <2>0, CountAbove
    <3>2. Len(above) \in Nat /\ Len(value) \in Nat
      BY <2>2, <3>1, SeqIsBuffer DEF IsBuffer
    <3> HIDE DEF above, value
    <3> QED BY <1>2, <1>3, <3>2, CeilDivFacts, DivModFacts DEF Count
  <2> HIDE DEF above, value
  <2>4. Count(above) = Count(value)
    <3>1. PICK j \in Nat, x \in Nat, y \in Nat :
            j = Top.idx \div ChunkSize /\ x = Count(above) /\ y = Count(value)
      BY <2>3
    <3>2. j + x = j + y
      BY <1>7, <2>1, <2>2, <3>1, Zenon
    <3> QED BY <3>1, <3>2
  <2> QED BY <2>2, <2>4, Zenon
<1>9. ASSUME LimitRespected, Top.kind \in Limited
      PROVE  Count(above) <= ChunkLimit(Top)
  <2>1. Top.kind = "list"
    BY <1>5, <1>9 DEF Limited, Containers, Series
  <2>2. Top.num <= Top.limit
    <3>1. Len(frames) \in 1..Len(frames)
      BY <1>1, StateFacts
    <3> QED BY <1>9, <2>1, <3>1 DEF IInv, ListsLimited, Top
  <2>3. Len(buf) = Top.idx + Top.num * (IF Top.width = 0 THEN ChunkSize ELSE Top.width)
    BY <1>1, <1>9, <2>1 DEF IInv, TopCounted
  <2>4. \/ Top.width = 0 /\ Len(value) = Top.num * ChunkSize
        \/ Top.width > 0 /\ Len(value) = Top.num * Top.width
    <3> HIDE DEF value
    <3>1. CASE Top.width = 0
      <4>1. Top.num * ChunkSize \in Nat /\ Len(buf) = Top.idx + Top.num * ChunkSize
        BY <1>2, <1>3, <2>3, <3>1
      <4> QED BY <1>2, <1>3, <1>8, <3>1, <4>1
    <3>2. CASE Top.width > 0
      <4>1. Top.num * Top.width \in Nat /\ Len(buf) = Top.idx + Top.num * Top.width
        BY <1>3, <2>3, <3>2
      <4> QED BY <1>2, <1>3, <1>8, <3>2, <4>1
    <3> QED BY <1>3, <3>1, <3>2
  <2>5. Count(value) <= ChunkLimit(shape)
    <3> HIDE DEF value
    <3> QED BY <1>2, <1>3, <1>4, <1>8, <2>1, <2>2, <2>4, LimitFits
  <2>6. ChunkLimit(Top) = ChunkLimit(shape)
    BY <1>2, <1>3, <1>4, ChunkLimitFacts
  <2> QED BY <1>8, <2>5, <2>6
<1>10. /\ IsBuffer(buf') /\ Count(buf') <= Pow2[MaxDepth]
       /\ pc' = "layers"
       /\ merkle' \in [layer : 0..MaxDepth, depth : 0..MaxDepth]
       /\ merkle'.layer = 0
       /\ \E q \in Nat :
            /\ q >= 1 /\ Len(buf') = Top.idx + q * ChunkSize
            /\ (Top.kind \in Limited => Count(above) <= ChunkLimit(Top))
                 => q <= Pow2[merkle'.depth]
  <2>1. Top.idx <= Len(b)
    BY <1>2, <1>3, <1>6
  <2> QED BY <1>1, <1>2, <1>3, <1>4, <1>6, <1>7, <2>1, MerkleizeFacts
<1>11. PICK q \in Nat :
         /\ q >= 1 /\ Len(buf') = Top.idx + q * ChunkSize
         /\ LimitRespected => q <= Pow2[merkle'.depth]
  BY <1>9, <1>10
<1>12. Top' = Top
  BY <1>1 DEF Top
<1>13. Len(buf') \in Nat /\ Top.idx <= Len(buf')
  <2>1. q * ChunkSize \in Nat
    BY <1>2
  <2> QED BY <1>3, <1>11, <2>1
<1>14. IndicesNest'
  <2>1. \A i \in 1..Len(frames) : frames[i].idx <= Top.idx
    BY <1>1, IndicesBelowTop
  <2>2. \A i \in 1..Len(frames) : frames[i].idx \in Nat
    <3>1. \A i \in 1..Len(frames) : frames[i] \in Call
      BY <1>2
    <3> QED BY <3>1 DEF Call
  <2> QED BY <1>1, <1>3, <1>13, <2>1, <2>2 DEF IInv, IndicesNest
<1>15. Declared' /\ Waiting' /\ ListsLimited' /\ ListsCounted'
  BY <1>1 DEF IInv, Declared, Waiting, ListsLimited, ListsCounted, Openable, Writable, ShapeOf
<1>16. TypeOK' /\ Bounded' /\ WriteOK' /\ LayersOK' /\ DoneOK' /\ TopCounted'
  <2>1. schema' \in Schemas /\ IsBuffer(root') /\ IsBuffer(input')
    BY <1>1, <1>2, <1>8 DEF IInv, TypeOK, IsBuffer, Range
  <2>2. frames' \in Seq(Call) /\ frames' # <<>> /\ Top'.idx \in Nat
        /\ Len(buf') = Top'.idx + q * ChunkSize
    BY <1>1, <1>2, <1>3, <1>11, <1>12
  <2> QED BY <1>10, <1>11, <1>13, <2>1, <2>2, MerkleizedStep
<1> QED
  BY <1>14, <1>15, <1>16 DEF IInv

\* Writing a field, an element that shares chunks with others, or a string of
\* a progressive list.
LEMMA WriteStep ==
  ASSUME IInv, frames # <<>>, NEW cells, IsBuffer(cells), Write(cells),
         \/ Top.kind \in Containers /\ Len(cells) = ChunkSize
         \/ Top.kind \in Series /\ Top.width > 0 /\ HasRoom(Top) /\ Len(cells) = Top.width
         \/ Top.kind = "pstrings" /\ Len(cells) = 0
  PROVE  IInv'
<1> DEFINE n == Len(frames)
<1> DEFINE width == Len(cells)
<1>1. /\ Writing /\ frames' = Holder /\ buf' = buf \o cells
      /\ schema' = schema /\ pc' = pc /\ merkle' = merkle /\ input' = input /\ root' = root
  BY DEF Write
<1>2. pc = "write" /\ Len(buf) <= schema.maxCells
  BY <1>1 DEF Writing
<1>3. /\ schema \in Schemas /\ IsBuffer(buf) /\ Len(buf) \in Nat /\ n \in Nat /\ n \in 1..n
      /\ ChunkSize \in Nat \ {0} /\ Top \in Call /\ schema.maxCells \in Nat
      /\ schema.maxCells + ChunkSize <= Pow2[MaxDepth] /\ Pow2[MaxDepth] \in Nat
      /\ Top = frames[n] /\ frames \in Seq(Call)
  BY StateFacts DEF Top
<1>4. /\ Top.idx \in Nat /\ Top.num \in Nat /\ Top.width \in Nat /\ Top.limit \in Nat
      /\ Top.idx <= Len(buf) /\ Top.width <= ChunkSize
      /\ Top.kind \in Containers => Top.width = 0
  BY TopFacts
<1>5. width \in Nat /\ width <= ChunkSize
  BY <1>3, <1>4, SeqIsBuffer DEF IsBuffer
<1> HIDE DEF width
<1>6. /\ IsBuffer(buf') /\ Len(buf') = Len(buf) + width /\ Len(buf') \in Nat
      /\ Len(buf') >= Len(buf)
  <2>1. IsBuffer(buf') /\ Len(buf') = Len(buf) + width
    BY <1>1, <1>3, ConcatIsBuffer DEF width
  <2> QED BY <1>3, <1>5, <2>1
<1>7. /\ Holder \in Seq(Call) /\ Len(Holder) = n
      /\ \A i \in 1..(n - 1) : Holder[i] = frames[i]
      /\ \A i \in 1..n : /\ Holder[i].idx = frames[i].idx
                         /\ ShapeOf(Holder[i]) = ShapeOf(frames[i])
      /\ Top.kind \in Series => Holder[n].num = Top.num + 1
  BY <1>1, HolderFacts
<1> HIDE DEF n
<1>8. /\ frames' \in Seq(Call) /\ Len(frames') = n /\ frames' # <<>>
      /\ \A i \in 1..n : frames'[i] = Holder[i]
  <2>1. n # 0
    BY <1>3
  <2>2. Len(frames') = n /\ frames' \in Seq(Call)
    BY <1>1, <1>7
  <2>3. frames' # <<>>
    BY <2>1, <2>2
  <2> QED BY <1>1, <2>2, <2>3
<1>9. \A i \in 1..n : /\ frames'[i].idx = frames[i].idx
                      /\ frames'[i].kind = frames[i].kind
                      /\ frames'[i].width = frames[i].width
                      /\ frames'[i].limit = frames[i].limit
                      /\ ShapeOf(frames'[i]) = ShapeOf(frames[i])
  BY <1>7, <1>8 DEF ShapeOf
<1>10. /\ Top' = Holder[n] /\ Top'.idx = Top.idx /\ Top'.kind = Top.kind
       /\ Top'.width = Top.width /\ Top'.limit = Top.limit
  BY <1>3, <1>8, <1>9 DEF Top
<1>11. \A i \in 1..n : i \in 1..(n - 1) \/ i = n
  BY <1>3
<1>12. TypeOK'
  BY <1>1, <1>6, <1>8 DEF IInv, TypeOK, IsBuffer, Range
<1>13. IndicesNest'
  <2>1. ASSUME NEW i \in 1..n
        PROVE  /\ frames'[i].idx % ChunkSize = 0
               /\ frames'[i].idx <= Len(buf')
               /\ i > 1 => frames'[i - 1].idx <= frames'[i].idx
    <3>1. /\ frames[i].idx % ChunkSize = 0 /\ frames[i].idx <= Len(buf)
          /\ i > 1 => frames[i - 1].idx <= frames[i].idx
      BY DEF IInv, IndicesNest, n
    <3>2. i > 1 => i - 1 \in 1..n
      BY <1>3
    <3>3. frames[i].idx \in Nat
      <4>1. frames[i] \in Call
        BY <1>3 DEF n
      <4> QED BY <4>1 DEF Call
    <3>4. frames'[i].idx % ChunkSize = 0 /\ frames'[i].idx <= Len(buf')
      BY <1>3, <1>6, <1>9, <3>1, <3>3
    <3>5. i > 1 => frames'[i - 1].idx <= frames'[i].idx
      BY <1>9, <3>1, <3>2
    <3> QED BY <3>4, <3>5
  <2>2. frames'[1].idx = 0
    <3>1. 1 \in 1..n
      BY <1>3
    <3>2. frames[1].idx = 0
      BY DEF IInv, IndicesNest
    <3> QED BY <1>9, <3>1, <3>2
  <2> QED BY <1>8, <2>1, <2>2 DEF IndicesNest
<1>14. Declared'
  <2>1. ASSUME NEW i \in 1..n
        PROVE  /\ ShapeOf(frames'[i]) \in Openable(schema) \union Writable(schema)
               /\ frames'[i].idx <= schema.maxCells
    <3>1. /\ ShapeOf(frames[i]) \in Openable(schema) \union Writable(schema)
          /\ frames[i].idx <= schema.maxCells
      BY DEF IInv, Declared, n
    <3> QED BY <1>9, <3>1
  <2> QED BY <1>1, <1>8, <2>1 DEF Declared, Openable, Writable, ShapeOf
<1>15. Waiting'
  <2>1. \A i \in 1..(n - 1) : i \in 1..n
    BY <1>3
  <2> QED BY <1>8, <1>9, <2>1 DEF IInv, Waiting, n
<1>16. Bounded'
  <2>1. Count(buf') <= Len(buf')
    BY <1>3, <1>6, CeilDivFacts DEF Count
  <2>2. Count(buf') \in Nat
    BY <1>3, <1>6, CeilDivFacts DEF Count
  <2>3. Len(buf') <= schema.maxCells + ChunkSize
    BY <1>2, <1>3, <1>5, <1>6
  <2>4. Count(buf') <= Pow2[MaxDepth]
    BY <1>3, <1>6, <2>1, <2>2, <2>3
  <2> QED BY <2>4 DEF Bounded, Count
<1>17. WriteOK'
  <2>1. Top.kind \in Containers \union Series /\ (Top.width = 0 => Len(buf) % ChunkSize = 0)
    BY <1>2 DEF IInv, WriteOK
  <2>2. Top.width = 0 => Len(buf') % ChunkSize = 0
    <3> SUFFICES ASSUME Top.width = 0 PROVE Len(buf') % ChunkSize = 0
      OBVIOUS
    <3>1. width = ChunkSize \/ width = 0
      BY <1>4 DEF width
    <3>2. ChunkSize % ChunkSize = 0
      <4>1. ChunkSize = 1 * ChunkSize /\ 1 \in Nat
        BY <1>3
      <4> QED BY <1>3, <4>1, Multiple
    <3>3. CASE width = ChunkSize
      <4>1. Len(buf) % ChunkSize = 0
        BY <2>1
      <4>2. Len(buf') = Len(buf) + ChunkSize
        BY <1>6, <3>3
      <4>3. Len(buf) \in Nat /\ ChunkSize \in Nat /\ ChunkSize \in Nat \ {0}
        BY <1>3
      <4>4. (Len(buf) + ChunkSize) % ChunkSize = 0
        BY <3>2, <4>1, <4>3, SumOfMultiples
      <4> QED BY <4>2, <4>4
    <3>4. CASE width = 0
      <4>1. Len(buf') = Len(buf)
        BY <1>3, <1>6, <3>4
      <4> QED BY <2>1, <4>1
    <3> QED BY <3>1, <3>3, <3>4
  <2> QED BY <1>8, <1>10, <2>1, <2>2 DEF WriteOK
<1>18. LayersOK' /\ DoneOK'
  BY <1>1, <1>2 DEF LayersOK, DoneOK
<1>19. Top.kind = "list" => /\ Top.width > 0 /\ HasRoom(Top)
                            /\ width = Top.width /\ Top'.num = Top.num + 1
  <2>1. Top.kind = "list" => Top.kind \notin Containers /\ Top.kind \in Series
    BY DEF Containers, Series
  <2> QED BY <1>7, <1>10, <2>1 DEF width
<1>20. ListsLimited'
  <2> SUFFICES ASSUME LimitRespected, NEW i \in 1..n, frames'[i].kind = "list"
               PROVE  frames'[i].num <= frames'[i].limit
    BY <1>8 DEF ListsLimited
  <2>1. CASE i \in 1..(n - 1)
    <3>1. frames'[i] = frames[i]
      BY <1>7, <1>8, <2>1
    <3> QED BY <3>1 DEF IInv, ListsLimited, n
  <2>2. CASE i = n
    <3>1. Top.kind = "list" /\ frames'[n] = Top'
      BY <1>3, <1>8, <1>9, <1>10, <2>2
    <3>2. Top.num < Top.limit
      BY <1>19, <3>1 DEF HasRoom
    <3>3. Top'.num <= Top'.limit
      BY <1>4, <1>10, <1>19, <3>1, <3>2
    <3> QED BY <2>2, <3>1, <3>3
  <2> QED BY <1>11, <2>1, <2>2, Zenon
<1>21. ListsCounted'
  <2> SUFFICES ASSUME LimitRespected, NEW i \in 1..(n - 1), frames'[i].kind = "list"
               PROVE  frames'[i + 1].idx + ChunkSize = frames'[i].idx + frames'[i].num * ChunkSize
    BY <1>8 DEF ListsCounted
  <2>1. frames'[i] = frames[i] /\ frames'[i + 1].idx = frames[i + 1].idx
    <3>1. i \in 1..n /\ i + 1 \in 1..n
      BY <1>3
    <3> QED BY <1>7, <1>8, <1>9, <3>1
  <2> QED BY <2>1 DEF IInv, ListsCounted, n
<1>22. TopCounted'
  <2> SUFFICES ASSUME LimitRespected, Top'.kind = "list"
               PROVE  Len(buf') = Top'.idx
                        + Top'.num * (IF Top'.width = 0 THEN ChunkSize ELSE Top'.width)
    BY DEF TopCounted
  <2>1. Top.kind = "list"
    BY <1>10
  <2>2. Len(buf) = Top.idx + Top.num * Top.width
    BY <1>2, <1>4, <1>19, <2>1 DEF IInv, TopCounted
  <2>3. (Top.num + 1) * Top.width = Top.num * Top.width + Top.width /\ Top.num * Top.width \in Nat
    <3>1. \A k, d \in Nat : (k + 1) * d = k * d + d /\ k * d \in Nat
      OBVIOUS
    <3> QED BY <1>4, <3>1
  <2>4. Len(buf') = Top.idx + (Top.num + 1) * Top.width
    <3>1. PICK p \in Nat : p = Top.num * Top.width /\ (Top.num + 1) * Top.width = p + Top.width
      BY <2>3
    <3>2. Len(buf) = Top.idx + p /\ Len(buf') = Len(buf) + Top.width
      BY <1>6, <1>19, <2>1, <2>2, <3>1
    <3>3. Len(buf') = Top.idx + (p + Top.width)
      BY <1>4, <3>2
    <3> QED BY <3>1, <3>3
  <2>5. Top'.width # 0
    BY <1>4, <1>10, <1>19, <2>1
  <2> QED BY <1>10, <1>19, <2>1, <2>4, <2>5
<1> QED
  BY <1>12, <1>13, <1>14, <1>15, <1>16, <1>17, <1>18, <1>20, <1>21, <1>22 DEF IInv

\* Fields: numbers, strings of at most one chunk, and elements of a series;
\* and an element that is passed over.
LEMMA PutStep ==
  ASSUME IInv,
         \/ \E n \in schema.numbers : PutNumber(n) \/ AppendNumber(n)
         \/ \E bs \in schema.strings : PutShort(bs)
         \/ PassString
  PROVE  IInv'
<1>1. ASSUME NEW n \in schema.numbers, PutNumber(n) PROVE IInv'
  <2>1. frames # <<>> /\ Top.kind \in Containers /\ Write(NumberChunk(n))
    BY <1>1 DEF PutNumber
  <2>2. IsBuffer(NumberChunk(n)) /\ Len(NumberChunk(n)) = ChunkSize
    BY CellsAreBuffers
  <2> QED BY <2>1, <2>2, WriteStep
<1>2. ASSUME NEW n \in schema.numbers, AppendNumber(n) PROVE IInv'
  <2>1. /\ frames # <<>> /\ Top.kind \in Series /\ Top.width > 0 /\ HasRoom(Top)
        /\ Write(NumberCells(n, Top.width))
    BY <1>2 DEF AppendNumber
  <2>2. Top.width \in Nat /\ n \in Nat
    <3>1. schema.numbers \in SUBSET Nat
      BY StateFacts DEF Schema
    <3> QED BY <2>1, <3>1, TopFacts
  <2>3. IsBuffer(NumberCells(n, Top.width)) /\ Len(NumberCells(n, Top.width)) = Top.width
    BY <2>2, CellsAreBuffers
  <2> QED BY <2>1, <2>3, WriteStep
<1>3. ASSUME NEW bs \in schema.strings, PutShort(bs) PROVE IInv'
  <2> DEFINE cells == PadToChunk(Bytes(bs))
  <2>1. /\ frames # <<>> /\ Top.kind \in Containers /\ Len(bs) \in 1..ChunkSize /\ Write(cells)
    BY <1>3 DEF PutShort
  <2>2. bs \in Seq(Nat) /\ ChunkSize \in Nat \ {0}
    BY StateFacts, ParseBitlistFacts
  <2>3. IsBuffer(Bytes(bs)) /\ Len(Bytes(bs)) = Len(bs)
    BY <2>2, SeqIsBuffer, BytesIsBuffer
  <2>4. Count(Bytes(bs)) = 1
    <3>1. Count(Bytes(bs)) \in Nat /\ Len(bs) <= Count(Bytes(bs)) * ChunkSize
          /\ (Len(bs) <= 1 * ChunkSize => Count(Bytes(bs)) <= 1)
      BY <2>1, <2>2, <2>3, CeilDivFacts DEF Count
    <3>2. Len(bs) <= 1 * ChunkSize /\ Len(bs) >= 1
      BY <2>1, <2>2
    <3>3. CASE Count(Bytes(bs)) = 0
      <4>1. Len(bs) <= 0 * ChunkSize /\ 0 * ChunkSize = 0
        BY <2>2, <3>1, <3>3
      <4> QED BY <3>2, <4>1
    <3> QED BY <3>1, <3>2, <3>3
  <2>5. IsBuffer(cells) /\ Len(cells) = ChunkSize
    <3>1. IsBuffer(cells) /\ Len(cells) = 1 * ChunkSize
      BY <2>3, <2>4, PadToChunkFacts
    <3> QED BY <2>2, <3>1
  <2> HIDE DEF cells
  <2> QED BY <2>1, <2>5, WriteStep
<1>4. ASSUME PassString PROVE IInv'
  <2>1. frames # <<>> /\ Top.kind = "pstrings" /\ Write(<<>>)
    BY <1>4 DEF PassString
  <2>2. IsBuffer(<<>>) /\ Len(<<>>) = 0
    BY DEF IsBuffer
  <2> QED BY <2>1, <2>2, WriteStep
<1> QED
  BY <1>1, <1>2, <1>3, <1>4

\* The calls do not change and the buffer stays above the innermost index.
LEMMA SameCalls ==
  ASSUME IInv, frames # <<>>, frames' = frames, schema' = schema,
         Len(buf') \in Nat, Top.idx <= Len(buf')
  PROVE  IndicesNest' /\ Declared' /\ Waiting' /\ ListsLimited' /\ ListsCounted'
<1>1. \A i \in 1..Len(frames) : frames[i].idx <= Top.idx
  BY IndicesBelowTop
<1>2. \A i \in 1..Len(frames) : frames[i].idx \in Nat
  <2>1. \A i \in 1..Len(frames) : frames[i] \in Call
    BY StateFacts
  <2> QED BY <2>1 DEF Call
<1>3. Top.idx \in Nat
  BY TopFacts
<1>4. IndicesNest'
  BY <1>1, <1>2, <1>3 DEF IInv, IndicesNest
<1>5. Declared' /\ Waiting' /\ ListsLimited' /\ ListsCounted'
  BY DEF IInv, Declared, Waiting, ListsLimited, ListsCounted, Openable, Writable, ShapeOf
<1> QED
  BY <1>4, <1>5

LEMMA PutInactiveStep ==
  ASSUME IInv, PutInactive
  PROVE  IInv'
<1>1. /\ frames # <<>> /\ Top.kind = "progressive" /\ pc = "write"
      /\ Len(buf) + ChunkSize <= schema.maxCells /\ buf' = buf \o ZeroHash[0]
      /\ schema' = schema /\ frames' = frames /\ pc' = pc /\ merkle' = merkle
      /\ input' = input /\ root' = root
  BY DEF PutInactive, Writing
<1>2. /\ IsBuffer(buf) /\ Len(buf) \in Nat /\ ChunkSize \in Nat \ {0} /\ MaxDepth \in Nat
      /\ schema.maxCells \in Nat /\ schema.maxCells + ChunkSize <= Pow2[MaxDepth]
      /\ Pow2[MaxDepth] \in Nat
  BY StateFacts
<1>3. Top.idx \in Nat /\ Top.idx <= Len(buf) /\ Top.width = 0
  BY <1>1, TopFacts DEF Containers
<1>4. /\ IsBuffer(buf') /\ Len(buf') = Len(buf) + ChunkSize
      /\ Len(buf') \in Nat /\ Top.idx <= Len(buf')
  <2>1. IsBuffer(ZeroHash[0]) /\ Len(ZeroHash[0]) = ChunkSize
    BY <1>2, ZeroHashIsChunk
  <2>2. IsBuffer(buf') /\ Len(buf') = Len(buf) + ChunkSize
    BY <1>1, <1>2, <2>1, ConcatIsBuffer
  <2> QED BY <1>2, <1>3, <2>2
<1>5. Top' = Top
  BY <1>1 DEF Top
<1>6. TypeOK'
  BY <1>1, <1>4 DEF IInv, TypeOK, IsBuffer, Range
<1>7. IndicesNest' /\ Declared' /\ Waiting' /\ ListsLimited' /\ ListsCounted'
  BY <1>1, <1>4, SameCalls
<1>8. Bounded'
  <2>1. Count(buf') <= Len(buf') /\ Count(buf') \in Nat
    BY <1>2, <1>4, CeilDivFacts DEF Count
  <2>2. Len(buf') <= schema.maxCells
    BY <1>1, <1>4
  <2>3. Count(buf') <= Pow2[MaxDepth]
    BY <1>2, <1>4, <2>1, <2>2
  <2> QED BY <2>3 DEF Bounded, Count
<1>9. WriteOK'
  <2>1. Len(buf) % ChunkSize = 0 /\ Top.kind \in Containers \union Series
    BY <1>1, <1>3 DEF IInv, WriteOK
  <2>2. ChunkSize % ChunkSize = 0
    <3>1. ChunkSize = 1 * ChunkSize /\ 1 \in Nat
      BY <1>2
    <3> QED BY <1>2, <3>1, Multiple
  <2>3. Len(buf') % ChunkSize = 0
    <3>1. (Len(buf) + ChunkSize) % ChunkSize = 0
      BY <1>2, <2>1, <2>2, SumOfMultiples
    <3> QED BY <1>4, <3>1, Zenon
  <2> QED BY <1>1, <1>5, <2>1, <2>3 DEF WriteOK
<1>10. LayersOK' /\ DoneOK' /\ TopCounted'
  BY <1>1, <1>5 DEF LayersOK, DoneOK, TopCounted
<1> QED
  BY <1>6, <1>7, <1>8, <1>9, <1>10 DEF IInv

\* The chunks above the index while the layers are hashed.
LEMMA LayersFacts ==
  ASSUME IInv, pc = "layers"
  PROVE  /\ frames # <<>>
         /\ merkle.layer \in 0..MaxDepth /\ merkle.depth \in 0..MaxDepth
         /\ merkle.layer <= merkle.depth
         /\ merkle = [layer |-> merkle.layer, depth |-> merkle.depth]
         /\ \E q \in Nat : /\ q >= 1 /\ Len(buf) = Top.idx + q * ChunkSize
                           /\ LimitRespected => q <= Pow2[merkle.depth - merkle.layer]
<1>1. merkle \in [layer : 0..MaxDepth, depth : 0..MaxDepth]
  BY DEF IInv, TypeOK
<1>2. /\ frames # <<>> /\ merkle.layer <= merkle.depth
      /\ \E q \in 1..Len(buf) :
           /\ Len(buf) = Top.idx + q * ChunkSize
           /\ LimitRespected => q <= Pow2[merkle.depth - merkle.layer]
  BY DEF IInv, LayersOK
<1>3. \A q \in 1..Len(buf) : q \in Nat /\ q >= 1
  BY StateFacts
<1> QED
  BY <1>1, <1>2, <1>3

LEMMA LayerStep ==
  ASSUME IInv, Layer
  PROVE  IInv'
<1> DEFINE s == Above(buf, Top.idx)
<1>1. /\ pc = "layers" /\ merkle.layer < merkle.depth
      /\ buf' = Below(buf, Top.idx) \o HashLayer(s, merkle.layer)
      /\ merkle' = [merkle EXCEPT !.layer = @ + 1]
      /\ schema' = schema /\ frames' = frames /\ pc' = pc /\ input' = input /\ root' = root
  BY DEF Layer
<1>2. /\ IsBuffer(buf) /\ Len(buf) \in Nat /\ ChunkSize \in Nat \ {0} /\ MaxDepth \in Nat
      /\ Pow2[MaxDepth] \in Nat
  BY StateFacts
<1>3. PICK q \in Nat :
        /\ frames # <<>>
        /\ merkle.layer \in 0..MaxDepth /\ merkle.depth \in 0..MaxDepth
        /\ merkle = [layer |-> merkle.layer, depth |-> merkle.depth]
        /\ q >= 1 /\ Len(buf) = Top.idx + q * ChunkSize
        /\ LimitRespected => q <= Pow2[merkle.depth - merkle.layer]
  BY <1>1, LayersFacts
<1>4. Top.idx \in Nat /\ Top.idx <= Len(buf) /\ Top.idx % ChunkSize = 0
  BY <1>3, TopFacts
<1>5. IsBuffer(s) /\ Len(s) = q * ChunkSize
  <2>1. IsBuffer(s) /\ Len(s) = Len(buf) - Top.idx
    BY <1>2, <1>4, AboveBelow
  <2>2. q * ChunkSize \in Nat
    BY <1>2
  <2> HIDE DEF s
  <2> QED BY <1>3, <1>4, <2>1, <2>2
<1> HIDE DEF s
<1>6. PICK p \in Nat :
        /\ p >= 1 /\ p <= q /\ 2 * p <= q + 1
        /\ IsBuffer(HashLayer(s, merkle.layer))
        /\ Len(HashLayer(s, merkle.layer)) = p * ChunkSize
  BY <1>3, <1>5, HashLayerFacts
<1>7. /\ IsBuffer(buf') /\ Len(buf') = Top.idx + p * ChunkSize
      /\ p * ChunkSize \in Nat /\ Len(buf') \in Nat /\ Top.idx <= Len(buf')
      /\ p \in 1..Len(buf')
  <2>1. IsBuffer(Below(buf, Top.idx)) /\ Len(Below(buf, Top.idx)) = Top.idx
    BY <1>2, <1>4, AboveBelow
  <2>2. IsBuffer(buf') /\ Len(buf') = Top.idx + p * ChunkSize
    BY <1>1, <1>6, <2>1, ConcatIsBuffer
  <2>3. p * ChunkSize \in Nat /\ p <= p * ChunkSize
    BY <1>2
  <2> QED BY <1>4, <1>6, <2>2, <2>3
<1>8. /\ merkle' \in [layer : 0..MaxDepth, depth : 0..MaxDepth]
      /\ merkle'.layer = merkle.layer + 1 /\ merkle'.depth = merkle.depth
  <2>1. merkle' = [layer |-> merkle.layer + 1, depth |-> merkle.depth]
    BY <1>1, <1>3
  <2>2. merkle.layer + 1 \in 0..MaxDepth
    BY <1>1, <1>2, <1>3
  <2> QED BY <1>3, <2>1, <2>2
<1>9. Top' = Top
  BY <1>1 DEF Top
<1>10. TypeOK'
  BY <1>1, <1>7, <1>8 DEF IInv, TypeOK, IsBuffer, Range
<1>11. IndicesNest' /\ Declared' /\ Waiting' /\ ListsLimited' /\ ListsCounted'
  BY <1>1, <1>3, <1>7, SameCalls
<1>12. Bounded'
  <2>1. PICK j \in Nat : Top.idx = j * ChunkSize
    BY <1>2, <1>4, Multiple, DivModFacts
  <2>2. /\ Len(buf) = (j + q) * ChunkSize /\ Len(buf') = (j + p) * ChunkSize
        /\ j + q \in Nat /\ j + p \in Nat
    <3>1. /\ (j + q) * ChunkSize = j * ChunkSize + q * ChunkSize
          /\ (j + p) * ChunkSize = j * ChunkSize + p * ChunkSize
          /\ j + q \in Nat /\ j + p \in Nat
      BY <1>2
    <3> QED BY <1>3, <1>7, <2>1, <3>1, Zenon
  <2>3. Count(buf) = j + q /\ Count(buf') = j + p
    BY <1>2, <1>7, <2>2, CountOfChunks
  <2>4. j + q <= Pow2[MaxDepth]
    BY <2>3 DEF IInv, Bounded
  <2>5. j + p <= Pow2[MaxDepth]
    BY <1>2, <1>6, <2>4
  <2> QED BY <2>3, <2>5 DEF Bounded, Count
<1>13. WriteOK' /\ DoneOK' /\ TopCounted'
  BY <1>1 DEF WriteOK, DoneOK, TopCounted
<1>14. LayersOK'
  <2>1. LimitRespected => p <= Pow2[merkle'.depth - merkle'.layer]
    <3> SUFFICES ASSUME LimitRespected PROVE p <= Pow2[merkle'.depth - merkle'.layer]
      OBVIOUS
    <3> DEFINE left == merkle.depth - merkle.layer
    <3>1. left \in 1..MaxDepth /\ merkle'.depth - merkle'.layer = left - 1
      BY <1>1, <1>2, <1>3, <1>8
    <3>2. q <= Pow2[left]
      BY <1>3
    <3> HIDE DEF left
    <3>3. PICK w \in Nat : w = Pow2[left - 1] /\ Pow2[left] = 2 * w
      BY <3>1, Pow2Facts
    <3>4. p <= w
      BY <1>6, <3>2, <3>3
    <3> QED BY <3>1, <3>3, <3>4
  <2>2. merkle'.layer <= merkle'.depth
    BY <1>1, <1>3, <1>8
  <2>3. frames' # <<>> /\ Len(buf') = Top'.idx + p * ChunkSize
    BY <1>1, <1>3, <1>7, <1>9
  <2> QED BY <1>7, <2>1, <2>2, <2>3 DEF LayersOK
<1> QED
  BY <1>10, <1>11, <1>12, <1>13, <1>14 DEF IInv

LEMMA ReturnStep ==
  ASSUME IInv, Return
  PROVE  IInv'
<1> DEFINE n == Len(frames)
<1>1. /\ pc = "layers" /\ merkle.layer = merkle.depth
      /\ buf' = IF Top.kind \in Plain THEN buf ELSE MixIn(buf, Top.idx, Top.num)
      /\ frames' = Callers /\ pc' = (IF n = 1 THEN "done" ELSE "write")
      /\ merkle' = NoLoop /\ input' = <<>> /\ schema' = schema /\ root' = root
  BY DEF Return
<1>2. /\ IsBuffer(buf) /\ Len(buf) \in Nat /\ ChunkSize \in Nat \ {0} /\ MaxDepth \in Nat
      /\ n \in Nat /\ frames \in Seq(Call)
  BY StateFacts
<1>3. PICK q \in Nat :
        /\ frames # <<>>
        /\ q >= 1 /\ Len(buf) = Top.idx + q * ChunkSize
        /\ LimitRespected => q <= Pow2[merkle.depth - merkle.layer]
  BY <1>1, LayersFacts
<1>4. LimitRespected => q = 1
  <2>1. merkle.depth - merkle.layer = 0 /\ Pow2[0] = 1
    BY <1>1, LayersFacts, Pow2Facts
  <2> QED BY <1>3, <2>1
<1>5. Top.idx \in Nat /\ Top.idx % ChunkSize = 0 /\ n \in 1..n /\ Top = frames[n]
  BY <1>3, StateFacts, TopFacts DEF Top
<1>6. IsBuffer(buf') /\ Len(buf') = Len(buf)
  BY <1>1, <1>2, MixInFacts
<1>7. /\ frames' \in Seq(Call) /\ Len(frames') = n - 1
      /\ \A i \in 1..(n - 1) : frames'[i] = frames[i]
  BY <1>1, <1>3, CallersFacts
<1> HIDE DEF n
<1>8. TypeOK'
  <2>1. NoLoop \in [layer : 0..MaxDepth, depth : 0..MaxDepth]
    BY <1>2 DEF NoLoop
  <2> QED BY <1>1, <1>6, <1>7, <2>1, EmptyBuffer DEF IInv, TypeOK, IsBuffer, Range
<1>9. \A i \in 1..(n - 1) : /\ i \in 1..n /\ i + 1 \in 1..n
                            /\ i > 1 => i - 1 \in 1..(n - 1)
  BY <1>2
<1>10. IndicesNest'
  <2>1. ASSUME NEW i \in 1..(n - 1)
        PROVE  /\ frames'[i].idx % ChunkSize = 0
               /\ frames'[i].idx <= Len(buf')
               /\ i > 1 => frames'[i - 1].idx <= frames'[i].idx
    <3>1. /\ frames[i].idx % ChunkSize = 0 /\ frames[i].idx <= Len(buf)
          /\ i > 1 => frames[i - 1].idx <= frames[i].idx
      BY <1>9 DEF IInv, IndicesNest, n
    <3>2. frames'[i] = frames[i] /\ (i > 1 => frames'[i - 1] = frames[i - 1])
      BY <1>7, <1>9
    <3> QED BY <1>6, <3>1, <3>2
  <2>2. frames' # <<>> => frames'[1].idx = 0
    <3> SUFFICES ASSUME frames' # <<>> PROVE frames'[1].idx = 0
      OBVIOUS
    <3>1. 1 \in 1..(n - 1)
      BY <1>2, <1>7
    <3>2. frames[1].idx = 0
      BY <1>3 DEF IInv, IndicesNest
    <3> QED BY <1>7, <3>1, <3>2
  <2> QED BY <1>7, <2>1, <2>2 DEF IndicesNest
<1>11. Declared'
  <2>1. ASSUME NEW i \in 1..(n - 1)
        PROVE  /\ ShapeOf(frames'[i]) \in Openable(schema) \union Writable(schema)
               /\ frames'[i].idx <= schema.maxCells
    BY <1>7, <1>9 DEF IInv, Declared, n
  <2> QED BY <1>1, <1>7, <2>1 DEF Declared, Openable, Writable, ShapeOf
<1>12. \A i \in 1..(n - 1) : frames[i].width = 0 /\ frames[i].kind \in Containers \union Series
  BY DEF IInv, Waiting, n
<1>13. Waiting'
  <2>1. \A i \in 1..(n - 1 - 1) : i \in 1..(n - 1)
    BY <1>2
  <2> QED BY <1>7, <1>12, <2>1 DEF Waiting
<1>14. Bounded'
  BY <1>6 DEF IInv, Bounded, Count
<1>15. frames' # <<>> => /\ n - 1 \in 1..(n - 1) /\ n - 1 + 1 = n /\ n # 1
                         /\ Top' = frames[n - 1] /\ Top' \in Call
  <2> SUFFICES ASSUME frames' # <<>>
               PROVE  /\ n - 1 \in 1..(n - 1) /\ n - 1 + 1 = n /\ n # 1
                      /\ Top' = frames[n - 1] /\ Top' \in Call
    OBVIOUS
  <2>1. n - 1 \in 1..(n - 1) /\ n - 1 + 1 = n /\ n # 1
    BY <1>2, <1>7
  <2>2. Top' = frames'[n - 1]
    BY <1>7 DEF Top
  <2> QED BY <1>7, <2>1, <2>2
<1>16. frames' = <<>> => n = 1
  BY <1>2, <1>7
<1>17. WriteOK'
  <2>1. pc' = "write" => frames' # <<>>
    BY <1>1, <1>2, <1>7
  <2>2. frames' # <<>> => Top'.kind \in Containers \union Series
    BY <1>12, <1>15
  <2>3. Len(buf') % ChunkSize = 0
    <3>1. PICK j \in Nat : Top.idx = j * ChunkSize
      BY <1>2, <1>5, Multiple, DivModFacts
    <3>2. Len(buf) = (j + q) * ChunkSize /\ j + q \in Nat
      BY <1>2, <1>3, <3>1
    <3> QED BY <1>2, <1>6, <3>2, CountOfChunks
  <2> QED BY <2>1, <2>2, <2>3 DEF WriteOK
<1>18. LayersOK'
  BY <1>1 DEF LayersOK
<1>19. DoneOK'
  <2>1. n = 1 => frames' = <<>>
    BY <1>7
  <2> QED BY <1>1, <2>1 DEF DoneOK
<1>20. ListsLimited'
  BY <1>7, <1>9 DEF IInv, ListsLimited, n
<1>21. ListsCounted'
  <2> SUFFICES ASSUME LimitRespected, NEW i \in 1..(n - 1 - 1), frames'[i].kind = "list"
               PROVE  frames'[i + 1].idx + ChunkSize = frames'[i].idx + frames'[i].num * ChunkSize
    BY <1>7 DEF ListsCounted
  <2>1. i \in 1..(n - 1) /\ i + 1 \in 1..(n - 1)
    BY <1>2
  <2> QED BY <1>7, <2>1 DEF IInv, ListsCounted, n
\* The element that the list has counted is now written: it is one chunk.
<1>22. TopCounted'
  <2> SUFFICES ASSUME LimitRespected, frames' # <<>>, Top'.kind = "list"
               PROVE  Len(buf') = Top'.idx
                        + Top'.num * (IF Top'.width = 0 THEN ChunkSize ELSE Top'.width)
    BY DEF TopCounted
  <2>1. Top'.width = 0
    BY <1>12, <1>15
  <2>2. frames[n].idx + ChunkSize = Top'.idx + Top'.num * ChunkSize
    <3>1. frames[n - 1].kind = "list" /\ n - 1 \in 1..(n - 1) /\ n - 1 + 1 = n
      BY <1>15
    <3>2. frames[n - 1 + 1].idx + ChunkSize = frames[n - 1].idx + frames[n - 1].num * ChunkSize
      BY <3>1 DEF IInv, ListsCounted, n
    <3> QED BY <1>15, <3>1, <3>2
  <2>3. Len(buf') = Top.idx + ChunkSize
    BY <1>2, <1>3, <1>4, <1>6
  <2> QED BY <1>5, <2>1, <2>2, <2>3
<1> QED
  BY <1>8, <1>10, <1>11, <1>13, <1>14, <1>17, <1>18, <1>19, <1>20, <1>21, <1>22 DEF IInv

LEMMA FinishStep ==
  ASSUME IInv, Finish
  PROVE  IInv'
<1>1. /\ pc = "done" /\ buf' = <<>> /\ pc' = "write"
      /\ root' = IF Len(buf) >= ChunkSize THEN Above(buf, Len(buf) - ChunkSize) ELSE ZeroChunk
      /\ schema' = schema /\ frames' = frames /\ merkle' = merkle /\ input' = input
  BY DEF Finish
<1>2. IsBuffer(buf) /\ Len(buf) \in Nat /\ ChunkSize \in Nat \ {0}
  BY StateFacts
<1>3. frames = <<>>
  BY <1>1 DEF IInv, DoneOK
<1>4. IsBuffer(root')
  <2>1. CASE Len(buf) >= ChunkSize
    <3>1. Len(buf) - ChunkSize \in Nat /\ Len(buf) - ChunkSize <= Len(buf)
      BY <1>2, <2>1
    <3> QED BY <1>1, <1>2, <2>1, <3>1, AboveBelow
  <2>2. CASE ~ (Len(buf) >= ChunkSize)
    BY <1>1, <1>2, <2>2, ZerosIsBuffer DEF ZeroChunk
  <2> QED BY <2>1, <2>2
<1>5. TypeOK'
  BY <1>1, <1>4, EmptyBuffer DEF IInv, TypeOK, IsBuffer, Range
<1>6. Len(frames') = 0 /\ 1..Len(frames') = {} /\ 1..(Len(frames') - 1) = {} /\ frames' = <<>>
  BY <1>1, <1>3
<1>7. IndicesNest' /\ Declared' /\ Waiting' /\ ListsLimited' /\ ListsCounted'
  BY <1>6 DEF IndicesNest, Declared, Waiting, ListsLimited, ListsCounted
<1>8. Bounded'
  BY <1>1, EmptyBuffer DEF Bounded, Count
<1>9. WriteOK' /\ LayersOK' /\ DoneOK' /\ TopCounted'
  BY <1>1, <1>6 DEF WriteOK, LayersOK, DoneOK, TopCounted
<1> QED
  BY <1>5, <1>7, <1>8, <1>9 DEF IInv

LEMMA StutterStep ==
  ASSUME IInv, UNCHANGED vars
  PROVE  IInv'
<1>1. /\ schema' = schema /\ buf' = buf /\ frames' = frames /\ pc' = pc
      /\ merkle' = merkle /\ input' = input /\ root' = root
  BY DEF vars
<1>2. Top' = Top
  BY <1>1 DEF Top
<1>3. TypeOK' /\ IndicesNest'
  BY <1>1 DEF IInv, TypeOK, IsBuffer, Range, IndicesNest
<1>4. Declared' /\ Waiting' /\ ListsLimited' /\ ListsCounted'
  BY <1>1 DEF IInv, Declared, Waiting, ListsLimited, ListsCounted, Openable, Writable, ShapeOf
<1>5. Bounded' /\ WriteOK' /\ LayersOK' /\ DoneOK' /\ TopCounted'
  BY <1>1, <1>2 DEF IInv, Bounded, Count, WriteOK, LayersOK, DoneOK, TopCounted
<1> QED
  BY <1>3, <1>4, <1>5 DEF IInv

LEMMA NextStep ==
  ASSUME IInv, [Next]_vars
  PROVE  IInv'
<1>1. ASSUME NEW shape \in Openable(schema), Open(shape) PROVE IInv'
  BY <1>1, OpenStep
<1>2. ASSUME NEW shape \in Writable(schema), NEW bs \in schema.strings, OpenString(shape, bs)
      PROVE  IInv'
  BY <1>2, OpenStringStep
<1>3. ASSUME NEW n \in schema.numbers, PutNumber(n) \/ AppendNumber(n) PROVE IInv'
  BY <1>3, PutStep
<1>4. ASSUME NEW bs \in schema.strings, PutShort(bs) PROVE IInv'
  BY <1>4, PutStep
<1>5. CASE PutInactive
  BY <1>5, PutInactiveStep
<1>6. CASE Close
  BY <1>6, CloseStep
<1>7. CASE Layer
  BY <1>7, LayerStep
<1>8. CASE Return
  BY <1>8, ReturnStep
<1>9. CASE Finish
  BY <1>9, FinishStep
<1>10. CASE UNCHANGED vars
  BY <1>10, StutterStep
<1>11. CASE PassString
  BY <1>11, PutStep
<1> QED
  BY <1>1, <1>2, <1>3, <1>4, <1>5, <1>6, <1>7, <1>8, <1>9, <1>10, <1>11 DEF Next

-----------------------------------------------------------------------------
(* Theorems.                                                               *)

\* The inductive invariant holds in every reachable state.
THEOREM HasherInvariant == Spec => []IInv
<1>1. Init => IInv
  BY InitIInv
<1>2. IInv /\ [Next]_vars => IInv'
  BY NextStep
<1> QED
  BY <1>1, <1>2, PTL DEF Spec

\* Types: the buffer is a sequence of cells, the stack a sequence of calls,
\* and the layer loop stays within the table of zero hashes, so
\* merkleize_inner never indexes past its end.
THEOREM HasherTypeCorrect == Spec => []TypeOK
<1>1. IInv => TypeOK
  BY DEF IInv
<1> QED
  BY <1>1, HasherInvariant, PTL

\* The indices taken by index() nest and lie on chunk boundaries, whether or
\* not the caller respects the declared limits.
THEOREM IndicesAlwaysNest == Spec => []IndicesNest
<1>1. IInv => IndicesNest
  BY DEF IInv
<1> QED
  BY <1>1, HasherInvariant, PTL

LEMMA LayersFromInvariant ==
  ASSUME IInv, LimitRespected
  PROVE  LayersSuffice /\ OneChunkLeft
<1> SUFFICES ASSUME pc = "layers"
             PROVE  /\ merkle.layer <= merkle.depth
                    /\ Len(buf) > Top.idx
                    /\ Len(buf) - Top.idx <= Pow2[merkle.depth - merkle.layer] * ChunkSize
                    /\ merkle.layer = merkle.depth => Len(buf) = Top.idx + ChunkSize
  BY DEF LayersSuffice, OneChunkLeft
<1>1. PICK q \in Nat :
        /\ frames # <<>>
        /\ merkle.layer \in 0..MaxDepth /\ merkle.depth \in 0..MaxDepth
        /\ merkle.layer <= merkle.depth
        /\ q >= 1 /\ Len(buf) = Top.idx + q * ChunkSize
        /\ q <= Pow2[merkle.depth - merkle.layer]
  BY LayersFacts
<1>2. Top.idx \in Nat /\ ChunkSize \in Nat \ {0} /\ MaxDepth \in Nat
  BY <1>1, StateFacts, TopFacts
<1> DEFINE left == merkle.depth - merkle.layer
<1>3. left \in 0..MaxDepth
  BY <1>1, <1>2
<1>4. PICK w \in Nat : w = Pow2[left] /\ q <= w
  BY <1>1, <1>3, Pow2Facts
<1>5. PICK u \in Nat : u = q * ChunkSize /\ u >= 1 /\ u <= w * ChunkSize
  <2>1. q * ChunkSize \in Nat /\ q * ChunkSize >= 1
    BY <1>1, <1>2
  <2>2. q * ChunkSize <= w * ChunkSize
    BY <1>2, <1>4
  <2> QED BY <2>1, <2>2
<1>6. Len(buf) = Top.idx + u
  BY <1>1, <1>5
<1>7. Len(buf) > Top.idx /\ Len(buf) - Top.idx <= w * ChunkSize
  BY <1>2, <1>5, <1>6
<1>8. ASSUME merkle.layer = merkle.depth PROVE Len(buf) = Top.idx + ChunkSize
  <2>1. left = 0
    BY <1>1, <1>8
  <2>2. w = 1
    BY <1>4, <2>1, Pow2Facts
  <2>3. q = 1
    BY <1>1, <1>4, <2>2
  <2> QED BY <1>1, <1>2, <2>3
<1> QED
  BY <1>1, <1>4, <1>7, <1>8

\* When no caller exceeds a declared limit, the layers that merkleize_inner
\* computes from the limit are enough for what has been written, for every
\* list, byte list and bit list, nested to any depth.
THEOREM LayersAlwaysSuffice == LimitRespected => (Spec => []LayersSuffice)
<1> SUFFICES ASSUME LimitRespected PROVE Spec => []LayersSuffice
  OBVIOUS
<1>1. IInv => LayersSuffice
  BY LayersFromInvariant
<1> QED
  BY <1>1, HasherInvariant, PTL

\* Then the debug assertion after the loop holds: every value leaves exactly
\* one chunk behind.
THEOREM OneChunkAlwaysLeft == LimitRespected => (Spec => []OneChunkLeft)
<1> SUFFICES ASSUME LimitRespected PROVE Spec => []OneChunkLeft
  OBVIOUS
<1>1. IInv => OneChunkLeft
  BY LayersFromInvariant
<1> QED
  BY <1>1, HasherInvariant, PTL

-----------------------------------------------------------------------------
(* Hashing a layer in place.                                               *)

\* The buffer after p iterations of the inner loop: the first p chunks are
\* digests, the rest is as it was.
Partly(s, p) ==
  [k \in 1..Len(s) |-> IF k <= p * ChunkSize THEN HashPairs(s)[k] ELSE s[k]]

\* A part of a sequence depends on nothing else.
LEMMA SubSeqSame ==
  ASSUME NEW s, NEW t, NEW m \in Int, NEW n \in Int, \A i \in m..n : s[i] = t[i]
  PROVE  SubSeq(s, m, n) = SubSeq(t, m, n)
<1> DEFINE S == {s[i] : i \in m..n}
<1>1. (\A i \in m..n : s[i] \in S) /\ (\A i \in m..n : t[i] \in S)
  OBVIOUS
<1> HIDE DEF S
<1>2. /\ SubSeq(s, m, n) \in Seq(S)
      /\ Len(SubSeq(s, m, n)) = IF m <= n THEN n - m + 1 ELSE 0
      /\ \A i \in 1..(n - m + 1) : SubSeq(s, m, n)[i] = s[m + i - 1]
  BY <1>1, SubSeqProperties
<1>3. /\ SubSeq(t, m, n) \in Seq(S)
      /\ Len(SubSeq(t, m, n)) = IF m <= n THEN n - m + 1 ELSE 0
      /\ \A i \in 1..(n - m + 1) : SubSeq(t, m, n)[i] = t[m + i - 1]
  BY <1>1, SubSeqProperties
<1>4. \A i \in 1..(n - m + 1) : SubSeq(s, m, n)[i] = SubSeq(t, m, n)[i]
  BY <1>2, <1>3
<1>5. 1..Len(SubSeq(s, m, n)) = 1..(n - m + 1)
  BY <1>2
<1> QED BY <1>2, <1>3, <1>4, <1>5, SeqEqual

LEMMA PairsFit ==
  ASSUME NEW s, IsBuffer(s)
  PROVE  /\ Len(s) \in Nat /\ Pairs(s) \in Nat
         /\ Pairs(s) * (2 * ChunkSize) <= Len(s)
         /\ Pairs(s) * ChunkSize \in Nat
         /\ Pairs(s) * ChunkSize <= Len(s)
<1>1. ChunkSize \in Nat \ {0} /\ Len(s) \in Nat
  BY SeqIsBuffer, ChunkSizeAssumption DEF IsBuffer
<1>2. 2 * ChunkSize \in Nat \ {0}
  BY <1>1
<1>3. Pairs(s) \in Nat /\ Pairs(s) * (2 * ChunkSize) <= Len(s)
  <2>1. PICK q \in Nat, r \in Nat :
          q = Len(s) \div (2 * ChunkSize) /\ Len(s) = q * (2 * ChunkSize) + r
    BY <1>1, <1>2, DivModFacts
  <2>2. Pairs(s) = q
    BY <2>1 DEF Pairs
  <2>3. q * (2 * ChunkSize) \in Nat
    BY <1>2
  <2>4. q * (2 * ChunkSize) <= Len(s)
    BY <1>1, <2>1, <2>3
  <2> QED BY <2>2, <2>4
<1>4. Pairs(s) * ChunkSize \in Nat /\ Pairs(s) * ChunkSize <= Pairs(s) * (2 * ChunkSize)
  <2>1. \A x, y \in Nat : x * y \in Nat /\ x * (2 * y) = x * y + x * y
    OBVIOUS
  <2> QED BY <1>1, <1>3, <2>1
<1> QED BY <1>1, <1>3, <1>4

\* The two chunks of the next pair have not been overwritten.
LEMMA PairUntouched ==
  ASSUME NEW s, IsBuffer(s), NEW p \in Nat, p < Pairs(s), NEW j \in {2 * p, 2 * p + 1}
  PROVE  ChunkAt(Partly(s, p), j) = ChunkAt(s, j)
<1>1. ChunkSize \in Nat \ {0} /\ Len(s) \in Nat /\ Pairs(s) \in Nat
  BY PairsFit, ChunkSizeAssumption
<1>2. /\ j * ChunkSize \in Nat /\ (j + 1) * ChunkSize \in Nat
      /\ (j + 1) * ChunkSize = j * ChunkSize + ChunkSize
      /\ p * ChunkSize \in Nat /\ p * ChunkSize <= j * ChunkSize
  <2>1. \A x, y, z \in Nat : x * z \in Nat /\ (x + 1) * z = x * z + z /\ (x <= y => x * z <= y * z)
    OBVIOUS
  <2>2. j \in Nat /\ p <= j
    OBVIOUS
  <2> QED BY <1>1, <2>1, <2>2
<1>3. (j + 1) * ChunkSize <= Len(s)
  <2>1. \A x, y, z \in Nat : x <= y => x * z <= y * z
    OBVIOUS
  <2>2. j + 1 \in Nat /\ 2 * Pairs(s) \in Nat /\ j + 1 <= 2 * Pairs(s)
    BY <1>1
  <2>3. (j + 1) * ChunkSize <= (2 * Pairs(s)) * ChunkSize
    BY <1>1, <2>1, <2>2
  <2>4. (2 * Pairs(s)) * ChunkSize = Pairs(s) * (2 * ChunkSize)
    BY <1>1
  <2>5. (2 * Pairs(s)) * ChunkSize \in Nat
    BY <1>1
  <2> HIDE DEF Pairs
  <2> QED BY <1>1, <1>2, <2>3, <2>4, <2>5, PairsFit
<1> DEFINE a == j * ChunkSize
<1> DEFINE b == (j + 1) * ChunkSize
<1>4. \A k \in (a + 1)..b : k \in 1..Len(s) /\ Partly(s, p)[k] = s[k]
  BY <1>1, <1>2, <1>3 DEF Partly
<1>5. a + 1 \in Int /\ b \in Int
  BY <1>2
<1> HIDE DEF a, b
<1>6. SubSeq(Partly(s, p), a + 1, b) = SubSeq(s, a + 1, b)
  BY <1>4, <1>5, SubSeqSame
<1> QED BY <1>6 DEF ChunkAt, a, b

\* What HashPairs puts into chunk p.
LEMMA DigestOfPair ==
  ASSUME NEW s, IsBuffer(s), NEW p \in Nat, p < Pairs(s),
         NEW k \in (p * ChunkSize + 1)..((p + 1) * ChunkSize)
  PROVE  /\ k \in 1..(Pairs(s) * ChunkSize)
         /\ HashPairs(s)[k] = Digest(ChunkAt(s, 2 * p), ChunkAt(s, 2 * p + 1))[k - p * ChunkSize]
<1>1. ChunkSize \in Nat \ {0} /\ Len(s) \in Nat /\ Pairs(s) \in Nat
  BY PairsFit, ChunkSizeAssumption
<1>2. /\ p * ChunkSize \in Nat /\ (p + 1) * ChunkSize = p * ChunkSize + ChunkSize
      /\ (p + 1) * ChunkSize <= Pairs(s) * ChunkSize /\ Pairs(s) * ChunkSize \in Nat
  <2>1. \A x, y, z \in Nat : x * z \in Nat /\ (x + 1) * z = x * z + z /\ (x <= y => x * z <= y * z)
    OBVIOUS
  <2>2. p + 1 \in Nat /\ p + 1 <= Pairs(s)
    BY <1>1
  <2> HIDE DEF Pairs
  <2> QED BY <1>1, <2>1, <2>2
<1>3. k \in 1..(Pairs(s) * ChunkSize)
  BY <1>1, <1>2
<1> DEFINE r == k - p * ChunkSize - 1
<1>4. r \in Nat /\ r < ChunkSize /\ k - 1 = p * ChunkSize + r /\ r + 1 = k - p * ChunkSize
  BY <1>1, <1>2
<1> HIDE DEF r
<1>5. (k - 1) \div ChunkSize = p /\ (k - 1) % ChunkSize = r
  BY <1>1, <1>4, DivUnique
<1>6. k \in 1..((Len(s) \div (2 * ChunkSize)) * ChunkSize)
  BY <1>3 DEF Pairs
<1> QED BY <1>3, <1>4, <1>5, <1>6 DEF HashPairs

\* The invariant of the inner loop.
LEMMA PairStored ==
  ASSUME NEW s, IsBuffer(s), NEW p \in Nat, p < Pairs(s)
  PROVE  HashPair(Partly(s, p), p) = Partly(s, p + 1)
<1>1. ChunkSize \in Nat \ {0} /\ Len(s) \in Nat
  BY PairsFit, ChunkSizeAssumption
<1>2. p * ChunkSize \in Nat /\ (p + 1) * ChunkSize = p * ChunkSize + ChunkSize
  BY <1>1
<1> DEFINE a == p * ChunkSize
<1> DEFINE b == (p + 1) * ChunkSize
<1> DEFINE hash == Digest(ChunkAt(s, 2 * p), ChunkAt(s, 2 * p + 1))
<1>3. Len(Partly(s, p)) = Len(s)
  BY <1>1, FunctionIsBuffer DEF Partly
<1>4. /\ ChunkAt(Partly(s, p), 2 * p) = ChunkAt(s, 2 * p)
      /\ ChunkAt(Partly(s, p), 2 * p + 1) = ChunkAt(s, 2 * p + 1)
  BY PairUntouched
<1>5. HashPair(Partly(s, p), p) =
        [k \in 1..Len(s) |-> IF k \in (a + 1)..b THEN hash[k - a] ELSE Partly(s, p)[k]]
  BY <1>3, <1>4 DEF HashPair
<1>6. \A k \in (a + 1)..b : HashPairs(s)[k] = hash[k - a]
  BY DigestOfPair
<1>7. \A k \in 1..Len(s) :
        (IF k \in (a + 1)..b THEN hash[k - a] ELSE Partly(s, p)[k]) = Partly(s, p + 1)[k]
  <2> SUFFICES ASSUME NEW k \in 1..Len(s)
               PROVE  (IF k \in (a + 1)..b THEN hash[k - a] ELSE Partly(s, p)[k])
                        = Partly(s, p + 1)[k]
    OBVIOUS
  <2>1. /\ Partly(s, p)[k] = IF k <= a THEN HashPairs(s)[k] ELSE s[k]
        /\ Partly(s, p + 1)[k] = IF k <= b THEN HashPairs(s)[k] ELSE s[k]
    BY DEF Partly
  <2>2. a \in Nat /\ b \in Nat /\ a <= b
    BY <1>1, <1>2
  <2> HIDE DEF a, b, hash
  <2> QED BY <1>6, <2>1, <2>2
<1>8. Partly(s, p + 1) = [k \in 1..Len(s) |-> Partly(s, p + 1)[k]]
  BY DEF Partly
<1> HIDE DEF a, b, hash
<1> QED BY <1>5, <1>7, <1>8

\* The inner loop as a function of the number of iterations.
LEMMA LoopIsPartly ==
  ASSUME NEW s, IsBuffer(s), NEW f,
         f = [p \in 0..Pairs(s) |-> IF p = 0 THEN s ELSE HashPair(f[p - 1], p - 1)]
  PROVE  \A p \in 0..Pairs(s) : f[p] = Partly(s, p)
<1>1. ChunkSize \in Nat \ {0} /\ Len(s) \in Nat /\ Pairs(s) \in Nat
  BY PairsFit, ChunkSizeAssumption
<1>2. f[0] = Partly(s, 0)
  <2>1. f[0] = s
    BY <1>1
  <2>2. s = [k \in 1..Len(s) |-> s[k]]
    BY DEF IsBuffer
  <2>3. 0 * ChunkSize = 0 /\ \A k \in 1..Len(s) : ~(k <= 0)
    BY <1>1
  <2> QED BY <2>1, <2>2, <2>3 DEF Partly
<1>3. \A p \in 0..Pairs(s) : p < Pairs(s) /\ f[p] = Partly(s, p) => f[p + 1] = Partly(s, p + 1)
  <2> SUFFICES ASSUME NEW p \in 0..Pairs(s), p < Pairs(s), f[p] = Partly(s, p)
               PROVE  f[p + 1] = Partly(s, p + 1)
    OBVIOUS
  <2>1. p + 1 \in 0..Pairs(s) /\ p + 1 # 0 /\ (p + 1) - 1 = p
    BY <1>1
  <2>2. f[p + 1] = HashPair(f[p], p)
    BY <2>1
  <2> QED BY <1>1, <2>2, PairStored
<1> DEFINE Wrong == {p \in 0..Pairs(s) : f[p] # Partly(s, p)}
<1>4. SUFFICES ASSUME Wrong # {} PROVE FALSE
  OBVIOUS
<1>5. PICK p \in Wrong : \A q \in Wrong : p <= q
  <2>1. Wrong \subseteq Nat
    BY <1>1
  <2> HIDE DEF Wrong
  <2> QED BY <1>4, <2>1, LeastNat
<1>6. p # 0 /\ p \in 0..Pairs(s) /\ p \in Nat /\ p - 1 \in 0..Pairs(s) /\ p - 1 < Pairs(s)
  BY <1>1, <1>2
<1>7. p - 1 \notin Wrong
  BY <1>5, <1>6
<1>8. f[p] = Partly(s, p)
  BY <1>3, <1>6, <1>7
<1> QED BY <1>8

\* Hashing the pairs in place and hashing them into a scratch buffer.
THEOREM InPlaceIsBatch ==
  ASSUME NEW s, IsBuffer(s)
  PROVE  HashPairsInPlace(s) = HashPairs(s)
<1>1. ChunkSize \in Nat \ {0} /\ Len(s) \in Nat /\ Pairs(s) \in Nat
  BY PairsFit, ChunkSizeAssumption
<1> DEFINE Loop(f) ==
      f = [p \in 0..Pairs(s) |-> IF p = 0 THEN s ELSE HashPair(f[p - 1], p - 1)]
<1> DEFINE g == [p \in 0..Pairs(s) |-> Partly(s, p)]
<1>2. Loop(g)
  <2>1. Partly(s, 0) = s
    <3>1. s = [k \in 1..Len(s) |-> s[k]]
      BY DEF IsBuffer
    <3>2. 0 * ChunkSize = 0 /\ \A k \in 1..Len(s) : ~(k <= 0)
      BY <1>1
    <3> QED BY <3>1, <3>2 DEF Partly
  <2>2. \A p \in 0..Pairs(s) : p # 0 =>
          /\ p - 1 \in 0..Pairs(s)
          /\ Partly(s, p) = HashPair(Partly(s, p - 1), p - 1)
    <3> SUFFICES ASSUME NEW p \in 0..Pairs(s), p # 0
                 PROVE  /\ p - 1 \in 0..Pairs(s)
                        /\ Partly(s, p) = HashPair(Partly(s, p - 1), p - 1)
      OBVIOUS
    <3>1. p - 1 \in Nat /\ p - 1 < Pairs(s) /\ (p - 1) + 1 = p /\ p - 1 \in 0..Pairs(s)
      BY <1>1
    <3> QED BY <3>1, PairStored
  <2> QED BY <2>1, <2>2
<1> DEFINE after == CHOOSE f : Loop(f)
<1>3. Loop(after)
  <2> HIDE DEF Loop, g
  <2> QED BY <1>2
<1>4. \A p \in 0..Pairs(s) : after[p] = Partly(s, p)
  <2> HIDE DEF after
  <2> QED BY <1>3, LoopIsPartly
<1>5. HashPairsInPlace(s) = Below(after[Pairs(s)], Pairs(s) * ChunkSize)
  BY DEF HashPairsInPlace
<1>6. after[Pairs(s)] = Partly(s, Pairs(s))
  BY <1>1, <1>4
<1> HIDE DEF after
<1>7. Below(Partly(s, Pairs(s)), Pairs(s) * ChunkSize) = HashPairs(s)
  <2> DEFINE n == Pairs(s) * ChunkSize
  <2>1. n \in Nat /\ n <= Len(s)
    BY PairsFit
  <2>2. HashPairs(s) = [k \in 1..n |-> HashPairs(s)[k]]
    BY DEF HashPairs, Pairs
  <2>3. Len(Partly(s, Pairs(s))) = Len(s)
    BY <1>1, FunctionIsBuffer DEF Partly
  <2>4. \A k \in 1..n : Partly(s, Pairs(s))[k] = HashPairs(s)[k]
    BY <1>1, <2>1 DEF Partly
  <2> HIDE DEF n
  <2>5. Below(Partly(s, Pairs(s)), n) = SubSeq(Partly(s, Pairs(s)), 1, n)
    BY <2>1, <2>3 DEF Below
  <2>6. SubSeq(Partly(s, Pairs(s)), 1, n) = SubSeq(HashPairs(s), 1, n)
    BY <2>1, <2>4, SubSeqSame
  <2>7. SubSeq(HashPairs(s), 1, n) = HashPairs(s)
    <3>1. IsBuffer(HashPairs(s)) /\ Len(HashPairs(s)) = n
      BY <2>1, <2>2, FunctionIsBuffer
    <3>2. HashPairs(s) \in Seq(Range(HashPairs(s)))
      BY <3>1 DEF IsBuffer
    <3> QED BY <3>1, <3>2, SubSeqFull
  <2> QED BY <2>5, <2>6, <2>7 DEF n
<1> QED BY <1>5, <1>6, <1>7

-----------------------------------------------------------------------------
\* What lies above an index to which something has been appended.
LEMMA AboveAppended ==
  ASSUME NEW s, NEW t, IsBuffer(s), IsBuffer(t)
  PROVE  Above(s \o t, Len(s)) = t
<1> DEFINE S == Range(s) \union Range(t)
<1>1. s \in Seq(S) /\ t \in Seq(S)
  BY DEF IsBuffer, Range
<1> HIDE DEF S
<1>2. Len(s \o t) = Len(s) + Len(t) /\ Len(s) \in Nat /\ Len(t) \in Nat
  BY <1>1
<1>3. \A i \in 1..Len(t) : (s \o t)[Len(s) + i] = t[i]
  BY <1>1
<1> DEFINE u == SubSeq(s \o t, Len(s) + 1, Len(s \o t))
<1>4. \A i \in (Len(s) + 1)..Len(s \o t) : (s \o t)[i] \in S
  BY <1>1
<1>5. /\ u \in Seq(S)
      /\ Len(u) = IF Len(s) + 1 <= Len(s \o t) THEN Len(s \o t) - (Len(s) + 1) + 1 ELSE 0
      /\ \A i \in 1..(Len(s \o t) - (Len(s) + 1) + 1) : u[i] = (s \o t)[Len(s) + 1 + i - 1]
  <2>1. Len(s) + 1 \in Int /\ Len(s \o t) \in Int
    BY <1>2
  <2> QED BY <1>4, <2>1, SubSeqProperties
<1> HIDE DEF u
<1>6. Len(u) = Len(t) /\ \A i \in 1..Len(t) : u[i] = t[i]
  <2>1. Len(u) = Len(t)
    BY <1>2, <1>5
  <2>2. Len(s \o t) - (Len(s) + 1) + 1 = Len(t)
    BY <1>2
  <2>3. \A i \in 1..Len(t) : Len(s) + 1 + i - 1 = Len(s) + i
    BY <1>2
  <2> QED BY <1>3, <1>5, <2>1, <2>2, <2>3
<1>7. u = t
  BY <1>1, <1>5, <1>6, SeqEqual
<1> QED BY <1>7 DEF Above, u

LEMMA LayerInPlace ==
  ASSUME IInv, Layer
  PROVE  Above(buf', Top.idx) = HashPairsInPlace(EvenLayer(Above(buf, Top.idx), merkle.layer))
<1> DEFINE s == Above(buf, Top.idx)
<1> DEFINE t == EvenLayer(s, merkle.layer)
<1>1. pc = "layers" /\ buf' = Below(buf, Top.idx) \o HashLayer(s, merkle.layer)
  BY DEF Layer
<1>2. IsBuffer(buf) /\ Len(buf) \in Nat
  BY StateFacts
<1>3. PICK q \in Nat :
        /\ frames # <<>> /\ merkle.layer \in 0..MaxDepth
        /\ q >= 1 /\ Len(buf) = Top.idx + q * ChunkSize
  BY <1>1, LayersFacts
<1>4. Top.idx \in Nat /\ Top.idx <= Len(buf)
  BY <1>3, TopFacts
<1>5. /\ IsBuffer(s) /\ Len(s) = Len(buf) - Top.idx
      /\ IsBuffer(Below(buf, Top.idx)) /\ Len(Below(buf, Top.idx)) = Top.idx
  BY <1>2, <1>4, AboveBelow
<1> HIDE DEF s
<1>6. Len(s) = q * ChunkSize
  <2>1. q * ChunkSize \in Nat
    BY ChunkSizeAssumption
  <2> QED BY <1>3, <1>4, <1>5, <2>1
<1>7. IsBuffer(t)
  BY <1>3, <1>5, ZeroHashIsChunk, ConcatIsBuffer DEF EvenLayer
<1>8. IsBuffer(HashLayer(s, merkle.layer))
  BY <1>3, <1>5, <1>6, HashLayerFacts
<1>9. Above(buf', Top.idx) = HashLayer(s, merkle.layer)
  BY <1>1, <1>5, <1>8, AboveAppended
<1>10. HashLayer(s, merkle.layer) = HashPairs(t)
  BY DEF HashLayer
<1> HIDE DEF t
<1>11. HashPairs(t) = HashPairsInPlace(t)
  BY <1>7, InPlaceIsBatch
<1> QED BY <1>9, <1>10, <1>11 DEF s, t

\* In every behaviour of the hasher Java and Zig leave the same layers as the
\* runtimes with a scratch buffer, and so the same roots.
THEOREM InPlaceAlwaysAgrees == Spec => InPlaceAgrees
<1>1. IInv /\ [Next]_vars =>
        [Layer => Above(buf', Top.idx) =
                    HashPairsInPlace(EvenLayer(Above(buf, Top.idx), merkle.layer))]_vars
  BY LayerInPlace
<1> QED
  BY <1>1, HasherInvariant, PTL DEF Spec, InPlaceAgrees
=============================================================================
