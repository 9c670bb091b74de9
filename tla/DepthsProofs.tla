---------------------------- MODULE DepthsProofs ----------------------------
(***************************************************************************)
(* Proofs about Depths, for every width of words and integers, as 64 and   *)
(* 32 in the code, every size of a chunk that is a power of two, and every *)
(* limit that fits a word: which runtimes find the depth of a list's bound *)
(* and which do not.                                                       *)
(***************************************************************************)
EXTENDS Depths, CompilerProofs

-----------------------------------------------------------------------------
(* Division.                                                               *)

\* A number is as far below a multiple of d as CeilDiv says, and no lower.
LEMMA CeilDivIs ==
  ASSUME NEW n \in Nat, NEW d \in Nat \ {0}
  PROVE  /\ CeilDiv(n, d) \in Nat /\ CeilDiv(n, d) <= n
         /\ \A m \in Nat : CeilDiv(n, d) <= m <=> n <= m * d
<1> DEFINE q == (n + d - 1) \div d
           r == (n + d - 1) % d
<1>1. q \in Nat /\ r \in Nat /\ r < d /\ n + d - 1 = q * d + r
  <2>1. n + d - 1 \in Nat
    OBVIOUS
  <2> QED BY <2>1, DivMod
<1> HIDE DEF q, r
<1>2. n <= q * d
  BY <1>1
<1>3. ASSUME NEW m \in Nat PROVE q <= m <=> n <= m * d
  <2>1. CASE q <= m
    <3>1. q * d <= m * d
      BY <1>1, <2>1
    <3> QED BY <1>1, <1>2, <2>1, <3>1
  <2>2. CASE m < q
    <3>1. (q - m) * d >= d
      BY <1>1, <2>2
    <3> QED BY <1>1, <2>2, <3>1
  <2> QED BY <1>1, <2>1, <2>2
<1>4. q <= n
  <2>1. n <= n * d
    OBVIOUS
  <2> QED BY <1>3, <2>1
<1> QED BY <1>1, <1>3, <1>4 DEF CeilDiv, q

-----------------------------------------------------------------------------
(* Powers of two.                                                          *)

Powers(f, n) ==
  /\ f[0] = 1
  /\ \A k \in 1..n : f[k] = 2 * f[k - 1]

LEMMA PowersExist ==
  ASSUME NEW n \in Nat PROVE \E f : Powers(f, n)
<1> DEFINE Bad == {k \in Nat : ~\E f : Powers(f, k)}
<1> SUFFICES ASSUME Bad # {} PROVE FALSE
  OBVIOUS
<1>1. PICK k \in Bad : \A j \in Bad : k <= j
  BY LeastOf
<1>2. CASE k = 0
  <2>1. Powers([j \in {0} |-> 1], 0)
    BY DEF Powers
  <2> QED BY <1>1, <1>2, <2>1
<1>3. CASE k # 0
  <2>1. k - 1 \in Nat /\ ~(k <= k - 1) /\ k \in Nat
    BY <1>1, <1>3
  <2>2. PICK f : Powers(f, k - 1)
    BY <1>1, <2>1
  <2> DEFINE g == [j \in 0..k |-> IF j = k THEN 2 * f[k - 1] ELSE f[j]]
  <2>3. g[0] = 1
    BY <1>3, <2>1, <2>2 DEF Powers
  <2>4. ASSUME NEW j \in 1..k PROVE g[j] = 2 * g[j - 1]
    <3>1. g[j - 1] = f[j - 1]
      BY <2>1
    <3>2. CASE j = k
      BY <2>1, <3>1, <3>2
    <3>3. CASE j # k
      <4>1. j \in 1..(k - 1) /\ j \in 0..k
        BY <2>1, <3>3
      <4>2. g[j] = f[j]
        BY <3>3, <4>1
      <4>3. f[j] = 2 * f[j - 1]
        BY <2>2, <4>1 DEF Powers
      <4> QED BY <3>1, <4>2, <4>3
    <3> QED BY <3>2, <3>3
  <2>5. Powers(g, k)
    BY <2>3, <2>4 DEF Powers
  <2> QED BY <1>1, <2>5
<1> QED BY <1>2, <1>3

LEMMA PowersSame ==
  ASSUME NEW f, NEW g, NEW n \in Nat, NEW m \in Nat, Powers(f, n), Powers(g, m)
  PROVE  \A k \in Nat : k <= n /\ k <= m => f[k] = g[k]
<1> DEFINE Bad == {k \in Nat : k <= n /\ k <= m /\ f[k] # g[k]}
<1> SUFFICES ASSUME Bad # {} PROVE FALSE
  OBVIOUS
<1>1. PICK k \in Bad : \A j \in Bad : k <= j
  BY LeastOf
<1>2. k # 0
  BY <1>1 DEF Powers
<1>3. k - 1 \in Nat /\ ~(k <= k - 1) /\ k - 1 <= n /\ k - 1 <= m /\ k \in 1..n /\ k \in 1..m
  BY <1>1, <1>2
<1>4. f[k - 1] = g[k - 1]
  BY <1>1, <1>3
<1>5. f[k] = 2 * f[k - 1] /\ g[k] = 2 * g[k - 1]
  BY <1>3 DEF Powers
<1> QED BY <1>1, <1>4, <1>5

LEMMA Pow2Defined ==
  Pow2 = [n \in Nat |-> IF n = 0 THEN 1 ELSE 2 * Pow2[n - 1]]
<1> DEFINE Of(n) == CHOOSE f : Powers(f, n)
           p == [n \in Nat |-> Of(n)[n]]
<1>1. \A n \in Nat : Powers(Of(n), n)
  BY PowersExist
<1>2. Of(0)[0] = 1
  BY <1>1 DEF Powers
<1>3. ASSUME NEW n \in Nat, n # 0 PROVE Of(n)[n] = 2 * Of(n - 1)[n - 1]
  <2>1. n - 1 \in Nat /\ n \in 1..n /\ n - 1 <= n
    BY <1>3
  <2>2. Powers(Of(n), n) /\ Powers(Of(n - 1), n - 1)
    BY <1>1, <2>1
  <2> HIDE DEF Of
  <2>3. Of(n)[n - 1] = Of(n - 1)[n - 1]
    BY <2>1, <2>2, PowersSame
  <2> QED BY <2>1, <2>2, <2>3 DEF Powers
<1> HIDE DEF Of
<1>4. p = [n \in Nat |-> IF n = 0 THEN 1 ELSE 2 * p[n - 1]]
  <2>1. \A n \in Nat : p[n] = IF n = 0 THEN 1 ELSE 2 * p[n - 1]
    BY <1>2, <1>3
  <2> QED BY <2>1
<1> HIDE DEF p
<1> QED BY <1>4 DEF Pow2

LEMMA Pow2Is ==
  /\ Pow2[0] = 1
  /\ \A n \in Nat : Pow2[n] \in Nat \ {0}
  /\ \A n \in Nat : Pow2[n + 1] = 2 * Pow2[n]
<1>1. \A n \in Nat : Pow2[n] = IF n = 0 THEN 1 ELSE 2 * Pow2[n - 1]
  BY Pow2Defined
<1>2. Pow2[0] = 1
  BY <1>1
<1>3. \A n \in Nat : Pow2[n + 1] = 2 * Pow2[n]
  <2> TAKE n \in Nat
  <2>1. n + 1 \in Nat /\ n + 1 # 0 /\ (n + 1) - 1 = n
    OBVIOUS
  <2> QED BY <1>1, <2>1
<1>4. \A n \in Nat : Pow2[n] \in Nat \ {0}
  <2> DEFINE Bad == {n \in Nat : Pow2[n] \notin Nat \ {0}}
  <2> SUFFICES ASSUME Bad # {} PROVE FALSE
    OBVIOUS
  <2>1. PICK n \in Bad : \A m \in Bad : n <= m
    BY LeastOf
  <2>2. n # 0
    BY <1>2, <2>1
  <2>3. n - 1 \in Nat /\ ~(n <= n - 1)
    BY <2>1, <2>2
  <2>4. Pow2[n - 1] \in Nat \ {0} /\ Pow2[n] = 2 * Pow2[n - 1]
    BY <1>1, <2>1, <2>2, <2>3
  <2> QED BY <2>1, <2>4
<1> QED BY <1>2, <1>3, <1>4

LEMMA Pow2Grows ==
  ASSUME NEW m \in Nat, NEW n \in Nat, m < n PROVE 2 * Pow2[m] <= Pow2[n]
<1> DEFINE Bad == {k \in Nat : m < k /\ ~(2 * Pow2[m] <= Pow2[k])}
<1> SUFFICES ASSUME Bad # {} PROVE FALSE
  OBVIOUS
<1>1. PICK k \in Bad : \A j \in Bad : k <= j
  BY LeastOf
<1>2. k - 1 \in Nat /\ ~(k <= k - 1) /\ (k - 1) + 1 = k /\ (m = k - 1 \/ m < k - 1)
  BY <1>1
<1>3. Pow2[k] = 2 * Pow2[k - 1] /\ Pow2[k - 1] \in Nat /\ Pow2[m] \in Nat
  BY <1>2, Pow2Is
<1>4. m < k - 1 => 2 * Pow2[m] <= Pow2[k - 1]
  BY <1>1, <1>2
<1> QED BY <1>1, <1>2, <1>3, <1>4

\* A product of powers of two.
LEMMA Pow2Adds ==
  ASSUME NEW m \in Nat, NEW n \in Nat PROVE Pow2[m + n] = Pow2[m] * Pow2[n]
<1> DEFINE Bad == {k \in Nat : Pow2[m + k] # Pow2[m] * Pow2[k]}
<1> SUFFICES ASSUME Bad # {} PROVE FALSE
  OBVIOUS
<1>1. PICK k \in Bad : \A j \in Bad : k <= j
  BY LeastOf
<1>2. k # 0
  BY <1>1, Pow2Is
<1>3. k - 1 \in Nat /\ ~(k <= k - 1) /\ (k - 1) + 1 = k /\ (m + (k - 1)) + 1 = m + k /\ m + (k - 1) \in Nat
  BY <1>1, <1>2
<1>4. Pow2[k] = 2 * Pow2[k - 1] /\ Pow2[m + k] = 2 * Pow2[m + (k - 1)]
  BY <1>3, Pow2Is
<1>5. Pow2[m + (k - 1)] = Pow2[m] * Pow2[k - 1]
  BY <1>1, <1>3
<1>6. Pow2[m] \in Nat /\ Pow2[k - 1] \in Nat
  BY <1>3, Pow2Is
<1>7. 2 * (Pow2[m] * Pow2[k - 1]) = Pow2[m] * (2 * Pow2[k - 1])
  <2> DEFINE a == Pow2[m]
             b == Pow2[k - 1]
  <2>1. a \in Nat /\ b \in Nat
    BY <1>6
  <2> HIDE DEF a, b
  <2>2. 2 * (a * b) = a * (2 * b)
    BY <2>1
  <2> QED BY <2>2 DEF a, b
<1> QED BY <1>1, <1>4, <1>5, <1>7

-----------------------------------------------------------------------------
(* Depths.                                                                 *)

AllWords == Pow2[WordBits]
Half == Pow2[WordBits - 1]
IntHalf == Pow2[IntBits - 1]

LEMMA Widths ==
  /\ WordBits \in Nat /\ WordBits - 1 \in Nat /\ IntBits \in Nat /\ IntBits - 1 \in Nat \ {0}
  /\ IntBits - 1 < WordBits - 1
  /\ AllWords \in Nat /\ Half \in Nat /\ AllWords = 2 * Half
  /\ IntHalf \in Nat /\ 2 <= IntHalf /\ 2 * IntHalf <= Half /\ Pow2[IntBits] = 2 * IntHalf
<1>1. /\ WordBits \in Nat /\ WordBits - 1 \in Nat /\ IntBits \in Nat /\ IntBits - 1 \in Nat \ {0}
      /\ IntBits - 1 < WordBits - 1 /\ (WordBits - 1) + 1 = WordBits /\ (IntBits - 1) + 1 = IntBits
  BY WidthAssumption
<1>2. AllWords = 2 * Half /\ Half \in Nat /\ IntHalf \in Nat /\ Pow2[IntBits] = 2 * IntHalf
  BY <1>1, Pow2Is DEF AllWords, Half, IntHalf
<1>3. 2 * IntHalf <= Half
  BY <1>1, Pow2Grows DEF IntHalf, Half
<1>4. 2 <= IntHalf
  <2>1. 2 * Pow2[0] <= IntHalf
    BY <1>1, Pow2Grows DEF IntHalf
  <2> QED BY <2>1, Pow2Is
<1>5. AllWords \in Nat
  BY <1>2
<1> QED BY <1>1, <1>2, <1>3, <1>4, <1>5

\* The depths that suffice are those from LeastPower on.
LEMMA LeastPowerIs ==
  ASSUME NEW n \in Nat, n <= AllWords
  PROVE  /\ LeastPower(n) \in Nat /\ LeastPower(n) <= WordBits
         /\ \A e \in Nat : LeastPower(n) <= e <=> n <= Pow2[e]
<1> DEFINE Enough == {d \in Nat : n <= Pow2[d]}
<1>1. WordBits \in Enough
  BY Widths DEF AllWords
<1>2. PICK d \in Enough : \A e \in Enough : d <= e
  BY <1>1, LeastOf
<1>3. d \in 0..WordBits
  BY <1>1, <1>2
<1>4. \A e \in 0..(d - 1) : Pow2[e] < n
  <2> TAKE e \in 0..(d - 1)
  <2>1. e \in Nat /\ ~(d <= e)
    BY <1>2
  <2>2. ~(n <= Pow2[e])
    BY <1>2, <2>1
  <2> QED BY <2>1, <2>2, Pow2Is
<1>5. PICK l \in 0..WordBits :
        /\ l = LeastPower(n)
        /\ n <= Pow2[l] /\ \A e \in 0..(l - 1) : Pow2[e] < n
  BY <1>2, <1>3, <1>4 DEF LeastPower
<1>6. l \in Nat /\ l <= WordBits
  BY <1>5, Widths
<1>7. ASSUME NEW e \in Nat PROVE l <= e <=> n <= Pow2[e]
  <2>1. CASE l = e
    BY <1>5, <2>1
  <2>2. CASE l < e
    <3>1. 2 * Pow2[l] <= Pow2[e] /\ Pow2[l] \in Nat /\ Pow2[e] \in Nat
      BY <1>6, <2>2, Pow2Grows, Pow2Is
    <3> QED BY <1>5, <1>6, <2>2, <3>1
  <2>3. CASE e < l
    <3>1. e \in 0..(l - 1) /\ Pow2[e] \in Nat
      BY <1>6, <2>3, Pow2Is
    <3>2. Pow2[e] < n
      BY <1>5, <3>1
    <3> QED BY <1>6, <2>3, <3>1, <3>2
  <2> QED BY <1>6, <2>1, <2>2, <2>3
<1> QED BY <1>5, <1>6, <1>7

LEMMA LeastPowerOfPower ==
  ASSUME NEW d \in Nat, d <= WordBits PROVE Pow2[d] \in Nat /\ Pow2[d] <= AllWords /\ LeastPower(Pow2[d]) = d
<1>1. Pow2[d] \in Nat /\ Pow2[d] <= AllWords
  <2>1. d < WordBits => 2 * Pow2[d] <= AllWords
    BY Pow2Grows, Widths DEF AllWords
  <2>2. d = WordBits => Pow2[d] = AllWords
    BY DEF AllWords
  <2> QED BY <2>1, <2>2, Widths, Pow2Is
<1> DEFINE l == LeastPower(Pow2[d])
<1>2. l \in Nat /\ \A e \in Nat : l <= e <=> Pow2[d] <= Pow2[e]
  BY <1>1, LeastPowerIs
<1> HIDE DEF l
<1>3. l <= d
  BY <1>1, <1>2
<1>4. d <= l
  <2>1. Pow2[d] <= Pow2[l] /\ Pow2[l] \in Nat \ {0}
    BY <1>2, Pow2Is
  <2>2. l < d => 2 * Pow2[l] <= Pow2[d]
    BY <1>2, Pow2Grows
  <2> QED BY <1>1, <1>2, <2>1, <2>2
<1> QED BY <1>1, <1>2, <1>3, <1>4 DEF l

\* The shifts of TypeScript find the depth up to half of the integers.
LEMMA IntDepthIs ==
  ASSUME NEW n \in Nat, 1 < n, n <= AllWords
  PROVE  IntDepth(n) = LeastPower(n) <=> n <= IntHalf
<1> DEFINE m == (n - 1) % Pow2[IntBits]
           v == Int32(n - 1)
           l == LeastPower(n)
<1>1. l \in Nat /\ l <= WordBits /\ \A e \in Nat : l <= e <=> n <= Pow2[e]
  BY LeastPowerIs
<1>2. l <= IntBits - 1 <=> n <= IntHalf
  BY <1>1, Widths DEF IntHalf
<1>3. m \in Nat /\ m < 2 * IntHalf /\ v = IF m < IntHalf THEN m ELSE m - 2 * IntHalf
  <2>1. n - 1 \in Nat /\ Pow2[IntBits] \in Nat \ {0}
    BY Widths
  <2>2. m \in Nat /\ m < Pow2[IntBits]
    BY <2>1, DivMod
  <2>3. v = IF m < IntHalf THEN m ELSE m - Pow2[IntBits]
    BY DEF Int32, IntHalf
  <2> QED BY <2>2, <2>3, Widths
<1>4. n <= IntHalf => v = n - 1
  <2> SUFFICES ASSUME n <= IntHalf PROVE v = n - 1
    OBVIOUS
  <2>1. n - 1 \in Nat /\ n - 1 < IntHalf /\ n - 1 < Pow2[IntBits] /\ Pow2[IntBits] \in Nat \ {0}
    BY Widths
  <2>2. m = n - 1
    BY <2>1, SmallMod
  <2> HIDE DEF m, v
  <2> QED BY <1>3, <2>1, <2>2
<1> HIDE DEF m, v, l
<1>5. CASE m < IntHalf
  <2> DEFINE k == LeastPower(v + 1)
  <2>1. v \in Nat /\ v + 1 \in Nat /\ v + 1 <= IntHalf /\ v + 1 <= AllWords /\ ~(v < 0)
    BY <1>3, <1>5, Widths
  <2>2. k \in Nat /\ k <= WordBits /\ \A e \in Nat : k <= e <=> v + 1 <= Pow2[e]
    BY <2>1, LeastPowerIs
  <2>3. k <= IntBits - 1
    BY <2>1, <2>2, Widths DEF IntHalf
  <2>4. Pow2[k] \in Nat \ {0} /\ LeastPower(Pow2[k]) = k
    BY <2>2, LeastPowerOfPower, Pow2Is
  <2>5. Smear(v) + 1 = Pow2[k]
    <3>1. Smear(v) = Pow2[k] - 1
      BY <2>1 DEF Smear
    <3> HIDE DEF k
    <3> QED BY <2>4, <3>1
  <2>6. IntDepth(n) = k
    <3>1. IntDepth(n) = IF Smear(v) + 1 = 0 THEN -1 ELSE LeastPower(Smear(v) + 1)
      BY DEF IntDepth, v
    <3> HIDE DEF k
    <3> QED BY <2>4, <2>5, <3>1
  <2>7. n <= IntHalf => k = l
    BY <1>4 DEF l
  <2> HIDE DEF k
  <2> QED BY <1>1, <1>2, <2>2, <2>3, <2>6, <2>7, Widths DEF l
<1>6. CASE ~(m < IntHalf)
  <2>1. v < 0
    BY <1>3, <1>6, Widths
  <2>2. IntDepth(n) = -1
    BY <2>1 DEF IntDepth, Smear, v
  <2>3. ~(n <= IntHalf)
    BY <1>3, <1>4, <2>1
  <2> QED BY <1>1, <2>2, <2>3 DEF l
<1> QED BY <1>5, <1>6

\* Chunks up to which a runtime finds the depth.
Reach(runtime) == IF runtime = "ts" THEN IntHalf ELSE Half

LEMMA DepthIs ==
  ASSUME NEW runtime, NEW n \in Nat, n <= AllWords
  PROVE  Depth(runtime, n) = LeastPower(n) <=> n <= Reach(runtime)
<1>1. LeastPower(n) \in Nat /\ \A e \in Nat : LeastPower(n) <= e <=> n <= Pow2[e]
  BY LeastPowerIs
<1>2. CASE n <= 1
  <2>1. LeastPower(n) = 0
    BY <1>1, <1>2, Pow2Is
  <2>2. Depth(runtime, n) = 0
    BY <1>2 DEF Depth
  <2>3. n <= IntHalf /\ n <= Half
    BY <1>2, Widths
  <2> QED BY <2>1, <2>2, <2>3 DEF Reach
<1>3. CASE n > 1 /\ runtime = "ts"
  <2>1. Depth(runtime, n) = IntDepth(n)
    BY <1>3 DEF Depth
  <2> QED BY <1>3, <2>1, IntDepthIs DEF Reach
<1>4. CASE n > 1 /\ runtime # "ts"
  <2>1. Depth(runtime, n) = IF n > Half THEN -1 ELSE LeastPower(n)
    BY <1>4 DEF Depth, NoDepth, Half
  <2> QED BY <1>1, <1>4, <2>1, Widths DEF Reach
<1> QED BY <1>2, <1>3, <1>4

\* A tree of two chunks or more has a depth.
LEMMA NotFlat ==
  ASSUME NEW runtime, NEW n \in Nat, n <= 1, NEW leaves \in Nat, 2 <= leaves, leaves <= AllWords
  PROVE  Depth(runtime, n) # LeastPower(leaves)
<1>1. LeastPower(leaves) \in Nat /\ (LeastPower(leaves) <= 0 <=> leaves <= Pow2[0])
  BY LeastPowerIs
<1>2. Depth(runtime, n) = 0
  BY DEF Depth
<1> QED BY <1>1, <1>2, Pow2Is

-----------------------------------------------------------------------------
(* Limits.                                                                 *)

Agrees(runtime, tree) ==
  Depth(runtime, ChunkLimit(runtime, tree)) = LeastPower(Leaves(tree)) <=> InRange(runtime, tree)

\* A division that rounds up, in words.
LEMMA WrappedDivision ==
  ASSUME NEW limit \in Nat, limit < AllWords, NEW d \in Nat \ {0}, 2 * d <= AllWords
  PROVE  LET n == Word(limit + d - 1) \div d
         IN  /\ limit + d - 1 < AllWords => n = CeilDiv(limit, d)
             /\ ~(limit + d - 1 < AllWords) => n = 0 /\ 2 <= CeilDiv(limit, d)
             /\ CeilDiv(limit, d) \in Nat /\ CeilDiv(limit, d) <= limit
<1> DEFINE s == limit + d - 1
<1>1. s \in Nat /\ AllWords \in Nat \ {0}
  BY Widths
<1>2. CeilDiv(limit, d) \in Nat /\ CeilDiv(limit, d) <= limit
  BY CeilDivIs
<1>3. ASSUME s < AllWords PROVE Word(s) \div d = CeilDiv(limit, d)
  <2>1. s % AllWords = s
    BY <1>1, <1>3, SmallMod
  <2> QED BY <2>1 DEF Word, CeilDiv, AllWords
<1>4. ASSUME ~(s < AllWords) PROVE Word(s) \div d = 0 /\ 2 <= CeilDiv(limit, d)
  <2> DEFINE r == s - AllWords
  <2>1. r \in Nat /\ r < d /\ r < AllWords /\ s = 1 * AllWords + r
    BY <1>1, <1>4, Widths
  <2>2. s % AllWords = r
    BY <1>1, <2>1, DivIs
  <2>3. r \div d = 0
    BY <2>1, SmallMod
  <2>4. CeilDiv(limit, d) <= 1 <=> limit <= 1 * d
    BY CeilDivIs
  <2>5. ~(limit <= 1 * d)
    BY <1>1, <1>4, Widths
  <2>6. Word(s) = r
    BY <2>2 DEF Word, AllWords
  <2> HIDE DEF r
  <2>7. 2 <= CeilDiv(limit, d)
    BY <1>2, <2>4, <2>5
  <2> QED BY <2>3, <2>6, <2>7
<1> QED BY <1>2, <1>3, <1>4

LEMMA ChunkBytesIs ==
  /\ ChunkBytes \in Nat \ {0} /\ 8 * ChunkBytes \in Nat \ {0} /\ 2 * (8 * ChunkBytes) <= AllWords
  /\ \E q \in Nat : 16 <= q /\ AllWords = q * ChunkBytes /\ \E e \in Nat : q = Pow2[e] /\ e < WordBits
  /\ \A size \in {1, 2, 4, 8} :
       \E per \in Nat \ {0} : ChunkBytes \div size = per /\ ChunkBytes = per * size /\ 2 * per <= AllWords
<1>1. PICK c \in 3..(WordBits - 4) : ChunkBytes = Pow2[c]
  BY WidthAssumption
<1> DEFINE e == WordBits - c
<1>2. c \in Nat /\ e \in Nat /\ 4 <= e /\ e < WordBits /\ c + e = WordBits /\ c - 3 \in Nat /\ e - 4 \in Nat
      /\ 3 + (c - 3) = c /\ 4 + (e - 4) = e
  BY <1>1, Widths
<1>3. Pow2[3] = 8 /\ Pow2[4] = 16
  <2>1. Pow2[0 + 1] = 2 * Pow2[0] /\ Pow2[1 + 1] = 2 * Pow2[1] /\ Pow2[2 + 1] = 2 * Pow2[2] /\ Pow2[3 + 1] = 2 * Pow2[3]
    BY Pow2Is
  <2> QED BY <2>1, Pow2Is
<1>4. ChunkBytes \in Nat \ {0} /\ Pow2[e] \in Nat \ {0} /\ Pow2[c - 3] \in Nat \ {0} /\ Pow2[e - 4] \in Nat \ {0}
  BY <1>1, <1>2, Pow2Is
<1>5. AllWords = ChunkBytes * Pow2[e]
  BY <1>1, <1>2, Pow2Adds DEF AllWords
<1>6. Pow2[e] = 16 * Pow2[e - 4] /\ ChunkBytes = 8 * Pow2[c - 3]
  <2>1. Pow2[4 + (e - 4)] = Pow2[4] * Pow2[e - 4] /\ Pow2[3 + (c - 3)] = Pow2[3] * Pow2[c - 3]
    BY <1>2, Pow2Adds
  <2> QED BY <1>1, <1>2, <1>3, <2>1
<1>7. PICK q, p, x : q = Pow2[e] /\ p = Pow2[c - 3] /\ x = Pow2[e - 4]
  OBVIOUS
<1> HIDE DEF e
<1>8. /\ q \in Nat \ {0} /\ 16 <= q /\ p \in Nat \ {0} /\ AllWords = q * ChunkBytes /\ ChunkBytes = 8 * p
      /\ 16 * ChunkBytes <= AllWords
  <2>1. q = 16 * x /\ x \in Nat \ {0} /\ q \in Nat \ {0} /\ p \in Nat \ {0} /\ ChunkBytes = 8 * p
    BY <1>4, <1>6, <1>7
  <2>2. AllWords = ChunkBytes * q /\ ChunkBytes \in Nat \ {0}
    BY <1>4, <1>5, <1>7
  <2>3. ChunkBytes * q = q * ChunkBytes /\ 16 <= q
    BY <2>1, <2>2
  <2>4. 16 * ChunkBytes <= q * ChunkBytes
    BY <2>1, <2>2, <2>3
  <2> QED BY <2>1, <2>2, <2>3, <2>4
<1>9. ASSUME NEW size \in {1, 2, 4, 8}
      PROVE  \E per \in Nat \ {0} : ChunkBytes \div size = per /\ ChunkBytes = per * size /\ 2 * per <= AllWords
  <2>1. PICK per \in Nat \ {0} : ChunkBytes = per * size /\ per <= ChunkBytes
    <3>1. \/ size = 1 /\ ChunkBytes = (8 * p) * size
          \/ size = 2 /\ ChunkBytes = (4 * p) * size
          \/ size = 4 /\ ChunkBytes = (2 * p) * size
          \/ size = 8 /\ ChunkBytes = p * size
      BY <1>8
    <3>2. /\ 8 * p \in Nat \ {0} /\ 4 * p \in Nat \ {0} /\ 2 * p \in Nat \ {0}
          /\ 8 * p <= ChunkBytes /\ 4 * p <= ChunkBytes /\ 2 * p <= ChunkBytes /\ p <= ChunkBytes
      BY <1>8
    <3> QED BY <1>8, <3>1, <3>2
  <2>2. ChunkBytes = per * size + 0 /\ size \in Nat \ {0}
    BY <2>1
  <2>3. ChunkBytes \div size = per
    BY <2>2, DivIs
  <2> QED BY <1>8, <2>1, <2>3
<1>10. \E q1 \in Nat : 16 <= q1 /\ AllWords = q1 * ChunkBytes /\ \E e1 \in Nat : q1 = Pow2[e1] /\ e1 < WordBits
  BY <1>2, <1>7, <1>8
<1>11. 8 * ChunkBytes \in Nat \ {0} /\ 2 * (8 * ChunkBytes) <= AllWords
  BY <1>4, <1>8
<1> QED BY <1>4, <1>9, <1>10, <1>11

\* A limit of so many chunks, that a runtime rounds up in words.
LEMMA RoundedAgrees ==
  ASSUME NEW runtime, NEW limit \in Nat, limit < AllWords, NEW d \in Nat \ {0}, 2 * d <= AllWords
  PROVE  Depth(runtime, Word(limit + d - 1) \div d) = LeastPower(CeilDiv(limit, d))
           <=> CeilDiv(limit, d) <= Reach(runtime) /\ limit + d - 1 < AllWords
<1> DEFINE n == Word(limit + d - 1) \div d
           leaves == CeilDiv(limit, d)
<1>1. /\ limit + d - 1 < AllWords => n = leaves
      /\ ~(limit + d - 1 < AllWords) => n = 0 /\ 2 <= leaves
      /\ leaves \in Nat /\ leaves <= limit
  BY WrappedDivision
<1> HIDE DEF n, leaves
<1>2. leaves <= AllWords /\ AllWords \in Nat
  BY <1>1, Widths
<1>3. CASE limit + d - 1 < AllWords
  BY <1>1, <1>2, <1>3, DepthIs DEF n, leaves
<1>4. CASE ~(limit + d - 1 < AllWords)
  BY <1>1, <1>2, <1>4, NotFlat DEF n, leaves
<1> QED BY <1>3, <1>4

LEMMA ReachIs ==
  ASSUME NEW runtime, NEW leaves \in Nat
  PROVE  leaves <= Reach(runtime) <=> leaves <= Half /\ (runtime = "ts" => leaves <= IntHalf)
BY Widths DEF Reach

\* Lists of tables, lists or strings.
LEMMA RootsAgree ==
  ASSUME NEW runtime, NEW limit \in Nat, limit < AllWords
  PROVE  Agrees(runtime, [of |-> "roots", limit |-> limit])
<1> DEFINE tree == [of |-> "roots", limit |-> limit]
<1>1. ChunkLimit(runtime, tree) = limit /\ Leaves(tree) = limit
  BY DEF ChunkLimit, Leaves
<1>2. InRange(runtime, tree) <=> limit <= Half /\ (runtime = "ts" => limit <= IntHalf)
  <2>1. tree.of = "roots"
    OBVIOUS
  <2>2. InRange(runtime, tree) <=> Leaves(tree) <= Half /\ (runtime = "ts" => Leaves(tree) <= IntHalf - 0)
    BY <2>1 DEF InRange, Half, IntHalf
  <2> HIDE DEF tree
  <2> QED BY <1>1, <2>2, Widths
<1>3. Depth(runtime, limit) = LeastPower(limit) <=> limit <= Reach(runtime)
  BY DepthIs, Widths
<1> HIDE DEF tree
<1> QED BY <1>1, <1>2, <1>3, ReachIs DEF Agrees, tree

\* Strings and lists of bytes.
LEMMA BytesAgree ==
  ASSUME NEW runtime, NEW limit \in Nat, limit < AllWords
  PROVE  Agrees(runtime, [of |-> "bytes", limit |-> limit])
<1> DEFINE tree == [of |-> "bytes", limit |-> limit]
           leaves == CeilDiv(limit, ChunkBytes)
<1>1. ChunkLimit(runtime, tree) = Word(limit + ChunkBytes - 1) \div ChunkBytes /\ Leaves(tree) = leaves
  BY DEF ChunkLimit, Leaves
<1>2. ChunkBytes \in Nat \ {0} /\ 2 * ChunkBytes <= AllWords
  BY ChunkBytesIs, Widths
<1>3. leaves \in Nat
  BY <1>2, CeilDivIs
<1>4. InRange(runtime, tree) <=>
        leaves <= Half /\ (runtime = "ts" => leaves <= IntHalf) /\ limit + ChunkBytes - 1 < AllWords
  <2>1. tree.of = "bytes" /\ tree.limit = limit
    OBVIOUS
  <2> HIDE DEF tree
  <2>2. InRange(runtime, tree) <=> /\ Leaves(tree) <= Half
                                   /\ runtime = "ts" => Leaves(tree) <= IntHalf - 0
                                   /\ limit + ChunkBytes - 1 < AllWords
    BY <2>1 DEF InRange, Half, IntHalf, AllWords
  <2> HIDE DEF leaves
  <2> QED BY <1>1, <2>2, Widths
<1>5. Depth(runtime, Word(limit + ChunkBytes - 1) \div ChunkBytes) = LeastPower(leaves)
        <=> leaves <= Reach(runtime) /\ limit + ChunkBytes - 1 < AllWords
  BY <1>2, RoundedAgrees
<1> HIDE DEF tree, leaves
<1> QED BY <1>1, <1>3, <1>4, <1>5, ReachIs DEF Agrees, tree

\* Bit lists, in all runtimes but that of TypeScript.
LEMMA BitsAgree ==
  ASSUME NEW runtime, runtime # "ts", NEW limit \in Nat, limit < AllWords
  PROVE  Agrees(runtime, [of |-> "bits", limit |-> limit])
<1> DEFINE tree == [of |-> "bits", limit |-> limit]
           d == 8 * ChunkBytes
           leaves == CeilDiv(limit, d)
<1>1. ChunkLimit(runtime, tree) = Word(limit + d - 1) \div d /\ Leaves(tree) = leaves
  BY DEF ChunkLimit, Leaves
<1>2. d \in Nat \ {0} /\ 2 * d <= AllWords
  BY ChunkBytesIs
<1>3. leaves \in Nat
  BY <1>2, CeilDivIs
<1>4. InRange(runtime, tree) <=> leaves <= Half /\ limit + d - 1 < AllWords
  <2>1. tree.of = "bits" /\ tree.limit = limit
    OBVIOUS
  <2> HIDE DEF tree
  <2>2. InRange(runtime, tree) <=> Leaves(tree) <= Half /\ limit + d - 1 < AllWords
    BY <2>1 DEF InRange, Half, AllWords
  <2> QED BY <1>1, <2>2
<1>5. Depth(runtime, Word(limit + d - 1) \div d) = LeastPower(leaves)
        <=> leaves <= Reach(runtime) /\ limit + d - 1 < AllWords
  BY <1>2, RoundedAgrees
<1> HIDE DEF tree, leaves, d
<1> QED BY <1>1, <1>3, <1>4, <1>5, ReachIs DEF Agrees, tree

\* In TypeScript the limit of a bit list is made an integer.
LEMMA IntBitsAgree ==
  ASSUME NEW limit \in Nat, limit < AllWords
  PROVE  Agrees("ts", [of |-> "bits", limit |-> limit])
<1> DEFINE tree == [of |-> "bits", limit |-> limit]
           d == 8 * ChunkBytes
           leaves == CeilDiv(limit, d)
           m == leaves % Pow2[IntBits]
           n == Int32(leaves)
<1>1. ChunkLimit("ts", tree) = n /\ Leaves(tree) = leaves
  BY DEF ChunkLimit, Leaves, CeilDiv
<1>2. d \in Nat \ {0} /\ 2 * d <= AllWords
  BY ChunkBytesIs
<1>3. leaves \in Nat /\ leaves <= AllWords
  <2>1. leaves \in Nat /\ leaves <= limit
    BY <1>2, CeilDivIs
  <2> QED BY <2>1, Widths
<1>4. InRange("ts", tree) <=> leaves < IntHalf
  <2>1. tree.of = "bits" /\ tree.limit = limit
    OBVIOUS
  <2> HIDE DEF tree
  <2>2. InRange("ts", tree) <=> Leaves(tree) <= Half /\ Leaves(tree) <= IntHalf - 1
    BY <2>1 DEF InRange, Half, IntHalf
  <2> HIDE DEF leaves
  <2> QED BY <1>1, <1>3, <2>2, Widths
<1>5. m \in Nat /\ m < 2 * IntHalf /\ n = IF m < IntHalf THEN m ELSE m - 2 * IntHalf
  <2>1. Pow2[IntBits] \in Nat \ {0}
    BY Widths
  <2>2. m \in Nat /\ m < Pow2[IntBits]
    BY <1>3, <2>1, DivMod
  <2>3. n = IF m < IntHalf THEN m ELSE m - Pow2[IntBits]
    BY DEF Int32, IntHalf
  <2> HIDE DEF m, n, leaves
  <2> QED BY <2>2, <2>3, Widths
<1>6. leaves < 2 * IntHalf => m = leaves
  <2> SUFFICES ASSUME leaves < 2 * IntHalf PROVE m = leaves
    OBVIOUS
  <2>1. leaves < Pow2[IntBits] /\ Pow2[IntBits] \in Nat \ {0}
    BY Widths
  <2> HIDE DEF leaves
  <2> QED BY <1>3, <2>1, SmallMod
<1>d. d \in Nat
  BY <1>2
<1> HIDE DEF tree, leaves, m, n, d
<1>7. CASE leaves < IntHalf
  <2>1. n = leaves
    BY <1>3, <1>5, <1>6, <1>7, Widths
  <2>2. Depth("ts", leaves) = LeastPower(leaves)
    BY <1>3, <1>7, DepthIs, Widths DEF Reach
  <2> QED BY <1>1, <1>4, <1>7, <2>1, <2>2 DEF Agrees, tree
<1>8. CASE ~(leaves < IntHalf)
  <2>1. 2 <= leaves
    BY <1>3, <1>8, Widths
  <2>2. Depth("ts", n) # LeastPower(leaves)
    <3>1. CASE n <= 1
      <4>0. n \in Int
        BY <1>5, Widths
      <4>1. Depth("ts", n) = 0 /\ Depth("ts", 0) = 0
        BY <3>1, <4>0 DEF Depth
      <4> QED BY <1>3, <2>1, <4>1, NotFlat
    <3>2. CASE n > 1
      <4>1. n \in Nat /\ n < IntHalf /\ n <= AllWords /\ n <= Reach("ts")
        BY <1>5, <3>2, Widths DEF Reach
      <4>2. Depth("ts", n) = LeastPower(n)
        BY <4>1, DepthIs
      <4>3. LeastPower(n) <= IntBits - 1
        BY <4>1, LeastPowerIs, Widths DEF IntHalf
      <4>4. leaves # IntHalf
        BY <1>5, <1>6, <3>2, Widths
      <4>5. ~(leaves <= IntHalf)
        BY <1>3, <1>8, <4>4, Widths
      <4>6. ~(LeastPower(leaves) <= IntBits - 1)
        BY <1>3, <4>5, LeastPowerIs, Widths DEF IntHalf
      <4> QED BY <4>2, <4>3, <4>6
    <3> QED BY <1>5, <3>1, <3>2, Widths
  <2> QED BY <1>1, <1>4, <1>8, <2>2 DEF Agrees, tree
<1> QED BY <1>7, <1>8 DEF tree

\* Lists of basic values; all generators but the Rust one divide the limit.
LEMMA ElementsAgree ==
  ASSUME NEW runtime, runtime # "rust", NEW limit \in Nat, limit < AllWords, NEW size \in {1, 2, 4, 8}
  PROVE  Agrees(runtime, [of |-> "elements", limit |-> limit, size |-> size])
<1> DEFINE tree == [of |-> "elements", limit |-> limit, size |-> size]
<1>1. PICK d \in Nat \ {0} : ChunkBytes \div size = d /\ ChunkBytes = d * size /\ 2 * d <= AllWords
  BY ChunkBytesIs
<1> DEFINE leaves == CeilDiv(limit, d)
<1>2. ChunkLimit(runtime, tree) = Word(limit + d - 1) \div d
  BY <1>1 DEF ChunkLimit, LimitForElements
<1>3. leaves \in Nat /\ \A m \in Nat : leaves <= m <=> limit <= m * d
  BY CeilDivIs
<1>4. CeilDiv(limit * size, ChunkBytes) = leaves
  <2> DEFINE q == CeilDiv(limit * size, ChunkBytes)
  <2>1. limit * size \in Nat /\ ChunkBytes \in Nat \ {0}
    BY ChunkBytesIs
  <2>2. q \in Nat /\ \A m \in Nat : q <= m <=> limit * size <= m * ChunkBytes
    BY <2>1, CeilDivIs
  <2>3. \A m \in Nat : limit * size <= m * ChunkBytes <=> limit <= m * d
    <3> TAKE m \in Nat
    <3>1. m * ChunkBytes = (m * d) * size
      <4>1. m * (d * size) = (m * d) * size
        OBVIOUS
      <4> QED BY <1>1, <4>1
    <3>2. PICK x \in Nat : x = m * d
      OBVIOUS
    <3>3. limit * size <= x * size <=> limit <= x
      BY <3>2
    <3> QED BY <3>1, <3>2, <3>3
  <2> HIDE DEF q, leaves
  <2>4. q <= leaves /\ leaves <= q
    BY <1>3, <2>2, <2>3
  <2> QED BY <1>3, <2>2, <2>4 DEF q
<1>5. Leaves(tree) = leaves
  BY <1>4 DEF Leaves
<1>6. InRange(runtime, tree) <=>
        leaves <= Half /\ (runtime = "ts" => leaves <= IntHalf) /\ limit + d - 1 < AllWords
  <2>1. tree.of = "elements" /\ tree.limit = limit /\ tree.size = size
    OBVIOUS
  <2> HIDE DEF tree
  <2>2. InRange(runtime, tree) <=> /\ Leaves(tree) <= Half
                                   /\ runtime = "ts" => Leaves(tree) <= IntHalf - 0
                                   /\ limit + d - 1 < AllWords
    BY <1>1, <2>1 DEF InRange, Half, IntHalf, AllWords
  <2> HIDE DEF leaves
  <2> QED BY <1>5, <2>2, Widths
<1>7. Depth(runtime, Word(limit + d - 1) \div d) = LeastPower(leaves)
        <=> leaves <= Reach(runtime) /\ limit + d - 1 < AllWords
  BY <1>1, RoundedAgrees
<1> HIDE DEF tree, leaves
<1> QED BY <1>2, <1>3, <1>5, <1>6, <1>7, ReachIs DEF Agrees, tree

\* The Rust generator multiplies the limit, and the product may wrap around
\* to any word.
LEMMA ProductAgrees ==
  ASSUME NEW limit \in Nat, limit < AllWords, NEW size \in {1, 2, 4, 8}
  PROVE  Agrees("rust", [of |-> "elements", limit |-> limit, size |-> size])
<1> DEFINE tree == [of |-> "elements", limit |-> limit, size |-> size]
           p == limit * size + ChunkBytes - 1
           leaves == CeilDiv(limit * size, ChunkBytes)
           n == Word(p) \div ChunkBytes
<1>1. ChunkLimit("rust", tree) = n /\ Leaves(tree) = leaves
  BY DEF ChunkLimit, Leaves
<1>2. ChunkBytes \in Nat \ {0} /\ limit * size \in Nat /\ p \in Nat
  BY ChunkBytesIs
<1>3. leaves \in Nat /\ leaves = p \div ChunkBytes /\ leaves <= limit
  <2>1. leaves \in Nat /\ (leaves <= limit <=> limit * size <= limit * ChunkBytes)
    BY <1>2, CeilDivIs
  <2>2. PICK d \in Nat \ {0} : ChunkBytes = d * size
    BY ChunkBytesIs
  <2>3. size <= ChunkBytes
    BY <2>2
  <2>4. limit * size <= limit * ChunkBytes
    BY <1>2, <2>3
  <2> QED BY <2>1, <2>4 DEF CeilDiv
<1>4. InRange("rust", tree) <=> leaves <= Half /\ p < AllWords
  <2>1. tree.of = "elements" /\ tree.limit = limit /\ tree.size = size
    OBVIOUS
  <2> HIDE DEF tree
  <2>2. InRange("rust", tree) <=> Leaves(tree) <= Half /\ p < AllWords
    BY <2>1 DEF InRange, Half, AllWords
  <2> QED BY <1>1, <2>2
<1>5. PICK q \in Nat, e \in Nat : 16 <= q /\ AllWords = q * ChunkBytes /\ q = Pow2[e] /\ e < WordBits
  BY ChunkBytesIs
<1>l. leaves <= AllWords /\ AllWords \in Nat
  BY <1>3, Widths
<1>p. p \in Nat /\ leaves \in Nat /\ leaves = p \div ChunkBytes
  BY <1>2, <1>3
<1> HIDE DEF p, leaves
<1>6. PICK r \in Nat : r < ChunkBytes /\ p = leaves * ChunkBytes + r
  <2>1. p % ChunkBytes \in Nat /\ p % ChunkBytes < ChunkBytes /\ p = (p \div ChunkBytes) * ChunkBytes + (p % ChunkBytes)
    BY <1>2, <1>p, DivMod
  <2> DEFINE m == p % ChunkBytes
  <2>2. m \in Nat /\ m < ChunkBytes /\ p = leaves * ChunkBytes + m
    BY <1>p, <2>1
  <2> HIDE DEF m
  <2> QED BY <2>2
<1>7. PICK j \in Nat, w \in Nat : w < AllWords /\ p = j * AllWords + w /\ Word(p) = w
  <2>1. AllWords \in Nat \ {0}
    BY Widths
  <2>2. p % AllWords \in Nat /\ p % AllWords < AllWords /\ p = (p \div AllWords) * AllWords + (p % AllWords) /\ p \div AllWords \in Nat
    BY <1>p, <2>1, DivMod
  <2> DEFINE a == p \div AllWords
             m == p % AllWords
  <2>3. a \in Nat /\ m \in Nat /\ m < AllWords /\ p = a * AllWords + m
    BY <2>2
  <2>4. Word(p) = m
    BY DEF Word, AllWords
  <2> HIDE DEF a, m
  <2> QED BY <2>3, <2>4
<1>8. PICK s \in Nat, t \in Nat : t < ChunkBytes /\ w = s * ChunkBytes + t /\ n = s
  <2>1. w % ChunkBytes \in Nat /\ w % ChunkBytes < ChunkBytes /\ w = (w \div ChunkBytes) * ChunkBytes + (w % ChunkBytes)
        /\ w \div ChunkBytes \in Nat
    BY <1>2, DivMod
  <2> DEFINE a == w \div ChunkBytes
             m == w % ChunkBytes
  <2>2. a \in Nat /\ m \in Nat /\ m < ChunkBytes /\ w = a * ChunkBytes + m
    BY <2>1
  <2>3. n = a
    BY <1>7 DEF n
  <2> HIDE DEF a, m
  <2> QED BY <2>2, <2>3
<1>m. n \in Nat /\ n = s
  BY <1>8
<1> HIDE DEF tree, n
<1>9. s < q /\ leaves = j * q + s
  <2>1. s < q
    <3>1. s * ChunkBytes < q * ChunkBytes
      BY <1>2, <1>5, <1>7, <1>8
    <3>2. q <= s => q * ChunkBytes <= s * ChunkBytes
      BY <1>2, <1>5, <1>8
    <3>3. s * ChunkBytes \in Nat /\ q * ChunkBytes \in Nat
      BY <1>2, <1>5, <1>8
    <3> QED BY <3>1, <3>2, <3>3
  <2>2. p = (j * q + s) * ChunkBytes + t
    <3>1. j * (q * ChunkBytes) = (j * q) * ChunkBytes
      BY <1>2
    <3>2. PICK a \in Nat : a = j * q
      OBVIOUS
    <3>3. a * ChunkBytes + (s * ChunkBytes + t) = (a + s) * ChunkBytes + t
      BY <1>2
    <3> QED BY <1>5, <1>7, <1>8, <3>1, <3>2, <3>3
  <2>3. j * q + s \in Nat
    OBVIOUS
  <2>4. p \div ChunkBytes = j * q + s
    BY <1>2, <1>8, <2>2, <2>3, DivIs
  <2>5. p \div ChunkBytes = leaves
    BY <1>2, <1>6, <1>p, DivIs
  <2> QED BY <2>1, <2>4, <2>5
<1>10. j = 0 <=> p < AllWords
  <2>1. j = 0 => p = w
    BY <1>7, Widths
  <2>2. j # 0 => j * AllWords >= AllWords
    BY <1>l, <1>7
  <2>3. j * AllWords \in Nat
    BY <1>l
  <2> QED BY <1>7, <1>l, <2>1, <2>2, <2>3
<1>11. CASE p < AllWords
  <2>1. n = leaves
    BY <1>9, <1>10, <1>11, <1>m
  <2>2. Depth("rust", leaves) = LeastPower(leaves) <=> leaves <= Half
    BY <1>p, <1>l, DepthIs DEF Reach
  <2> QED BY <1>1, <1>4, <1>11, <2>1, <2>2 DEF Agrees, tree
<1>12. CASE ~(p < AllWords)
  <2>1. j # 0
    BY <1>10, <1>12
  <2>2. q <= j * q /\ j * q \in Nat
    BY <1>5, <2>1
  <2>3. 16 <= leaves
    BY <1>5, <1>9, <2>2
  <2>4. Depth("rust", s) # LeastPower(leaves)
    <3>1. CASE s <= 1
      BY <1>p, <1>l, <2>3, <3>1, NotFlat
    <3>2. CASE s > 1
      <4>1. s <= Pow2[e] /\ ~(leaves <= Pow2[e])
        <5>1. PICK a \in Nat : a = j * q /\ q <= a
          BY <2>2
        <5>2. leaves = a + s
          BY <1>9, <5>1
        <5>3. s <= q /\ ~(leaves <= q)
          BY <1>9, <3>2, <5>1, <5>2
        <5> QED BY <1>5, <5>3
      <4>2. Pow2[e] <= Half
        <5>1. e <= WordBits - 1 /\ WordBits - 1 \in Nat
          BY <1>5, Widths
        <5>2. e < WordBits - 1 => 2 * Pow2[e] <= Half
          BY <5>1, Pow2Grows DEF Half
        <5>3. e = WordBits - 1 => Pow2[e] = Half
          BY DEF Half
        <5> QED BY <1>5, <5>1, <5>2, <5>3, Pow2Is, Widths
      <4>3. s <= Half /\ s <= AllWords
        BY <1>5, <4>1, <4>2, Widths
      <4>4. Depth("rust", s) = LeastPower(s)
        BY <4>3, DepthIs DEF Reach
      <4>5. LeastPower(s) <= e /\ LeastPower(s) \in Nat
        BY <4>1, <4>3, LeastPowerIs
      <4>6. ~(LeastPower(leaves) <= e)
        BY <1>p, <1>l, <4>1, LeastPowerIs
      <4> QED BY <4>4, <4>5, <4>6
    <3> QED BY <3>1, <3>2
  <2> QED BY <1>1, <1>4, <1>12, <1>m, <2>4 DEF Agrees, tree
<1> QED BY <1>11, <1>12 DEF tree

-----------------------------------------------------------------------------
(* The trees under the fields of a container.                              *)

IsTree(tree) ==
  \E l \in Nat :
    /\ l < AllWords
    /\ \/ tree = [of |-> "roots", limit |-> l]
       \/ tree = [of |-> "bytes", limit |-> l]
       \/ tree = [of |-> "bits", limit |-> l]
       \/ \E size \in {1, 2, 4, 8} : tree = [of |-> "elements", limit |-> l, size |-> size]

LEMMA TreeAgrees ==
  ASSUME NEW runtime, NEW tree, IsTree(tree) PROVE Agrees(runtime, tree)
<1>1. PICK l \in Nat :
        /\ l < AllWords
        /\ \/ tree = [of |-> "roots", limit |-> l]
           \/ tree = [of |-> "bytes", limit |-> l]
           \/ tree = [of |-> "bits", limit |-> l]
           \/ \E size \in {1, 2, 4, 8} : tree = [of |-> "elements", limit |-> l, size |-> size]
  BY DEF IsTree
<1>2. CASE tree = [of |-> "roots", limit |-> l]
  BY <1>1, <1>2, RootsAgree
<1>3. CASE tree = [of |-> "bytes", limit |-> l]
  BY <1>1, <1>3, BytesAgree
<1>4. CASE tree = [of |-> "bits", limit |-> l]
  <2>1. CASE runtime = "ts"
    BY <1>1, <1>4, <2>1, IntBitsAgree
  <2>2. CASE runtime # "ts"
    BY <1>1, <1>4, <2>2, BitsAgree
  <2> QED BY <2>1, <2>2
<1>5. ASSUME NEW size \in {1, 2, 4, 8}, tree = [of |-> "elements", limit |-> l, size |-> size]
      PROVE  Agrees(runtime, tree)
  <2>1. CASE runtime = "rust"
    BY <1>1, <1>5, <2>1, ProductAgrees
  <2>2. CASE runtime # "rust"
    BY <1>1, <1>5, <2>2, ElementsAgree
  <2> QED BY <2>1, <2>2
<1> QED BY <1>1, <1>2, <1>3, <1>4, <1>5

\* The limits of an element and the sizes of the basic ones.
LEMMA ElemIs ==
  ASSUME NEW t, Sized(t), NEW nested, NEW max \in Seq(Nat),
         \A i \in 1..Len(max) : max[i] < AllWords
  PROVE  LET e == WithInnerMax(ResolveElemType(t, nested), max)
         IN  /\ e.ssz = "list" => e.limit \in Nat /\ e.limit < AllWords
             /\ e.ssz \in {"bool", "uint"} => /\ e = Info(e.ssz, FALSE, e.size)
                                              /\ e.size \in {1, 2, 4, 8}
<1> DEFINE r == ResolveElemType(t, nested)
           e == WithInnerMax(r, max)
<1>1. Unsupported.ssz = "unsupported" /\ ContainerInfo(nested).ssz = "container"
  BY DEF Info, Unsupported, ContainerInfo
<1>2. CASE t.base \in {"bool", "uint"}
  <2>1. r = Info(t.base, FALSE, t.size) /\ t.size \in {1, 2, 4, 8}
    BY <1>2 DEF ResolveElemType, Sized
  <2>2. r.ssz = t.base /\ r.size = t.size /\ e = r
    BY <1>2, <2>1 DEF Info, WithInnerMax
  <2> QED BY <1>2, <2>1, <2>2
<1>3. CASE t.base = "string"
  <2> DEFINE b == Info("uint", FALSE, 1)
             w == [ssz |-> "list", dynamic |-> TRUE, size |-> 0, elem |-> b, limit |-> 0]
  <2>1. r = w
    <3>1. b.ssz # "unsupported"
      BY DEF Info
    <3>2. r = ListInfo("list", b, 0)
      BY <1>3 DEF ResolveElemType
    <3> QED BY <3>1, <3>2 DEF ListInfo, OfElem
  <2>2. CASE Len(max) = 2
    <3>1. e = [w EXCEPT !.limit = max[2]]
      BY <2>1, <2>2 DEF WithInnerMax
    <3>2. max[2] \in Nat /\ max[2] < AllWords
      BY <2>2
    <3>3. e.ssz = "list" /\ e.limit = max[2]
      BY <3>1
    <3> QED BY <3>2, <3>3
  <2>3. CASE Len(max) # 2
    <3>1. e = w
      BY <2>1, <2>3 DEF WithInnerMax
    <3>2. e.ssz = "list" /\ e.limit = 0
      BY <3>1
    <3>3. 0 < AllWords
      BY Widths
    <3> QED BY <3>2, <3>3
  <2> QED BY <2>2, <2>3
<1>4. CASE t.base \notin {"bool", "uint", "string"}
  <2>1. r.ssz \in {"unsupported", "container"}
    BY <1>1, <1>4 DEF ResolveElemType
  <2>2. e = r
    BY <2>1 DEF WithInnerMax
  <2> QED BY <2>1, <2>2
<1> QED BY <1>2, <1>3, <1>4

\* A list is a string or a vector with a bound, a bit list a marked vector.
LEMMA ListIs ==
  ASSUME NEW f, IsField(f), NEW nested
  PROVE  LET info == ResolveSszFieldInfo(f, nested)
         IN  /\ info.ssz = "list" =>
                  /\ f.max # <<>> /\ info.limit = f.max[1]
                  /\ \/ info.elem = Info("uint", FALSE, 1)
                     \/ /\ f.type.base = "vector"
                        /\ info.elem = WithInnerMax(ResolveElemType(f.type.elem, nested), f.max)
             /\ info.ssz = "bitlist" /\ f.attr = "bitlist" => f.max # <<>>
<1> DEFINE info == ResolveSszFieldInfo(f, nested)
<1>1. Unsupported.ssz = "unsupported"
  BY DEF Info, Unsupported
<1>2. \A elem, limit : ListInfo("list", elem, limit).ssz # "bitlist"
  BY <1>1 DEF ListInfo, OfElem
<1>3. \A elem, limit : ListInfo("progressive_list", elem, limit).ssz \notin {"list", "bitlist"}
  BY <1>1 DEF ListInfo, OfElem
<1>4. \A elem, limit : ListInfo("list", elem, limit).ssz = "list" =>
        ListInfo("list", elem, limit).elem = elem /\ ListInfo("list", elem, limit).limit = limit
  BY <1>1 DEF ListInfo, OfElem
<1>5. \A size, elem, limit : OfElem("vector", FALSE, size, elem, limit).ssz \notin {"list", "bitlist"}
  BY <1>1 DEF OfElem
<1>6. \A ssz, dynamic, size : Info(ssz, dynamic, size).ssz = ssz
  BY DEF Info
<1>7. CASE f.type.base = "vector"
  <2> DEFINE elem == ResolveElemType(f.type.elem, nested)
             last == WithInnerMax(elem, f.max)
  <2>1. info = ResolveVectorType(f, nested)
    BY <1>7 DEF ResolveSszFieldInfo
  <2>2. CASE NeedsMax(f) /\ f.max = <<>>
    <3>1. f.attr # "progressive_bitlist" /\ f.attr # "progressive_list"
      BY <1>7, <2>2 DEF NeedsMax
    <3>2. ResolveVectorType(f, nested) = Unsupported
      BY <2>2, <3>1 DEF ResolveVectorType
    <3>3. info.ssz = "unsupported"
      BY <1>1, <2>1, <3>2
    <3> HIDE DEF info
    <3> QED BY <3>3 DEF info
  <2>3. CASE ~(NeedsMax(f) /\ f.max = <<>>)
    <3>1. \/ f.attr = "progressive_bitlist"
          \/ f.attr = "bitlist" /\ f.max # <<>>
          \/ f.attr = "progressive_list"
          \/ f.attr = "none" /\ f.max # <<>>
      BY <1>7, <2>3 DEF IsField, NeedsMax
    <3>2. /\ f.attr = "progressive_bitlist" \/ f.attr = "bitlist" => info = Info("bitlist", TRUE, 0)
          /\ f.attr = "progressive_list" => info = ListInfo("progressive_list", elem, 0)
          /\ f.attr = "none" => info = ListInfo("list", last, f.max[1])
      <4>1. /\ f.attr = "progressive_bitlist" \/ f.attr = "bitlist" =>
                 ResolveVectorType(f, nested) = Info("bitlist", TRUE, 0)
            /\ f.attr = "progressive_list" =>
                 ResolveVectorType(f, nested) = ListInfo("progressive_list", elem, 0)
            /\ f.attr = "none" => ResolveVectorType(f, nested) = ListInfo("list", last, f.max[1])
        BY <2>3, <3>1 DEF ResolveVectorType
      <4> HIDE DEF info, elem, last
      <4> QED BY <2>1, <4>1
    <3> HIDE DEF info, elem, last
    <3>3. CASE f.attr = "progressive_bitlist" \/ f.attr = "bitlist"
      <4>1. info.ssz = "bitlist"
        <5>1. Info("bitlist", TRUE, 0).ssz = "bitlist"
          BY <1>6
        <5>2. info = Info("bitlist", TRUE, 0)
          BY <3>2, <3>3
        <5> QED BY <5>1, <5>2
      <4>2. f.attr = "bitlist" => f.max # <<>>
        BY <3>1
      <4> QED BY <4>1, <4>2 DEF info
    <3>4. CASE f.attr = "progressive_list"
      BY <1>3, <3>2, <3>4 DEF info
    <3>5. CASE f.attr = "none"
      <4>1. info.ssz = "list" => info.elem = last /\ info.limit = f.max[1]
        BY <1>4, <3>2, <3>5
      <4>2. f.max # <<>>
        BY <3>1, <3>5
      <4> QED BY <1>7, <3>5, <4>1, <4>2 DEF info, last, elem
    <3> QED BY <3>1, <3>3, <3>4, <3>5
  <2> QED BY <2>2, <2>3
<1>8. CASE f.type.base = "string"
  <2>1. info = IF f.max = <<>> THEN Unsupported ELSE ListInfo("list", Info("uint", FALSE, 1), f.max[1])
    BY <1>8 DEF ResolveSszFieldInfo
  <2>2. CASE f.max = <<>>
    BY <1>1, <2>1, <2>2
  <2>3. CASE f.max # <<>>
    <3> DEFINE b == Info("uint", FALSE, 1)
    <3>1. info = ListInfo("list", b, f.max[1])
      BY <2>1, <2>3
    <3> HIDE DEF info, b
    <3>2. info.ssz # "bitlist" /\ (info.ssz = "list" => info.elem = b /\ info.limit = f.max[1])
      BY <1>2, <1>4, <3>1
    <3> QED BY <2>3, <3>2 DEF info, b
  <2> QED BY <2>2, <2>3
<1>9. CASE f.type.base = "array"
  <2>1. info.ssz \notin {"list", "bitlist"}
    <3>1. info = ResolveArrayType(f, nested)
      BY <1>9 DEF ResolveSszFieldInfo
    <3>2. CASE f.attr = "bitvector"
      BY <1>6, <3>1, <3>2 DEF ResolveArrayType
    <3>3. CASE f.attr # "bitvector"
      BY <1>5, <3>1, <3>3 DEF ResolveArrayType
    <3> QED BY <3>2, <3>3
  <2> QED BY <2>1
<1>10. CASE f.type.base \notin {"string", "vector", "array"}
  <2>1. info.ssz \notin {"list", "bitlist"}
    <3>1. ContainerInfo(nested).ssz = "container"
      BY DEF ContainerInfo
    <3>2. \/ f.type.base \in {"bool", "uint"} /\ info = Info(f.type.base, FALSE, f.type.size)
          \/ info = ContainerInfo(nested)
          \/ info = Unsupported
      BY <1>10 DEF ResolveSszFieldInfo
    <3> HIDE DEF info
    <3>3. info.ssz \in {"bool", "uint", "container", "unsupported"}
      <4>1. CASE f.type.base \in {"bool", "uint"} /\ info = Info(f.type.base, FALSE, f.type.size)
        <5>1. info.ssz = f.type.base
          BY <1>6, <4>1
        <5> QED BY <4>1, <5>1
      <4>2. CASE info = ContainerInfo(nested)
        BY <3>1, <4>2
      <4>3. CASE info = Unsupported
        BY <1>1, <4>3
      <4> QED BY <3>2, <4>1, <4>2, <4>3
    <3> QED BY <3>3
  <2> QED BY <2>1
<1> QED BY <1>7, <1>8, <1>9, <1>10

\* Every tree under a field has a limit that is a word, and whole elements.
LEMMA TreesAre ==
  ASSUME NEW f, IsField(f), \A i \in 1..Len(f.max) : f.max[i] < AllWords, NEW nested,
         NEW tree \in Trees(f, ResolveSszFieldInfo(f, nested))
  PROVE  IsTree(tree)
<1> DEFINE info == ResolveSszFieldInfo(f, nested)
           e == info.elem
           b == Info("uint", FALSE, 1)
<1>1. f.max # <<>> => f.max[1] \in Nat /\ f.max[1] < AllWords
  <2>1. f.max \in Seq(Nat)
    BY DEF IsField
  <2>2. f.max # <<>> => 1 \in 1..Len(f.max)
    BY <2>1
  <2> QED BY <2>1, <2>2
<1>2. info.ssz = "list" => f.max # <<>> /\ info.limit = f.max[1]
  BY ListIs
<1>3. info.ssz = "bitlist" /\ f.attr = "bitlist" => f.max # <<>>
  BY ListIs
<1>4. info.ssz = "list" => \/ e = b
                           \/ /\ f.type.base = "vector"
                              /\ e = WithInnerMax(ResolveElemType(f.type.elem, nested), f.max)
  BY ListIs
<1>5. info.ssz = "list" =>
        /\ e.ssz = "list" => e.limit \in Nat /\ e.limit < AllWords
        /\ e.ssz \in {"bool", "uint"} => e = Info(e.ssz, FALSE, e.size) /\ e.size \in {1, 2, 4, 8}
  <2>1. b.ssz = "uint" /\ b.size = 1
    BY DEF Info
  <2>2. CASE e = b
    <3>1. e.ssz = "uint" /\ e.size = 1
      BY <2>1, <2>2
    <3> QED BY <2>2, <3>1
  <2>3. ASSUME f.type.base = "vector", e = WithInnerMax(ResolveElemType(f.type.elem, nested), f.max)
        PROVE  /\ e.ssz = "list" => e.limit \in Nat /\ e.limit < AllWords
               /\ e.ssz \in {"bool", "uint"} => e = Info(e.ssz, FALSE, e.size) /\ e.size \in {1, 2, 4, 8}
    <3>1. Sized(f.type.elem) /\ f.max \in Seq(Nat)
      BY <2>3 DEF IsField
    <3> HIDE DEF info, e
    <3> QED BY <2>3, <3>1, ElemIs
  <2> HIDE DEF info, e, b
  <2> QED BY <1>4, <2>2, <2>3
<1>6. tree \in Trees(f, info)
  OBVIOUS
<1> HIDE DEF info, e
<1>7. CASE info.ssz = "bitlist"
  <2>1. f.attr = "bitlist" /\ tree = [of |-> "bits", limit |-> f.max[1]]
    BY <1>6, <1>7 DEF Trees
  <2> QED BY <1>1, <1>3, <1>7, <2>1 DEF IsTree
<1>8. CASE info.ssz = "list"
  <2>1. f.max # <<>> /\ info.limit \in Nat /\ info.limit < AllWords
    BY <1>1, <1>2, <1>8
  <2>2. CASE e.ssz = "list"
    <3>1. \/ tree = [of |-> "roots", limit |-> info.limit]
          \/ tree = [of |-> "bytes", limit |-> e.limit]
      BY <1>6, <1>8, <2>2 DEF Trees, e
    <3> QED BY <1>5, <1>8, <2>1, <2>2, <3>1 DEF IsTree
  <2>3. CASE e.ssz = "container"
    <3>1. tree = [of |-> "roots", limit |-> info.limit]
      BY <1>6, <1>8, <2>3 DEF Trees, e
    <3> QED BY <2>1, <3>1 DEF IsTree
  <2>4. CASE e.ssz = "uint" /\ e.size = 1
    <3>1. tree = [of |-> "bytes", limit |-> info.limit]
      <4>1. e = Info("uint", FALSE, 1)
        BY <1>5, <1>8, <2>4
      <4> QED BY <1>6, <1>8, <2>4, <4>1 DEF Trees, e
    <3> QED BY <2>1, <3>1 DEF IsTree
  <2>5. CASE e.ssz \in {"bool", "uint"} /\ ~(e.ssz = "uint" /\ e.size = 1)
    <3>1. tree = [of |-> "elements", limit |-> info.limit, size |-> e.size]
      BY <1>6, <1>8, <2>5 DEF Trees, e
    <3> QED BY <1>5, <1>8, <2>1, <2>5, <3>1 DEF IsTree
  <2>6. CASE e.ssz \notin {"list", "container", "bool", "uint"}
    BY <1>6, <1>8, <2>6 DEF Trees, e
  <2> QED BY <2>2, <2>3, <2>4, <2>5, <2>6
<1>9. CASE info.ssz \notin {"list", "bitlist"}
  BY <1>6, <1>9 DEF Trees
<1> QED BY <1>7, <1>8, <1>9

-----------------------------------------------------------------------------
(* The fields of the tables that the parser holds.                         *)

\* The numbers of ssz_max and ssz_bitsize are words.
HasWords(table) ==
  \A f \in Range(table.fields) : \A i \in 1..Len(f.max) : f.max[i] < AllWords

WordsInv == \A k \in 1..Len(parsed) : HasWords(parsed[k])

LEMMA StepWords ==
  ASSUME IInv, WordsInv, [Next]_vars PROVE WordsInv'
<1>1. CASE parsed' = <<>>
  <2>1. \A k \in 1..Len(parsed') : FALSE
    BY <1>1
  <2> QED BY <2>1 DEF WordsInv
<1>2. CASE UNCHANGED parsed
  BY <1>2 DEF WordsInv
<1>3. CASE ParseTable
  <2>1. PICK t \in Sorted(schema[next]) : parsed' = Append(parsed, t)
    BY <1>3 DEF ParseTable
  <2>2. schema \in Sources /\ next \in 1..Len(schema)
    <3>1. schema \in Sources /\ next \in 1..(Len(parsed) + 1) /\ next <= Len(schema)
      BY <1>3 DEF ParseTable, IInv, TypeOK
    <3>2. Len(schema) \in Nat /\ Len(parsed) \in Nat
      BY <3>1, SeqFacts, SourcesAssumption DEF IsSource, IsSeq, IInv, ParsedInv
    <3> QED BY <3>1, <3>2
  <2>3. Range(t.fields) \subseteq Range(schema[next].fields)
    BY <2>2, SortedTable
  <2>4. HasWords(t)
    BY <2>2, <2>3, NumbersAssumption DEF HasWords, AllWords
  <2>5. /\ Len(parsed) \in Nat /\ Len(parsed') = Len(parsed) + 1
        /\ \A k \in 1..Len(parsed) : parsed'[k] = parsed[k]
        /\ parsed'[Len(parsed) + 1] = t
    BY <2>1, Appended, SeqFacts DEF IInv, ParsedInv
  <2>6. ASSUME NEW k \in 1..Len(parsed') PROVE HasWords(parsed'[k])
    <3>1. k = Len(parsed) + 1 \/ k \in 1..Len(parsed)
      BY <2>5
    <3> QED BY <2>4, <2>5, <3>1 DEF WordsInv
  <2> QED BY <2>6 DEF WordsInv, HasWords
<1>4. parsed' = <<>> \/ UNCHANGED parsed \/ ParseTable
  <2>1. CASE Edit \/ UNCHANGED vars
    BY <2>1 DEF Edit, vars
  <2>2. ASSUME NEW l \in {"go", "rust"}, Run(l) PROVE parsed' = <<>>
    BY <2>2 DEF Run
  <2>3. CASE RejectTable \/ Parsed \/ SkipGenerated \/ EnterTable
    BY <2>3 DEF RejectTable, Parsed, SkipGenerated, EnterTable
  <2>4. CASE SkipDeprecated \/ ResolveField \/ FailField \/ CallNested \/ Overflow \/ ReturnNested
    BY <2>4 DEF SkipDeprecated, ResolveField, FailField, CallNested, Overflow, ReturnNested
  <2>5. CASE FinishTable \/ SaveFails \/ FinishRun \/ FinalSaveFails
    BY <2>5 DEF FinishTable, SaveFails, FinishRun, FinalSaveFails
  <2> QED BY <2>1, <2>2, <2>3, <2>4, <2>5 DEF Next, Step
<1> QED BY <1>1, <1>2, <1>3, <1>4

\* What is generated has fields of the parsed tables, with their analysis.
LEMMA DepthsExplained == IInv /\ OutputInv /\ AInv /\ WordsInv => DepthsRight
<1> SUFFICES ASSUME IInv, AInv, WordsInv, NEW i \in Done
             PROVE  LET c == Generated(i).container
                    IN  \A j \in 1..Len(c.infos) :
                          \A tree \in Trees(c.fields[j], c.infos[j]), runtime \in Runtimes :
                            Agrees(runtime, tree)
  BY DEF DepthsRight, Agrees
<1>1. IsSource(parsed)
  <2>1. pc # "parse"
    BY DEF Done
  <2> QED BY <2>1 DEF AInv, ParsedSource
<1>2. PICK a, rank, n : Analyses(parsed, a, rank, n) /\ DoneKnown(a)
  BY DEF AInv, AnalysisInv
<1> DEFINE name == parsed[i].name
           c == Generated(i).container
           fs == Fields(parsed, name)
<1>3. name \in DOMAIN a /\ c = a[name]
  BY <1>2 DEF DoneKnown
<1>4. name \in TableNames(parsed) /\ Collected(fs, a, Len(fs) + 1, c)
  BY <1>2, <1>3 DEF Analyses
<1>5. /\ Len(fs) \in Nat /\ IsSeq(fs) /\ \A k \in 1..Len(fs) : IsField(fs[k])
      /\ \E k \in 1..Len(parsed) : fs = parsed[k].fields
  BY <1>1, <1>4, TableOf DEF Fields
<1>6. ASSUME NEW k \in 1..Len(fs) PROVE \A m \in 1..Len(fs[k].max) : fs[k].max[m] < AllWords
  <2>1. PICK t \in 1..Len(parsed) : fs = parsed[t].fields
    BY <1>5
  <2>2. fs[k] \in Range(fs)
    BY <1>5, SeqFacts DEF Range
  <2> QED BY <2>1, <2>2 DEF WordsInv, HasWords
<1> HIDE DEF name, c, fs
<1>7. ASSUME NEW j \in 1..Len(c.infos), NEW tree \in Trees(c.fields[j], c.infos[j]), NEW runtime
      PROVE  Agrees(runtime, tree)
  <2>1. FieldIn(fs, a, Len(fs), c.fields[j], c.infos[j])
    <3>1. Len(fs) + 1 \in Nat \ {0} /\ Len(fs) + 1 - 1 = Len(fs)
      BY <1>5
    <3> QED BY <1>4, <3>1, CollectedFields
  <2>2. PICK k \in 1..Len(fs) :
          c.fields[j] = fs[k] /\ c.infos[j] = ResolveSszFieldInfo(fs[k], NestedIn(a, fs[k]))
    BY <2>1 DEF FieldIn
  <2>3. tree \in Trees(fs[k], ResolveSszFieldInfo(fs[k], NestedIn(a, fs[k])))
    BY <1>7, <2>2
  <2>4. IsTree(tree)
    BY <1>5, <1>6, <2>3, TreesAre
  <2> QED BY <2>4, TreeAgrees
<1> QED BY <1>7 DEF c

LEMMA DepthsKept == Init /\ [][Next]_vars => []DepthsRight
<1>1. Init => WordsInv
  <2>1. ASSUME parsed = <<>> PROVE \A k \in 1..Len(parsed) : FALSE
    BY <2>1
  <2> QED BY <2>1 DEF Init, WordsInv
<1>2. IInv /\ WordsInv /\ [Next]_vars => WordsInv'
  BY StepWords
<1> QED BY <1>1, <1>2, AnalysisKept, DepthsExplained, PTL

\* The runtimes that the hash methods of a schema compile with hash each
\* bounded list in a tree of the depth of its bound exactly as long as no sum
\* or product is beyond its type, of any width (getDepth,
\* ssz_limit_for_elements and the limits in GenHashField).
THEOREM DepthsAlwaysRight == Spec => []DepthsRight
BY DepthsKept, PTL DEF Spec

\* So they do for the packages that flatc makes of files.
THEOREM PackagesDepthsRight ==
  CompilerSpec /\ [](reading = "ok" => schema \in Sources) => []DepthsRight
<1>1. ImplementsFlatc => []DepthsRight
  BY DepthsKept DEF ImplementsFlatc
<1> QED BY <1>1, ReadingImplementsFlatc, PTL
=============================================================================
