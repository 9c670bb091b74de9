---------------------------- MODULE MerkleProofs ----------------------------
(***************************************************************************)
(* The Merkle trees of the Lean library, for trees of every shape and      *)
(* height: what gindexBits, rootOf, setManyAt, commitAndHash, ofSubtrees   *)
(* and mixInLength do, and that a tree built of subtrees has the root      *)
(* that the specification's merkleize computes.                            *)
(*                                                                         *)
(* Trees are related by Rel(n, m, W): n is m but for updates W that have   *)
(* not been made, and whatever slot is filled in n has the root of m.  A   *)
(* walk that makes updates takes them from W.                              *)
(***************************************************************************)
EXTENDS MerkleNode, FiniteSetTheorems, SequenceTheorems, WellFoundedInduction, TLAPS

-----------------------------------------------------------------------------
(* Natural numbers and powers of two.                                      *)

\* Every non-empty set of naturals has a least element.
LEMMA LeastOf ==
  ASSUME NEW T \in SUBSET Nat, T # {}
  PROVE  \E x \in T : \A y \in T : x <= y
<1>1. PICK x \in T : \A y \in T : ~(<<y, x>> \in OpToRel(<, Nat))
  BY WFMin, NatLessThanWellFounded
<1>2. \A y \in T : <<y, x>> \in OpToRel(<, Nat) <=> y < x
  BY DEF OpToRel
<1>3. \A y \in T : ~(y < x)
  BY <1>1, <1>2, Zenon
<1> QED BY <1>3

\* The first n powers of two.
Powers(f, n) ==
  /\ f[0] = 1
  /\ \A k \in 1..n : f[k] = 2 * f[k - 1]

\* There are such tables of any length.
LEMMA PowersExist ==
  ASSUME NEW n \in Nat PROVE \E f : Powers(f, n)
<1> DEFINE Bad == {k \in Nat : ~\E f : Powers(f, k)}
<1> SUFFICES ASSUME Bad # {} PROVE FALSE
  OBVIOUS
<1>1. PICK k \in Bad : \A j \in Bad : k <= j
  BY LeastOf
<1>2. CASE k = 0
  <2>1. Powers([j \in {0} |-> 1], 0)
    BY DEF Powers
  <2> QED BY <1>1, <1>2, <2>1
<1>3. CASE k # 0
  <2>1. k - 1 \in Nat /\ ~(k <= k - 1) /\ k \in Nat
    BY <1>1, <1>3
  <2>2. PICK f : Powers(f, k - 1)
    BY <1>1, <2>1
  <2> DEFINE g == [j \in 0..k |-> IF j = k THEN 2 * f[k - 1] ELSE f[j]]
  <2>3. g[0] = 1
    BY <1>3, <2>1, <2>2 DEF Powers
  <2>4. ASSUME NEW j \in 1..k PROVE g[j] = 2 * g[j - 1]
    <3>1. g[j - 1] = f[j - 1]
      BY <2>1
    <3>2. CASE j = k
      BY <2>1, <3>1, <3>2
    <3>3. CASE j # k
      <4>1. j \in 1..(k - 1) /\ j \in 0..k
        BY <2>1, <3>3
      <4>2. g[j] = f[j]
        BY <3>3, <4>1
      <4>3. f[j] = 2 * f[j - 1]
        BY <2>2, <4>1 DEF Powers
      <4> QED BY <3>1, <4>2, <4>3
    <3> QED BY <3>2, <3>3
  <2>5. Powers(g, k)
    BY <2>3, <2>4 DEF Powers
  <2> QED BY <1>1, <2>5
<1> QED BY <1>2, <1>3

\* Two of them agree as far as both go.
LEMMA PowersSame ==
  ASSUME NEW f, NEW g, NEW n \in Nat, NEW m \in Nat, Powers(f, n), Powers(g, m)
  PROVE  \A k \in Nat : k <= n /\ k <= m => f[k] = g[k]
<1> DEFINE Bad == {k \in Nat : k <= n /\ k <= m /\ f[k] # g[k]}
<1> SUFFICES ASSUME Bad # {} PROVE FALSE
  OBVIOUS
<1>1. PICK k \in Bad : \A j \in Bad : k <= j
  BY LeastOf
<1>2. k # 0
  BY <1>1 DEF Powers
<1>3. k - 1 \in Nat /\ ~(k <= k - 1) /\ k - 1 <= n /\ k - 1 <= m /\ k \in 1..n /\ k \in 1..m
  BY <1>1, <1>2
<1>4. f[k - 1] = g[k - 1]
  BY <1>1, <1>3
<1>5. f[k] = 2 * f[k - 1] /\ g[k] = 2 * g[k - 1]
  BY <1>3 DEF Powers
<1> QED BY <1>1, <1>4, <1>5

\* The recursive definition of Pow2 is a definition: Pow2 satisfies it.
LEMMA Pow2Defined ==
  Pow2 = [n \in Nat |-> IF n = 0 THEN 1 ELSE 2 * Pow2[n - 1]]
<1> DEFINE Of(n) == CHOOSE f : Powers(f, n)
           p == [n \in Nat |-> Of(n)[n]]
<1>1. \A n \in Nat : Powers(Of(n), n)
  BY PowersExist
<1>2. Of(0)[0] = 1
  BY <1>1 DEF Powers
<1>3. ASSUME NEW n \in Nat, n # 0 PROVE Of(n)[n] = 2 * Of(n - 1)[n - 1]
  <2>1. n - 1 \in Nat /\ n \in 1..n /\ n - 1 <= n
    BY <1>3
  <2>2. Powers(Of(n), n) /\ Powers(Of(n - 1), n - 1)
    BY <1>1, <2>1
  <2> HIDE DEF Of
  <2>3. Of(n)[n - 1] = Of(n - 1)[n - 1]
    BY <2>1, <2>2, PowersSame
  <2> QED BY <2>1, <2>2, <2>3 DEF Powers
<1> HIDE DEF Of
<1>4. p = [n \in Nat |-> IF n = 0 THEN 1 ELSE 2 * p[n - 1]]
  <2>1. \A n \in Nat : p[n] = IF n = 0 THEN 1 ELSE 2 * p[n - 1]
    BY <1>2, <1>3
  <2> QED BY <2>1
<1> HIDE DEF p
<1> QED BY <1>4 DEF Pow2

\* Powers of two, by recursion: what ChunkDepth and the generalized indices
\* count with.
LEMMA Pow2Is ==
  /\ Pow2[0] = 1
  /\ \A n \in Nat : Pow2[n] \in Nat \ {0}
  /\ \A n \in Nat : Pow2[n + 1] = 2 * Pow2[n]
<1>1. \A n \in Nat : Pow2[n] = IF n = 0 THEN 1 ELSE 2 * Pow2[n - 1]
  BY Pow2Defined
<1>2. Pow2[0] = 1
  BY <1>1
<1>3. \A n \in Nat : Pow2[n + 1] = 2 * Pow2[n]
  <2> TAKE n \in Nat
  <2>1. n + 1 \in Nat /\ n + 1 # 0 /\ (n + 1) - 1 = n
    OBVIOUS
  <2> QED BY <1>1, <2>1
<1>4. \A n \in Nat : Pow2[n] \in Nat \ {0}
  <2> DEFINE Bad == {n \in Nat : Pow2[n] \notin Nat \ {0}}
  <2> SUFFICES ASSUME Bad # {} PROVE FALSE
    OBVIOUS
  <2>1. PICK n \in Bad : \A m \in Bad : n <= m
    BY LeastOf
  <2>2. n # 0
    BY <1>2, <2>1
  <2>3. n - 1 \in Nat /\ ~(n <= n - 1)
    BY <2>1, <2>2
  <2>4. Pow2[n - 1] \in Nat \ {0} /\ Pow2[n] = 2 * Pow2[n - 1]
    BY <1>1, <2>1, <2>2, <2>3
  <2> QED BY <2>1, <2>4
<1> QED BY <1>2, <1>3, <1>4

\* A greater exponent at least doubles the power.
LEMMA Pow2Grows ==
  ASSUME NEW m \in Nat, NEW n \in Nat, m < n PROVE 2 * Pow2[m] <= Pow2[n]
<1> DEFINE Bad == {k \in Nat : m < k /\ ~(2 * Pow2[m] <= Pow2[k])}
<1> SUFFICES ASSUME Bad # {} PROVE FALSE
  OBVIOUS
<1>1. PICK k \in Bad : \A j \in Bad : k <= j
  BY LeastOf
<1>2. k - 1 \in Nat /\ ~(k <= k - 1) /\ (k - 1) + 1 = k /\ (m = k - 1 \/ m < k - 1)
  BY <1>1
<1>3. Pow2[k] = 2 * Pow2[k - 1] /\ Pow2[k - 1] \in Nat /\ Pow2[m] \in Nat
  BY <1>2, Pow2Is
<1>4. m < k - 1 => 2 * Pow2[m] <= Pow2[k - 1]
  BY <1>1, <1>2
<1> QED BY <1>1, <1>2, <1>3, <1>4

\* A product of powers of two.
LEMMA Pow2Adds ==
  ASSUME NEW m \in Nat, NEW n \in Nat PROVE Pow2[m + n] = Pow2[m] * Pow2[n]
<1> DEFINE Bad == {k \in Nat : Pow2[m + k] # Pow2[m] * Pow2[k]}
<1> SUFFICES ASSUME Bad # {} PROVE FALSE
  OBVIOUS
<1>1. PICK k \in Bad : \A j \in Bad : k <= j
  BY LeastOf
<1>2. k # 0
  BY <1>1, Pow2Is
<1>3. k - 1 \in Nat /\ ~(k <= k - 1) /\ (k - 1) + 1 = k /\ (m + (k - 1)) + 1 = m + k /\ m + (k - 1) \in Nat
  BY <1>1, <1>2
<1>4. Pow2[k] = 2 * Pow2[k - 1] /\ Pow2[m + k] = 2 * Pow2[m + (k - 1)]
  BY <1>3, Pow2Is
<1>5. Pow2[m + (k - 1)] = Pow2[m] * Pow2[k - 1]
  BY <1>1, <1>3
<1>6. Pow2[m] \in Nat /\ Pow2[k - 1] \in Nat
  BY <1>3, Pow2Is
<1>7. 2 * (Pow2[m] * Pow2[k - 1]) = Pow2[m] * (2 * Pow2[k - 1])
  <2> DEFINE a == Pow2[m]
             b == Pow2[k - 1]
  <2>1. a \in Nat /\ b \in Nat
    BY <1>6
  <2> HIDE DEF a, b
  <2>2. 2 * (a * b) = a * (2 * b)
    BY <2>1
  <2> QED BY <2>2 DEF a, b
<1> QED BY <1>1, <1>4, <1>5, <1>7

\* Powers of two are monotonic.
LEMMA Pow2Le ==
  ASSUME NEW m \in Nat, NEW n \in Nat, m <= n PROVE Pow2[m] <= Pow2[n]
<1>1. CASE m = n
  BY <1>1, Pow2Is
<1>2. CASE m # n
  BY <1>2, Pow2Is, Pow2Grows
<1> QED BY <1>1, <1>2

-----------------------------------------------------------------------------
(* Sequences and their prefixes.                                           *)

\* Length and elements of a concatenation.
LEMMA Concat ==
  ASSUME NEW A, NEW s \in Seq(A), NEW t \in Seq(A)
  PROVE  /\ s \o t \in Seq(A)
         /\ Len(s \o t) = Len(s) + Len(t)
         /\ \A i \in 1..Len(s) : (s \o t)[i] = s[i]
         /\ \A i \in 1..Len(t) : (s \o t)[Len(s) + i] = t[i]
BY ConcatProperties

\* A concatenation is over the same set.
LEMMA Joined ==
  ASSUME NEW A, NEW s \in Seq(A), NEW t \in Seq(A)
  PROVE  s \o t \in Seq(A)
BY ConcatProperties

\* Sequences of one length with the same elements are equal.
LEMMA SameSeq ==
  ASSUME NEW A, NEW s \in Seq(A), NEW t \in Seq(A), Len(s) = Len(t),
         \A i \in 1..Len(s) : s[i] = t[i]
  PROVE  s = t
BY SeqEqual

\* Taking a concatenation apart again.
LEMMA Rest ==
  ASSUME NEW A, NEW s \in Seq(A), NEW r \in Seq(A)
  PROVE  /\ SubSeq(s \o r, Len(s) + 1, Len(s \o r)) = r
         /\ SubSeq(s \o r, 1, Len(s)) = s
         /\ IsPrefix(s, s \o r)
<1>1. Len(s) \in Nat /\ Len(r) \in Nat /\ s \o r \in Seq(A) /\ Len(s \o r) = Len(s) + Len(r)
  BY Concat, LenProperties
<1>2. SubSeq(s \o r, 1, Len(s)) = s
  BY SubSeqOfConcat1, SubSeqFull, <1>1
<1>3. SubSeq(s \o r, Len(s) + 1, Len(s \o r)) = r
  BY SubSeqOfConcat2, SubSeqFull, <1>1
<1>4. SubSeq(s, 1, Len(s)) = s
  BY SubSeqFull
<1> QED BY <1>1, <1>2, <1>3, <1>4 DEF IsPrefix

\* What follows a prefix.
LEMMA RestOf ==
  ASSUME NEW A, NEW s \in Seq(A), NEW t \in Seq(A), IsPrefix(s, t)
  PROVE  SubSeq(t, Len(s) + 1, Len(t)) \in Seq(A) /\ t = s \o SubSeq(t, Len(s) + 1, Len(t))
<1>1. Len(s) \in Nat /\ Len(t) \in Nat /\ Len(s) <= Len(t) /\ SubSeq(s, 1, Len(s)) = SubSeq(t, 1, Len(s))
  BY LenProperties DEF IsPrefix
<1>2. s = SubSeq(t, 1, Len(s))
  BY <1>1, SubSeqFull
<1>3. SubSeq(t, Len(s) + 1, Len(t)) \in Seq(A)
  BY <1>1, SubSeqProperties
<1>4. SubSeq(t, 1, Len(s)) \o SubSeq(t, Len(s) + 1, Len(t)) = SubSeq(t, 1, Len(t))
  <2> DEFINE k == Len(s)
             n == Len(t)
  <2>1. 1 \in 1..(n + 1) /\ k \in (1 - 1)..n /\ n \in k..n
    BY <1>1
  <2> HIDE DEF k
  <2>2. SubSeq(t, 1, k) \o SubSeq(t, k + 1, n) = SubSeq(t, 1, n)
    BY <2>1, ConcatAdjacentSubSeq
  <2> QED BY <2>2 DEF k
<1> QED BY <1>2, <1>3, <1>4, SubSeqFull

\* What has a prefix continues it.
LEMMA PrefixHas ==
  ASSUME NEW A, NEW s \in Seq(A), NEW t \in Seq(A), IsPrefix(s, t)
  PROVE  \E r \in Seq(A) : t = s \o r
<1>1. SubSeq(t, Len(s) + 1, Len(t)) \in Seq(A) /\ t = s \o SubSeq(t, Len(s) + 1, Len(t))
  BY RestOf
<1> QED BY <1>1

\* A continuation has what it continues as a prefix.
LEMMA PrefixOf ==
  ASSUME NEW A, NEW s \in Seq(A), NEW r \in Seq(A)
  PROVE  IsPrefix(s, s \o r)
BY Rest

\* Concatenation on the right of one sequence is injective.
LEMMA Cancel ==
  ASSUME NEW A, NEW s \in Seq(A), NEW r \in Seq(A), NEW q \in Seq(A), s \o r = s \o q
  PROVE  r = q
<1>1. SubSeq(s \o r, Len(s) + 1, Len(s \o r)) = r /\ SubSeq(s \o q, Len(s) + 1, Len(s \o q)) = q
  BY Rest, Zenon
<1> QED BY <1>1

\* Concatenation is associative.
LEMMA Assoc ==
  ASSUME NEW A, NEW s \in Seq(A), NEW t \in Seq(A), NEW u \in Seq(A)
  PROVE  (s \o t) \o u = s \o (t \o u)
BY ConcatAssociative

\* Bits, for all continuations of a place.
LEMMA AssocBits ==
  ASSUME NEW a \in Seq(Bit)
  PROVE  \A x, y \in Seq(Bit) : (a \o x) \o y = a \o (x \o y)
<1> TAKE x, y \in Seq(Bit)
<1> QED BY Assoc

\* Sequences of one element.
LEMMA Single ==
  ASSUME NEW A, NEW a \in A
  PROVE  <<a>> \in Seq(A) /\ Len(<<a>>) = 1 /\ <<a>>[1] = a /\ <<a>> # <<>>
OBVIOUS

\* A sequence that is not empty is its front and its last element.
LEMMA SplitLast ==
  ASSUME NEW A, NEW s \in Seq(A), s # <<>>
  PROVE  /\ Front(s) \in Seq(A) /\ Last(s) \in A /\ s = Front(s) \o <<Last(s)>>
         /\ Len(Front(s)) = Len(s) - 1 /\ Len(s) \in Nat \ {0}
         /\ Len(Front(s)) < Len(s) /\ Len(Front(s)) \in Nat
<1>1. Len(s) \in Nat \ {0}
  BY EmptySeq
<1>2. \A i \in 1..Len(s) : s[i] \in A
  BY ElementOfSeq
<1>3. Last(s) \in A
  BY <1>1, <1>2 DEF Last
<1>4. Front(s) \in Seq(A) /\ Len(Front(s)) = Len(s) - 1
  <2> DEFINE n == Len(s) - 1
  <2>1. (\A i \in 1..n : s[i] \in A) /\ n \in Nat /\ 1 \in Int
    BY <1>1, <1>2
  <2> HIDE DEF n
  <2>2. SubSeq(s, 1, n) \in Seq(A) /\ Len(SubSeq(s, 1, n)) = IF 1 <= n THEN n - 1 + 1 ELSE 0
    BY <2>1, SubSeqProperties
  <2>3. Len(SubSeq(s, 1, n)) = n
    BY <2>1, <2>2
  <2> QED BY <2>2, <2>3 DEF Front, n
<1>5. s = Front(s) \o <<Last(s)>>
  <2>1. SubSeq(s, 1, Len(s)) = SubSeq(s, 1, Len(s) - 1) \o <<s[Len(s)]>>
    BY <1>1, SubSeqRecursiveSecond
  <2> QED BY <2>1, SubSeqFull DEF Front, Last
<1> QED BY <1>1, <1>3, <1>4, <1>5

\* The front and the last element of a sequence extended by one.
LEMMA FrontIs ==
  ASSUME NEW A, NEW s \in Seq(A), NEW a \in A
  PROVE  /\ Front(s \o <<a>>) = s /\ Last(s \o <<a>>) = a /\ s \o <<a>> # <<>>
         /\ s \o <<a>> \in Seq(A) /\ Len(s \o <<a>>) = Len(s) + 1 /\ Len(s) \in Nat
<1>1. <<a>> \in Seq(A) /\ Len(<<a>>) = 1 /\ <<a>>[1] = a
  BY Single
<1>2. /\ s \o <<a>> \in Seq(A) /\ Len(s \o <<a>>) = Len(s) + 1 /\ Len(s) \in Nat
      /\ (s \o <<a>>)[Len(s) + 1] = a
  BY <1>1, Concat, LenProperties
<1>3. Last(s \o <<a>>) = a
  BY <1>2 DEF Last
<1>4. SubSeq(s \o <<a>>, 1, Len(s)) = s
  BY <1>1, Rest
<1>5. Front(s \o <<a>>) = s
  BY <1>2, <1>4 DEF Front
<1>6. s \o <<a>> # <<>>
  BY <1>2, EmptySeq
<1> QED BY <1>2, <1>3, <1>5, <1>6

\* The prefixes of a sequence extended by one: those of the sequence, and
\* itself.
LEMMA PrefixOfNext ==
  ASSUME NEW A, NEW s \in Seq(A), NEW t \in Seq(A), NEW a \in A
  PROVE  IsPrefix(s, t \o <<a>>) <=> IsPrefix(s, t) \/ s = t \o <<a>>
<1>1. <<a>> \in Seq(A) /\ t \o <<a>> \in Seq(A) /\ Front(t \o <<a>>) = t
  BY Single, FrontIs
<1>2. ASSUME IsPrefix(s, t) PROVE IsPrefix(s, t \o <<a>>)
  <2>1. PICK r \in Seq(A) : t = s \o r
    BY <1>2, PrefixHas, Zenon
  <2>2. t \o <<a>> = s \o (r \o <<a>>) /\ r \o <<a>> \in Seq(A)
    BY <1>1, <2>1, Assoc, FrontIs
  <2> QED BY <1>1, <2>2, PrefixOf
<1>3. IsPrefix(t \o <<a>>, t \o <<a>>)
  BY <1>1, PrefixOf, ConcatEmptySeq, EmptySeq
<1>4. ASSUME IsPrefix(s, t \o <<a>>), s # t \o <<a>> PROVE IsPrefix(s, t)
  <2> DEFINE ta == t \o <<a>>
  <2>0. ta \in Seq(A) /\ IsPrefix(s, ta)
    BY <1>1, <1>4
  <2>a. \E r \in Seq(A) : ta = s \o r
    <3> HIDE DEF ta
    <3> QED BY <2>0, PrefixHas
  <2>1. PICK r \in Seq(A) : t \o <<a>> = s \o r
    BY <2>a
  <2>2. r # <<>>
    BY <1>4, <2>1, ConcatEmptySeq
  <2>3. Front(r) \in Seq(A) /\ Last(r) \in A /\ r = Front(r) \o <<Last(r)>> /\ <<Last(r)>> \in Seq(A)
    BY <2>2, SplitLast, Single
  <2>4. (s \o Front(r)) \o <<Last(r)>> = s \o (Front(r) \o <<Last(r)>>) /\ s \o Front(r) \in Seq(A)
    <3>1. \A f, l \in Seq(A) : (s \o f) \o l = s \o (f \o l) /\ s \o f \in Seq(A)
      BY Assoc, Joined
    <3> QED BY <2>3, <3>1, Zenon
  <2>5. t \o <<a>> = (s \o Front(r)) \o <<Last(r)>>
    BY <2>1, <2>3, <2>4
  <2>6. Front((s \o Front(r)) \o <<Last(r)>>) = s \o Front(r)
    BY <2>3, <2>4, FrontIs
  <2>7. t = s \o Front(r)
    BY <1>1, <2>5, <2>6
  <2> QED BY <2>3, <2>7, PrefixOf
<1> QED BY <1>2, <1>3, <1>4

\* Being a prefix is a partial order, with the empty sequence at the bottom.
LEMMA PrefixOrder ==
  ASSUME NEW A, NEW s \in Seq(A), NEW t \in Seq(A), NEW u \in Seq(A)
  PROVE  /\ IsPrefix(s, s) /\ IsPrefix(<<>>, s)
         /\ IsPrefix(s, t) /\ IsPrefix(t, u) => IsPrefix(s, u)
         /\ IsPrefix(s, t) /\ IsPrefix(t, s) => s = t
         /\ IsPrefix(s, t) => Len(s) <= Len(t)
         /\ IsPrefix(s, t) /\ Len(s) = Len(t) => s = t
         /\ IsPrefix(s, <<>>) => s = <<>>
<1>1. IsPrefix(s, s) /\ IsPrefix(<<>>, s)
  <2>1. <<>> \in Seq(A) /\ s \o <<>> = s /\ <<>> \o s = s
    BY ConcatEmptySeq, EmptySeq
  <2>2. IsPrefix(s, s \o <<>>) /\ IsPrefix(<<>>, <<>> \o s)
    BY <2>1, PrefixOf
  <2> QED BY <2>1, <2>2
<1>2. ASSUME IsPrefix(s, t), IsPrefix(t, u) PROVE IsPrefix(s, u)
  <2>1. PICK r \in Seq(A) : t = s \o r
    BY <1>2, PrefixHas, Zenon
  <2>2. PICK q \in Seq(A) : u = t \o q
    BY <1>2, PrefixHas, Zenon
  <2>3. u = s \o (r \o q) /\ r \o q \in Seq(A)
    BY <2>1, <2>2, Assoc, Concat
  <2> QED BY <2>3, PrefixOf
<1>3. Len(s) \in Nat /\ Len(t) \in Nat
  BY LenProperties
<1>4. IsPrefix(s, t) => Len(s) <= Len(t)
  BY DEF IsPrefix
<1>5. IsPrefix(s, t) /\ Len(s) = Len(t) => s = t
  BY SubSeqFull DEF IsPrefix
<1>6. IsPrefix(s, t) /\ IsPrefix(t, s) => s = t
  <2>1. IsPrefix(t, s) => Len(t) <= Len(s)
    BY DEF IsPrefix
  <2> QED BY <1>3, <1>4, <1>5, <2>1
<1>7. IsPrefix(s, <<>>) => s = <<>>
  BY EmptySeq DEF IsPrefix
<1> QED BY <1>1, <1>2, <1>4, <1>5, <1>6, <1>7

\* The prefixes of one sequence are ordered by length.
LEMMA PrefixLinear ==
  ASSUME NEW A, NEW s \in Seq(A), NEW t \in Seq(A), NEW u \in Seq(A),
         IsPrefix(s, u), IsPrefix(t, u)
  PROVE  /\ IsPrefix(s, t) \/ IsPrefix(t, s)
         /\ Len(s) <= Len(t) => IsPrefix(s, t)
<1>0. Len(s) \in Nat /\ Len(t) \in Nat /\ Len(u) \in Nat
  BY LenProperties
<1>1. ASSUME NEW x \in Seq(A), NEW y \in Seq(A), IsPrefix(x, u), IsPrefix(y, u), Len(x) <= Len(y)
      PROVE  IsPrefix(x, y)
  <2>1. Len(x) \in Nat /\ Len(y) \in Nat /\ Len(u) \in Nat
    BY LenProperties
  <2>2. PICK r \in Seq(A) : u = x \o r
    BY <1>1, PrefixHas, Zenon
  <2>3. PICK q \in Seq(A) : u = y \o q
    BY <1>1, PrefixHas, Zenon
  <2>4. SubSeq(x, 1, Len(x)) = x /\ SubSeq(u, 1, Len(x)) = x
    BY <2>2, Rest, SubSeqFull
  <2>5. SubSeq(y, 1, Len(x)) = SubSeq(y \o q, 1, Len(x))
    <3>1. CASE Len(x) = 0
      BY <3>1, SubSeqEmpty
    <3>2. CASE Len(x) # 0
      <4>1. 1 \in 1..Len(y) /\ Len(x) \in 1..Len(y)
        BY <1>1, <2>1, <3>2
      <4> QED BY <4>1, SubSeqOfConcat1
    <3> QED BY <3>1, <3>2
  <2> QED BY <1>1, <2>3, <2>4, <2>5 DEF IsPrefix
<1> QED BY <1>0, <1>1

-----------------------------------------------------------------------------
(* Functions by recursion over sequences: from the front, and over trees.  *)

\* An overlay is defined where either function is, and takes the first where
\* both are.
LEMMA OverlaidIs ==
  ASSUME NEW f, NEW g
  PROVE  /\ DOMAIN Overlaid(f, g) = DOMAIN f \union DOMAIN g
         /\ \A x \in DOMAIN f : Overlaid(f, g)[x] = f[x]
         /\ \A x \in DOMAIN g \ DOMAIN f : Overlaid(f, g)[x] = g[x]
         /\ Overlaid(f, g) = [x \in DOMAIN f \union DOMAIN g |-> Overlaid(f, g)[x]]
<1> DEFINE h == [x \in DOMAIN f \union DOMAIN g |-> IF x \in DOMAIN f THEN f[x] ELSE g[x]]
<1>1. Evaluated(h) = h
  <2> HIDE DEF h
  <2> QED BY DEF Evaluated
<1>2. Overlaid(f, g) = h
  BY <1>1 DEF Overlaid
<1> QED BY <1>2

\* Induction from long sequences to short ones, and the other way.
LEMMA Downward ==
  ASSUME NEW A, NEW D \in SUBSET Seq(A), NEW N \in Nat, \A z \in D : Len(z) <= N, NEW P,
         \A z \in D : (\A y \in D : Len(z) < Len(y) => y \in P) => z \in P
  PROVE  \A z \in D : z \in P
<1> DEFINE Bad == {N - Len(z) : z \in {z \in D : z \notin P}}
<1>1. \A z \in D : Len(z) \in Nat
  BY LenProperties
<1>2. Bad \in SUBSET Nat
  BY <1>1
<1>3. CASE Bad = {}
  BY <1>3
<1>4. CASE Bad # {}
  <2> HIDE DEF Bad
  <2>1. PICK x \in Bad : \A y \in Bad : x <= y
    BY <1>2, <1>4, LeastOf
  <2>2. PICK z \in D : z \notin P /\ x = N - Len(z)
    BY <2>1 DEF Bad
  <2>3. ASSUME NEW y \in D, Len(z) < Len(y) PROVE y \in P
    <3>1. y \notin P => N - Len(y) \in Bad
      BY DEF Bad
    <3>2. ~(N - Len(z) <= N - Len(y))
      BY <1>1, <2>3
    <3> QED BY <2>1, <2>2, <3>1, <3>2
  <2> QED BY <2>2, <2>3
<1> QED BY <1>3, <1>4

\* Induction from short sequences to long ones.
LEMMA Upward ==
  ASSUME NEW A, NEW D \in SUBSET Seq(A), NEW P,
         \A z \in D : (\A y \in D : Len(y) < Len(z) => y \in P) => z \in P
  PROVE  \A z \in D : z \in P
<1> DEFINE Bad == {Len(z) : z \in {z \in D : z \notin P}}
<1>1. \A z \in D : Len(z) \in Nat
  BY LenProperties
<1>2. Bad \in SUBSET Nat
  BY <1>1
<1>3. CASE Bad = {}
  <2>1. ASSUME NEW z \in D, z \notin P PROVE FALSE
    <3>1. Len(z) \in Bad
      BY <2>1
    <3> QED BY <1>3, <3>1
  <2> QED BY <2>1
<1>4. CASE Bad # {}
  <2> HIDE DEF Bad
  <2>1. PICK x \in Bad : \A y \in Bad : x <= y
    BY <1>2, <1>4, LeastOf
  <2>2. PICK z \in D : z \notin P /\ x = Len(z)
    BY <2>1 DEF Bad
  <2>3. ASSUME NEW y \in D, Len(y) < Len(z) PROVE y \in P
    <3>1. y \notin P => Len(y) \in Bad
      BY DEF Bad
    <3>2. ~(Len(z) <= Len(y))
      BY <1>1, <2>3
    <3> QED BY <2>1, <2>2, <3>1, <3>2
  <2> QED BY <2>2, <2>3
<1> QED BY <1>3, <1>4

\* The sequences of D of at most n elements.
UpTo(D, n) == {z \in D : Len(z) <= n}

\* f is the recursion from e by step on the sequences of D up to length n.
Recursion(f, D, n, e, step) ==
  /\ DOMAIN f = UpTo(D, n)
  /\ \A z \in UpTo(D, n) : f[z] = IF z = <<>> THEN e ELSE step[<<f[Front(z)], z>>]

\* A set of sequences over A that has the front of each.
FrontClosed(A, D) == D \subseteq Seq(A) /\ <<>> \in D /\ \A z \in D \ {<<>>} : Front(z) \in D

\* Fronts stay in D, one element shorter.
LEMMA FrontIn ==
  ASSUME NEW A, NEW D, FrontClosed(A, D), NEW n \in Nat, NEW z \in UpTo(D, n), z # <<>>
  PROVE  /\ n # 0 /\ n - 1 \in Nat /\ Front(z) \in UpTo(D, n - 1) /\ Front(z) \in UpTo(D, n)
         /\ Len(Front(z)) = Len(z) - 1 /\ Len(z) \in Nat
<1>1. z \in Seq(A) /\ z \in D /\ Len(z) <= n /\ Front(z) \in D
  BY DEF FrontClosed, UpTo
<1>2. Len(Front(z)) = Len(z) - 1 /\ Len(z) \in Nat \ {0}
  BY <1>1, SplitLast
<1> QED BY <1>1, <1>2 DEF UpTo

\* Two recursions agree on what both define.
LEMMA RecursionSame ==
  ASSUME NEW A, NEW D, FrontClosed(A, D), NEW e, NEW step, NEW m \in Nat, NEW n \in Nat,
         NEW f, NEW g, Recursion(f, D, m, e, step), Recursion(g, D, n, e, step)
  PROVE  \A z \in UpTo(D, m) \intersect UpTo(D, n) : f[z] = g[z]
<1> DEFINE B == UpTo(D, m) \intersect UpTo(D, n)
           P == {z \in B : f[z] = g[z]}
<1>1. B \in SUBSET Seq(A)
  BY DEF UpTo, FrontClosed
<1>2. ASSUME NEW z \in B, \A y \in B : Len(y) < Len(z) => y \in P PROVE z \in P
  <2>1. CASE z = <<>>
    BY <2>1 DEF Recursion
  <2>2. CASE z # <<>>
    <3>1. Front(z) \in B /\ Len(Front(z)) < Len(z)
      BY <2>2, FrontIn
    <3>2. f[Front(z)] = g[Front(z)]
      BY <1>2, <3>1
    <3> QED BY <2>2, <3>2 DEF Recursion
  <2> QED BY <2>1, <2>2
<1> HIDE DEF B, P
<1>3. \A z \in B : z \in P
  BY <1>1, <1>2, Upward
<1> QED BY <1>3 DEF B, P

\* The recursion exists up to any length.
LEMMA RecursionUpTo ==
  ASSUME NEW A, NEW D, FrontClosed(A, D), NEW e, NEW step, NEW n \in Nat
  PROVE  \E f : Recursion(f, D, n, e, step)
<1> DEFINE Bad == {k \in Nat : ~\E f : Recursion(f, D, k, e, step)}
<1> SUFFICES ASSUME Bad # {} PROVE FALSE
  OBVIOUS
<1>1. PICK k \in Bad : \A j \in Bad : k <= j
  BY LeastOf
<1>2. CASE k = 0
  <2> DEFINE g == [z \in UpTo(D, 0) |-> e]
  <2>1. \A z \in UpTo(D, 0) : z = <<>>
    BY FrontIn, Zenon
  <2>2. Recursion(g, D, 0, e, step)
    BY <2>1 DEF Recursion
  <2> HIDE DEF g
  <2> QED BY <1>1, <1>2, <2>2
<1>3. CASE k # 0
  <2>1. k - 1 \in Nat /\ ~(k <= k - 1) /\ k \in Nat
    BY <1>1, <1>3
  <2>2. PICK f : Recursion(f, D, k - 1, e, step)
    BY <1>1, <2>1
  <2> DEFINE g == [z \in UpTo(D, k) |-> IF z = <<>> THEN e ELSE step[<<f[Front(z)], z>>]]
  <2>3. \A z \in UpTo(D, k - 1) : z \in UpTo(D, k) /\ f[z] = g[z]
    <3> TAKE z \in UpTo(D, k - 1)
    <3>1. z \in Seq(A)
      BY DEF FrontClosed, UpTo
    <3>2. z \in UpTo(D, k)
      BY <2>1, <3>1, LenProperties DEF UpTo
    <3> QED BY <2>2, <3>2 DEF Recursion
  <2>4. ASSUME NEW z \in UpTo(D, k), z # <<>> PROVE f[Front(z)] = g[Front(z)]
    <3>1. Front(z) \in UpTo(D, k - 1)
      BY <2>1, <2>4, FrontIn
    <3> QED BY <2>3, <3>1
  <2>5. Recursion(g, D, k, e, step)
    BY <2>4 DEF Recursion
  <2> HIDE DEF g
  <2> QED BY <1>1, <2>5
<1> QED BY <1>2, <1>3

\* f is the recursion from e by step on all of D.
Recurs(f, D, e, step) ==
  /\ f = [z \in D |-> f[z]]
  /\ \A z \in D : f[z] = IF z = <<>> THEN e ELSE step[<<f[Front(z)], z>>]

\* The recursion from the front of a sequence exists: paths and places are
\* looked up this way.
LEMMA RecursionExists ==
  ASSUME NEW A, NEW D, FrontClosed(A, D), NEW e, NEW step
  PROVE  \E f : Recurs(f, D, e, step)
<1> DEFINE Of(n) == CHOOSE f : Recursion(f, D, n, e, step)
           g == [z \in D |-> Of(Len(z))[z]]
<1>1. \A n \in Nat : Recursion(Of(n), D, n, e, step)
  BY RecursionUpTo, Zenon
<1> HIDE DEF Of
<1>2. ASSUME NEW z \in D PROVE g[z] = IF z = <<>> THEN e ELSE step[<<g[Front(z)], z>>]
  <2> DEFINE n == Len(z)
  <2>1. n \in Nat /\ z \in UpTo(D, n)
    BY LenProperties DEF FrontClosed, UpTo
  <2> HIDE DEF n
  <2>2. Recursion(Of(n), D, n, e, step)
    BY <1>1, <2>1
  <2>3. g[z] = IF z = <<>> THEN e ELSE step[<<Of(n)[Front(z)], z>>]
    BY <2>1, <2>2 DEF Recursion, n
  <2>4. CASE z # <<>>
    <3>1. n - 1 \in Nat /\ Front(z) \in UpTo(D, n) /\ Front(z) \in UpTo(D, n - 1) /\ Len(Front(z)) = n - 1
      BY <2>1, <2>4, FrontIn DEF n
    <3>2. Recursion(Of(n - 1), D, n - 1, e, step)
      BY <1>1, <3>1
    <3>3. Of(n)[Front(z)] = Of(n - 1)[Front(z)]
      BY <2>1, <2>2, <3>1, <3>2, RecursionSame
    <3>4. g[Front(z)] = Of(n - 1)[Front(z)]
      BY <3>1 DEF UpTo
    <3> QED BY <2>3, <3>3, <3>4
  <2> QED BY <2>3, <2>4
<1>3. g = [z \in D |-> g[z]]
  OBVIOUS
<1> HIDE DEF g
<1> QED BY <1>2, <1>3 DEF Recurs

\* f combines the children of the places of I and takes c elsewhere.
Combines(f, D, I, c) ==
  f = [z \in D |-> IF z \in I THEN Combine(f[Left(z)], f[Right(z)]) ELSE c[z]]

\* The recursion from the children of a place exists in every tree of bounded
\* height; rootOf and the walk of commitAndHash recurse so.
LEMMA TreeRecursion ==
  ASSUME NEW D \in SUBSET Seq(Bit), NEW N \in Nat, \A z \in D : Len(z) <= N, NEW I, NEW c,
         \A z \in D : z \in I => Left(z) \in D /\ Right(z) \in D
  PROVE  \E f : Combines(f, D, I, c)
<1> DEFINE Low(k) == {z \in D : N <= Len(z) + k}
           Is(f, k) == f = [z \in Low(k) |-> IF z \in I THEN Combine(f[Left(z)], f[Right(z)]) ELSE c[z]]
           Bad == {k \in Nat : ~\E f : Is(f, k)}
<1>1. \A z \in D : /\ Len(z) \in Nat
                   /\ z \in I => Len(Left(z)) = Len(z) + 1 /\ Len(Right(z)) = Len(z) + 1
  <2> TAKE z \in D
  <2>1. z \in Seq(Bit) /\ 0 \in Bit /\ 1 \in Bit
    BY DEF Bit
  <2> QED BY <2>1, FrontIs DEF Left, Right
<1>2. Low(N) = D
  BY <1>1
<1>3. Bad = {}
  <2> SUFFICES ASSUME Bad # {} PROVE FALSE
    OBVIOUS
  <2>1. Bad \in SUBSET Nat
    OBVIOUS
  <2> HIDE DEF Bad
  <2>2. PICK k \in Bad : \A j \in Bad : k <= j
    BY <2>1, LeastOf
  <2>3. k \in Nat
    BY <2>1
  <2>4. CASE k = 0
    <3>1. \A z \in Low(0) : z \notin I
      <4>1. \A z \in D : z \in I => Len(z) + 1 <= N
        BY <1>1
      <4> QED BY <1>1, <4>1
    <3>2. Is([z \in Low(0) |-> c[z]], 0)
      BY <3>1
    <3> QED BY <2>2, <2>4, <3>2 DEF Bad
  <2>5. CASE k # 0
    <3>1. k - 1 \in Nat /\ ~(k <= k - 1)
      BY <2>3, <2>5
    <3>2. k - 1 \notin Bad
      BY <2>2, <3>1
    <3>3. PICK f : Is(f, k - 1)
      BY <3>1, <3>2 DEF Bad
    <3> DEFINE g == [z \in Low(k) |-> IF z \in I THEN Combine(f[Left(z)], f[Right(z)]) ELSE c[z]]
    <3>4. \A z \in Low(k - 1) : z \in Low(k) /\ g[z] = f[z]
      <4> TAKE z \in Low(k - 1)
      <4>1. z \in Low(k)
        BY <1>1, <2>3
      <4> QED BY <3>3, <4>1
    <3>5. \A z \in Low(k) : z \in I => Left(z) \in Low(k - 1) /\ Right(z) \in Low(k - 1)
      BY <1>1, <2>3
    <3> HIDE DEF Low
    <3>6. g = [z \in Low(k) |-> IF z \in I THEN Combine(g[Left(z)], g[Right(z)]) ELSE c[z]]
      <4>1. \A z \in Low(k) : z \in I => g[Left(z)] = f[Left(z)] /\ g[Right(z)] = f[Right(z)]
        BY <3>4, <3>5
      <4> QED BY <4>1
    <3> HIDE DEF g
    <3>7. Is(g, k)
      BY <3>6
    <3> QED BY <2>2, <3>7 DEF Bad
  <2> QED BY <2>4, <2>5
<1>4. \E f : Is(f, N)
  BY <1>3
<1> QED BY <1>2, <1>4 DEF Combines

-----------------------------------------------------------------------------
(* Generalized indices: gindexOfBits, gindexBits and the numbers of        *)
(* places.                                                                 *)

\* The bits.
LEMMA Bits01 == 0 \in Bit /\ 1 \in Bit /\ Bit \subseteq Nat /\ \A b \in Bit : b = 0 \/ b = 1
BY DEF Bit

\* The recursive definition of gindexOfBits is a definition.
LEMMA GindexDefined ==
  GindexOfBits = [z \in Seq(Bit) |-> IF z = <<>> THEN 1 ELSE 2 * GindexOfBits[Front(z)] + Last(z)]
<1> DEFINE step == [p \in Nat \X Seq(Bit) |-> 2 * p[1] + Last(p[2])]
           D == Seq(Bit)
           e == 1
<1>1. FrontClosed(Bit, D)
  <2>1. \A z \in Seq(Bit) \ {<<>>} : Front(z) \in Seq(Bit)
    BY SplitLast
  <2> QED BY <2>1, EmptySeq DEF FrontClosed
<1>2. PICK f : /\ f = [z \in D |-> f[z]]
               /\ \A z \in D : f[z] = IF z = <<>> THEN e ELSE step[<<f[Front(z)], z>>]
  <2> HIDE DEF step, D, e
  <2>1. PICK f : Recurs(f, D, e, step)
    BY <1>1, RecursionExists
  <2> QED BY <2>1 DEF Recurs
<1>3. \A z \in D : f[z] \in Nat
  <2> DEFINE P == {z \in D : f[z] \in Nat}
  <2>1. ASSUME NEW z \in D, \A y \in D : Len(y) < Len(z) => y \in P PROVE z \in P
    <3>1. CASE z = <<>>
      <4>1. f[z] = e
        BY <1>2, <3>1, Zenon
      <4> QED BY <4>1
    <3>2. CASE z # <<>>
      <4>1. Front(z) \in Seq(Bit) /\ Len(Front(z)) < Len(z) /\ Last(z) \in Nat
        BY <3>2, SplitLast, Bits01
      <4>2. f[Front(z)] \in Nat
        BY <2>1, <4>1
      <4>3. f[z] = 2 * f[Front(z)] + Last(z)
        BY <1>2, <3>2, <4>2
      <4> QED BY <4>1, <4>2, <4>3
    <3> QED BY <3>1, <3>2
  <2>2. D \in SUBSET Seq(Bit)
    OBVIOUS
  <2> HIDE DEF P, D
  <2>3. \A z \in D : z \in P
    BY <2>1, <2>2, Upward
  <2> QED BY <2>3 DEF P
<1>4. \A z \in D : z # <<>> => step[<<f[Front(z)], z>>] = 2 * f[Front(z)] + Last(z)
  BY <1>1, <1>3 DEF FrontClosed
<1>5. f = [z \in D |-> IF z = <<>> THEN 1 ELSE 2 * f[Front(z)] + Last(z)]
  <2> HIDE DEF step
  <2> QED BY <1>2, <1>4
<1> QED BY <1>5 DEF GindexOfBits

\* The generalized index of a child, from that of its parent.
LEMMA GindexIs ==
  /\ GindexOfBits[<<>>] = 1
  /\ \A z \in Seq(Bit) : \A b \in Bit : GindexOfBits[z \o <<b>>] = 2 * GindexOfBits[z] + b
<1>1. GindexOfBits[<<>>] = 1
  BY GindexDefined, EmptySeq
<1>2. ASSUME NEW z \in Seq(Bit), NEW b \in Bit PROVE GindexOfBits[z \o <<b>>] = 2 * GindexOfBits[z] + b
  <2>1. z \o <<b>> \in Seq(Bit) /\ Front(z \o <<b>>) = z /\ Last(z \o <<b>>) = b /\ z \o <<b>> # <<>>
    BY FrontIs
  <2> DEFINE y == z \o <<b>>
  <2> HIDE DEF y
  <2>2. y \in Seq(Bit) => GindexOfBits[y] = IF y = <<>> THEN 1 ELSE 2 * GindexOfBits[Front(y)] + Last(y)
    BY GindexDefined
  <2> QED BY <2>1, <2>2 DEF y
<1> QED BY <1>1, <1>2

\* Between the powers of its length and the next.
LEMMA GindexRange ==
  ASSUME NEW z \in Seq(Bit)
  PROVE  GindexOfBits[z] \in Nat /\ Pow2[Len(z)] <= GindexOfBits[z] /\ GindexOfBits[z] < Pow2[Len(z) + 1]
<1> DEFINE In(y) == GindexOfBits[y] \in Nat /\ Pow2[Len(y)] <= GindexOfBits[y] /\ GindexOfBits[y] < Pow2[Len(y) + 1]
           P == {y \in Seq(Bit) : In(y)}
<1>1. ASSUME NEW x \in Seq(Bit), \A y \in Seq(Bit) : Len(y) < Len(x) => y \in P PROVE x \in P
  <2>1. CASE x = <<>>
    <3>1. Len(x) = 0 /\ GindexOfBits[x] = 1
      BY <2>1, EmptySeq, GindexIs
    <3>2. Pow2[0] = 1 /\ Pow2[0 + 1] = 2 * Pow2[0]
      BY Pow2Is
    <3>3. In(x)
      BY <3>1, <3>2
    <3> QED BY <3>3
  <2>2. CASE x # <<>>
    <3> DEFINE y == Front(x)
               b == Last(x)
    <3>1. y \in Seq(Bit) /\ b \in Bit /\ x = y \o <<b>> /\ Len(y) + 1 = Len(x) /\ Len(y) \in Nat /\ Len(y) < Len(x)
      <4>1. /\ y \in Seq(Bit) /\ b \in Bit /\ x = y \o <<b>> /\ Len(y) = Len(x) - 1 /\ Len(x) \in Nat \ {0}
            /\ Len(y) < Len(x) /\ Len(y) \in Nat
        BY <2>2, SplitLast
      <4> HIDE DEF y, b
      <4> QED BY <4>1
    <3> HIDE DEF y, b
    <3>2. In(y)
      BY <1>1, <3>1
    <3>3. GindexOfBits[x] = 2 * GindexOfBits[y] + b
      BY <3>1, GindexIs
    <3>4. Pow2[Len(y) + 1] = 2 * Pow2[Len(y)] /\ Pow2[(Len(y) + 1) + 1] = 2 * Pow2[Len(y) + 1]
      BY <3>1, Pow2Is
    <3>5. Pow2[Len(y)] \in Nat /\ Pow2[Len(y) + 1] \in Nat
      <4>1. Len(y) + 1 \in Nat
        BY <3>1
      <4> QED BY <3>1, <4>1, Pow2Is
    <3>6. In(x)
      <4> DEFINE G == GindexOfBits[y]
                 H == GindexOfBits[x]
                 p == Pow2[Len(y)]
                 q == Pow2[Len(x)]
                 r == Pow2[Len(x) + 1]
      <4>1. G \in Nat /\ p <= G /\ G < q /\ H = 2 * G + b /\ q = 2 * p /\ r = 2 * q /\ p \in Nat /\ q \in Nat /\ (b = 0 \/ b = 1)
        BY <3>1, <3>2, <3>3, <3>4, <3>5, Bits01
      <4> HIDE DEF G, H, p, q, r
      <4>2. H \in Nat /\ q <= H /\ H < r
        BY <4>1
      <4> QED BY <4>2 DEF H, q, r
    <3> QED BY <3>6
  <2> QED BY <2>1, <2>2
<1> HIDE DEF P
<1>2. \A x \in Seq(Bit) : x \in P
  BY <1>1, Upward
<1> QED BY <1>2 DEF P

\* The number of a place is less than the number of places of its depth, and
\* its bits number its children.
LEMMA Numbers ==
  /\ Number(<<>>) = 0
  /\ \A z \in Seq(Bit) : /\ Number(z) \in Nat /\ Number(z) < Pow2[Len(z)]
                         /\ \A b \in Bit : Number(z \o <<b>>) = 2 * Number(z) + b
<1>1. Number(<<>>) = 0
  BY GindexIs, Pow2Is, EmptySeq DEF Number
<1>2. ASSUME NEW z \in Seq(Bit)
      PROVE  /\ Number(z) \in Nat /\ Number(z) < Pow2[Len(z)]
             /\ \A b \in Bit : Number(z \o <<b>>) = 2 * Number(z) + b
  <2> DEFINE G == GindexOfBits[z]
             p == Pow2[Len(z)]
  <2>1. Len(z) \in Nat /\ p \in Nat /\ Pow2[Len(z) + 1] = 2 * p
    BY LenProperties, Pow2Is
  <2>2. G \in Nat /\ p <= G /\ G < 2 * p
    BY <2>1, GindexRange
  <2>3. \A b \in Bit : GindexOfBits[z \o <<b>>] = 2 * G + b /\ Pow2[Len(z \o <<b>>)] = 2 * p /\ b \in Nat
    BY <2>1, GindexIs, FrontIs, Bits01
  <2> HIDE DEF G, p
  <2>4. G - p \in Nat /\ G - p < p /\ \A b \in Nat : 2 * G + b - 2 * p = 2 * (G - p) + b
    BY <2>1, <2>2
  <2>5. Number(z) = G - p /\ \A b \in Bit : Number(z \o <<b>>) = 2 * G + b - 2 * p
    <3>1. \A b \in Bit : Number(z \o <<b>>) = GindexOfBits[z \o <<b>>] - Pow2[Len(z \o <<b>>)]
      BY DEF Number
    <3> HIDE DEF G, p
    <3>2. Number(z) = G - p
      BY DEF Number, G, p
    <3>3. \A b \in Bit : GindexOfBits[z \o <<b>>] = 2 * G + b /\ Pow2[Len(z \o <<b>>)] = 2 * p
      BY <2>3, Zenon
    <3>4. ASSUME NEW b \in Bit PROVE Number(z \o <<b>>) = 2 * G + b - 2 * p
      <4>1. G \in Nat /\ p \in Nat /\ b \in Nat
        BY <2>1, <2>2, Bits01
      <4> QED BY <3>1, <3>3, <4>1
    <3> QED BY <3>2, <3>4
  <2> QED BY <2>3, <2>4, <2>5 DEF p
<1> QED BY <1>1, <1>2

\* Halving a natural number.
LEMMA HalfIs ==
  ASSUME NEW n \in Nat
  PROVE  n \div 2 \in Nat /\ n % 2 \in Bit /\ n = 2 * (n \div 2) + (n % 2)
BY DEF Bit

\* The quotient and what determines it.
LEMMA FloorIs ==
  ASSUME NEW n \in Nat, NEW p \in Nat \ {0}
  PROVE  /\ n \div p \in Nat /\ (n \div p) * p <= n /\ n < (n \div p) * p + p
         /\ \A q \in Nat : q * p <= n /\ n < q * p + p => q = n \div p
<1> DEFINE r == n \div p
<1>1. r \in Nat /\ r * p <= n /\ n < r * p + p
  BY Z3
<1> HIDE DEF r
<1>2. ASSUME NEW q \in Nat, q * p <= n, n < q * p + p PROVE q = r
  <2>1. CASE q < r
    <3>1. (q + 1) * p <= r * p
      <4>1. \E k \in Nat : r = q + 1 + k
        BY <1>1, <2>1
      <4>2. PICK k \in Nat : r = q + 1 + k
        BY <4>1
      <4>3. r * p = (q + 1) * p + k * p /\ k * p \in Nat
        BY <4>2
      <4> QED BY <4>3
    <3>2. (q + 1) * p = q * p + p
      OBVIOUS
    <3> QED BY <1>1, <1>2, <3>1, <3>2
  <2>2. CASE r < q
    <3>1. (r + 1) * p <= q * p
      <4>1. PICK k \in Nat : q = r + 1 + k
        BY <1>1, <2>2
      <4>3. q * p = (r + 1) * p + k * p /\ k * p \in Nat
        BY <1>1, <4>1
      <4> QED BY <1>1, <4>3
    <3>2. (r + 1) * p = r * p + p
      BY <1>1
    <3> QED BY <1>1, <1>2, <3>1, <3>2
  <2> QED BY <1>1, <2>1, <2>2
<1> QED BY <1>1, <1>2 DEF r

\* A bit lower down does not reach the bits above it.
LEMMA FloorBelow ==
  ASSUME NEW n \in Nat, NEW p \in Nat \ {0}, NEW b \in Bit
  PROVE  (2 * n + b) \div (2 * p) = n \div p
<1> DEFINE q == n \div p
<1>1. q \in Nat /\ q * p <= n /\ n < q * p + p
  BY FloorIs
<1> HIDE DEF q
<1>2. q * (2 * p) = 2 * (q * p) /\ q * p \in Nat
  BY <1>1
<1>3. b = 0 \/ b = 1
  BY Bits01
<1>4. q * (2 * p) <= 2 * n + b /\ 2 * n + b < q * (2 * p) + 2 * p
  <2> DEFINE m == q * p
  <2>1. m \in Nat /\ m <= n /\ n < m + p
    BY <1>1, <1>2
  <2> HIDE DEF m
  <2>2. 2 * m <= 2 * n + b /\ 2 * n + b < 2 * m + 2 * p
    BY <1>3, <2>1
  <2> QED BY <1>2, <2>2 DEF m
<1>5. 2 * n + b \in Nat /\ 2 * p \in Nat \ {0}
  BY <1>3
<1> DEFINE x == 2 * n + b
           y == 2 * p
<1> HIDE DEF x, y
<1>6. q = x \div y
  BY <1>1, <1>4, <1>5, FloorIs DEF x, y
<1> QED BY <1>6 DEF x, y, q

\* A place is determined by its depth and its number.
LEMMA NumberInjective ==
  ASSUME NEW y \in Seq(Bit), NEW z \in Seq(Bit), Len(y) = Len(z), Number(y) = Number(z)
  PROVE  y = z
<1> DEFINE P == {x \in Seq(Bit) : \A w \in Seq(Bit) : Len(w) = Len(x) /\ Number(w) = Number(x) => w = x}
<1>1. ASSUME NEW x \in Seq(Bit), \A v \in Seq(Bit) : Len(v) < Len(x) => v \in P PROVE x \in P
  <2>1. ASSUME NEW w \in Seq(Bit), Len(w) = Len(x), Number(w) = Number(x) PROVE w = x
    <3>1. CASE x = <<>>
      BY <2>1, <3>1, EmptySeq
    <3>2. CASE x # <<>>
      <4>0. w # <<>>
        BY <2>1, <3>2, EmptySeq
      <4> DEFINE a == Front(x)
                 b == Last(x)
                 c == Front(w)
                 d == Last(w)
      <4>1. a \in Seq(Bit) /\ b \in Bit /\ x = a \o <<b>> /\ Len(a) < Len(x) /\ Len(a) = Len(x) - 1
        BY <3>2, SplitLast
      <4>2. c \in Seq(Bit) /\ d \in Bit /\ w = c \o <<d>> /\ Len(c) = Len(w) - 1
        BY <4>0, SplitLast
      <4> HIDE DEF a, b, c, d
      <4>3. Number(x) = 2 * Number(a) + b /\ Number(w) = 2 * Number(c) + d
        BY <4>1, <4>2, Numbers
      <4>4. Number(a) \in Nat /\ Number(c) \in Nat
        BY <4>1, <4>2, Numbers
      <4>5. b = d /\ Number(a) = Number(c)
        <5> DEFINE m == Number(a)
                   n == Number(c)
        <5>1. m \in Nat /\ n \in Nat /\ 2 * m + b = 2 * n + d /\ b \in {0, 1} /\ d \in {0, 1}
          BY <2>1, <4>1, <4>2, <4>3, <4>4 DEF Bit
        <5> HIDE DEF m, n
        <5>2. b = d /\ m = n
          BY <5>1
        <5> QED BY <5>2 DEF m, n
      <4>6. a \in P
        BY <1>1, <4>1
      <4>7. c = a
        BY <2>1, <4>1, <4>2, <4>5, <4>6
      <4> QED BY <4>1, <4>2, <4>5, <4>7
    <3> QED BY <3>1, <3>2
  <2> QED BY <2>1
<1> HIDE DEF P
<1>2. \A x \in Seq(Bit) : x \in P
  BY <1>1, Upward
<1> QED BY <1>2 DEF P

\* Every number below the power of a depth is the number of a place.
LEMMA NumberReaches ==
  ASSUME NEW d \in Nat, NEW i \in Nat, i < Pow2[d]
  PROVE  \E z \in Seq(Bit) : Len(z) = d /\ Number(z) = i
<1> DEFINE Bad == {k \in Nat : \E j \in Nat : j < Pow2[k] /\ ~\E z \in Seq(Bit) : Len(z) = k /\ Number(z) = j}
<1> SUFFICES ASSUME Bad # {} PROVE FALSE
  OBVIOUS
<1>0. Bad \in SUBSET Nat
  OBVIOUS
<1> HIDE DEF Bad
<1>1. PICK k \in Bad : \A j \in Bad : k <= j
  BY <1>0, LeastOf
<1>2. k \in Nat
  BY <1>0
<1>3. PICK j \in Nat : j < Pow2[k] /\ ~\E z \in Seq(Bit) : Len(z) = k /\ Number(z) = j
  BY <1>1 DEF Bad
<1>4. CASE k = 0
  <2>1. j = 0
    BY <1>3, <1>4, Pow2Is
  <2>2. <<>> \in Seq(Bit) /\ Len(<<>>) = 0 /\ Number(<<>>) = 0
    BY EmptySeq, Numbers
  <2> QED BY <1>3, <1>4, <2>1, <2>2
<1>5. CASE k # 0
  <2>1. k - 1 \in Nat /\ ~(k <= k - 1) /\ (k - 1) + 1 = k
    BY <1>2, <1>5
  <2>2. k - 1 \notin Bad
    BY <1>1, <2>1
  <2>3. Pow2[k] = 2 * Pow2[k - 1] /\ Pow2[k - 1] \in Nat
    BY <2>1, Pow2Is
  <2> DEFINE h == j \div 2
             b == j % 2
  <2>4. h \in Nat /\ b \in Bit /\ j = 2 * h + b
    BY HalfIs
  <2> HIDE DEF h, b
  <2>5. h < Pow2[k - 1]
    <3> DEFINE p == Pow2[k - 1]
    <3>1. j < 2 * p /\ p \in Nat
      BY <1>3, <2>3
    <3> HIDE DEF p
    <3>2. h < p
      BY <2>4, <3>1 DEF Bit
    <3> QED BY <3>2 DEF p
  <2>6. PICK z \in Seq(Bit) : Len(z) = k - 1 /\ Number(z) = h
    BY <2>1, <2>2, <2>4, <2>5 DEF Bad
  <2>7. Number(z \o <<b>>) = j /\ Len(z \o <<b>>) = k /\ z \o <<b>> \in Seq(Bit)
    BY <2>1, <2>4, <2>6, Numbers, FrontIs
  <2> QED BY <1>3, <2>7
<1> QED BY <1>4, <1>5

\* A number is less than its power of two.
LEMMA BelowPow2 ==
  ASSUME NEW n \in Nat PROVE n < Pow2[n]
<1> DEFINE Bad == {k \in Nat : ~(k < Pow2[k])}
<1> SUFFICES ASSUME Bad # {} PROVE FALSE
  OBVIOUS
<1>1. PICK k \in Bad : \A j \in Bad : k <= j
  BY LeastOf
<1>2. k # 0
  BY <1>1, Pow2Is
<1>3. k - 1 \in Nat /\ ~(k <= k - 1) /\ (k - 1) + 1 = k
  BY <1>1, <1>2
<1>4. Pow2[k] = 2 * Pow2[k - 1] /\ k - 1 < Pow2[k - 1] /\ Pow2[k - 1] \in Nat
  BY <1>1, <1>3, Pow2Is
<1> QED BY <1>1, <1>3, <1>4

\* The depth of a type has leaves enough for it, and none is left at depth 0
\* for a second part.
LEMMA ChunkDepthIs ==
  ASSUME NEW n \in Nat
  PROVE  /\ ChunkDepth(n) \in Nat /\ n <= Pow2[ChunkDepth(n)]
         /\ ChunkDepth(n) = 0 => n <= 1
<1> DEFINE Fit == {d \in Nat : n <= Pow2[d]}
<1>1. n \in Fit
  BY BelowPow2, Pow2Is
<1>2. PICK d \in Fit : \A e \in Fit : d <= e
  BY <1>1, LeastOf
<1>3. d \in 0..n /\ n <= Pow2[d]
  BY <1>1, <1>2
<1>4. d = 0 \/ Pow2[d - 1] < n
  <2>1. CASE d # 0
    <3>1. d - 1 \in Nat /\ ~(d <= d - 1)
      BY <1>2, <2>1
    <3>2. ~(n <= Pow2[d - 1]) /\ Pow2[d - 1] \in Nat
      BY <1>2, <3>1, Pow2Is
    <3> QED BY <3>2
  <2> QED BY <2>1
<1> HIDE DEF Fit
<1>5. ChunkDepth(n) \in 0..n /\ n <= Pow2[ChunkDepth(n)]
  BY <1>3, <1>4 DEF ChunkDepth
<1>6. Pow2[0] = 1
  BY Pow2Is
<1> QED BY <1>5, <1>6

\* The bits that gindexBits recovers from the generalized index of a place are
\* the place: a write recorded under gindexOfBits goes where sszUpdate's path
\* leads.
THEOREM GindexBitsInvert ==
  ASSUME NEW z \in Seq(Bit)
  PROVE  GindexBits(GindexOfBits[z]) = z
<1> DEFINE At(x) == \A k \in 1..Len(x) : x[k] = (GindexOfBits[x] \div Pow2[Len(x) - k]) % 2
           P == {x \in Seq(Bit) : At(x)}
<1>1. ASSUME NEW x \in Seq(Bit), \A y \in Seq(Bit) : Len(y) < Len(x) => y \in P PROVE x \in P
  <2>1. CASE x = <<>>
    <3>1. Len(x) = 0
      BY <2>1, EmptySeq
    <3> QED BY <3>1
  <2>2. CASE x # <<>>
    <3> DEFINE y == Front(x)
               b == Last(x)
    <3>1. y \in Seq(Bit) /\ b \in Bit /\ x = y \o <<b>> /\ Len(y) < Len(x) /\ Len(y) \in Nat /\ Len(y) = Len(x) - 1 /\ Len(x) \in Nat
      BY <2>2, SplitLast
    <3> HIDE DEF y, b
    <3> DEFINE G == GindexOfBits[y]
    <3>2. GindexOfBits[x] = 2 * G + b /\ G \in Nat
      BY <3>1, GindexIs, GindexRange
    <3>3. (\A k \in 1..Len(y) : x[k] = y[k]) /\ x[Len(y) + 1] = b
      <4>1. <<b>> \in Seq(Bit) /\ Len(<<b>>) = 1 /\ <<b>>[1] = b
        BY <3>1, Single
      <4> QED BY <3>1, <4>1, Concat
    <3> HIDE DEF G
    <3>4. ASSUME NEW k \in 1..Len(x) PROVE x[k] = (GindexOfBits[x] \div Pow2[Len(x) - k]) % 2
      <4>1. CASE k = Len(x)
        <5>1. Pow2[Len(x) - k] = 1
          BY <3>1, <4>1, Pow2Is
        <5>0. \A g \in Nat : (2 * g + 0) % 2 = 0 /\ (2 * g + 1) % 2 = 1
          OBVIOUS
        <5>a. b = 0 \/ b = 1
          BY <3>1 DEF Bit
        <5>b. (2 * G + b) % 2 = b
          BY <3>2, <5>0, <5>a
        <5>c. \A n \in Nat : n \div 1 = n
          OBVIOUS
        <5>d. 2 * G + b \in Nat
          BY <3>2, <5>a
        <5>2. (2 * G + b) \div 1 = 2 * G + b /\ (2 * G + b) % 2 = b
          BY <5>b, <5>c, <5>d
        <5> QED BY <3>1, <3>2, <3>3, <4>1, <5>1, <5>2
      <4>2. CASE k # Len(x)
        <5>1. k \in 1..Len(y) /\ Len(y) - k \in Nat /\ (Len(y) - k) + 1 = Len(x) - k
          BY <3>1, <4>2
        <5> DEFINE p == Pow2[Len(y) - k]
        <5>2. Pow2[Len(x) - k] = 2 * p /\ p \in Nat \ {0}
          BY <5>1, Pow2Is
        <5>3. y[k] = (G \div p) % 2
          BY <1>1, <3>1, <5>1 DEF G
        <5> HIDE DEF p
        <5>4. (2 * G + b) \div (2 * p) = G \div p
          BY <3>1, <3>2, <5>2, FloorBelow
        <5> QED BY <3>2, <3>3, <5>1, <5>2, <5>3, <5>4
      <4> QED BY <4>1, <4>2
    <3> QED BY <3>4
  <2> QED BY <2>1, <2>2
<1> HIDE DEF P
<1>2. \A x \in Seq(Bit) : x \in P
  BY <1>1, Upward
<1>3. At(z)
  BY <1>2 DEF P
<1> DEFINE g == GindexOfBits[z]
           n == Len(z)
           Is(k) == Pow2[k] <= g /\ g < Pow2[k + 1]
<1>4. g \in Nat /\ n \in Nat /\ Is(n)
  BY GindexRange, LenProperties
<1>5. n \in 0..g
  <2> HIDE DEF n, g
  <2>1. n < Pow2[n] /\ Pow2[n] \in Nat
    BY <1>4, BelowPow2, Pow2Is
  <2> QED BY <1>4, <2>1
<1>6. ASSUME NEW k \in 0..g, Is(k) PROVE k = n
  <2>1. k \in Nat /\ k + 1 \in Nat /\ n + 1 \in Nat
    BY <1>4, <1>6
  <2>2. Pow2[k] \in Nat /\ Pow2[k + 1] \in Nat /\ Pow2[n] \in Nat /\ Pow2[n + 1] \in Nat
    BY <1>4, <2>1, Pow2Is
  <2>3. n + 1 <= k => Pow2[n + 1] <= Pow2[k]
    BY <2>1, Pow2Le
  <2>4. k + 1 <= n => Pow2[k + 1] <= Pow2[n]
    BY <1>4, <2>1, Pow2Le
  <2> QED BY <1>4, <1>6, <2>1, <2>2, <2>3, <2>4
<1>7. (CHOOSE k \in 0..g : Is(k)) = n
  <2>1. \E k \in 0..g : Is(k)
    BY <1>4, <1>5
  <2> HIDE DEF Is, n, g
  <2> QED BY <1>6, <2>1
<1>8. GindexBits(g) = [k \in 1..n |-> (g \div Pow2[n - k]) % 2]
  <2> DEFINE m == CHOOSE k \in 0..g : Pow2[k] <= g /\ g < Pow2[k + 1]
  <2>1. m = n
    BY <1>7
  <2> HIDE DEF g, n
  <2>2. GindexBits(g) = [k \in 1..m |-> (g \div Pow2[m - k]) % 2]
    BY DEF GindexBits
  <2> HIDE DEF m
  <2> QED BY <2>1, <2>2
<1>9. z = [k \in 1..n |-> z[k]]
  BY LenProperties
<1> QED BY <1>3, <1>8, <1>9

-----------------------------------------------------------------------------
(* Trees, their roots and slots.                                           *)

\* A tree: every pair has both children, no leaf has any, heights are bounded,
\* and leaves have a chunk.
IsTree(n) ==
  /\ DOMAIN n \in SUBSET Seq(Bit) /\ <<>> \in DOMAIN n
  /\ n = [z \in DOMAIN n |-> n[z]]
  /\ \E N \in Nat : \A z \in DOMAIN n : Len(z) <= N
  /\ \A z \in Seq(Bit), b \in Bit : z \o <<b>> \in DOMAIN n <=> z \in DOMAIN n /\ n[z].pair
  /\ \A z \in DOMAIN n : /\ n[z] = [pair |-> n[z].pair, root |-> n[z].root]
                         /\ n[z].pair \in BOOLEAN
                         /\ ~n[z].pair => n[z].root # None

\* A tree in which every slot has the root of its pair.
IsFull(n) ==
  /\ IsTree(n)
  /\ \A z \in DOMAIN n : /\ n[z].root # None
                         /\ n[z].pair => n[z].root = Combine(n[Left(z)].root, n[Right(z)].root)

\* The place is one of W or below one.
Covered(W, z) == \E u \in W : IsPrefix(u, z)

\* There is one of W strictly below the place.
Below(W, z) == \E u \in W : IsStrictPrefix(z, u)

\* At the place the trees are the same; slots may be empty in n, and lie above
\* what W replaces.
Same(n, m, W, z) ==
  /\ z \in DOMAIN n <=> z \in DOMAIN m
  /\ z \in DOMAIN n => /\ n[z].pair = m[z].pair
                       /\ ~n[z].pair => n[z] = m[z]
                       /\ n[z].pair /\ ~Below(W, z) => n[z].root \in {None, m[z].root}

\* n is m but for the updates W.
Rel(n, m, W) ==
  /\ IsTree(n) /\ IsFull(m) /\ W \in SUBSET Seq(Bit)
  /\ \A z \in Seq(Bit) : ~Covered(W, z) => Same(n, m, W, z)

\* The children of a pair are places of the tree, further down.
LEMMA ChildIn ==
  ASSUME NEW n, IsTree(n), NEW z \in DOMAIN n
  PROVE  /\ z \in Seq(Bit) /\ Len(z) \in Nat
         /\ n[z].pair => /\ Left(z) \in DOMAIN n /\ Right(z) \in DOMAIN n
                         /\ Len(z) < Len(Left(z)) /\ Len(z) < Len(Right(z))
<1>1. z \in Seq(Bit)
  BY DEF IsTree
<1>2. Len(Left(z)) = Len(z) + 1 /\ Len(Right(z)) = Len(z) + 1 /\ Len(z) \in Nat
  BY <1>1, FrontIs, Bits01 DEF Left, Right
<1>3. n[z].pair => Left(z) \in DOMAIN n /\ Right(z) \in DOMAIN n
  BY <1>1, Bits01 DEF IsTree, Left, Right
<1> QED BY <1>1, <1>2, <1>3

\* rootOf by recursion: a pair with an empty slot combines its children, all
\* else has its root.
LEMMA RootsIs ==
  ASSUME NEW n, IsTree(n)
  PROVE  /\ DOMAIN Roots(n) = DOMAIN n
         /\ \A z \in DOMAIN n :
              Roots(n)[z] = IF n[z].pair /\ n[z].root = None
                            THEN Combine(Roots(n)[Left(z)], Roots(n)[Right(z)])
                            ELSE n[z].root
<1> DEFINE D == DOMAIN n
           I == {z \in D : n[z].pair /\ n[z].root = None}
           c == [z \in D |-> n[z].root]
<1>1. PICK N \in Nat : \A z \in D : Len(z) <= N
  BY DEF IsTree
<1>2. D \in SUBSET Seq(Bit)
  BY DEF IsTree
<1>3. \A z \in D : z \in I => Left(z) \in D /\ Right(z) \in D
  BY ChildIn
<1>4. PICK f : Combines(f, D, I, c)
  <2> HIDE DEF D, I, c
  <2> QED BY <1>1, <1>2, <1>3, TreeRecursion
<1>5. f = [z \in DOMAIN n |-> IF n[z].pair /\ n[z].root = None
                              THEN Combine(f[Left(z)], f[Right(z)]) ELSE n[z].root]
  BY <1>4 DEF Combines
<1>6. Roots(n) = [z \in DOMAIN n |-> IF n[z].pair /\ n[z].root = None
                              THEN Combine(Roots(n)[Left(z)], Roots(n)[Right(z)]) ELSE n[z].root]
  BY <1>5 DEF Roots
<1> QED BY <1>6

\* In a tree with every slot right, rootOf reads the slot, and
\* merkleRootWithCache changes nothing.
LEMMA FullRoots ==
  ASSUME NEW n, IsFull(n)
  PROVE  /\ \A z \in DOMAIN n : Roots(n)[z] = n[z].root
         /\ RootOf(n) = n[<<>>].root
         /\ MerkleRootWithCache(n) = [root |-> n[<<>>].root, node |-> n]
<1>1. \A z \in DOMAIN n : Roots(n)[z] = n[z].root
  BY RootsIs DEF IsFull
<1>2. <<>> \in DOMAIN n
  BY DEF IsFull, IsTree
<1>3. RootOf(n) = n[<<>>].root
  BY <1>1, <1>2 DEF RootOf
<1> DEFINE Unknown(z) == n[z].pair /\ n[z].root = None
           walked == {z \in DOMAIN n : \A k \in 0..Len(z) : Unknown(SubSeq(z, 1, k))}
<1>4. walked = {}
  <2>1. ASSUME NEW z \in walked PROVE FALSE
    <3>1. z \in DOMAIN n /\ Len(z) \in Nat
      BY ChildIn DEF IsFull
    <3>2. Unknown(SubSeq(z, 1, Len(z)))
      BY <2>1, <3>1
    <3>3. SubSeq(z, 1, Len(z)) = z
      BY <3>1, ChildIn, SubSeqFull DEF IsFull
    <3>4. Unknown(z)
      BY <3>2, <3>3
    <3> QED BY <3>1, <3>4 DEF IsFull
  <2> QED BY <2>1
<1> DEFINE rt == Roots(n)
           filled == [z \in DOMAIN n |-> IF z \in walked THEN Pair(rt[z]) ELSE n[z]]
<1>5. filled = n
  <2>1. n = [z \in DOMAIN n |-> n[z]]
    BY DEF IsFull, IsTree
  <2> HIDE DEF walked, rt
  <2>2. filled = [z \in DOMAIN n |-> n[z]]
    BY <1>4
  <2> QED BY <2>1, <2>2
<1>6. MerkleRootWithCache(n) = [root |-> rt[<<>>], node |-> filled]
  BY DEF MerkleRootWithCache
<1> HIDE DEF filled, walked
<1> QED BY <1>1, <1>2, <1>3, <1>5, <1>6

\* Children of a place that W does not touch are not touched either.
LEMMA NotBelow ==
  ASSUME NEW W \in SUBSET Seq(Bit), NEW z \in Seq(Bit), ~Covered(W, z), ~Below(W, z), NEW b \in Bit
  PROVE  ~Covered(W, z \o <<b>>) /\ ~Below(W, z \o <<b>>)
<1> DEFINE y == z \o <<b>>
<1>1. y \in Seq(Bit) /\ IsPrefix(z, y) /\ Len(y) = Len(z) + 1 /\ Len(z) \in Nat
  BY FrontIs, PrefixOf, Single
<1>2. ASSUME NEW u \in W, IsPrefix(u, y) PROVE FALSE
  <2>1. IsPrefix(u, z) \/ u = y
    BY <1>2, PrefixOfNext
  <2>2. u = y => IsStrictPrefix(z, u)
    BY <1>1 DEF IsStrictPrefix
  <2> QED BY <2>1, <2>2 DEF Covered, Below
<1>3. ASSUME NEW u \in W, IsStrictPrefix(y, u) PROVE FALSE
  <2>1. u \in Seq(Bit) /\ IsPrefix(y, u)
    BY <1>3 DEF IsStrictPrefix
  <2> HIDE DEF y
  <2>2. IsPrefix(z, u)
    BY <1>1, <2>1, PrefixOrder
  <2>3. Len(y) <= Len(u)
    BY <1>1, <2>1, PrefixOrder
  <2>4. z # u
    BY <1>1, <2>3
  <2> QED BY <2>2, <2>4 DEF Below, IsStrictPrefix
<1> QED BY <1>2, <1>3 DEF Covered, Below

\* Where W does not touch the tree below a place, the root of n there is that
\* of m.
LEMMA RelRoots ==
  ASSUME NEW n, NEW m, NEW W, Rel(n, m, W)
  PROVE  \A z \in DOMAIN n : ~Covered(W, z) /\ ~Below(W, z) => Roots(n)[z] = m[z].root
<1> DEFINE D == DOMAIN n
           P == {z \in D : ~Covered(W, z) /\ ~Below(W, z) => Roots(n)[z] = m[z].root}
<1>1. PICK N \in Nat : \A z \in D : Len(z) <= N
  BY DEF Rel, IsTree
<1>2. D \in SUBSET Seq(Bit) /\ IsTree(n) /\ IsFull(m) /\ W \in SUBSET Seq(Bit)
  BY DEF Rel, IsTree
<1>3. ASSUME NEW z \in D, \A y \in D : Len(z) < Len(y) => y \in P,
             ~Covered(W, z), ~Below(W, z)
      PROVE  Roots(n)[z] = m[z].root
  <2>1. z \in Seq(Bit) /\ Same(n, m, W, z)
    BY <1>2, <1>3 DEF Rel
  <2>2. Roots(n)[z] = IF n[z].pair /\ n[z].root = None
                      THEN Combine(Roots(n)[Left(z)], Roots(n)[Right(z)])
                      ELSE n[z].root
    BY <1>2, RootsIs
  <2>3. CASE ~n[z].pair
    BY <2>1, <2>2, <2>3 DEF Same
  <2>4. CASE n[z].pair /\ n[z].root # None
    BY <1>3, <2>1, <2>2, <2>4 DEF Same
  <2>5. CASE n[z].pair /\ n[z].root = None
    <3>1. Left(z) \in D /\ Right(z) \in D /\ Len(z) < Len(Left(z)) /\ Len(z) < Len(Right(z))
      BY <1>2, <2>5, ChildIn
    <3>2. ~Covered(W, Left(z)) /\ ~Below(W, Left(z)) /\ ~Covered(W, Right(z)) /\ ~Below(W, Right(z))
      BY <1>2, <1>3, <2>1, NotBelow, Bits01 DEF Left, Right
    <3>3. Roots(n)[Left(z)] = m[Left(z)].root /\ Roots(n)[Right(z)] = m[Right(z)].root
      BY <1>3, <3>1, <3>2
    <3>4. z \in DOMAIN m /\ m[z].pair
      BY <2>1, <2>5 DEF Same
    <3> QED BY <1>2, <2>2, <2>5, <3>3, <3>4 DEF IsFull
  <2> QED BY <2>3, <2>4, <2>5
<1>4. ASSUME NEW z \in D, \A y \in D : Len(z) < Len(y) => y \in P PROVE z \in P
  BY <1>3, <1>4
<1> HIDE DEF D, P
<1>5. \A z \in D : z \in P
  BY <1>1, <1>2, <1>4, Downward
<1> QED BY <1>5 DEF D, P

\* A tree that is m but for no updates has the root of m; with every slot
\* filled it is m.
LEMMA RelNone ==
  ASSUME NEW n, NEW m, Rel(n, m, {})
  PROVE  /\ RootOf(n) = m[<<>>].root
         /\ (\A z \in DOMAIN n : n[z].root # None) => n = m
<1>1. \A z \in Seq(Bit) : ~Covered({}, z) /\ ~Below({}, z)
  BY DEF Covered, Below
<1>2. IsTree(n) /\ IsTree(m) /\ <<>> \in DOMAIN n /\ <<>> \in Seq(Bit)
  BY EmptySeq DEF Rel, IsFull, IsTree
<1>3. RootOf(n) = m[<<>>].root
  BY <1>1, <1>2, RelRoots DEF RootOf
<1>4. ASSUME \A z \in DOMAIN n : n[z].root # None PROVE n = m
  <2>1. \A z \in Seq(Bit) : Same(n, m, {}, z)
    BY <1>1 DEF Rel
  <2>2. DOMAIN n = DOMAIN m
    BY <1>2, <2>1 DEF Same, IsTree
  <2>3. ASSUME NEW z \in DOMAIN n PROVE n[z] = m[z]
    <3>1. z \in Seq(Bit) /\ z \in DOMAIN m
      BY <1>2, <2>2 DEF IsTree
    <3>2. /\ n[z] = [pair |-> n[z].pair, root |-> n[z].root]
          /\ m[z] = [pair |-> m[z].pair, root |-> m[z].root]
          /\ n[z].pair \in BOOLEAN
      BY <1>2, <2>2 DEF IsTree
    <3>3. n[z].pair = m[z].pair /\ (~n[z].pair => n[z] = m[z]) /\ (n[z].pair => n[z].root = m[z].root)
      BY <1>1, <1>4, <2>1, <3>1 DEF Same
    <3> QED BY <3>2, <3>3
  <2>4. n = [z \in DOMAIN n |-> n[z]] /\ m = [z \in DOMAIN m |-> m[z]]
    BY <1>2 DEF IsTree
  <2> QED BY <2>2, <2>3, <2>4
<1> QED BY <1>3, <1>4

-----------------------------------------------------------------------------
(* Walks that make updates: setManyAt, setAtBits and commitAndHash.        *)

\* The updates put into place what m has there.
Fits(us, m) ==
  /\ DOMAIN us \in SUBSET Seq(Bit) /\ us = [u \in DOMAIN us |-> us[u]]
  /\ \A u \in DOMAIN us :
       /\ IsFull(us[u]) /\ u \in DOMAIN m
       /\ \A y \in Seq(Bit) : /\ u \o y \in DOMAIN m <=> y \in DOMAIN us[u]
                              /\ y \in DOMAIN us[u] => m[u \o y] = us[u][y]

\* The updates that no other update replaces the whole of.
Tops(n, us) == {u \in DOMAIN us \intersect DOMAIN n : Over(us, u) = {u}}

\* Of the updates at and above a place one is the highest.
LEMMA LeastCover ==
  ASSUME NEW us, DOMAIN us \in SUBSET Seq(Bit), NEW z \in Seq(Bit), Over(us, z) # {}
  PROVE  \E u \in Over(us, z) : Over(us, u) = {u}
<1> DEFINE L == {Len(u) : u \in Over(us, z)}
<1>1. \A u \in Over(us, z) : u \in Seq(Bit) /\ u \in DOMAIN us /\ Len(u) \in Nat /\ IsPrefix(u, z)
  BY LenProperties DEF Over
<1>2. L \in SUBSET Nat /\ L # {}
  BY <1>1
<1>3. PICK x \in L : \A y \in L : x <= y
  <2> HIDE DEF L
  <2> QED BY <1>2, LeastOf
<1>4. PICK u \in Over(us, z) : x = Len(u)
  BY <1>3
<1>5. u \in Over(us, u)
  BY <1>1, PrefixOrder DEF Over
<1>6. ASSUME NEW v \in Over(us, u) PROVE v = u
  <2>1. v \in Seq(Bit) /\ v \in DOMAIN us /\ IsPrefix(v, u)
    BY DEF Over
  <2>2. IsPrefix(v, z)
    BY <1>1, <2>1, PrefixOrder
  <2>3. v \in Over(us, z)
    BY <2>1, <2>2 DEF Over
  <2>4. Len(u) <= Len(v)
    BY <1>3, <1>4, <2>3
  <2>5. Len(v) <= Len(u) /\ Len(v) \in Nat /\ Len(u) \in Nat
    BY <1>1, <2>1, <2>3, PrefixOrder
  <2> QED BY <1>1, <2>1, <2>4, <2>5, PrefixOrder
<1> QED BY <1>5, <1>6

\* Where the walk of setManyAt replaces nothing, the tree is as it was, but for
\* the slots of the pairs passed; where it does, it is m.
LEMMA RebuiltIs ==
  ASSUME NEW n, NEW m, NEW us, NEW slots, IsTree(n), IsTree(m), Fits(us, m)
  PROVE  LET n2 == Rebuilt(n, us, slots, us)
         IN  /\ DOMAIN n2 \in SUBSET Seq(Bit) /\ n2 = [z \in DOMAIN n2 |-> n2[z]]
             /\ \A z \in Seq(Bit) : Over(us, z) = {} =>
                  /\ z \in DOMAIN n2 <=> z \in DOMAIN n
                  /\ z \in DOMAIN n => n2[z] = IF z \in Passed(n, us) THEN Pair(slots[z]) ELSE n[z]
             /\ \A z \in Seq(Bit) : Over(us, z) # {} =>
                  /\ z \in DOMAIN n2 <=> z \in DOMAIN m /\ \E u \in Tops(n, us) : IsPrefix(u, z)
                  /\ z \in DOMAIN n2 => n2[z] = m[z]
<1> DEFINE n2 == Rebuilt(n, us, slots, us)
           F == Tops(n, us)
           kept == {z \in DOMAIN n : Over(us, z) = {}}
           new == UNION {{u \o y : y \in DOMAIN us[u]} : u \in F}
           First(z) == CHOOSE u \in F : IsPrefix(u, z)
           f == [z \in kept |-> IF z \in Passed(n, us) THEN Pair(slots[z]) ELSE n[z]]
           g == [z \in new |-> us[First(z)][SubSeq(z, Len(First(z)) + 1, Len(z))]]
<1>1. n2 = Overlaid(f, g)
  BY DEF Rebuilt, Tops
<1>2. \A u \in F : u \in DOMAIN us /\ u \in DOMAIN n /\ u \in Seq(Bit) /\ u \in DOMAIN m /\ IsTree(us[u]) /\ Over(us, u) = {u}
  BY DEF Tops, Fits, IsFull
<1>3. \A z \in kept : z \in Seq(Bit)
  BY DEF IsTree
<1>4. ASSUME NEW z \in new
      PROVE  z \in Seq(Bit) /\ z \in DOMAIN m /\ g[z] = m[z] /\ Over(us, z) # {} /\ \E u \in F : IsPrefix(u, z)
  <2>0. PICK u \in F : z \in {u \o y : y \in DOMAIN us[u]}
    OBVIOUS
  <2>1. PICK y \in DOMAIN us[u] : z = u \o y
    BY <2>0
  <2>2. u \in Seq(Bit) /\ y \in Seq(Bit) /\ u \in DOMAIN us
    BY <1>2, <2>1 DEF IsTree
  <2>3. z \in Seq(Bit) /\ IsPrefix(u, z) /\ SubSeq(z, Len(u) + 1, Len(z)) = y
    BY <2>1, <2>2, Joined, Rest
  <2>4. z \in DOMAIN m /\ m[z] = us[u][y]
    BY <2>1, <2>2 DEF Fits
  <2>5. u \in Over(us, z)
    BY <2>2, <2>3 DEF Over
  <2>6. ASSUME NEW v \in F, IsPrefix(v, z) PROVE v = u
    <3>1. v \in Seq(Bit) /\ v \in DOMAIN us
      BY <1>2
    <3>2. IsPrefix(u, v) \/ IsPrefix(v, u)
      BY <2>2, <2>3, <2>6, <3>1, PrefixLinear
    <3>3. u \in Over(us, v) \/ v \in Over(us, u)
      BY <2>2, <3>1, <3>2 DEF Over
    <3> QED BY <1>2, <3>3
  <2>7. First(z) = u
    <3> HIDE DEF F
    <3> QED BY <2>3, <2>6
  <2>8. g[z] = us[u][y]
    <3>1. g[z] = us[First(z)][SubSeq(z, Len(First(z)) + 1, Len(z))]
      OBVIOUS
    <3> HIDE DEF g, First
    <3> QED BY <2>3, <2>7, <3>1
  <2> QED BY <2>3, <2>4, <2>5, <2>8
<1>5. ASSUME NEW z \in Seq(Bit), z \in DOMAIN m, NEW u \in F, IsPrefix(u, z) PROVE z \in new
  <2>1. u \in Seq(Bit) /\ u \in DOMAIN us
    BY <1>2
  <2>2. PICK y \in Seq(Bit) : z = u \o y
    BY <1>5, <2>1, PrefixHas
  <2>3. y \in DOMAIN us[u]
    BY <1>5, <2>1, <2>2 DEF Fits
  <2> QED BY <2>2, <2>3
<1>6. DOMAIN f = kept /\ DOMAIN g = new
  OBVIOUS
<1> HIDE DEF f, g, new, F
<1>7. /\ DOMAIN n2 = kept \union new /\ n2 = [z \in DOMAIN n2 |-> n2[z]]
      /\ \A z \in kept : n2[z] = f[z]
      /\ \A z \in new \ kept : n2[z] = g[z]
  <2>1. /\ DOMAIN Overlaid(f, g) = DOMAIN f \union DOMAIN g
        /\ \A x \in DOMAIN f : Overlaid(f, g)[x] = f[x]
        /\ \A x \in DOMAIN g \ DOMAIN f : Overlaid(f, g)[x] = g[x]
        /\ Overlaid(f, g) = [x \in DOMAIN f \union DOMAIN g |-> Overlaid(f, g)[x]]
    BY OverlaidIs
  <2> QED BY <1>1, <1>6, <2>1
<1> HIDE DEF n2
<1>8. \A z \in new : z \notin kept
  BY <1>4
<1>9. DOMAIN n2 \in SUBSET Seq(Bit)
  BY <1>3, <1>4, <1>7
<1>10. ASSUME NEW z \in Seq(Bit), Over(us, z) = {}
       PROVE  /\ z \in DOMAIN n2 <=> z \in DOMAIN n
              /\ z \in DOMAIN n => n2[z] = IF z \in Passed(n, us) THEN Pair(slots[z]) ELSE n[z]
  <2>1. z \in DOMAIN n2 <=> z \in DOMAIN n
    BY <1>4, <1>7, <1>10
  <2>2. ASSUME z \in DOMAIN n PROVE n2[z] = IF z \in Passed(n, us) THEN Pair(slots[z]) ELSE n[z]
    <3>1. z \in kept
      BY <1>10, <2>2
    <3>2. f[z] = IF z \in Passed(n, us) THEN Pair(slots[z]) ELSE n[z]
      BY <3>1 DEF f
    <3> QED BY <1>7, <3>1, <3>2
  <2> QED BY <2>1, <2>2
<1>11. ASSUME NEW z \in Seq(Bit), Over(us, z) # {}
       PROVE  /\ z \in DOMAIN n2 <=> z \in DOMAIN m /\ \E u \in F : IsPrefix(u, z)
              /\ z \in DOMAIN n2 => n2[z] = m[z]
  <2>1. z \in DOMAIN n2 <=> z \in new
    BY <1>7, <1>11
  <2> QED BY <1>4, <1>5, <1>7, <1>11, <2>1
<1> QED BY <1>7, <1>9, <1>10, <1>11 DEF n2, F

\* A place is covered by the updates if one replaces it or what holds it.
LEMMA CoveredIs ==
  ASSUME NEW us, NEW z
  PROVE  Covered(DOMAIN us, z) <=> Over(us, z) # {}
BY DEF Covered, Over

\* What lies in the target at the top of updates lies in the tree too.
LEMMA TopIn ==
  ASSUME NEW n, NEW m, NEW W, Rel(n, m, W), NEW u \in DOMAIN m,
         u # <<>> => ~Covered(W, Front(u))
  PROVE  u \in DOMAIN n
<1>0. IsTree(n) /\ IsTree(m) /\ u \in Seq(Bit)
  BY DEF Rel, IsFull, IsTree
<1>1. CASE u = <<>>
  BY <1>0, <1>1 DEF IsTree
<1>2. CASE u # <<>>
  <2> DEFINE y == Front(u)
             b == Last(u)
  <2>1. y \in Seq(Bit) /\ b \in Bit /\ u = y \o <<b>> /\ ~Covered(W, y)
    BY <1>0, <1>2, SplitLast
  <2> HIDE DEF y, b
  <2>2. y \in DOMAIN m /\ m[y].pair
    BY <1>0, <2>1 DEF IsTree
  <2>3. Same(n, m, W, y)
    BY <2>1 DEF Rel
  <2>4. y \in DOMAIN n /\ n[y].pair
    BY <2>2, <2>3 DEF Same
  <2> QED BY <1>0, <2>1, <2>4 DEF IsTree
<1> QED BY <1>1, <1>2

\* What is below a covered place is covered.
LEMMA CoveredUp ==
  ASSUME NEW W \in SUBSET Seq(Bit), NEW y \in Seq(Bit), NEW z \in Seq(Bit), IsPrefix(y, z), Covered(W, y)
  PROVE  Covered(W, z)
BY PrefixOrder DEF Covered

\* A walk whose updates put what m has into place leaves m but for the updates
\* not made: neither a parent with an update below it nor the order of nested
\* writes matters.
LEMMA RebuiltRel ==
  ASSUME NEW n, NEW m, NEW W, NEW us, NEW slots, Rel(n, m, W), Fits(us, m),
         \A z \in Passed(n, us) : slots[z] = None \/ (~Covered(W, z) /\ slots[z] = m[z].root)
  PROVE  Rel(Rebuilt(n, us, slots, us), m, W \ DOMAIN us)
<1> DEFINE n2 == Rebuilt(n, us, slots, us)
           U == DOMAIN us
           V == W \ U
<1>1. IsTree(n) /\ IsTree(m) /\ IsFull(m) /\ W \in SUBSET Seq(Bit) /\ U \in SUBSET Seq(Bit) /\ V \in SUBSET Seq(Bit)
  BY DEF Rel, IsFull, Fits
<1>2. /\ DOMAIN n2 \in SUBSET Seq(Bit) /\ n2 = [z \in DOMAIN n2 |-> n2[z]]
      /\ \A z \in Seq(Bit) : Over(us, z) = {} =>
           /\ z \in DOMAIN n2 <=> z \in DOMAIN n
           /\ z \in DOMAIN n => n2[z] = IF z \in Passed(n, us) THEN Pair(slots[z]) ELSE n[z]
      /\ \A z \in Seq(Bit) : Over(us, z) # {} =>
           /\ z \in DOMAIN n2 <=> z \in DOMAIN m /\ \E u \in Tops(n, us) : IsPrefix(u, z)
           /\ z \in DOMAIN n2 => n2[z] = m[z]
  BY <1>1, RebuiltIs
<1> HIDE DEF n2
<1>3. \A z \in Passed(n, us) : z \in DOMAIN n /\ n[z].pair /\ Over(us, z) = {} /\ Under(us, z) # {} /\ z \in Seq(Bit)
  BY <1>1 DEF Passed, IsTree
<1>4. \A z \in DOMAIN n : Over(us, z) = {} => n2[z].pair = n[z].pair /\ (~n[z].pair => n2[z] = n[z])
  <2> TAKE z \in DOMAIN n
  <2>1. z \in Seq(Bit)
    BY <1>1 DEF IsTree
  <2>2. ASSUME Over(us, z) = {} PROVE n2[z].pair = n[z].pair /\ (~n[z].pair => n2[z] = n[z])
    <3>1. n2[z] = IF z \in Passed(n, us) THEN Pair(slots[z]) ELSE n[z]
      BY <1>2, <2>1, <2>2
    <3>2. CASE z \in Passed(n, us)
      <4>1. n[z].pair = TRUE
        BY <1>1, <1>3, <3>2 DEF IsTree
      <4>2. n2[z] = Pair(slots[z])
        BY <3>1, <3>2, Zenon
      <4>3. Pair(slots[z]).pair = TRUE
        BY DEF Pair
      <4> QED BY <4>1, <4>2, <4>3, Zenon
    <3> QED BY <3>1, <3>2
  <2> QED BY <2>2
<1>5. IsTree(n2)
  <2>1. <<>> \in DOMAIN n2
    <3>1. <<>> \in Seq(Bit) /\ <<>> \in DOMAIN n /\ <<>> \in DOMAIN m
      BY <1>1, EmptySeq DEF IsTree
    <3>2. CASE Over(us, <<>>) = {}
      BY <1>2, <3>1, <3>2
    <3>3. CASE Over(us, <<>>) # {}
      <4>1. PICK u \in Over(us, <<>>) : Over(us, u) = {u}
        BY <1>1, <3>1, <3>3, LeastCover
      <4>2. u \in Seq(Bit) /\ u \in U /\ IsPrefix(u, <<>>)
        BY <1>1 DEF Over
      <4>3. u = <<>>
        BY <4>2, PrefixOrder
      <4>4. u \in Tops(n, us)
        BY <3>1, <4>1, <4>2, <4>3 DEF Tops
      <4> QED BY <1>2, <3>1, <3>3, <4>2, <4>4
    <3> QED BY <3>2, <3>3
  <2>2. \E N \in Nat : \A z \in DOMAIN n2 : Len(z) <= N
    <3>1. PICK N \in Nat : \A z \in DOMAIN n : Len(z) <= N
      BY <1>1 DEF IsTree
    <3>2. PICK M \in Nat : \A z \in DOMAIN m : Len(z) <= M
      BY <1>1 DEF IsTree
    <3>3. \A z \in DOMAIN n2 : z \in DOMAIN n \/ z \in DOMAIN m
      BY <1>2
    <3>4. \A z \in DOMAIN n2 : Len(z) \in Nat
      BY <1>2, LenProperties
    <3>5. \A z \in DOMAIN n2 : Len(z) <= N + M
      BY <3>1, <3>2, <3>3, <3>4
    <3>6. N + M \in Nat
      OBVIOUS
    <3> QED BY <3>5, <3>6
  <2>3. ASSUME NEW z \in Seq(Bit), NEW b \in Bit
        PROVE  z \o <<b>> \in DOMAIN n2 <=> z \in DOMAIN n2 /\ n2[z].pair
    <3> DEFINE y == z \o <<b>>
    <3>1. y \in Seq(Bit) /\ IsPrefix(z, y)
      BY FrontIs, PrefixOf, Single
    <3>2. \A u \in U : IsPrefix(u, y) <=> IsPrefix(u, z) \/ u = y
      BY <1>1, PrefixOfNext
    <3>3. /\ y \in DOMAIN n <=> z \in DOMAIN n /\ n[z].pair
          /\ y \in DOMAIN m <=> z \in DOMAIN m /\ m[z].pair
      BY <1>1 DEF IsTree
    <3> SUFFICES y \in DOMAIN n2 <=> z \in DOMAIN n2 /\ n2[z].pair
      OBVIOUS
    <3> HIDE DEF y
    <3>4. CASE Over(us, z) # {}
      <4>1. Over(us, y) # {}
        BY <3>2, <3>4 DEF Over
      <4>2. (\E u \in Tops(n, us) : IsPrefix(u, y)) <=> (\E u \in Tops(n, us) : IsPrefix(u, z))
        <5>1. PICK v \in Over(us, z) : TRUE
          BY <3>4
        <5>2. ASSUME y \in Tops(n, us) PROVE FALSE
          <6>1. v \in U /\ IsPrefix(v, z) /\ v \in Seq(Bit)
            BY <1>1 DEF Over
          <6>2. v \in Over(us, y)
            BY <3>2, <6>1 DEF Over
          <6>3. v = y
            BY <5>2, <6>2 DEF Tops
          <6>4. Len(y) = Len(z) + 1 /\ Len(z) \in Nat
            BY FrontIs DEF y
          <6>5. Len(v) <= Len(z)
            BY <6>1, PrefixOrder
          <6> QED BY <6>3, <6>4, <6>5
        <5>3. \A u \in Tops(n, us) : u \in U
          BY DEF Tops
        <5> QED BY <3>2, <5>2, <5>3
      <4>3. z \in DOMAIN n2 => n2[z] = m[z]
        BY <1>2, <3>4
      <4> QED BY <1>2, <3>1, <3>3, <3>4, <4>1, <4>2, <4>3
    <3>5. CASE Over(us, z) = {} /\ Over(us, y) = {}
      <4>1. z \in DOMAIN n2 <=> z \in DOMAIN n
        BY <1>2, <3>5
      <4>2. z \in DOMAIN n => n2[z].pair = n[z].pair
        BY <1>4, <3>5
      <4> QED BY <1>2, <3>1, <3>3, <3>5, <4>1, <4>2
    <3>6. CASE Over(us, z) = {} /\ Over(us, y) # {}
      <4>1. z \in DOMAIN n2 <=> z \in DOMAIN n
        BY <1>2, <3>6
      <4>2. z \in DOMAIN n => n2[z].pair = n[z].pair
        BY <1>4, <3>6
      <4>3. y \in U /\ Over(us, y) = {y}
        BY <3>2, <3>6 DEF Over
      <4>4. y \in DOMAIN m
        BY <4>3 DEF Fits
      <4>5. (\E u \in Tops(n, us) : IsPrefix(u, y)) <=> y \in DOMAIN n
        <5>1. \A u \in Tops(n, us) : IsPrefix(u, y) => u = y /\ u \in DOMAIN n
          BY <4>3 DEF Tops, Over
        <5>2. y \in DOMAIN n => y \in Tops(n, us) /\ IsPrefix(y, y)
          BY <3>1, <4>3, PrefixOrder DEF Tops
        <5> QED BY <5>1, <5>2
      <4> QED BY <1>2, <3>1, <3>3, <3>6, <4>1, <4>2, <4>4, <4>5
    <3> QED BY <3>4, <3>5, <3>6
  <2>4. ASSUME NEW z \in DOMAIN n2
        PROVE  /\ n2[z] = [pair |-> n2[z].pair, root |-> n2[z].root]
               /\ n2[z].pair \in BOOLEAN
               /\ ~n2[z].pair => n2[z].root # None
    <3>0. z \in Seq(Bit)
      BY <1>2
    <3>1. CASE Over(us, z) # {}
      <4>1. z \in DOMAIN m /\ n2[z] = m[z]
        BY <1>2, <3>0, <3>1
      <4> QED BY <1>1, <4>1 DEF IsTree
    <3>2. CASE Over(us, z) = {}
      <4>1. z \in DOMAIN n /\ n2[z] = IF z \in Passed(n, us) THEN Pair(slots[z]) ELSE n[z]
        BY <1>2, <3>0, <3>2
      <4>2. CASE z \in Passed(n, us)
        BY <4>1, <4>2 DEF Pair
      <4>3. CASE z \notin Passed(n, us)
        BY <1>1, <4>1, <4>3 DEF IsTree
      <4> QED BY <4>2, <4>3
    <3> QED BY <3>1, <3>2
  <2> QED BY <1>2, <2>1, <2>2, <2>3, <2>4 DEF IsTree
<1>6. ASSUME NEW z \in Seq(Bit), ~Covered(V, z) PROVE Same(n2, m, V, z)
  <2>1. CASE Over(us, z) # {}
    <3>1. PICK u \in Over(us, z) : Over(us, u) = {u}
      BY <1>1, <2>1, LeastCover
    <3>2. u \in U /\ IsPrefix(u, z) /\ u \in Seq(Bit) /\ u \in DOMAIN m
      BY <1>1 DEF Over, Fits
    <3>3. ASSUME u # <<>> PROVE ~Covered(W, Front(u))
      <4> DEFINE y == Front(u)
      <4>1. y \in Seq(Bit) /\ Len(y) < Len(u) /\ u = y \o <<Last(u)>> /\ Last(u) \in Bit /\ Len(u) \in Nat /\ Len(y) \in Nat
        BY <3>2, <3>3, SplitLast
      <4>2. IsPrefix(y, u)
        <5>1. IsPrefix(y, y \o <<Last(u)>>)
          BY <4>1, PrefixOf, Single
        <5> QED BY <4>1, <5>1
      <4> HIDE DEF y
      <4>3. ASSUME NEW w \in W, IsPrefix(w, y) PROVE FALSE
        <5>1. w \in Seq(Bit) /\ IsPrefix(w, u) /\ Len(w) <= Len(y) /\ Len(w) \in Nat
          BY <1>1, <3>2, <4>1, <4>2, <4>3, PrefixOrder, LenProperties
        <5>2. IsPrefix(w, z)
          BY <3>2, <5>1, PrefixOrder
        <5>3. w \in U
          BY <1>6, <5>2 DEF Covered
        <5>4. w \in Over(us, u)
          BY <5>1, <5>3 DEF Over
        <5>5. w = u
          BY <3>1, <5>4
        <5> QED BY <4>1, <5>1, <5>5
      <4> QED BY <4>3 DEF Covered, y
    <3>4. u \in DOMAIN n
      BY <3>2, <3>3, TopIn
    <3>5. u \in Tops(n, us)
      BY <3>1, <3>2, <3>4 DEF Tops
    <3>6. z \in DOMAIN n2 <=> z \in DOMAIN m
      BY <1>2, <2>1, <3>2, <3>5
    <3>7. z \in DOMAIN n2 => n2[z] = m[z]
      BY <1>2, <2>1
    <3> QED BY <3>6, <3>7 DEF Same
  <2>2. CASE Over(us, z) = {}
    <3>1. ~Covered(W, z)
      BY <1>6, <2>2 DEF Covered, Over
    <3>2. Same(n, m, W, z)
      BY <3>1 DEF Rel
    <3>3. z \in DOMAIN n2 <=> z \in DOMAIN m
      BY <1>2, <2>2, <3>2 DEF Same
    <3>4. ASSUME z \in DOMAIN n2
          PROVE  /\ n2[z].pair = m[z].pair
                 /\ ~n2[z].pair => n2[z] = m[z]
                 /\ n2[z].pair /\ ~Below(V, z) => n2[z].root \in {None, m[z].root}
      <4>1. z \in DOMAIN n /\ n2[z] = IF z \in Passed(n, us) THEN Pair(slots[z]) ELSE n[z]
        BY <1>2, <2>2, <3>4
      <4>2. n2[z].pair = n[z].pair /\ (~n[z].pair => n2[z] = n[z])
        BY <1>4, <2>2, <4>1
      <4>3. n2[z].pair = m[z].pair /\ (~n2[z].pair => n2[z] = m[z])
        BY <3>2, <4>1, <4>2 DEF Same
      <4>4. ASSUME n2[z].pair, ~Below(V, z) PROVE n2[z].root \in {None, m[z].root}
        <5>1. CASE z \in Passed(n, us)
          BY <4>1, <5>1 DEF Pair
        <5>2. CASE z \notin Passed(n, us)
          <6>1. n2[z] = n[z] /\ n[z].pair
            BY <4>1, <4>2, <4>4, <5>2
          <6>2. Under(us, z) = {}
            BY <2>2, <4>1, <5>2, <6>1 DEF Passed
          <6>3. ~Below(W, z)
            BY <4>4, <6>2 DEF Below, Under
          <6> QED BY <3>2, <4>1, <6>1, <6>3 DEF Same
        <5> QED BY <5>1, <5>2
      <4> QED BY <4>3, <4>4
    <3> QED BY <3>3, <3>4 DEF Same
  <2> QED BY <2>1, <2>2
<1> QED BY <1>1, <1>5, <1>6 DEF Rel, n2

\* setManyAt makes all its updates.
LEMMA SetManyRel ==
  ASSUME NEW n, NEW m, NEW W, NEW us, Rel(n, m, W), Fits(us, m)
  PROVE  Rel(SetManyAt(n, us), m, W \ DOMAIN us)
<1> DEFINE slots == [z \in Passed(n, us) |-> None]
<1>1. \A z \in Passed(n, us) : slots[z] = None
  OBVIOUS
<1> HIDE DEF slots
<1>2. Rel(Rebuilt(n, us, slots, us), m, W \ DOMAIN us)
  BY <1>1, RebuiltRel
<1>3. SetManyAt(n, us) = Rebuilt(n, us, slots, us)
  BY DEF SetManyAt, slots
<1> QED BY <1>2, <1>3

\* setAtBits makes its one.
LEMMA SetAtRel ==
  ASSUME NEW n, NEW m, NEW W, NEW us, NEW u \in DOMAIN us, Rel(n, m, W), Fits(us, m)
  PROVE  Rel(SetAtBits(n, u, us[u]), m, W \ {u})
<1> DEFINE one == [x \in {u} |-> us[u]]
<1>1. DOMAIN one = {u} /\ one[u] = us[u] /\ one = [x \in DOMAIN one |-> one[x]]
  OBVIOUS
<1> HIDE DEF one
<1>2. Fits(one, m)
  BY <1>1 DEF Fits
<1>3. Rel(SetManyAt(n, one), m, W \ {u})
  BY <1>1, <1>2, SetManyRel
<1>4. SetAtBits(n, u, us[u]) = SetManyAt(n, one)
  BY DEF SetAtBits, one
<1> QED BY <1>3, <1>4

\* The single walk of commitAndHash returns the root of the tree with the
\* updates made, and with every slot filled before, it leaves exactly that
\* tree, every slot filled.
THEOREM CommitMakesUpdates ==
  ASSUME NEW n, NEW m, NEW us, Rel(n, m, DOMAIN us), Fits(us, m)
  PROVE  /\ CommitAndHash(n, us).root = m[<<>>].root
         /\ (\A z \in DOMAIN n : n[z].root # None) =>
              CommitAndHash(n, us) = [root |-> m[<<>>].root, node |-> m]
<1> DEFINE U == DOMAIN us
           E == {z \in DOMAIN n : Over(us, z) \subseteq {z}}
           I == {z \in E : z \notin U /\ z \in Passed(n, us)}
           c == [z \in E |-> IF z \in U THEN RootOf(us[z]) ELSE Roots(n)[z]]
           IsRoot(f) == f = [z \in E |-> IF z \in DOMAIN us THEN RootOf(us[z])
                                          ELSE IF z \in Passed(n, us) THEN Combine(f[Left(z)], f[Right(z)])
                                          ELSE Roots(n)[z]]
           R == CHOOSE f : IsRoot(f)
<1>1. IsTree(n) /\ IsTree(m) /\ IsFull(m) /\ U \in SUBSET Seq(Bit) /\ E \in SUBSET Seq(Bit)
      /\ <<>> \in DOMAIN n /\ <<>> \in Seq(Bit)
  BY EmptySeq DEF Rel, IsFull, IsTree
<1>2. PICK N \in Nat : \A z \in E : Len(z) <= N
  BY <1>1 DEF IsTree
<1>3. ASSUME NEW z \in E, z \in Passed(n, us), NEW b \in Bit
      PROVE  z \o <<b>> \in E
  <2>1. z \in Seq(Bit) /\ z \in DOMAIN n /\ n[z].pair /\ Over(us, z) = {}
    BY <1>1, <1>3 DEF Passed
  <2>2. z \o <<b>> \in DOMAIN n /\ z \o <<b>> \in Seq(Bit)
    BY <1>1, <2>1, FrontIs DEF IsTree
  <2>3. \A u \in U : IsPrefix(u, z \o <<b>>) => u = z \o <<b>>
    BY <1>1, <2>1, PrefixOfNext DEF Over
  <2> QED BY <2>2, <2>3 DEF Over
<1>4. \A z \in E : z \in Passed(n, us) =>
        Left(z) \in E /\ Right(z) \in E /\ Len(z) < Len(Left(z)) /\ Len(z) < Len(Right(z))
  <2> TAKE z \in E
  <2>1. z \in Passed(n, us) => Left(z) \in E /\ Right(z) \in E
    BY <1>3, Bits01 DEF Left, Right
  <2>2. z \in Passed(n, us) => z \in DOMAIN n /\ n[z].pair
    BY DEF Passed
  <2> QED BY <1>1, <2>1, <2>2, ChildIn
<1>5. IsRoot(R)
  <2>1. PICK f : Combines(f, E, I, c)
    <3>1. \A z \in E : z \in I => Left(z) \in E /\ Right(z) \in E
      BY <1>4
    <3> HIDE DEF E, I, c
    <3> QED BY <1>1, <1>2, <3>1, TreeRecursion
  <2>2. f = [z \in E |-> IF z \in I THEN Combine(f[Left(z)], f[Right(z)]) ELSE c[z]]
    BY <2>1 DEF Combines
  <2>3. \A z \in E : (IF z \in I THEN Combine(f[Left(z)], f[Right(z)]) ELSE c[z])
                      = IF z \in DOMAIN us THEN RootOf(us[z])
                        ELSE IF z \in Passed(n, us) THEN Combine(f[Left(z)], f[Right(z)])
                        ELSE Roots(n)[z]
    OBVIOUS
  <2> HIDE DEF I, c, E
  <2>4. IsRoot(f)
    BY <2>2, <2>3
  <2> HIDE DEF IsRoot
  <2> QED BY <2>4
<1>6. \A z \in E : R[z] = IF z \in DOMAIN us THEN RootOf(us[z])
                           ELSE IF z \in Passed(n, us) THEN Combine(R[Left(z)], R[Right(z)])
                           ELSE Roots(n)[z]
  <2> HIDE DEF R, E
  <2> QED BY <1>5
<1>7. ASSUME NEW z \in E, z \notin U
      PROVE  ~Covered(U, z) /\ Over(us, z) = {} /\ z \in DOMAIN n /\ Same(n, m, U, z)
  <2>1. Over(us, z) = {}
    BY <1>7 DEF Over
  <2> QED BY <1>1, <2>1 DEF Over, Covered, Rel
<1> DEFINE P == {z \in E : R[z] = m[z].root}
<1>8. ASSUME NEW z \in E, \A y \in E : Len(z) < Len(y) => y \in P PROVE R[z] = m[z].root
  <2>1. CASE z \in U
    <3>1. IsFull(us[z]) /\ <<>> \in DOMAIN us[z]
      BY <2>1 DEF Fits, IsFull, IsTree
    <3>2. RootOf(us[z]) = us[z][<<>>].root
      BY <3>1, FullRoots
    <3>3. m[z \o <<>>] = us[z][<<>>] /\ z \o <<>> = z
      BY <1>1, <2>1, <3>1, ConcatEmptySeq DEF Fits
    <3> HIDE DEF R, E
    <3> QED BY <1>6, <2>1, <3>2, <3>3
  <2>2. CASE z \notin U /\ z \in Passed(n, us)
    <3>1. Left(z) \in P /\ Right(z) \in P
      BY <1>4, <1>8, <2>2
    <3>2. n[z].pair /\ z \in DOMAIN m /\ m[z].pair
      BY <1>7, <2>2 DEF Same, Passed
    <3>3. m[z].root = Combine(m[Left(z)].root, m[Right(z)].root)
      BY <1>1, <3>2 DEF IsFull
    <3> HIDE DEF R, E
    <3>4. R[z] = Combine(R[Left(z)], R[Right(z)])
      BY <1>6, <2>2
    <3> QED BY <3>1, <3>3, <3>4
  <2>3. CASE z \notin U /\ z \notin Passed(n, us)
    <3>1. R[z] = Roots(n)[z]
      <4> HIDE DEF R, E
      <4> QED BY <1>6, <2>3
    <3>2. z \in DOMAIN n /\ ~Covered(U, z) /\ Over(us, z) = {} /\ Same(n, m, U, z)
      BY <1>7, <2>3
    <3>3. CASE ~n[z].pair
      <4>1. Roots(n)[z] = n[z].root
        BY <1>1, <3>2, <3>3, RootsIs
      <4>2. n[z] = m[z]
        BY <3>2, <3>3 DEF Same
      <4> HIDE DEF R
      <4> QED BY <3>1, <4>1, <4>2
    <3>4. CASE n[z].pair
      <4>1. ~Below(U, z)
        BY <2>3, <3>2, <3>4 DEF Passed, Under, Below
      <4>2. Roots(n)[z] = m[z].root
        BY <3>2, <4>1, RelRoots
      <4> HIDE DEF R
      <4> QED BY <3>1, <4>2
    <3> QED BY <3>3, <3>4
  <2> QED BY <2>1, <2>2, <2>3
<1>9. \A z \in E : R[z] = m[z].root
  <2> HIDE DEF R, E
  <2>1. \A z \in E : z \in P
    <3> HIDE DEF P
    <3>1. \A z \in E : (\A y \in E : Len(z) < Len(y) => y \in P) => z \in P
      BY <1>8 DEF P
    <3> QED BY <1>1, <1>2, <3>1, Downward
  <2> QED BY <2>1
<1>10. <<>> \in E
  <2>1. \A u \in U : IsPrefix(u, <<>>) => u = <<>>
    BY <1>1, PrefixOrder
  <2> QED BY <1>1, <2>1 DEF Over
<1> DEFINE news == [u \in DOMAIN us |-> MerkleRootWithCache(us[u]).node]
           n2 == Rebuilt(n, us, R, us)
<1>11. CASE U = {}
  <2>1. CommitAndHash(n, us) = MerkleRootWithCache(n)
    BY <1>11 DEF CommitAndHash
  <2>2. Rel(n, m, {})
    BY <1>11
  <2>3. MerkleRootWithCache(n).root = RootOf(n)
    BY DEF MerkleRootWithCache, RootOf
  <2>4. ASSUME \A z \in DOMAIN n : n[z].root # None
        PROVE  CommitAndHash(n, us) = [root |-> m[<<>>].root, node |-> m]
    <3>1. n = m
      BY <2>2, <2>4, RelNone
    <3> QED BY <1>1, <2>1, <3>1, FullRoots
  <2> QED BY <2>1, <2>2, <2>3, <2>4, RelNone
<1>12. CASE U # {}
  <2>1. CommitAndHash(n, us) = [root |-> R[<<>>], node |-> Rebuilt(n, us, R, news)]
    BY <1>12 DEF CommitAndHash
  <2>2. R[<<>>] = m[<<>>].root
    BY <1>9, <1>10
  <2>3. Rebuilt(n, us, R, news) = n2
    <3>1. \A u \in DOMAIN us : MerkleRootWithCache(us[u]).node = us[u]
      <4> TAKE u \in DOMAIN us
      <4>1. IsFull(us[u])
        BY DEF Fits
      <4>2. MerkleRootWithCache(us[u]) = [root |-> us[u][<<>>].root, node |-> us[u]]
        BY <4>1, FullRoots
      <4> QED BY <4>2
    <3>2. us = [u \in DOMAIN us |-> us[u]]
      BY DEF Fits
    <3>3. news = us
      BY <3>1, <3>2
    <3> HIDE DEF news, R
    <3> QED BY <3>3
  <2>4. \A z \in Passed(n, us) : ~Covered(U, z) /\ R[z] = m[z].root
    <3> TAKE z \in Passed(n, us)
    <3>1. Over(us, z) = {} /\ z \in E
      BY DEF Passed
    <3> QED BY <1>9, <3>1, CoveredIs
  <2>5. Rel(n2, m, U \ U)
    <3> HIDE DEF R
    <3> QED BY <2>4, RebuiltRel
  <2>6. Rel(n2, m, {})
    <3>1. U \ U = {}
      OBVIOUS
    <3> HIDE DEF n2
    <3> QED BY <2>5, <3>1
  <2>7. ASSUME \A z \in DOMAIN n : n[z].root # None PROVE n2 = m
    <3>1. ASSUME NEW z \in DOMAIN n2 PROVE n2[z].root # None
      <4> HIDE DEF R
      <4>0. z \in Seq(Bit)
        BY <2>6 DEF Rel, IsTree
      <4>1. CASE Over(us, z) # {}
        <5>1. n2[z] = m[z]
          BY <1>1, <3>1, <4>0, <4>1, RebuiltIs
        <5>2. z \in DOMAIN m
          BY <2>6, <3>1, <4>0 DEF Rel, Same, Covered
        <5> QED BY <1>1, <5>1, <5>2 DEF IsFull
      <4>2. CASE Over(us, z) = {}
        <5>1. z \in DOMAIN n /\ n2[z] = IF z \in Passed(n, us) THEN Pair(R[z]) ELSE n[z]
          BY <1>1, <3>1, <4>0, <4>2, RebuiltIs
        <5>2. z \in DOMAIN m
          BY <2>6, <3>1, <4>0 DEF Rel, Same, Covered
        <5>3. m[z].root # None
          BY <1>1, <5>2 DEF IsFull
        <5>4. CASE z \in Passed(n, us)
          <6>1. n2[z] = Pair(R[z])
            BY <5>1, <5>4
          <6>2. R[z] # None
            BY <2>4, <5>3, <5>4
          <6> HIDE DEF n2
          <6> QED BY <6>1, <6>2 DEF Pair
        <5>5. CASE z \notin Passed(n, us)
          BY <2>7, <5>1, <5>5
        <5> QED BY <5>4, <5>5
      <4> QED BY <4>1, <4>2
    <3> HIDE DEF n2
    <3> QED BY <2>6, <3>1, RelNone
  <2> HIDE DEF n2, R
  <2> QED BY <2>1, <2>2, <2>3, <2>7
<1> QED BY <1>11, <1>12

-----------------------------------------------------------------------------
(* Building trees: ofSubtrees.                                             *)

\* The first n zero hashes.
Zeros(f, n) ==
  /\ f[0] = Zero
  /\ \A k \in 1..n : f[k] = Combine(f[k - 1], f[k - 1])

\* There are such tables of any length.
LEMMA ZerosExist ==
  ASSUME NEW n \in Nat PROVE \E f : Zeros(f, n)
<1> DEFINE Bad == {k \in Nat : ~\E f : Zeros(f, k)}
<1> SUFFICES ASSUME Bad # {} PROVE FALSE
  OBVIOUS
<1>1. PICK k \in Bad : \A j \in Bad : k <= j
  BY LeastOf
<1>2. CASE k = 0
  <2>1. Zeros([j \in {0} |-> Zero], 0)
    BY DEF Zeros
  <2> QED BY <1>1, <1>2, <2>1
<1>3. CASE k # 0
  <2>1. k - 1 \in Nat /\ ~(k <= k - 1) /\ k \in Nat
    BY <1>1, <1>3
  <2>2. PICK f : Zeros(f, k - 1)
    BY <1>1, <2>1
  <2> DEFINE g == [j \in 0..k |-> IF j = k THEN Combine(f[k - 1], f[k - 1]) ELSE f[j]]
  <2>3. g[0] = Zero
    BY <1>3, <2>1, <2>2 DEF Zeros
  <2>4. ASSUME NEW j \in 1..k PROVE g[j] = Combine(g[j - 1], g[j - 1])
    <3>1. g[j - 1] = f[j - 1]
      BY <2>1
    <3>2. CASE j = k
      BY <2>1, <3>1, <3>2
    <3>3. CASE j # k
      <4>1. j \in 1..(k - 1) /\ j \in 0..k
        BY <2>1, <3>3
      <4>2. g[j] = f[j]
        BY <3>3, <4>1
      <4>3. f[j] = Combine(f[j - 1], f[j - 1])
        BY <2>2, <4>1 DEF Zeros
      <4> QED BY <3>1, <4>2, <4>3
    <3> QED BY <3>2, <3>3
  <2>5. Zeros(g, k)
    BY <2>3, <2>4 DEF Zeros
  <2> QED BY <1>1, <2>5
<1> QED BY <1>2, <1>3

\* Two of them agree as far as both go.
LEMMA ZerosSame ==
  ASSUME NEW f, NEW g, NEW n \in Nat, NEW m \in Nat, Zeros(f, n), Zeros(g, m)
  PROVE  \A k \in Nat : k <= n /\ k <= m => f[k] = g[k]
<1> DEFINE Bad == {k \in Nat : k <= n /\ k <= m /\ f[k] # g[k]}
<1> SUFFICES ASSUME Bad # {} PROVE FALSE
  OBVIOUS
<1>1. PICK k \in Bad : \A j \in Bad : k <= j
  BY LeastOf
<1>2. k # 0
  BY <1>1 DEF Zeros
<1>3. k - 1 \in Nat /\ ~(k <= k - 1) /\ k - 1 <= n /\ k - 1 <= m /\ k \in 1..n /\ k \in 1..m
  BY <1>1, <1>2
<1>4. f[k - 1] = g[k - 1]
  BY <1>1, <1>3
<1>5. f[k] = Combine(f[k - 1], f[k - 1]) /\ g[k] = Combine(g[k - 1], g[k - 1])
  BY <1>3 DEF Zeros
<1> QED BY <1>1, <1>4, <1>5

\* The recursive definition of the zero hashes is a definition.
LEMMA ZeroHashDefined ==
  ZeroHash = [d \in Nat |-> IF d = 0 THEN Zero ELSE Combine(ZeroHash[d - 1], ZeroHash[d - 1])]
<1> DEFINE Of(n) == CHOOSE f : Zeros(f, n)
           p == [n \in Nat |-> Of(n)[n]]
<1>1. \A n \in Nat : Zeros(Of(n), n)
  BY ZerosExist
<1>2. Of(0)[0] = Zero
  BY <1>1 DEF Zeros
<1>3. ASSUME NEW n \in Nat, n # 0 PROVE Of(n)[n] = Combine(Of(n - 1)[n - 1], Of(n - 1)[n - 1])
  <2>1. n - 1 \in Nat /\ n \in 1..n /\ n - 1 <= n
    BY <1>3
  <2>2. Zeros(Of(n), n) /\ Zeros(Of(n - 1), n - 1)
    BY <1>1, <2>1
  <2> HIDE DEF Of
  <2>3. Of(n)[n - 1] = Of(n - 1)[n - 1]
    BY <2>1, <2>2, ZerosSame
  <2> QED BY <2>1, <2>2, <2>3 DEF Zeros
<1> HIDE DEF Of
<1>4. p = [n \in Nat |-> IF n = 0 THEN Zero ELSE Combine(p[n - 1], p[n - 1])]
  <2>1. \A n \in Nat : p[n] = IF n = 0 THEN Zero ELSE Combine(p[n - 1], p[n - 1])
    BY <1>2, <1>3
  <2> QED BY <2>1
<1> HIDE DEF p
<1> QED BY <1>4 DEF ZeroHash

\* The zero hashes, by recursion; none is an empty slot.
LEMMA ZeroHashIs ==
  /\ ZeroHash[0] = Zero
  /\ \A n \in Nat : ZeroHash[n + 1] = Combine(ZeroHash[n], ZeroHash[n])
  /\ \A n \in Nat : ZeroHash[n] # None
<1>1. \A n \in Nat : ZeroHash[n] = IF n = 0 THEN Zero ELSE Combine(ZeroHash[n - 1], ZeroHash[n - 1])
  BY ZeroHashDefined
<1>2. \A n \in Nat : ZeroHash[n + 1] = Combine(ZeroHash[n], ZeroHash[n])
  <2> TAKE n \in Nat
  <2>1. n + 1 \in Nat /\ n + 1 # 0 /\ (n + 1) - 1 = n
    OBVIOUS
  <2> QED BY <1>1, <2>1
<1>3. \A x, y : Combine(x, y) # None
  BY DEF Combine, None
<1>4. Zero # None
  BY DEF Zero, None
<1> QED BY <1>1, <1>2, <1>3, <1>4

\* Neither a hash nor a chunk is taken for an empty slot.
LEMMA NotNone == (\A x, y : Combine(x, y) # None) /\ (\A x : NatToChunk(x) # None)
BY DEF Combine, NatToChunk, None

\* The places of a depth are the sequences of at most as many bits.
LEMMA PlacesAre ==
  ASSUME NEW d \in Nat
  PROVE  Places(d) = {z \in Seq(Bit) : Len(z) <= d}
<1>1. ASSUME NEW z \in Places(d) PROVE z \in Seq(Bit) /\ Len(z) <= d
  <2>1. PICK k \in 0..d : z \in [1..k -> Bit]
    BY DEF Places
  <2>2. z \in Seq(Bit) /\ Len(z) = k
    BY <2>1
  <2> QED BY <2>2
<1>2. ASSUME NEW z \in Seq(Bit), Len(z) <= d PROVE z \in Places(d)
  <2>1. z \in [1..Len(z) -> Bit] /\ Len(z) \in 0..d
    BY <1>2, LenProperties
  <2> QED BY <2>1 DEF Places
<1> QED BY <1>1, <1>2

\* The tops of the subtrees of a tree of this depth.
Slot(b, d, k) == b \in Seq(Bit) /\ Len(b) = d /\ Number(b) = k - 1

\* z is not under one of the first c.
Inner(z, d, c) == \A b \in Seq(Bit) : IsPrefix(b, z) => \A k \in 1..c : ~Slot(b, d, k)

\* A place is under one slot only.
LEMMA SlotUnique ==
  ASSUME NEW d, NEW z \in Seq(Bit), NEW b \in Seq(Bit), NEW e \in Seq(Bit),
         Len(b) = d, Len(e) = d, IsPrefix(b, z), IsPrefix(e, z)
  PROVE  b = e
<1>1. IsPrefix(b, e) \/ IsPrefix(e, b)
  BY PrefixLinear
<1> QED BY <1>1, PrefixOrder

\* From an inner place one step leads to an inner place or to the top of a
\* subtree.
LEMMA InnerChild ==
  ASSUME NEW d \in Nat, NEW c \in Nat, NEW z \in Seq(Bit), NEW x \in Bit, Inner(z, d, c)
  PROVE  /\ Len(z) # d => Len(z \o <<x>>) = d \/ Inner(z \o <<x>>, d, c)
         /\ ~Inner(z \o <<x>>, d, c) => Len(z) + 1 = d /\ \E k \in 1..c : Slot(z \o <<x>>, d, k)
<1> DEFINE y == z \o <<x>>
<1>1. y \in Seq(Bit) /\ Len(y) = Len(z) + 1
  BY FrontIs
<1>2. \A b \in Seq(Bit) : IsPrefix(b, y) <=> IsPrefix(b, z) \/ b = y
  BY PrefixOfNext
<1> HIDE DEF y
<1>3. ASSUME ~Inner(y, d, c) PROVE Len(z) + 1 = d /\ \E k \in 1..c : Slot(y, d, k)
  <2>1. PICK b \in Seq(Bit) : IsPrefix(b, y) /\ \E k \in 1..c : Slot(b, d, k)
    BY <1>3 DEF Inner
  <2>2. b = y
    BY <1>2, <2>1 DEF Inner
  <2> QED BY <1>1, <2>1, <2>2 DEF Slot
<1> QED BY <1>1, <1>3 DEF y

\* Roots of the upper part of a tree.
UpperRoots(R, subs, d, c) ==
  /\ \A z \in Seq(Bit) : Len(z) < d => R[z] = Combine(R[Left(z)], R[Right(z)])
  /\ \A z \in Seq(Bit) : \A k \in 1..c : Slot(z, d, k) => R[z] = subs[k][<<>>].root
  /\ \A z \in Seq(Bit) : Len(z) = d /\ Inner(z, d, c) => R[z] = ZeroHash[0]

\* The nodes of the upper part of a tree have the roots R; its leaves without a
\* subtree are zero.
Upper(O, R, d, c) ==
  \A z \in Seq(Bit) : Inner(z, d, c) =>
    /\ z \in DOMAIN O <=> Len(z) <= d
    /\ Len(z) <= d => O[z] = IF Len(z) < d THEN Pair(R[z]) ELSE Leaf(R[z])

\* Under each slot of O lies its subtree.
Lower(O, subs, d, c) ==
  \A b \in Seq(Bit), k \in 1..c : Slot(b, d, k) =>
    \A y \in Seq(Bit) : /\ b \o y \in DOMAIN O <=> y \in DOMAIN subs[k]
                        /\ y \in DOMAIN subs[k] => O[b \o y] = subs[k][y]

\* Finitely many numbers have a bound.
LEMMA Bounded ==
  ASSUME NEW c \in Nat, NEW f \in [1..c -> Nat]
  PROVE  \E N \in Nat : \A k \in 1..c : f[k] <= N
<1> DEFINE Bad == {j \in Nat : j <= c /\ ~\E N \in Nat : \A k \in 1..j : f[k] <= N}
<1>1. Bad = {}
  <2> SUFFICES ASSUME Bad # {} PROVE FALSE
    OBVIOUS
  <2>1. PICK j \in Bad : \A i \in Bad : j <= i
    BY LeastOf
  <2>2. CASE j = 0
    BY <2>1, <2>2
  <2>3. CASE j # 0
    <3>1. j - 1 \in Nat /\ j - 1 <= c /\ ~(j <= j - 1) /\ j \in 1..c
      BY <2>1, <2>3
    <3>2. PICK N \in Nat : \A k \in 1..(j - 1) : f[k] <= N
      BY <2>1, <3>1
    <3>3. f[j] \in Nat
      BY <3>1
    <3> HIDE DEF Bad
    <3>4. N + f[j] \in Nat /\ \A k \in 1..j : f[k] <= N + f[j]
      <4>1. N + f[j] \in Nat
        BY <3>2, <3>3
      <4>2. ASSUME NEW k \in 1..j PROVE f[k] <= N + f[j]
        <5>1. k = j \/ k \in 1..(j - 1)
          BY <3>1
        <5>2. CASE k = j
          BY <5>2, <3>2, <3>3
        <5>3. CASE k \in 1..(j - 1)
          <6>1. f[k] <= N /\ f[k] \in Nat
            BY <3>1, <3>2, <5>3
          <6> QED BY <6>1, <3>2, <3>3
        <5> QED BY <5>1, <5>2, <5>3
      <4> QED BY <4>1, <4>2
    <3> QED BY <2>1, <3>4 DEF Bad
  <2> QED BY <2>2, <2>3
<1>2. c \notin Bad /\ c <= c
  <2>1. c \notin Bad
    BY <1>1, Zenon
  <2> HIDE DEF Bad
  <2> QED BY <2>1
<1>3. \E N \in Nat : \A k \in 1..c : f[k] <= N
  BY <1>2
<1> QED BY <1>3

\* Every place is in the upper part or under one slot.
LEMMA WhereIs ==
  ASSUME NEW d \in Nat, NEW c \in Nat, NEW z \in Seq(Bit), ~Inner(z, d, c)
  PROVE  \E b \in Seq(Bit) : \E k \in 1..c : \E y \in Seq(Bit) : Slot(b, d, k) /\ z = b \o y
<1>1. PICK b \in Seq(Bit) : IsPrefix(b, z) /\ \E k \in 1..c : Slot(b, d, k)
  BY DEF Inner
<1>2. PICK y \in Seq(Bit) : z = b \o y
  BY <1>1, PrefixHas
<1> QED BY <1>1, <1>2

\* The root of a place in the upper part, or at the top of a subtree, is R's.
LEMMA RootsWithin ==
  ASSUME NEW d \in Nat, NEW c \in Nat, NEW subs, \A k \in 1..c : IsFull(subs[k]), NEW O, NEW R,
         UpperRoots(R, subs, d, c), Upper(O, R, d, c), Lower(O, subs, d, c),
         NEW z \in Seq(Bit), Len(z) <= d, Inner(z, d, c) \/ Len(z) = d
  PROVE  z \in DOMAIN O /\ O[z].root = R[z]
<1>1. CASE Inner(z, d, c)
  <2>1. z \in DOMAIN O /\ O[z] = IF Len(z) < d THEN Pair(R[z]) ELSE Leaf(R[z])
    BY <1>1 DEF Upper
  <2>2. \A x : Pair(x).root = x /\ Leaf(x).root = x
    BY DEF Pair, Leaf
  <2> QED BY <2>1, <2>2
<1>2. CASE ~Inner(z, d, c)
  <2>1. PICK b \in Seq(Bit), k \in 1..c, y \in Seq(Bit) : Slot(b, d, k) /\ z = b \o y
    BY <1>2, WhereIs
  <2>2. z = b
    <3>1. Len(b) = d /\ IsPrefix(b, z) /\ Len(z) = d
      BY <1>2, <2>1, PrefixOf DEF Slot
    <3> QED BY <3>1, PrefixOrder
  <2>3. <<>> \in DOMAIN subs[k] /\ <<>> \in Seq(Bit)
    BY EmptySeq DEF IsFull, IsTree
  <2>4. b \in DOMAIN O /\ O[b] = subs[k][<<>>]
    <3>1. \A x \in Seq(Bit) : /\ b \o x \in DOMAIN O <=> x \in DOMAIN subs[k]
                              /\ x \in DOMAIN subs[k] => O[b \o x] = subs[k][x]
      BY <2>1 DEF Lower
    <3>2. b \o <<>> \in DOMAIN O /\ O[b \o <<>>] = subs[k][<<>>]
      BY <2>3, <3>1, Zenon
    <3>3. b \o <<>> = b
      BY ConcatEmptySeq
    <3> QED BY <3>2, <3>3, Zenon
  <2>5. R[b] = subs[k][<<>>].root
    BY <2>1 DEF UpperRoots
  <2> QED BY <2>2, <2>4, <2>5
<1> QED BY <1>1, <1>2

\* Subtrees joined under right roots are a tree with every slot right.
LEMMA JoinedTree ==
  ASSUME NEW d \in Nat, NEW c \in Nat, NEW subs, \A k \in 1..c : IsFull(subs[k]), NEW O, NEW R,
         DOMAIN O \in SUBSET Seq(Bit), O = [z \in DOMAIN O |-> O[z]],
         UpperRoots(R, subs, d, c), Upper(O, R, d, c), Lower(O, subs, d, c)
  PROVE  IsFull(O)
<1>0. <<>> \in Seq(Bit) /\ Len(<<>>) = 0 /\ 0 <= d
  BY EmptySeq
<1>10. \A w \in Seq(Bit) : Len(w) <= d /\ (Inner(w, d, c) \/ Len(w) = d)
                            => w \in DOMAIN O /\ O[w].root = R[w]
  BY RootsWithin
<1>11. \A x : Pair(x).root = x /\ Leaf(x).root = x /\ Pair(x).pair /\ ~Leaf(x).pair
  BY DEF Pair, Leaf
<1>1. <<>> \in DOMAIN O
  <2>1. CASE Inner(<<>>, d, c)
    BY <1>0, <2>1 DEF Upper
  <2>2. CASE ~Inner(<<>>, d, c)
    <3>1. PICK b \in Seq(Bit), k \in 1..c, y \in Seq(Bit) : Slot(b, d, k) /\ <<>> = b \o y
      BY <1>0, <2>2, WhereIs
    <3>2. b = <<>>
      BY <1>0, <3>1, PrefixOf, PrefixOrder
    <3> QED BY <1>0, <3>1, <3>2, RootsWithin DEF Slot
  <2> QED BY <2>1, <2>2
<1>2. \E N \in Nat : \A z \in DOMAIN O : Len(z) <= N
  <2> DEFINE f == [k \in 1..c |-> CHOOSE N \in Nat : \A y \in DOMAIN subs[k] : Len(y) <= N]
  <2>1. f \in [1..c -> Nat] /\ \A k \in 1..c : \A y \in DOMAIN subs[k] : Len(y) <= f[k]
    <3>1. ASSUME NEW k \in 1..c PROVE f[k] \in Nat /\ \A y \in DOMAIN subs[k] : Len(y) <= f[k]
      <4>1. \E N \in Nat : \A y \in DOMAIN subs[k] : Len(y) <= N
        BY DEF IsFull, IsTree
      <4> QED BY <4>1
    <3> QED BY <3>1
  <2> HIDE DEF f
  <2>2. PICK N \in Nat : \A k \in 1..c : f[k] <= N
    BY <2>1, Bounded
  <2>3. ASSUME NEW z \in DOMAIN O PROVE Len(z) <= d + N
    <3>1. CASE Inner(z, d, c)
      <4>1. Len(z) <= d /\ Len(z) \in Nat
        BY <3>1, LenProperties DEF Upper
      <4> QED BY <4>1
    <3>2. CASE ~Inner(z, d, c)
      <4>0. z \in Seq(Bit)
        OBVIOUS
      <4>1. PICK b \in Seq(Bit), k \in 1..c, y \in Seq(Bit) : Slot(b, d, k) /\ z = b \o y
        BY <3>2, <4>0, WhereIs
      <4>2. y \in DOMAIN subs[k]
        BY <4>1 DEF Lower
      <4>3. Len(z) = d + Len(y) /\ Len(y) \in Nat
        BY <4>1, Concat, LenProperties DEF Slot
      <4>4. Len(y) <= f[k] /\ f[k] <= N /\ f[k] \in Nat
        BY <2>1, <2>2, <4>2
      <4> QED BY <4>3, <4>4
    <3> QED BY <3>1, <3>2
  <2>4. d + N \in Nat
    OBVIOUS
  <2> QED BY <2>3, <2>4
<1>3. ASSUME NEW z \in Seq(Bit), NEW x \in Bit
      PROVE  z \o <<x>> \in DOMAIN O <=> z \in DOMAIN O /\ O[z].pair
  <2> DEFINE w == z \o <<x>>
  <2>1. w \in Seq(Bit) /\ Len(w) = Len(z) + 1 /\ Len(z) \in Nat
    BY FrontIs
  <2> SUFFICES w \in DOMAIN O <=> z \in DOMAIN O /\ O[z].pair
    OBVIOUS
  <2>2. CASE Inner(z, d, c)
    <3>1. z \in DOMAIN O /\ O[z].pair <=> Len(z) < d
      <4>1. z \in DOMAIN O <=> Len(z) <= d
        BY <2>2 DEF Upper
      <4>2. Len(z) <= d => O[z] = IF Len(z) < d THEN Pair(R[z]) ELSE Leaf(R[z])
        BY <2>2 DEF Upper
      <4>3. CASE Len(z) < d
        BY <1>11, <2>1, <4>1, <4>2, <4>3
      <4>4. CASE ~(Len(z) < d)
        BY <1>11, <2>1, <4>1, <4>2, <4>4
      <4> QED BY <4>3, <4>4
    <3>2. ~Inner(w, d, c) => Len(z) + 1 = d
      BY <2>2, InnerChild
    <3> HIDE DEF w
    <3>3. CASE Inner(w, d, c)
      <4>1. w \in DOMAIN O <=> Len(w) <= d
        BY <2>1, <3>3 DEF Upper
      <4> QED BY <2>1, <3>1, <4>1
    <3>4. CASE ~Inner(w, d, c)
      <4>1. Len(w) = d
        BY <2>1, <3>2, <3>4
      <4>2. w \in DOMAIN O
        BY <2>1, <4>1, RootsWithin
      <4> QED BY <2>1, <3>1, <3>2, <3>4, <4>2
    <3> QED BY <3>3, <3>4
  <2>3. CASE ~Inner(z, d, c)
    <3>1. PICK b \in Seq(Bit), k \in 1..c, y \in Seq(Bit) : Slot(b, d, k) /\ z = b \o y
      BY <2>3, WhereIs
    <3>2. w = b \o (y \o <<x>>) /\ y \o <<x>> \in Seq(Bit)
      BY <3>1, Assoc, Single, FrontIs
    <3>3. y \o <<x>> \in DOMAIN subs[k] <=> y \in DOMAIN subs[k] /\ subs[k][y].pair
      BY DEF IsFull, IsTree
    <3>4. /\ z \in DOMAIN O <=> y \in DOMAIN subs[k]
          /\ y \in DOMAIN subs[k] => O[z] = subs[k][y]
      BY <3>1 DEF Lower
    <3>5. w \in DOMAIN O <=> y \o <<x>> \in DOMAIN subs[k]
      BY <3>1, <3>2 DEF Lower
    <3> QED BY <3>3, <3>4, <3>5
  <2> QED BY <2>2, <2>3
<1>4. ASSUME NEW z \in DOMAIN O
      PROVE  /\ O[z] = [pair |-> O[z].pair, root |-> O[z].root]
             /\ O[z].pair \in BOOLEAN
             /\ O[z].root # None
             /\ O[z].pair => O[z].root = Combine(O[Left(z)].root, O[Right(z)].root)
  <2>1. z \in Seq(Bit) /\ Len(z) \in Nat
    BY LenProperties
  <2>2. CASE Inner(z, d, c)
    <3>1. Len(z) <= d
      BY <2>1, <2>2 DEF Upper
    <3>2. O[z] = IF Len(z) < d THEN Pair(R[z]) ELSE Leaf(R[z])
      BY <2>1, <2>2, <3>1 DEF Upper
    <3>3. CASE Len(z) < d
      <4>1. O[z] = [pair |-> TRUE, root |-> R[z]]
        BY <3>2, <3>3 DEF Pair
      <4>2. R[z] = Combine(R[Left(z)], R[Right(z)])
        BY <2>1, <3>3 DEF UpperRoots
      <4>3. ASSUME NEW x \in Bit PROVE O[z \o <<x>>].root = R[z \o <<x>>]
        <5> DEFINE w == z \o <<x>>
        <5>1. w \in Seq(Bit) /\ Len(w) = Len(z) + 1
          BY <2>1, FrontIs
        <5>2. ~Inner(w, d, c) => Len(z) + 1 = d
          BY <2>1, <2>2, InnerChild
        <5> HIDE DEF w
        <5>3. Len(w) <= d /\ (Inner(w, d, c) \/ Len(w) = d)
          BY <2>1, <3>3, <5>1, <5>2
        <5>4. O[w].root = R[w]
          BY <1>10, <5>1, <5>3
        <5> QED BY <5>4 DEF w
      <4>4. O[Left(z)].root = R[Left(z)] /\ O[Right(z)].root = R[Right(z)]
        BY <4>3, Bits01 DEF Left, Right
      <4>5. O[z].root = R[z] /\ O[z].pair = TRUE
        BY <4>1
      <4> QED BY <4>1, <4>2, <4>4, <4>5, NotNone
    <3>4. CASE ~(Len(z) < d)
      <4>1. O[z] = [pair |-> FALSE, root |-> R[z]]
        BY <3>2, <3>4 DEF Leaf
      <4>2. Len(z) = d
        BY <2>1, <3>1, <3>4
      <4>3. R[z] = ZeroHash[0]
        BY <2>1, <2>2, <4>2 DEF UpperRoots
      <4>4. O[z].root = R[z] /\ O[z].pair = FALSE
        BY <4>1
      <4> QED BY <4>1, <4>3, <4>4, ZeroHashIs
    <3> QED BY <3>3, <3>4
  <2>3. CASE ~Inner(z, d, c)
    <3>1. PICK b \in Seq(Bit), k \in 1..c, y \in Seq(Bit) : Slot(b, d, k) /\ z = b \o y
      BY <2>1, <2>3, WhereIs
    <3>2. y \in DOMAIN subs[k] /\ O[z] = subs[k][y]
      BY <3>1 DEF Lower
    <3>3. /\ subs[k][y] = [pair |-> subs[k][y].pair, root |-> subs[k][y].root]
          /\ subs[k][y].pair \in BOOLEAN
          /\ subs[k][y].root # None
          /\ subs[k][y].pair => subs[k][y].root = Combine(subs[k][Left(y)].root, subs[k][Right(y)].root)
      <4> DEFINE m == subs[k]
      <4>1. IsFull(m) /\ y \in DOMAIN m
        BY <3>2
      <4> HIDE DEF m
      <4>2. m[y] = [pair |-> m[y].pair, root |-> m[y].root]
        BY <4>1, Zenon DEF IsFull, IsTree
      <4>3. m[y].pair \in BOOLEAN
        BY <4>1, Zenon DEF IsFull, IsTree
      <4>4. m[y].root # None /\ (m[y].pair => m[y].root = Combine(m[Left(y)].root, m[Right(y)].root))
        BY <4>1, Zenon DEF IsFull
      <4> QED BY <4>2, <4>3, <4>4, Zenon DEF m
    <3>4. ASSUME subs[k][y].pair
          PROVE  O[Left(z)] = subs[k][Left(y)] /\ O[Right(z)] = subs[k][Right(y)]
      <4>1. Left(y) \in DOMAIN subs[k] /\ Right(y) \in DOMAIN subs[k] /\ IsTree(subs[k])
        BY <3>2, <3>4, ChildIn DEF IsFull
      <4>2. Left(y) \in Seq(Bit) /\ Right(y) \in Seq(Bit)
        BY <4>1 DEF IsTree
      <4>3. Left(z) = b \o Left(y) /\ Right(z) = b \o Right(y)
        <5>1. \A x \in Bit : (b \o y) \o <<x>> = b \o (y \o <<x>>)
          BY Assoc, Single
        <5> QED BY <3>1, <5>1, Bits01 DEF Left, Right
      <4> QED BY <3>1, <4>1, <4>2, <4>3 DEF Lower
    <3>5. \/ ~O[z].pair
          \/ O[z].root = Combine(O[Left(z)].root, O[Right(z)].root)
      BY <3>2, <3>3, <3>4
    <3>6. O[z] = [pair |-> O[z].pair, root |-> O[z].root] /\ O[z].pair \in BOOLEAN /\ O[z].root # None
      BY <3>2, <3>3, Zenon
    <3> QED BY <3>5, <3>6, Zenon
  <2> QED BY <2>2, <2>3
<1>5. IsTree(O)
  BY <1>1, <1>2, <1>3, <1>4 DEF IsTree
<1>6. \A z \in DOMAIN O : O[z].root # None
  BY <1>4, Zenon
<1>7. \A z \in DOMAIN O : O[z].pair => O[z].root = Combine(O[Left(z)].root, O[Right(z)].root)
  BY <1>4, Zenon
<1> QED BY <1>5, <1>6, <1>7, Zenon DEF IsFull

\* A sequence taken whole.
LEMMA SubSeqAll ==
  ASSUME NEW c \in Nat, NEW subs, subs = [k \in 1..c |-> subs[k]]
  PROVE  SubSeq(subs, 1, c) = subs /\ Len(subs) = c
<1> DEFINE A == {subs[k] : k \in 1..c}
<1>1. subs \in Seq(A) /\ Len(subs) = c
  <2>1. subs \in [1..c -> A]
    OBVIOUS
  <2> HIDE DEF A
  <2> QED BY <2>1
<1> HIDE DEF A
<1> QED BY <1>1, SubSeqFull

\* No subtree goes below the place.
NoneHere(z, d, c) == c <= Number(z) * Pow2[d - Len(z)]

\* Where ofSubtrees puts a zero tree.
AllZero(z, d, c) == NoneHere(z, d, c) /\ (Len(z) = d \/ Number(z) # 0)

\* R has the roots that ofSubtrees computes.
SubRoots(R, subs, d, c) ==
  R = [z \in Places(d) |->
        IF AllZero(z, d, c) THEN ZeroSlot(d - Len(z))
        ELSE IF Len(z) = d THEN RootOf(subs[Number(z) + 1])
        ELSE Combine(R[Left(z)], R[Right(z)])]

\* There are such roots.
LEMMA SubRootsExist ==
  ASSUME NEW d \in Nat, NEW c, NEW subs
  PROVE  \E R : SubRoots(R, subs, d, c)
<1> DEFINE D == Places(d)
           I == {z \in D : ~AllZero(z, d, c) /\ Len(z) # d}
           e == [z \in D |-> IF AllZero(z, d, c) THEN ZeroSlot(d - Len(z)) ELSE RootOf(subs[Number(z) + 1])]
<1>1. D \in SUBSET Seq(Bit) /\ \A z \in D : Len(z) <= d
  BY PlacesAre
<1>2. \A z \in D : z \in I => Left(z) \in D /\ Right(z) \in D
  <2> SUFFICES ASSUME NEW z \in D, Len(z) # d PROVE Left(z) \in D /\ Right(z) \in D
    OBVIOUS
  <2>1. z \in Seq(Bit) /\ Len(z) <= d /\ Len(z) \in Nat
    BY <1>1, LenProperties
  <2>2. \A x \in Bit : z \o <<x>> \in Seq(Bit) /\ Len(z \o <<x>>) = Len(z) + 1
    BY <2>1, FrontIs
  <2>3. Len(z) + 1 <= d
    BY <2>1
  <2> QED BY <2>2, <2>3, Bits01, PlacesAre DEF Left, Right
<1> HIDE DEF D
<1>3. \E f : Combines(f, D, I, e)
  <2> HIDE DEF I, e
  <2> QED BY <1>1, <1>2, TreeRecursion
<1>4. PICK f : Combines(f, D, I, e)
  BY <1>3
<1>5. f = [z \in D |->
        IF AllZero(z, d, c) THEN ZeroSlot(d - Len(z))
        ELSE IF Len(z) = d THEN RootOf(subs[Number(z) + 1])
        ELSE Combine(f[Left(z)], f[Right(z)])]
  <2>1. f = [z \in D |-> IF z \in I THEN Combine(f[Left(z)], f[Right(z)]) ELSE e[z]]
    BY <1>4 DEF Combines
  <2>2. \A z \in D : (IF z \in I THEN Combine(f[Left(z)], f[Right(z)]) ELSE e[z]) =
        IF AllZero(z, d, c) THEN ZeroSlot(d - Len(z))
        ELSE IF Len(z) = d THEN RootOf(subs[Number(z) + 1])
        ELSE Combine(f[Left(z)], f[Right(z)])
    OBVIOUS
  <2> QED BY <2>1, <2>2
<1> QED BY <1>5 DEF SubRoots, D

\* All is zero below a zero tree.
LEMMA AllZeroChild ==
  ASSUME NEW d \in Nat, NEW c \in Nat, NEW z \in Seq(Bit), NEW x \in Bit, Len(z) < d, AllZero(z, d, c)
  PROVE  AllZero(z \o <<x>>, d, c)
<1> DEFINE w == z \o <<x>>
<1>1. w \in Seq(Bit) /\ Len(w) = Len(z) + 1 /\ Len(z) \in Nat
  BY FrontIs
<1>2. Number(w) = 2 * Number(z) + x /\ Number(z) \in Nat /\ x \in Nat
  BY Numbers, Bits01
<1> DEFINE h == d - Len(z) - 1
<1>3. h \in Nat /\ d - Len(z) = h + 1 /\ d - Len(w) = h
  BY <1>1
<1>4. Pow2[d - Len(z)] = 2 * Pow2[h] /\ Pow2[h] \in Nat /\ Pow2[d - Len(w)] = Pow2[h]
  <2> HIDE DEF h, w
  <2> QED BY <1>3, Pow2Is
<1>5. Number(z) # 0 /\ c <= Number(z) * Pow2[d - Len(z)]
  BY <1>1 DEF AllZero, NoneHere
<1> SUFFICES AllZero(w, d, c)
  OBVIOUS
<1> HIDE DEF w, h
<1>6. Number(w) # 0
  BY <1>2, <1>5
<1> DEFINE N == Number(z)
           Q == Pow2[h]
<1>7. N \in Nat /\ Q \in Nat /\ c <= N * (2 * Q)
  BY <1>2, <1>4, <1>5
<1> HIDE DEF N, Q
<1>8. c <= (2 * N + x) * Q
  <2>1. (2 * N + x) * Q = N * (2 * Q) + x * Q
    BY <1>2, <1>7
  <2>2. x * Q \in Nat /\ N * (2 * Q) \in Nat
    BY <1>2, <1>7
  <2> QED BY <1>7, <2>1, <2>2
<1>9. c <= Number(w) * Pow2[d - Len(w)]
  BY <1>2, <1>4, <1>8 DEF N, Q
<1> QED BY <1>6, <1>9 DEF AllZero, NoneHere

\* The roots that ofSubtrees computes are right, the zero hash put in for a
\* zero tree included: it combines those of its children.
LEMMA SubRootsAre ==
  ASSUME NEW d \in Nat, NEW c \in Nat, c <= Pow2[d], NEW subs, \A k \in 1..c : IsFull(subs[k]),
         NEW R, SubRoots(R, subs, d, c)
  PROVE  UpperRoots(R, subs, d, c)
<1>0. \A z \in Seq(Bit) : Len(z) <= d =>
        R[z] = IF AllZero(z, d, c) THEN ZeroSlot(d - Len(z))
               ELSE IF Len(z) = d THEN RootOf(subs[Number(z) + 1])
               ELSE Combine(R[Left(z)], R[Right(z)])
  BY PlacesAre DEF SubRoots
<1>1. ASSUME NEW z \in Seq(Bit), Len(z) < d PROVE R[z] = Combine(R[Left(z)], R[Right(z)])
  <2>1. Len(z) \in Nat /\ Len(z) <= d /\ Len(z) # d
    BY <1>1, LenProperties
  <2>2. CASE ~AllZero(z, d, c)
    BY <1>0, <2>1, <2>2
  <2>3. CASE AllZero(z, d, c)
    <3>1. R[z] = ZeroHash[d - Len(z)]
      BY <1>0, <2>1, <2>3 DEF ZeroSlot
    <3>2. ASSUME NEW x \in Bit PROVE R[z \o <<x>>] = ZeroHash[d - Len(z) - 1]
      <4> DEFINE w == z \o <<x>>
      <4>1. w \in Seq(Bit) /\ Len(w) = Len(z) + 1
        BY FrontIs
      <4>2. AllZero(w, d, c)
        BY <1>1, <2>3, AllZeroChild
      <4> HIDE DEF w
      <4>3. Len(w) <= d /\ d - Len(w) = d - Len(z) - 1
        BY <1>1, <2>1, <4>1
      <4>4. R[w] = ZeroHash[d - Len(w)]
        BY <1>0, <4>1, <4>2, <4>3 DEF ZeroSlot
      <4> QED BY <4>3, <4>4 DEF w
    <3>3. R[Left(z)] = ZeroHash[d - Len(z) - 1] /\ R[Right(z)] = ZeroHash[d - Len(z) - 1]
      BY <3>2, Bits01 DEF Left, Right
    <3>4. d - Len(z) - 1 \in Nat /\ d - Len(z) = (d - Len(z) - 1) + 1
      BY <1>1, <2>1
    <3>5. ZeroHash[d - Len(z)] = Combine(ZeroHash[d - Len(z) - 1], ZeroHash[d - Len(z) - 1])
      BY <3>4, ZeroHashIs
    <3> QED BY <3>1, <3>3, <3>5
  <2> QED BY <2>2, <2>3
<1>2. ASSUME NEW z \in Seq(Bit), Len(z) = d
      PROVE  /\ AllZero(z, d, c) <=> ~(Number(z) < c)
             /\ Number(z) \in Nat
             /\ R[z] = IF AllZero(z, d, c) THEN ZeroHash[0] ELSE RootOf(subs[Number(z) + 1])
  <2>1. Number(z) \in Nat
    BY Numbers
  <2>2. d - Len(z) = 0 /\ Len(z) <= d
    BY <1>2
  <2>3. Number(z) * Pow2[d - Len(z)] = Number(z)
    <3>1. Pow2[d - Len(z)] = 1
      BY <2>2, Pow2Is
    <3> DEFINE N == Number(z)
    <3>2. N \in Nat
      BY <2>1
    <3> HIDE DEF N
    <3>3. N * 1 = N
      BY <3>2
    <3> QED BY <3>1, <3>3 DEF N
  <2>4. AllZero(z, d, c) <=> ~(Number(z) < c)
    <3>1. AllZero(z, d, c) <=> c <= Number(z) * Pow2[d - Len(z)]
      BY <1>2 DEF AllZero, NoneHere
    <3> DEFINE N == Number(z)
    <3>2. N \in Nat /\ Number(z) * Pow2[d - Len(z)] = N
      BY <2>1, <2>3
    <3>3. Number(z) = N
      OBVIOUS
    <3> HIDE DEF N
    <3> QED BY <3>1, <3>2, <3>3
  <2>5. R[z] = IF AllZero(z, d, c) THEN ZeroHash[0] ELSE RootOf(subs[Number(z) + 1])
    BY <1>0, <1>2, <2>2 DEF ZeroSlot
  <2> QED BY <2>1, <2>4, <2>5
<1>3. ASSUME NEW z \in Seq(Bit), NEW k \in 1..c, Slot(z, d, k) PROVE R[z] = subs[k][<<>>].root
  <2>1. Len(z) = d /\ Number(z) = k - 1
    BY <1>3 DEF Slot
  <2>2. Number(z) + 1 = k /\ Number(z) < c
    BY <2>1
  <2>3. R[z] = RootOf(subs[k])
    BY <1>2, <2>1, <2>2
  <2> QED BY <2>3, FullRoots
<1>4. ASSUME NEW z \in Seq(Bit), Len(z) = d, Inner(z, d, c) PROVE R[z] = ZeroHash[0]
  <2>1. ASSUME Number(z) < c PROVE FALSE
    <3>1. Number(z) \in Nat /\ Number(z) + 1 \in 1..c /\ Number(z) = (Number(z) + 1) - 1
      BY <1>2, <1>4, <2>1
    <3>2. Slot(z, d, Number(z) + 1)
      BY <1>4, <3>1 DEF Slot
    <3>3. IsPrefix(z, z)
      BY PrefixOrder
    <3> QED BY <1>4, <3>1, <3>2, <3>3 DEF Inner
  <2> QED BY <1>2, <1>4, <2>1
<1> QED BY <1>1, <1>3, <1>4 DEF UpperRoots

\* One of the subtrees of a node.
Joins(O, subs, d, c) ==
  /\ IsFull(O)
  /\ Lower(O, subs, d, c)
  /\ \A z \in Seq(Bit) : Inner(z, d, c) =>
       /\ z \in DOMAIN O <=> Len(z) <= d
       /\ Len(z) <= d => /\ O[z].pair <=> Len(z) < d
                         /\ ~(Len(z) < d) => O[z] = Leaf(ZeroHash[0])

\* The trees of a sequence of c subtrees.
SubRoot(subs, c, d) ==
  LET Root[z \in Places(d)] ==
        IF AllZero(z, d, c) THEN ZeroSlot(d - Len(z))
        ELSE IF Len(z) = d THEN RootOf(subs[Number(z) + 1])
        ELSE Combine(Root[Left(z)], Root[Right(z)])
  IN  Root

\* The places of the subtrees.
Bottom(c, d) == {z \in Places(d) : Len(z) = d /\ ~NoneHere(z, d, c)}

\* The nodes above the subtrees.
UpperPart(R, c, d) ==
  [z \in Places(d) \ Bottom(c, d) |-> IF Len(z) < d THEN Pair(R[z]) ELSE Leaf(R[z])]

\* The nodes of the subtrees.
LowerPart(subs, c, d) ==
  [z \in UNION {{b \o y : y \in DOMAIN subs[Number(b) + 1]} : b \in Bottom(c, d)} |->
     subs[Number(SubSeq(z, 1, d)) + 1][SubSeq(z, d + 1, Len(z))]]

\* The tree of subtrees that fit.
OfFit(fit, c, d) == Overlaid(UpperPart(SubRoot(fit, c, d), c, d), LowerPart(fit, c, d))

\* ofSubtrees is its upper part over its lower part when no subtree is dropped.
LEMMA OfSubtreesSplit ==
  ASSUME NEW d \in Nat, NEW c \in Nat, c <= Pow2[d], NEW subs, subs = [k \in 1..c |-> subs[k]]
  PROVE  OfSubtrees(subs, d) = Overlaid(UpperPart(SubRoot(subs, c, d), c, d), LowerPart(subs, c, d))
<1>1. OfSubtrees(subs, d) =
        OfFit(SubSeq(subs, 1, IF Len(subs) <= Pow2[d] THEN Len(subs) ELSE Pow2[d]),
              Len(SubSeq(subs, 1, IF Len(subs) <= Pow2[d] THEN Len(subs) ELSE Pow2[d])), d)
  BY DEF OfSubtrees, OfFit, UpperPart, LowerPart, SubRoot, Bottom, AllZero, NoneHere
<1>2. SubSeq(subs, 1, c) = subs /\ Len(subs) = c
  BY SubSeqAll
<1>3. OfSubtrees(subs, d) = OfFit(subs, c, d)
  BY <1>1, <1>2
<1> QED BY <1>3 DEF OfFit

\* An overlay as a function.
LEMMA OverlayIs ==
  ASSUME NEW f, NEW g
  PROVE  Overlaid(f, g) = [x \in DOMAIN f \union DOMAIN g |-> IF x \in DOMAIN f THEN f[x] ELSE g[x]]
<1> DEFINE h == [x \in DOMAIN f \union DOMAIN g |-> IF x \in DOMAIN f THEN f[x] ELSE g[x]]
<1>1. Evaluated(h) = h
  BY DEF Evaluated
<1> QED BY <1>1 DEF Overlaid

\* Where the subtrees go: subtree k at number k - 1.
LEMMA BottomIs ==
  ASSUME NEW d \in Nat, NEW c \in Nat, c <= Pow2[d], NEW z \in Seq(Bit)
  PROVE  /\ z \in Bottom(c, d) => Number(z) + 1 \in 1..c /\ Slot(z, d, Number(z) + 1)
         /\ \A k \in 1..c : Slot(z, d, k) => z \in Bottom(c, d) /\ k = Number(z) + 1
<1>1. Number(z) \in Nat
  BY Numbers
<1>2. ASSUME Len(z) = d PROVE ~NoneHere(z, d, c) <=> Number(z) < c
  <2> DEFINE N == Number(z)
  <2>1. d - Len(z) = 0 /\ N \in Nat
    BY <1>1, <1>2
  <2> HIDE DEF N
  <2>2. Pow2[d - Len(z)] = 1 /\ N * 1 = N
    <3>1. Pow2[0] = 1
      BY Pow2Is
    <3> QED BY <2>1, <3>1
  <2>3. NoneHere(z, d, c) <=> c <= N * 1
    BY <2>2 DEF NoneHere, N
  <2>4. ~NoneHere(z, d, c) <=> N < c
    BY <2>1, <2>2, <2>3
  <2> QED BY <2>4 DEF N
<1>3. z \in Bottom(c, d) <=> Len(z) = d /\ Number(z) < c
  <2>1. Len(z) = d => z \in Places(d)
    BY PlacesAre
  <2> QED BY <1>2, <2>1 DEF Bottom
<1>4. Number(z) < c => Number(z) + 1 \in 1..c /\ Number(z) = (Number(z) + 1) - 1
  BY <1>1
<1>5. ASSUME NEW k \in 1..c, Number(z) = k - 1 PROVE k = Number(z) + 1 /\ Number(z) < c
  BY <1>5
<1> QED BY <1>3, <1>4, <1>5 DEF Slot

\* The recursion of ofSubtrees is the one specified.
LEMMA SubRootIs ==
  ASSUME NEW d \in Nat, NEW c \in Nat, NEW subs
  PROVE  SubRoots(SubRoot(subs, c, d), subs, d, c)
<1> DEFINE R == SubRoot(subs, c, d)
<1>1. PICK f : SubRoots(f, subs, d, c)
  BY SubRootsExist
<1>2. f = [z \in Places(d) |->
           IF AllZero(z, d, c) THEN ZeroSlot(d - Len(z))
           ELSE IF Len(z) = d THEN RootOf(subs[Number(z) + 1])
           ELSE Combine(f[Left(z)], f[Right(z)])]
  BY <1>1 DEF SubRoots
<1>3. R = [z \in Places(d) |->
           IF AllZero(z, d, c) THEN ZeroSlot(d - Len(z))
           ELSE IF Len(z) = d THEN RootOf(subs[Number(z) + 1])
           ELSE Combine(R[Left(z)], R[Right(z)])]
  BY <1>2 DEF SubRoot
<1> HIDE DEF R
<1> QED BY <1>3 DEF SubRoots, R

\* The root at the top of a tree joined.
LEMMA RootAtTop ==
  ASSUME NEW d \in Nat, NEW c \in Nat, NEW subs, \A k \in 1..c : IsFull(subs[k]), NEW O, NEW R,
         UpperRoots(R, subs, d, c), Upper(O, R, d, c), Lower(O, subs, d, c)
  PROVE  O[<<>>].root = R[<<>>]
<1>1. <<>> \in Seq(Bit) /\ Len(<<>>) = 0
  BY EmptySeq
<1>2. Inner(<<>>, d, c) \/ Len(<<>>) = d
  <2> SUFFICES ASSUME d # 0 PROVE Inner(<<>>, d, c)
    BY <1>1
  <2>1. ASSUME NEW b \in Seq(Bit), IsPrefix(b, <<>>), NEW k \in 1..c PROVE ~Slot(b, d, k)
    <3>1. b = <<>>
      BY <2>1, PrefixOrder
    <3> QED BY <1>1, <3>1 DEF Slot
  <2> QED BY <2>1 DEF Inner
<1>3. Len(<<>>) <= d
  BY <1>1
<1> DEFINE z == <<>>
<1>4. z \in Seq(Bit) /\ Len(z) <= d /\ (Inner(z, d, c) \/ Len(z) = d)
  BY <1>1, <1>2, <1>3
<1> HIDE DEF z
<1>5. O[z].root = R[z]
  BY <1>4, RootsWithin
<1> QED BY <1>5 DEF z

\* The two parts of ofSubtrees join into a tree with every slot right.
LEMMA PartsJoin ==
  ASSUME NEW d \in Nat, NEW c \in Nat, c <= Pow2[d], NEW subs, \A k \in 1..c : IsFull(subs[k]),
         NEW R, UpperRoots(R, subs, d, c), NEW f, f = UpperPart(R, c, d), NEW g, g = LowerPart(subs, c, d),
         NEW O, O = Overlaid(f, g)
  PROVE  Joins(O, subs, d, c) /\ O[<<>>].root = R[<<>>]
<1>4. DOMAIN f = {z \in Seq(Bit) : Len(z) <= d /\ z \notin Bottom(c, d)}
  BY PlacesAre DEF UpperPart
<1>5. \A z \in DOMAIN f : f[z] = IF Len(z) < d THEN Pair(R[z]) ELSE Leaf(R[z])
  BY DEF UpperPart
<1>6. \A z : z \in DOMAIN g <=> \E b \in Bottom(c, d) : \E y \in DOMAIN subs[Number(b) + 1] : z = b \o y
  <2>1. DOMAIN g = UNION {{b \o y : y \in DOMAIN subs[Number(b) + 1]} : b \in Bottom(c, d)}
    BY DEF LowerPart
  <2>2. ASSUME NEW z, z \in DOMAIN g
        PROVE  \E b \in Bottom(c, d) : \E y \in DOMAIN subs[Number(b) + 1] : z = b \o y
    <3>1. PICK b \in Bottom(c, d) : z \in {b \o y : y \in DOMAIN subs[Number(b) + 1]}
      BY <2>1, <2>2
    <3>2. PICK y \in DOMAIN subs[Number(b) + 1] : z = b \o y
      BY <3>1
    <3> QED BY <3>1, <3>2
  <2>3. ASSUME NEW b \in Bottom(c, d), NEW y \in DOMAIN subs[Number(b) + 1] PROVE b \o y \in DOMAIN g
    <3>1. b \o y \in {b \o x : x \in DOMAIN subs[Number(b) + 1]}
      OBVIOUS
    <3> QED BY <2>1, <3>1
  <2> QED BY <2>2, <2>3
<1>7. \A z \in DOMAIN g : g[z] = subs[Number(SubSeq(z, 1, d)) + 1][SubSeq(z, d + 1, Len(z))]
  BY DEF LowerPart
<1>8. /\ DOMAIN O = DOMAIN f \union DOMAIN g
      /\ \A z \in DOMAIN f : O[z] = f[z]
      /\ \A z \in DOMAIN g \ DOMAIN f : O[z] = g[z]
      /\ O = [z \in DOMAIN O |-> O[z]]
  <2>1. O = [x \in DOMAIN f \union DOMAIN g |-> IF x \in DOMAIN f THEN f[x] ELSE g[x]]
    <3>1. Overlaid(f, g) = [x \in DOMAIN f \union DOMAIN g |-> IF x \in DOMAIN f THEN f[x] ELSE g[x]]
      BY OverlayIs
    <3> QED BY <3>1
  <2> QED BY <2>1
<1>9. Bottom(c, d) \in SUBSET Seq(Bit)
  BY PlacesAre DEF Bottom
<1>10. \A k \in 1..c : DOMAIN subs[k] \in SUBSET Seq(Bit)
  BY DEF IsFull, IsTree
<1>11. ASSUME NEW b \in Bottom(c, d), NEW y \in Seq(Bit)
       PROVE  /\ b \o y \in DOMAIN g <=> y \in DOMAIN subs[Number(b) + 1]
              /\ b \o y \notin DOMAIN f
              /\ b \o y \in DOMAIN g => g[b \o y] = subs[Number(b) + 1][y]
  <2>1. b \in Seq(Bit) /\ Len(b) = d
    BY <1>9 DEF Bottom
  <2>2. SubSeq(b \o y, 1, d) = b /\ SubSeq(b \o y, d + 1, Len(b \o y)) = y
    BY <2>1, Rest
  <2>3. ASSUME b \o y \in DOMAIN g PROVE y \in DOMAIN subs[Number(b) + 1]
    <3>1. PICK e \in Bottom(c, d) : \E x \in DOMAIN subs[Number(e) + 1] : b \o y = e \o x
      BY <1>6, <2>3
    <3>2. PICK x \in DOMAIN subs[Number(e) + 1] : b \o y = e \o x
      BY <3>1
    <3>3. e \in Seq(Bit) /\ Len(e) = d /\ Number(e) + 1 \in 1..c
      BY <1>9, <3>1, BottomIs DEF Bottom
    <3>4. x \in Seq(Bit)
      BY <1>10, <3>2, <3>3
    <3>5. SubSeq(e \o x, 1, d) = e
      BY <3>3, <3>4, Rest
    <3>6. b = e
      BY <2>2, <3>2, <3>5
    <3>7. y = x
      BY <2>1, <3>2, <3>4, <3>6, Cancel
    <3> QED BY <3>2, <3>6, <3>7
  <2>4. ASSUME b \o y \in DOMAIN f PROVE FALSE
    <3>1. b \o y \in Seq(Bit) /\ Len(b \o y) <= d /\ b \o y \notin Bottom(c, d)
      BY <1>4, <2>4
    <3>2. Len(b \o y) = Len(b) + Len(y) /\ Len(y) \in Nat
      BY <2>1, Concat, LenProperties
    <3>3. Len(b \o y) = Len(b)
      BY <2>1, <3>1, <3>2
    <3>4. b = b \o y
      BY <2>1, <3>1, <3>3, PrefixOf, PrefixOrder
    <3> QED BY <3>1, <3>4
  <2>5. y \in DOMAIN subs[Number(b) + 1] => b \o y \in DOMAIN g
    BY <1>6
  <2>6. b \o y \in DOMAIN g => g[b \o y] = subs[Number(b) + 1][y]
    BY <1>7, <2>2
  <2> QED BY <2>3, <2>4, <2>5, <2>6
<1>12. Lower(O, subs, d, c)
  <2> SUFFICES ASSUME NEW b \in Seq(Bit), NEW k \in 1..c, Slot(b, d, k), NEW y \in Seq(Bit)
               PROVE  /\ b \o y \in DOMAIN O <=> y \in DOMAIN subs[k]
                      /\ y \in DOMAIN subs[k] => O[b \o y] = subs[k][y]
    BY DEF Lower
  <2>1. b \in Bottom(c, d) /\ k = Number(b) + 1
    BY BottomIs
  <2> DEFINE w == b \o y
  <2>2. /\ w \in DOMAIN g <=> y \in DOMAIN subs[k]
        /\ w \notin DOMAIN f
        /\ w \in DOMAIN g => g[w] = subs[k][y]
    BY <1>11, <2>1
  <2> HIDE DEF w
  <2>3. /\ w \in DOMAIN O <=> y \in DOMAIN subs[k]
        /\ y \in DOMAIN subs[k] => O[w] = subs[k][y]
    BY <1>8, <2>2
  <2> QED BY <2>3 DEF w
<1>13. ASSUME NEW z \in Seq(Bit), Inner(z, d, c)
       PROVE  /\ z \in DOMAIN O <=> Len(z) <= d
              /\ Len(z) <= d => O[z] = IF Len(z) < d THEN Pair(R[z]) ELSE Leaf(R[z])
  <2>1. z \notin Bottom(c, d)
    <3>1. IsPrefix(z, z)
      BY PrefixOrder
    <3> QED BY <1>13, <3>1, BottomIs DEF Inner
  <2>2. z \notin DOMAIN g
    <3> SUFFICES ASSUME z \in DOMAIN g PROVE FALSE
      OBVIOUS
    <3>1. PICK b \in Bottom(c, d) : \E y \in DOMAIN subs[Number(b) + 1] : z = b \o y
      BY <1>6
    <3>2. PICK y \in DOMAIN subs[Number(b) + 1] : z = b \o y
      BY <3>1
    <3>3. b \in Seq(Bit) /\ Number(b) + 1 \in 1..c /\ Slot(b, d, Number(b) + 1)
      BY <1>9, <3>1, BottomIs
    <3>4. y \in Seq(Bit)
      BY <1>10, <3>2, <3>3
    <3>5. IsPrefix(b, z)
      BY <3>2, <3>3, <3>4, PrefixOf
    <3> QED BY <1>13, <3>3, <3>5 DEF Inner
  <2>3. z \in DOMAIN f <=> Len(z) <= d
    BY <1>4, <2>1
  <2> QED BY <1>5, <1>8, <2>2, <2>3
<1>14. Upper(O, R, d, c)
  BY <1>13 DEF Upper
<1>15. DOMAIN O \in SUBSET Seq(Bit) /\ O = [z \in DOMAIN O |-> O[z]]
  <2>1. DOMAIN g \in SUBSET Seq(Bit)
    <3> SUFFICES ASSUME NEW z \in DOMAIN g PROVE z \in Seq(Bit)
      OBVIOUS
    <3>1. PICK b \in Bottom(c, d) : \E y \in DOMAIN subs[Number(b) + 1] : z = b \o y
      BY <1>6
    <3>2. PICK y \in DOMAIN subs[Number(b) + 1] : z = b \o y
      BY <3>1
    <3>3. b \in Seq(Bit) /\ Number(b) + 1 \in 1..c
      BY <1>9, <3>1, BottomIs
    <3>4. y \in Seq(Bit)
      BY <1>10, <3>2, <3>3
    <3> QED BY <3>2, <3>3, <3>4, Joined
  <2>2. DOMAIN f \in SUBSET Seq(Bit)
    BY <1>4
  <2>3. DOMAIN O \in SUBSET Seq(Bit)
    BY <1>8, <2>1, <2>2
  <2>4. O = [z \in DOMAIN O |-> O[z]]
    BY <1>8, Zenon
  <2> QED BY <2>3, <2>4
<1>16. IsFull(O)
  BY <1>12, <1>14, <1>15, JoinedTree
<1>17. ASSUME NEW z \in Seq(Bit), Inner(z, d, c), Len(z) <= d
       PROVE  /\ O[z].pair <=> Len(z) < d
              /\ ~(Len(z) < d) => O[z] = Leaf(ZeroHash[0])
  <2>1. O[z] = IF Len(z) < d THEN Pair(R[z]) ELSE Leaf(R[z])
    BY <1>13, <1>17
  <2>2. CASE Len(z) < d
    <3>1. O[z] = Pair(R[z])
      BY <2>1, <2>2
    <3> QED BY <2>2, <3>1 DEF Pair
  <2>3. CASE ~(Len(z) < d)
    <3>1. Len(z) = d
      BY <1>17, <2>3, LenProperties
    <3>2. O[z] = Leaf(R[z])
      BY <2>1, <2>3
    <3>3. R[z] = ZeroHash[0]
      BY <1>17, <3>1 DEF UpperRoots
    <3>4. \A x : ~Leaf(x).pair
      BY DEF Leaf
    <3> QED BY <2>3, <3>2, <3>3, <3>4
  <2> QED BY <2>2, <2>3
<1>18. O[<<>>].root = R[<<>>]
  BY <1>12, <1>14, RootAtTop
<1> QED BY <1>12, <1>13, <1>16, <1>17, <1>18 DEF Joins

\* ofSubtrees makes a tree with every slot right, which has each subtree in its
\* place, the rest zero.
LEMMA OfSubtreesIs ==
  ASSUME NEW d \in Nat, NEW c \in Nat, c <= Pow2[d], NEW subs, subs = [k \in 1..c |-> subs[k]],
         \A k \in 1..c : IsFull(subs[k])
  PROVE  /\ Joins(OfSubtrees(subs, d), subs, d, c)
         /\ UpperRoots(SubRoot(subs, c, d), subs, d, c)
         /\ OfSubtrees(subs, d)[<<>>].root = SubRoot(subs, c, d)[<<>>]
<1>1. UpperRoots(SubRoot(subs, c, d), subs, d, c)
  BY SubRootIs, SubRootsAre
<1>2. OfSubtrees(subs, d) = Overlaid(UpperPart(SubRoot(subs, c, d), c, d), LowerPart(subs, c, d))
  BY OfSubtreesSplit
<1> QED BY <1>1, <1>2, PartsJoin

-----------------------------------------------------------------------------
(* Building trees: lengths and leaves.                                     *)

\* A sequence that is not empty is its first element and the rest.
LEMMA SplitFirst ==
  ASSUME NEW A, NEW z \in Seq(A), z # <<>>
  PROVE  \E a \in A : \E y \in Seq(A) : z = <<a>> \o y
<1>1. Len(z) \in Nat /\ Len(z) >= 1 /\ z[1] \in A
  BY EmptySeq, LenProperties, ElementOfSeq
<1>2. SubSeq(z, 1, Len(z)) = z
  BY SubSeqFull
<1>3. SubSeq(z, 1, Len(z)) = <<z[1]>> \o SubSeq(z, 1 + 1, Len(z))
  <2>1. 1 \in 1..Len(z) /\ Len(z) \in 1..Len(z)
    BY <1>1
  <2> QED BY <2>1, SubSeqRecursiveFirst
<1>4. SubSeq(z, 1 + 1, Len(z)) \in Seq(A)
  <2>1. \A i \in (1 + 1)..Len(z) : z[i] \in A
    BY ElementOfSeq
  <2> QED BY <1>1, <2>1, SubSeqProperties
<1> DEFINE y == SubSeq(z, 1 + 1, Len(z))
<1>5. z = <<z[1]>> \o y /\ y \in Seq(A)
  BY <1>2, <1>3, <1>4
<1> HIDE DEF y
<1> QED BY <1>1, <1>5

\* A function placed under p.
LEMMA PlacedIs ==
  ASSUME NEW A, NEW p \in Seq(A), NEW g, DOMAIN g \in SUBSET Seq(A)
  PROVE  /\ \A z \in DOMAIN Placed(p, g) : z \in Seq(A) /\ IsPrefix(p, z)
         /\ \A q \in Seq(A) : /\ p \o q \in DOMAIN Placed(p, g) <=> q \in DOMAIN g
                              /\ q \in DOMAIN g => Placed(p, g)[p \o q] = g[q]
<1> DEFINE P == {p \o q : q \in DOMAIN g}
           h == [r \in P |-> g[SubSeq(r, Len(p) + 1, Len(r))]]
<1>1. Placed(p, g) = h
  BY DEF Placed
<1>2. \A z \in P : \E q \in DOMAIN g : z = p \o q
  OBVIOUS
<1>3. \A z \in P : z \in Seq(A)
  BY <1>2, Joined
<1>4. ASSUME NEW q \in Seq(A)
      PROVE  /\ p \o q \in P <=> q \in DOMAIN g
             /\ q \in DOMAIN g => h[p \o q] = g[q]
  <2>1. SubSeq(p \o q, Len(p) + 1, Len(p \o q)) = q
    BY Rest
  <2>2. ASSUME p \o q \in P PROVE q \in DOMAIN g
    <3>1. PICK r \in DOMAIN g : p \o q = p \o r
      BY <1>2, <2>2
    <3>2. r \in Seq(A)
      BY <3>1
    <3>3. q = r
      BY <3>1, <3>2, Cancel
    <3> QED BY <3>1, <3>3
  <2>3. ASSUME q \in DOMAIN g PROVE p \o q \in P /\ h[p \o q] = g[q]
    <3>1. p \o q \in P
      BY <2>3
    <3>2. h[p \o q] = g[SubSeq(p \o q, Len(p) + 1, Len(p \o q))]
      BY <3>1
    <3> QED BY <2>1, <3>1, <3>2
  <2> QED BY <2>2, <2>3
<1>5. \A z \in P : IsPrefix(p, z)
  BY <1>2, PrefixOf
<1> QED BY <1>1, <1>3, <1>4, <1>5

\* The tree n with a length beside it.
Mixed(M, n, count) ==
  /\ DOMAIN M \in SUBSET Seq(Bit) /\ M = [z \in DOMAIN M |-> M[z]]
  /\ \A y \in Seq(Bit) : /\ <<0>> \o y \in DOMAIN M <=> y \in DOMAIN n
                         /\ y \in DOMAIN n => M[<<0>> \o y] = n[y]
  /\ \A z \in Seq(Bit) : ~IsPrefix(<<0>>, z) => (z \in DOMAIN M <=> z \in {<<>>, <<1>>})
  /\ M[<<>>] = Pair(Combine(n[<<>>].root, NatToChunk(count)))
  /\ M[<<1>>] = Leaf(NatToChunk(count))

\* The two places below the root.
LEMMA FirstBit ==
  /\ <<0>> \in Seq(Bit) /\ <<1>> \in Seq(Bit) /\ <<>> \in Seq(Bit)
  /\ <<0>> # <<1>> /\ <<0>> # <<>> /\ <<1>> # <<>>
  /\ Len(<<0>>) = 1 /\ Len(<<1>>) = 1 /\ Len(<<>>) = 0
  /\ ~IsPrefix(<<0>>, <<>>) /\ ~IsPrefix(<<0>>, <<1>>)
<1>1. /\ <<0>> \in Seq(Bit) /\ <<1>> \in Seq(Bit) /\ <<>> \in Seq(Bit)
      /\ <<0>> # <<1>> /\ <<0>> # <<>> /\ <<1>> # <<>>
      /\ Len(<<0>>) = 1 /\ Len(<<1>>) = 1 /\ Len(<<>>) = 0
  BY Bits01
<1>2. ~IsPrefix(<<0>>, <<>>) /\ ~IsPrefix(<<0>>, <<1>>)
  BY <1>1, PrefixOrder
<1> QED BY <1>1, <1>2

\* mixInLength puts the tree on the left and the length on the right.
LEMMA MixInLengthIs ==
  ASSUME NEW n, IsFull(n), NEW count
  PROVE  Mixed(MixInLength(n, count), n, count)
<1> DEFINE M == MixInLength(n, count)
           f == [z \in {<<>>, <<1>>} |-> IF z = <<>> THEN Pair(Combine(RootOf(n), NatToChunk(count)))
                                         ELSE Leaf(NatToChunk(count))]
           g == Placed(<<0>>, n)
<1>1. M = [x \in DOMAIN f \union DOMAIN g |-> IF x \in DOMAIN f THEN f[x] ELSE g[x]]
  <2>1. Overlaid(f, g) = [x \in DOMAIN f \union DOMAIN g |-> IF x \in DOMAIN f THEN f[x] ELSE g[x]]
    BY OverlayIs
  <2>2. M = Overlaid(f, g)
    BY DEF MixInLength
  <2> QED BY <2>1, <2>2
<1>2. /\ DOMAIN f = {<<>>, <<1>>}
      /\ f[<<>>] = Pair(Combine(n[<<>>].root, NatToChunk(count)))
      /\ f[<<1>>] = Leaf(NatToChunk(count))
  <2>1. RootOf(n) = n[<<>>].root
    BY FullRoots
  <2>2. <<1>> # <<>>
    BY FirstBit
  <2> QED BY <2>1, <2>2
<1>3. DOMAIN n \in SUBSET Seq(Bit)
  BY DEF IsFull, IsTree
<1>4. /\ \A z \in DOMAIN g : z \in Seq(Bit) /\ IsPrefix(<<0>>, z)
      /\ \A q \in Seq(Bit) : /\ <<0>> \o q \in DOMAIN g <=> q \in DOMAIN n
                             /\ q \in DOMAIN n => g[<<0>> \o q] = n[q]
  <2> DEFINE p == <<0>>
  <2>1. p \in Seq(Bit)
    BY FirstBit
  <2> HIDE DEF p
  <2>2. \A z \in DOMAIN Placed(p, n) : z \in Seq(Bit) /\ IsPrefix(p, z)
    BY <1>3, <2>1, PlacedIs
  <2>3. \A q \in Seq(Bit) : /\ p \o q \in DOMAIN Placed(p, n) <=> q \in DOMAIN n
                            /\ q \in DOMAIN n => Placed(p, n)[p \o q] = n[q]
    BY <1>3, <2>1, PlacedIs
  <2> QED BY <2>2, <2>3, Zenon DEF p
<1> HIDE DEF M, f, g
<1>5. \A q \in Seq(Bit) : <<0>> \o q \notin DOMAIN f
  <2> TAKE q \in Seq(Bit)
  <2>1. IsPrefix(<<0>>, <<0>> \o q)
    BY FirstBit, PrefixOf
  <2> QED BY <1>2, <2>1, FirstBit
<1>6. \A z \in DOMAIN g : IsPrefix(<<0>>, z)
  BY <1>4
<1>7. DOMAIN M \in SUBSET Seq(Bit) /\ M = [z \in DOMAIN M |-> M[z]]
  BY <1>1, <1>2, <1>4, FirstBit
<1>8. ASSUME NEW y \in Seq(Bit)
      PROVE  /\ <<0>> \o y \in DOMAIN M <=> y \in DOMAIN n
             /\ y \in DOMAIN n => M[<<0>> \o y] = n[y]
  <2> DEFINE w == <<0>> \o y
  <2>1. /\ w \notin DOMAIN f
        /\ w \in DOMAIN g <=> y \in DOMAIN n
        /\ y \in DOMAIN n => g[w] = n[y]
    BY <1>4, <1>5
  <2> HIDE DEF w
  <2>2. /\ w \in DOMAIN M <=> y \in DOMAIN n
        /\ y \in DOMAIN n => M[w] = n[y]
    BY <1>1, <2>1
  <2> QED BY <2>2 DEF w
<1>9. ASSUME NEW z \in Seq(Bit), ~IsPrefix(<< 0 >>, z) PROVE z \in DOMAIN M <=> z \in {<<>>, <<1>>}
  <2>1. z \notin DOMAIN g
    BY <1>6, <1>9
  <2>2. z \in DOMAIN M <=> z \in DOMAIN f
    BY <1>1, <2>1
  <2> QED BY <1>2, <2>2
<1>10. \A z \in DOMAIN f : M[z] = f[z]
  BY <1>1
<1> QED BY <1>2, <1>7, <1>8, <1>9, <1>10, Zenon DEF Mixed, M

\* Where a place lies in a tree with a length.
LEMMA WhereMixed ==
  ASSUME NEW M, NEW n, NEW count, Mixed(M, n, count), NEW z \in DOMAIN M
  PROVE  \/ z = <<>> \/ z = <<1>>
         \/ \E y \in Seq(Bit) : z = <<0>> \o y /\ y \in DOMAIN n /\ M[z] = n[y]
<1>1. z \in Seq(Bit)
  BY DEF Mixed
<1>2. CASE ~IsPrefix(<<0>>, z)
  BY <1>1, <1>2 DEF Mixed
<1>3. CASE IsPrefix(<<0>>, z)
  <2>1. PICK y \in Seq(Bit) : z = <<0>> \o y
    BY <1>1, <1>3, FirstBit, PrefixHas
  <2>2. y \in DOMAIN n /\ M[z] = n[y]
    BY <2>1 DEF Mixed
  <2> QED BY <2>1, <2>2
<1> QED BY <1>2, <1>3

\* A tree with its length mixed in has every slot right.
LEMMA MixedFull ==
  ASSUME NEW M, NEW n, NEW count, IsFull(n), Mixed(M, n, count)
  PROVE  IsFull(M)
<1>0. DOMAIN n \in SUBSET Seq(Bit) /\ <<>> \in DOMAIN n
  BY DEF IsFull, IsTree
<1>1. <<>> \in DOMAIN M /\ <<1>> \in DOMAIN M /\ <<0>> \in DOMAIN M /\ M[<<0>>] = n[<<>>]
  <2>1. <<>> \in DOMAIN M /\ <<1>> \in DOMAIN M
    BY FirstBit DEF Mixed
  <2>2. <<0>> \o <<>> \in DOMAIN M /\ M[<<0>> \o <<>>] = n[<<>>]
    BY <1>0, FirstBit, Zenon DEF Mixed
  <2>3. <<0>> \o <<>> = <<0>>
    BY FirstBit, ConcatEmptySeq
  <2> QED BY <2>1, <2>2, <2>3, Zenon
<1>2. \E N \in Nat : \A z \in DOMAIN M : Len(z) <= N
  <2>1. PICK N \in Nat : \A y \in DOMAIN n : Len(y) <= N
    BY DEF IsFull, IsTree
  <2>2. ASSUME NEW z \in DOMAIN M PROVE Len(z) <= N + 1
    <3>1. CASE z = <<>> \/ z = <<1>>
      <4>1. Len(z) = 0 \/ Len(z) = 1
        BY <3>1, FirstBit
      <4>2. 0 <= N + 1 /\ 1 <= N + 1
        OBVIOUS
      <4>3. CASE Len(z) = 0
        BY <4>2, <4>3, Zenon
      <4>4. CASE Len(z) = 1
        BY <4>2, <4>4, Zenon
      <4> QED BY <4>1, <4>3, <4>4
    <3>2. ASSUME NEW y \in Seq(Bit), z = << 0 >> \o y, y \in DOMAIN n PROVE Len(z) <= N + 1
      <4>1. Len(z) = Len(<<0>>) + Len(y)
        BY <3>2, FirstBit, Concat
      <4>2. Len(z) = 1 + Len(y) /\ Len(y) \in Nat /\ Len(y) <= N
        BY <2>1, <3>2, <4>1, FirstBit, LenProperties
      <4> QED BY <4>2
    <3> QED BY <3>1, <3>2, WhereMixed
  <2>3. N + 1 \in Nat
    OBVIOUS
  <2> QED BY <2>2, <2>3
<1>3. ASSUME NEW z \in Seq(Bit), NEW b \in Bit
      PROVE  z \o <<b>> \in DOMAIN M <=> z \in DOMAIN M /\ M[z].pair
  <2> DEFINE w == z \o <<b>>
  <2>1. w \in Seq(Bit) /\ w # <<>> /\ Len(w) = Len(z) + 1 /\ Len(z) \in Nat
    BY FrontIs
  <2>2. IsPrefix(<<0>>, w) <=> IsPrefix(<<0>>, z) \/ <<0>> = w
    BY FirstBit, PrefixOfNext
  <2>3. CASE z = <<>>
    <3>1. w = <<b>>
      BY <2>3
    <3>2. w = <<0>> \/ w = <<1>>
      BY <3>1, Bits01
    <3>3. w \in DOMAIN M
      BY <1>1, <3>2
    <3>4. z \in DOMAIN M /\ M[z].pair
      BY <1>1, <2>3 DEF Mixed, Pair
    <3> QED BY <3>3, <3>4
  <2>4. CASE z # <<>> /\ ~IsPrefix(<<0>>, z)
    <3>1. ~(Len(z) = 0)
      BY <2>4, EmptySeq
    <3>2. <<0>> # w /\ w # <<1>>
      BY <2>1, <3>1, FirstBit
    <3>3. w \notin DOMAIN M
      BY <2>1, <2>2, <2>4, <3>2 DEF Mixed
    <3>4. z \in DOMAIN M => z = <<1>>
      BY <2>4 DEF Mixed
    <3>5. z = <<1>> => ~M[z].pair
      BY DEF Mixed, Leaf
    <3> QED BY <3>3, <3>4, <3>5
  <2>5. CASE IsPrefix(<<0>>, z)
    <3>1. PICK y \in Seq(Bit) : z = <<0>> \o y
      BY <2>5, FirstBit, PrefixHas
    <3>2. w = <<0>> \o (y \o <<b>>) /\ y \o <<b>> \in Seq(Bit)
      BY <3>1, FirstBit, Single, Assoc, FrontIs
    <3> DEFINE x == y \o <<b>>
    <3>3. x \in DOMAIN n <=> y \in DOMAIN n /\ n[y].pair
      BY DEF IsFull, IsTree
    <3>4. w = <<0>> \o x /\ x \in Seq(Bit)
      BY <3>2
    <3> HIDE DEF x, w
    <3>5. w \in DOMAIN M <=> x \in DOMAIN n
      BY <3>4 DEF Mixed
    <3>6. /\ z \in DOMAIN M <=> y \in DOMAIN n
          /\ y \in DOMAIN n => M[z] = n[y]
      BY <3>1 DEF Mixed
    <3>7. w \in DOMAIN M <=> z \in DOMAIN M /\ M[z].pair
      BY <3>3, <3>5, <3>6
    <3> QED BY <3>7 DEF w
  <2> QED BY <2>3, <2>4, <2>5
<1>4. ASSUME NEW z \in DOMAIN M
      PROVE  /\ M[z] = [pair |-> M[z].pair, root |-> M[z].root]
             /\ M[z].pair \in BOOLEAN
             /\ M[z].root # None
             /\ M[z].pair => M[z].root = Combine(M[Left(z)].root, M[Right(z)].root)
  <2>1. CASE z = <<>>
    <3>1. M[z] = [pair |-> TRUE, root |-> Combine(n[<<>>].root, NatToChunk(count))]
      BY <2>1 DEF Mixed, Pair
    <3>2. Left(z) = <<0>> /\ Right(z) = <<1>>
      BY <2>1 DEF Left, Right
    <3>3. M[<<1>>] = [pair |-> FALSE, root |-> NatToChunk(count)]
      BY DEF Mixed, Leaf
    <3>4. M[<<1>>].root = NatToChunk(count) /\ M[<<0>>].root = n[<<>>].root
      BY <1>1, <3>3
    <3>5. M[z].pair = TRUE /\ M[z].root = Combine(n[<<>>].root, NatToChunk(count))
      BY <3>1
    <3> QED BY <3>1, <3>2, <3>4, <3>5, NotNone
  <2>2. CASE z = <<1>>
    <3>1. M[z] = [pair |-> FALSE, root |-> NatToChunk(count)]
      BY <2>2 DEF Mixed, Leaf
    <3>2. M[z].pair = FALSE /\ M[z].root = NatToChunk(count)
      BY <3>1
    <3> QED BY <3>1, <3>2, NotNone
  <2>3. ASSUME NEW y \in Seq(Bit), z = << 0 >> \o y, y \in DOMAIN n, M[z] = n[y]
        PROVE  /\ M[z] = [pair |-> M[z].pair, root |-> M[z].root]
               /\ M[z].pair \in BOOLEAN
               /\ M[z].root # None
               /\ M[z].pair => M[z].root = Combine(M[Left(z)].root, M[Right(z)].root)
    <3>1. n[y] = [pair |-> n[y].pair, root |-> n[y].root]
      BY <2>3, Zenon DEF IsFull, IsTree
    <3>2. n[y].pair \in BOOLEAN
      BY <2>3, Zenon DEF IsFull, IsTree
    <3>3. n[y].root # None /\ (n[y].pair => n[y].root = Combine(n[Left(y)].root, n[Right(y)].root))
      BY <2>3, Zenon DEF IsFull
    <3>4. ASSUME n[y].pair
          PROVE  M[Left(z)] = n[Left(y)] /\ M[Right(z)] = n[Right(y)]
      <4>1. Left(y) \in DOMAIN n /\ Right(y) \in DOMAIN n
        BY <2>3, <3>4, ChildIn DEF IsFull
      <4>2. Left(y) \in Seq(Bit) /\ Right(y) \in Seq(Bit)
        BY <1>0, <4>1
      <4>3. \A x \in Bit : (<<0>> \o y) \o <<x>> = <<0>> \o (y \o <<x>>)
        BY FirstBit, Single, Assoc
      <4>4. Left(z) = <<0>> \o Left(y) /\ Right(z) = <<0>> \o Right(y)
        BY <2>3, <4>3, Bits01 DEF Left, Right
      <4> QED BY <4>1, <4>2, <4>4 DEF Mixed
    <3>5. M[z].pair => M[z].root = Combine(M[Left(z)].root, M[Right(z)].root)
      BY <2>3, <3>3, <3>4
    <3> QED BY <2>3, <3>1, <3>2, <3>3, <3>5, Zenon
  <2> QED BY <2>1, <2>2, <2>3, WhereMixed
<1>5. DOMAIN M \in SUBSET Seq(Bit) /\ M = [z \in DOMAIN M |-> M[z]]
  BY DEF Mixed
<1>6. IsTree(M)
  BY <1>1, <1>2, <1>3, <1>4, <1>5 DEF IsTree
<1>7. \A z \in DOMAIN M : M[z].root # None
  BY <1>4, Zenon
<1>8. \A z \in DOMAIN M : M[z].pair => M[z].root = Combine(M[Left(z)].root, M[Right(z)].root)
  BY <1>4, Zenon
<1> QED BY <1>6, <1>7, <1>8, Zenon DEF IsFull

\* A leaf is a tree with every slot right.
LEMMA LeafFull ==
  ASSUME NEW x
  PROVE  IsFull([z \in {<<>>} |-> Leaf(NatToChunk(x))])
<1> DEFINE n == [z \in {<<>>} |-> Leaf(NatToChunk(x))]
<1>1. DOMAIN n = {<<>>} /\ n[<<>>] = [pair |-> FALSE, root |-> NatToChunk(x)]
  BY DEF Leaf
<1>2. n = [z \in DOMAIN n |-> n[z]]
  OBVIOUS
<1> HIDE DEF n
<1>3. n[<<>>].pair = FALSE /\ n[<<>>].root # None
  BY <1>1, NotNone
<1>4. \A z \in Seq(Bit), b \in Bit : z \o <<b>> # <<>>
  BY FrontIs
<1>5. \E N \in Nat : \A z \in DOMAIN n : Len(z) <= N
  BY <1>1, FirstBit
<1>6. \A z \in DOMAIN n : n[z] = [pair |-> n[z].pair, root |-> n[z].root]
  BY <1>1
<1>7. IsTree(n)
  BY <1>1, <1>2, <1>3, <1>4, <1>5, <1>6, FirstBit DEF IsTree
<1>8. IsFull(n)
  BY <1>1, <1>3, <1>7 DEF IsFull
<1> QED BY <1>8 DEF n

-----------------------------------------------------------------------------
(* Merkleize.                                                              *)

\* The layers that merkleize computes.
Layers(f, k, cs) == f = [j \in 0..k |-> IF j = 0 THEN cs ELSE CombineLayer(j - 1, f[j - 1])]

\* There are such layers.
LEMMA LayersExist ==
  ASSUME NEW cs, NEW k \in Nat
  PROVE  \E f : Layers(f, k, cs)
<1> DEFINE Bad == {j \in Nat : ~\E f : Layers(f, j, cs)}
<1> SUFFICES ASSUME Bad # {} PROVE FALSE
  OBVIOUS
<1>0. Bad \in SUBSET Nat
  OBVIOUS
<1> HIDE DEF Bad
<1>1. PICK j \in Bad : \A i \in Bad : j <= i
  BY <1>0, LeastOf
<1>2. j \in Nat
  BY <1>0
<1>3. CASE j = 0
  <2> DEFINE g == [i \in 0..0 |-> cs]
  <2>1. Layers(g, 0, cs)
    BY DEF Layers
  <2> HIDE DEF g
  <2> QED BY <1>1, <1>3, <2>1 DEF Bad
<1>4. CASE j # 0
  <2>1. j - 1 \in Nat /\ ~(j <= j - 1)
    BY <1>2, <1>4
  <2>2. PICK f : Layers(f, j - 1, cs)
    BY <1>1, <2>1 DEF Bad
  <2> DEFINE g == [i \in 0..j |-> IF i = 0 THEN cs ELSE CombineLayer(i - 1, f[i - 1])]
  <2>3. \A i \in 0..(j - 1) : i \in 0..j /\ f[i] = IF i = 0 THEN cs ELSE CombineLayer(i - 1, f[i - 1])
    <3>1. f = [i \in 0..(j - 1) |-> IF i = 0 THEN cs ELSE CombineLayer(i - 1, f[i - 1])]
      BY <2>2 DEF Layers
    <3> TAKE i \in 0..(j - 1)
    <3>2. i \in 0..j
      BY <1>2, <2>1
    <3>3. f[i] = [h \in 0..(j - 1) |-> IF h = 0 THEN cs ELSE CombineLayer(h - 1, f[h - 1])][i]
      BY <3>1, Zenon
    <3> DEFINE s(h) == IF h = 0 THEN cs ELSE CombineLayer(h - 1, f[h - 1])
    <3> HIDE DEF s
    <3>5. [h \in 0..(j - 1) |-> s(h)][i] = s(i)
      OBVIOUS
    <3>4. f[i] = IF i = 0 THEN cs ELSE CombineLayer(i - 1, f[i - 1])
      BY <3>3, <3>5 DEF s
    <3> QED BY <3>2, <3>4
  <2>4. \A i \in 0..(j - 1) : f[i] = g[i]
    BY <2>3
  <2>5. \A i \in 0..j : i # 0 => i - 1 \in 0..(j - 1)
    BY <1>2
  <2>6. Layers(g, j, cs)
    <3>1. \A i \in 0..j : i # 0 => f[i - 1] = g[i - 1]
      BY <2>4, <2>5
    <3>2. g = [i \in 0..j |-> IF i = 0 THEN cs ELSE CombineLayer(i - 1, g[i - 1])]
      BY <3>1
    <3> HIDE DEF g
    <3> QED BY <3>2 DEF Layers
  <2> HIDE DEF g
  <2> QED BY <1>1, <2>6 DEF Bad
<1> QED BY <1>3, <1>4

\* M is the layer above L, which has l nodes.
Above(M, L, l, level) ==
  /\ M = [k \in 1..((l + 1) \div 2) |-> M[k]]
  /\ \A i \in Nat : /\ i < (l + 1) \div 2 <=> 2 * i < l
                    /\ 2 * i < l => M[i + 1] = Combine(L[2 * i + 1],
                                      IF 2 * i + 1 < l THEN L[2 * i + 2] ELSE ZeroHash[level])

\* One layer, node by node: a last node without a neighbour is joined to the
\* zero tree of its height.
LEMMA LayerIs ==
  ASSUME NEW cs, NEW c \in Nat, cs = [k \in 1..c |-> cs[k]], NEW level
  PROVE  (c + 1) \div 2 \in Nat /\ Above(CombineLayer(level, cs), cs, c, level)
<1> DEFINE h == (c + 1) \div 2
           d == CombineLayer(level, cs)
<1>1. h \in Nat /\ (c + 1) % 2 \in {0, 1} /\ c + 1 = 2 * h + ((c + 1) % 2)
  BY HalfIs DEF Bit
<1>2. Len(cs) = c
  BY SubSeqAll
<1>3. d = [k \in 1..h |-> Combine(cs[2 * k - 1], IF 2 * k <= c THEN cs[2 * k] ELSE ZeroHash[level])]
  BY <1>2 DEF CombineLayer
<1> HIDE DEF h, d
<1>4. ASSUME NEW i \in Nat
      PROVE  /\ i < h <=> 2 * i < c
             /\ 2 * i < c => d[i + 1] = Combine(cs[2 * i + 1],
                                 IF 2 * i + 1 < c THEN cs[2 * i + 2] ELSE ZeroHash[level])
  <2>1. i < h <=> 2 * i < c
    BY <1>1
  <2>2. ASSUME 2 * i < c
        PROVE  d[i + 1] = Combine(cs[2 * i + 1], IF 2 * i + 1 < c THEN cs[2 * i + 2] ELSE ZeroHash[level])
    <3>1. i + 1 \in 1..h
      BY <1>1, <2>1, <2>2
    <3>2. 2 * (i + 1) - 1 = 2 * i + 1 /\ 2 * (i + 1) = 2 * i + 2 /\ (2 * (i + 1) <= c <=> 2 * i + 1 < c)
      OBVIOUS
    <3>3. d[i + 1] = Combine(cs[2 * (i + 1) - 1], IF 2 * (i + 1) <= c THEN cs[2 * (i + 1)] ELSE ZeroHash[level])
      BY <1>3, <3>1
    <3> QED BY <3>2, <3>3
  <2> QED BY <2>1, <2>2
<1>5. d = [k \in 1..h |-> d[k]]
  BY <1>3
<1>6. Above(d, cs, c, level)
  BY <1>4, <1>5 DEF Above, h
<1> QED BY <1>1, <1>6 DEF h, d

\* Roots of the places k layers above the leaves.
AtLayer(R, d, k, l, L) ==
  /\ l \in Nat /\ L = [i \in 1..l |-> L[i]]
  /\ \A z \in Seq(Bit) : Len(z) + k = d =>
       R[z] = IF Number(z) < l THEN L[Number(z) + 1] ELSE ZeroHash[k]

\* A layer above the roots of a height is the roots of the next.
LEMMA NextLayer ==
  ASSUME NEW d \in Nat, NEW k \in Nat, k < d, NEW l, NEW L, NEW R, AtLayer(R, d, k, l, L),
         \A z \in Seq(Bit) : Len(z) < d => R[z] = Combine(R[Left(z)], R[Right(z)])
  PROVE  AtLayer(R, d, k + 1, (l + 1) \div 2, CombineLayer(k, L))
<1> DEFINE M == CombineLayer(k, L)
           h == (l + 1) \div 2
<1>1. l \in Nat /\ L = [i \in 1..l |-> L[i]]
  BY DEF AtLayer
<1>2. /\ h \in Nat /\ M = [i \in 1..h |-> M[i]]
      /\ \A i \in Nat : /\ i < h <=> 2 * i < l
                        /\ 2 * i < l => M[i + 1] = Combine(L[2 * i + 1],
                                          IF 2 * i + 1 < l THEN L[2 * i + 2] ELSE ZeroHash[k])
  <2>1. (l + 1) \div 2 \in Nat /\ Above(CombineLayer(k, L), L, l, k)
    BY <1>1, LayerIs
  <2> HIDE DEF M
  <2>2. (l + 1) \div 2 \in Nat /\ Above(M, L, l, k)
    BY <2>1 DEF M
  <2> QED BY <2>2 DEF Above
<1> HIDE DEF M, h
<1>3. ASSUME NEW z \in Seq(Bit), Len(z) + (k + 1) = d
      PROVE  R[z] = IF Number(z) < h THEN M[Number(z) + 1] ELSE ZeroHash[k + 1]
  <2> DEFINE x == Left(z)
             y == Right(z)
             i == Number(z)
  <2>1. /\ x \in Seq(Bit) /\ y \in Seq(Bit) /\ Len(x) = Len(z) + 1 /\ Len(y) = Len(z) + 1 /\ Len(z) \in Nat
    BY Bits01, FrontIs DEF Left, Right
  <2>2. i \in Nat /\ Number(x) = 2 * i /\ Number(y) = 2 * i + 1
    <3>1. i \in Nat /\ Number(z \o <<0>>) = 2 * i + 0 /\ Number(z \o <<1>>) = 2 * i + 1
      BY Numbers, Bits01
    <3> QED BY <3>1 DEF Left, Right
  <2>3. R[z] = Combine(R[x], R[y])
    BY <1>3, <2>1
  <2> HIDE DEF x, y, i
  <2>4. Len(x) + k = d /\ Len(y) + k = d
    BY <1>3, <2>1
  <2>5. R[x] = IF 2 * i < l THEN L[2 * i + 1] ELSE ZeroHash[k]
    BY <2>1, <2>2, <2>4 DEF AtLayer
  <2>6. R[y] = IF 2 * i + 1 < l THEN L[(2 * i + 1) + 1] ELSE ZeroHash[k]
    BY <2>1, <2>2, <2>4 DEF AtLayer
  <2>7. (2 * i + 1) + 1 = 2 * i + 2
    BY <2>2
  <2>8. CASE i < h
    <3>1. 2 * i < l /\ M[i + 1] = Combine(L[2 * i + 1], IF 2 * i + 1 < l THEN L[2 * i + 2] ELSE ZeroHash[k])
      BY <1>2, <2>2, <2>8
    <3>2. R[z] = M[i + 1]
      BY <2>3, <2>5, <2>6, <2>7, <3>1
    <3> QED BY <2>8, <3>2 DEF i
  <2>9. CASE ~(i < h)
    <3>1. ~(2 * i < l)
      BY <1>2, <2>2, <2>9
    <3>2. ~(2 * i + 1 < l)
      BY <1>1, <2>2, <3>1
    <3>3. R[z] = Combine(ZeroHash[k], ZeroHash[k])
      BY <2>3, <2>5, <2>6, <3>1, <3>2
    <3>4. R[z] = ZeroHash[k + 1]
      BY <3>3, ZeroHashIs
    <3> QED BY <2>9, <3>4 DEF i
  <2> QED BY <2>8, <2>9
<1>4. AtLayer(R, d, k + 1, h, M)
  BY <1>2, <1>3 DEF AtLayer
<1> QED BY <1>4 DEF h, M

\* R has the roots of a tree of depth d with the chunks cs as its first leaves.
RootsOver(R, cs, c, d) ==
  /\ cs = [k \in 1..c |-> cs[k]]
  /\ \A z \in Seq(Bit) : Len(z) < d => R[z] = Combine(R[Left(z)], R[Right(z)])
  /\ \A z \in Seq(Bit) : Len(z) = d =>
       R[z] = IF Number(z) < c THEN cs[Number(z) + 1] ELSE ZeroHash[0]

\* The last layer of merkleize is the root of the tree.
LEMMA LayersReach ==
  ASSUME NEW d \in Nat, NEW c \in Nat, NEW cs, NEW R, RootsOver(R, cs, c, d),
         NEW f, Layers(f, d, cs)
  PROVE  c > 0 => R[<<>>] = f[d][1]
<1>0. /\ cs = [k \in 1..c |-> cs[k]]
      /\ \A z \in Seq(Bit) : Len(z) < d => R[z] = Combine(R[Left(z)], R[Right(z)])
      /\ \A z \in Seq(Bit) : Len(z) = d =>
           R[z] = IF Number(z) < c THEN cs[Number(z) + 1] ELSE ZeroHash[0]
  BY DEF RootsOver
<1> DEFINE Good(k) == \E l \in Nat : (c > 0 => l > 0) /\ AtLayer(R, d, k, l, f[k])
           Bad == {k \in Nat : k <= d /\ ~Good(k)}
<1>1. \A k \in 0..d : f[k] = IF k = 0 THEN cs ELSE CombineLayer(k - 1, f[k - 1])
  BY DEF Layers
<1>2. Good(0)
  <2>1. f[0] = cs
    BY <1>1
  <2>2. ASSUME NEW z \in Seq(Bit), Len(z) + 0 = d
        PROVE  R[z] = IF Number(z) < c THEN cs[Number(z) + 1] ELSE ZeroHash[0]
    <3>1. Len(z) \in Nat
      BY LenProperties
    <3>2. Len(z) = d
      BY <2>2, <3>1
    <3> QED BY <1>0, <3>2
  <2>3. AtLayer(R, d, 0, c, cs)
    BY <1>0, <2>2 DEF AtLayer
  <2>4. AtLayer(R, d, 0, c, f[0])
    BY <2>1, <2>3
  <2> QED BY <2>4
<1>3. ASSUME NEW k \in Nat, k < d, Good(k) PROVE Good(k + 1)
  <2>1. PICK l \in Nat : (c > 0 => l > 0) /\ AtLayer(R, d, k, l, f[k])
    BY <1>3
  <2> DEFINE h == (l + 1) \div 2
  <2>2. f[k + 1] = CombineLayer(k, f[k])
    <3>1. k + 1 \in 0..d /\ k + 1 # 0 /\ (k + 1) - 1 = k
      BY <1>3
    <3> QED BY <1>1, <3>1
  <2>3. AtLayer(R, d, k + 1, h, f[k + 1])
    BY <1>0, <1>3, <2>1, <2>2, NextLayer
  <2>4. h \in Nat /\ (l > 0 => h > 0)
    <3>1. h \in Nat /\ (l + 1) % 2 \in {0, 1} /\ l + 1 = 2 * h + ((l + 1) % 2)
      BY HalfIs DEF Bit
    <3> HIDE DEF h
    <3> QED BY <3>1
  <2> HIDE DEF h
  <2> QED BY <2>1, <2>3, <2>4
<1>4. Bad = {}
  <2> SUFFICES ASSUME Bad # {} PROVE FALSE
    OBVIOUS
  <2>0. Bad \in SUBSET Nat
    OBVIOUS
  <2> HIDE DEF Bad, Good
  <2>1. PICK k \in Bad : \A i \in Bad : k <= i
    BY <2>0, LeastOf
  <2>2. k \in Nat /\ k <= d /\ ~Good(k)
    BY <2>1 DEF Bad
  <2>3. k # 0
    BY <1>2, <2>2
  <2>4. k - 1 \in Nat /\ k - 1 < d /\ (k - 1) + 1 = k /\ ~(k <= k - 1) /\ k - 1 <= d
    BY <2>2, <2>3
  <2>5. Good(k - 1)
    BY <2>1, <2>4 DEF Bad
  <2>6. Good(k)
    BY <1>3, <2>4, <2>5
  <2> QED BY <2>2, <2>6
<1>5. Good(d)
  <2> HIDE DEF Good
  <2> QED BY <1>4
<1>6. PICK l \in Nat : (c > 0 => l > 0) /\ AtLayer(R, d, d, l, f[d])
  BY <1>5
<1>7. <<>> \in Seq(Bit) /\ Len(<<>>) + d = d /\ Number(<<>>) = 0
  BY EmptySeq, Numbers
<1>8. R[<<>>] = IF 0 < l THEN f[d][0 + 1] ELSE ZeroHash[d]
  BY <1>6, <1>7 DEF AtLayer
<1> QED BY <1>6, <1>8

\* The root of the tree that ofSubtrees builds is what the specification's
\* merkleize computes from the roots of the subtrees, zero trees and unpaired
\* nodes included.
THEOREM OfSubtreesMerkleizes ==
  ASSUME NEW d \in Nat, NEW c \in Nat, c <= Pow2[d], NEW subs, subs = [k \in 1..c |-> subs[k]],
         \A k \in 1..c : IsFull(subs[k])
  PROVE  OfSubtrees(subs, d)[<<>>].root = Merkleize([k \in 1..c |-> subs[k][<<>>].root], d)
<1> DEFINE R == SubRoot(subs, c, d)
           cs == [k \in 1..c |-> subs[k][<<>>].root]
<1>1. UpperRoots(R, subs, d, c) /\ OfSubtrees(subs, d)[<<>>].root = R[<<>>]
  BY OfSubtreesIs
<1>2. cs = [k \in 1..c |-> cs[k]] /\ \A k \in 1..c : cs[k] = subs[k][<<>>].root
  OBVIOUS
<1>3. Len(cs) = c
  BY <1>2, SubSeqAll
<1> HIDE DEF R, cs
<1>4. \A z \in Seq(Bit) : Len(z) < d => R[z] = Combine(R[Left(z)], R[Right(z)])
  BY <1>1 DEF UpperRoots
<1>5. ASSUME NEW z \in Seq(Bit), Len(z) = d
      PROVE  R[z] = IF Number(z) < c THEN cs[Number(z) + 1] ELSE ZeroHash[0]
  <2>1. Number(z) \in Nat
    BY Numbers
  <2>2. CASE Number(z) < c
    <3> DEFINE k == Number(z) + 1
    <3>1. k \in 1..c /\ k - 1 = Number(z)
      BY <2>1, <2>2
    <3>2. Slot(z, d, k)
      BY <1>5, <3>1 DEF Slot
    <3> HIDE DEF k
    <3>3. R[z] = subs[k][<<>>].root
      BY <1>1, <3>1, <3>2 DEF UpperRoots
    <3>4. R[z] = cs[k]
      BY <1>2, <3>1, <3>3
    <3> QED BY <2>2, <3>4 DEF k
  <2>3. CASE ~(Number(z) < c)
    <3>1. ASSUME NEW b \in Seq(Bit), IsPrefix(b, z), NEW k \in 1..c PROVE ~Slot(b, d, k)
      <4> SUFFICES ASSUME Slot(b, d, k) PROVE FALSE
        OBVIOUS
      <4>1. Len(b) = Len(z) /\ Number(b) = k - 1
        BY <1>5 DEF Slot
      <4>2. b = z
        BY <3>1, <4>1, PrefixOrder
      <4> QED BY <2>1, <2>3, <4>1, <4>2
    <3>2. Inner(z, d, c)
      BY <3>1 DEF Inner
    <3> QED BY <1>1, <1>5, <2>3, <3>2 DEF UpperRoots
  <2> QED BY <2>2, <2>3
<1>6. CASE c = 0
  <2>1. cs = <<>>
    BY <1>2, <1>6
  <2>2. R[<<>>] = ZeroHash[d]
    <3> DEFINE P == {z \in {z \in Seq(Bit) : Len(z) <= d} : R[z] = ZeroHash[d - Len(z)]}
               D == {z \in Seq(Bit) : Len(z) <= d}
    <3>1. ASSUME NEW z \in D, \A y \in D : Len(z) < Len(y) => y \in P PROVE z \in P
      <4>1. z \in Seq(Bit) /\ Len(z) \in Nat /\ Len(z) <= d
        BY LenProperties
      <4>2. CASE Len(z) = d
        <5>1. R[z] = ZeroHash[0]
          BY <1>5, <1>6, <4>1, <4>2, Numbers
        <5>2. d - Len(z) = 0
          BY <4>2
        <5> QED BY <4>1, <5>1, <5>2
      <4>3. CASE Len(z) # d
        <5> DEFINE x == Left(z)
                   y == Right(z)
                   e == d - Len(z) - 1
        <5>1. x \in Seq(Bit) /\ y \in Seq(Bit) /\ Len(x) = Len(z) + 1 /\ Len(y) = Len(z) + 1
          BY <4>1, Bits01, FrontIs DEF Left, Right
        <5>2. e \in Nat /\ e + 1 = d - Len(z) /\ d - (Len(z) + 1) = e /\ Len(z) + 1 <= d /\ Len(z) < Len(z) + 1
              /\ Len(z) < d
          BY <4>1, <4>3
        <5> HIDE DEF x, y, e
        <5>3. R[x] = ZeroHash[e] /\ R[y] = ZeroHash[e]
          BY <3>1, <5>1, <5>2
        <5>4. R[z] = Combine(R[x], R[y])
          BY <1>4, <4>1, <5>2 DEF x, y
        <5>5. R[z] = ZeroHash[d - Len(z)]
          BY <5>2, <5>3, <5>4, ZeroHashIs
        <5> QED BY <4>1, <5>5
      <4> QED BY <4>2, <4>3
    <3>2. D \in SUBSET Seq(Bit) /\ \A z \in D : Len(z) <= d
      OBVIOUS
    <3>3. \A z \in D : z \in P
      <4> HIDE DEF D, P
      <4> QED BY <3>1, <3>2, Downward
    <3>4. <<>> \in D /\ d - Len(<<>>) = d
      BY EmptySeq
    <3> QED BY <3>3, <3>4
  <2> QED BY <1>1, <2>1, <2>2 DEF cs, Merkleize
<1>7. CASE c # 0
  <2>1. cs # <<>>
    BY <1>3, <1>7, EmptySeq
  <2>2. PICK h : Layers(h, d, cs)
    BY LayersExist
  <2> DEFINE g == CHOOSE f : Layers(f, d, cs)
  <2>3. Layers(g, d, cs)
    BY <2>2
  <2>4. g = CHOOSE Layer : Layer = [k \in 0..d |-> IF k = 0 THEN cs ELSE CombineLayer(k - 1, Layer[k - 1])]
    BY DEF Layers
  <2> HIDE DEF g
  <2>5. R[<<>>] = g[d][1]
    <3>1. RootsOver(R, cs, c, d)
      BY <1>2, <1>4, <1>5 DEF RootsOver
    <3>2. c > 0 => R[<<>>] = g[d][1]
      BY <2>3, <3>1, LayersReach
    <3>3. c > 0
      BY <1>7
    <3> QED BY <3>2, <3>3
  <2>6. Merkleize(cs, d) = g[d][1]
    BY <2>1, <2>4 DEF Merkleize
  <2>7. OfSubtrees(subs, d)[<<>>].root = Merkleize(cs, d)
    BY <1>1, <2>5, <2>6
  <2> QED BY <2>7 DEF cs
<1> QED BY <1>6, <1>7
=============================================================================
