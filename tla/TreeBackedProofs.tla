-------------------------- MODULE TreeBackedProofs --------------------------
(***************************************************************************)
(* The cached flavour of SSZ values returns the root of the value, for     *)
(* every type and every sequence of updates and reads.                     *)
(*                                                                         *)
(* The inductive invariant IInv says that every slot of the tree has its   *)
(* root and that the tree is that of the value, but for the places         *)
(* written since the last read.  That it is preserved rests on four        *)
(* facts: the bits of a path lead to the tree of the part there; a write   *)
(* changes the tree of the value nowhere but there; a path that leads      *)
(* there or above leads to a part of the value, or was out of bounds and   *)
(* changed nothing; and the walk of commitAndHash makes the updates, in    *)
(* any order.                                                              *)
(*                                                                         *)
(* All of it assumes WithinCapacity: an index beyond the padded capacity   *)
(* of a list has the bits of another part.                                 *)
(***************************************************************************)
EXTENDS TreeBacked, MerkleProofs

-----------------------------------------------------------------------------
(* Updates one by one.                                                     *)

\* f makes the first k updates of the order.
Turns(f, k, n, us, order) ==
  f = [j \in 0..k |-> IF j = 0 THEN n ELSE SetAtBits(f[j - 1], order[j], us[order[j]])]

\* There is such a sequence of trees.
LEMMA TurnsExist ==
  ASSUME NEW n, NEW us, NEW order, NEW k \in Nat
  PROVE  \E f : Turns(f, k, n, us, order)
<1> DEFINE Bad == {j \in Nat : ~\E f : Turns(f, j, n, us, order)}
<1> SUFFICES ASSUME Bad # {} PROVE FALSE
  OBVIOUS
<1>0. Bad \in SUBSET Nat
  OBVIOUS
<1> HIDE DEF Bad
<1>1. PICK j \in Bad : \A i \in Bad : j <= i
  BY <1>0, LeastOf
<1>2. j \in Nat
  BY <1>0
<1>3. CASE j = 0
  <2> DEFINE g == [i \in 0..0 |-> n]
  <2>1. Turns(g, 0, n, us, order)
    BY DEF Turns
  <2> HIDE DEF g
  <2> QED BY <1>1, <1>3, <2>1 DEF Bad
<1>4. CASE j # 0
  <2>1. j - 1 \in Nat /\ ~(j <= j - 1)
    BY <1>2, <1>4
  <2>2. PICK f : Turns(f, j - 1, n, us, order)
    BY <1>1, <2>1 DEF Bad
  <2> DEFINE g == [i \in 0..j |-> IF i = 0 THEN n ELSE SetAtBits(f[i - 1], order[i], us[order[i]])]
  <2>3. \A i \in 0..(j - 1) : i \in 0..j /\ f[i] = IF i = 0 THEN n ELSE SetAtBits(f[i - 1], order[i], us[order[i]])
    <3>1. f = [i \in 0..(j - 1) |-> IF i = 0 THEN n ELSE SetAtBits(f[i - 1], order[i], us[order[i]])]
      BY <2>2 DEF Turns
    <3> TAKE i \in 0..(j - 1)
    <3>2. i \in 0..j
      BY <1>2, <2>1
    <3>3. f[i] = [h \in 0..(j - 1) |-> IF h = 0 THEN n ELSE SetAtBits(f[h - 1], order[h], us[order[h]])][i]
      BY <3>1, Zenon
    <3> DEFINE s(h) == IF h = 0 THEN n ELSE SetAtBits(f[h - 1], order[h], us[order[h]])
    <3> HIDE DEF s
    <3>5. [h \in 0..(j - 1) |-> s(h)][i] = s(i)
      OBVIOUS
    <3>4. f[i] = IF i = 0 THEN n ELSE SetAtBits(f[i - 1], order[i], us[order[i]])
      BY <3>3, <3>5 DEF s
    <3> QED BY <3>2, <3>4
  <2>4. \A i \in 0..(j - 1) : f[i] = g[i]
    BY <2>3
  <2>5. \A i \in 0..j : i # 0 => i - 1 \in 0..(j - 1)
    BY <1>2
  <2>6. Turns(g, j, n, us, order)
    <3>1. \A i \in 0..j : i # 0 => f[i - 1] = g[i - 1]
      BY <2>4, <2>5
    <3>2. g = [i \in 0..j |-> IF i = 0 THEN n ELSE SetAtBits(g[i - 1], order[i], us[order[i]])]
      BY <3>1
    <3> HIDE DEF g
    <3> QED BY <3>2 DEF Turns
  <2> HIDE DEF g
  <2> QED BY <1>1, <2>6 DEF Bad
<1> QED BY <1>3, <1>4

\* Updates made one by one give the root of the tree with all of them, in
\* whatever order.
LEMMA InTurnIs ==
  ASSUME NEW n, NEW m, NEW us, Rel(n, m, DOMAIN us), Fits(us, m), IsFiniteSet(DOMAIN us),
         NEW order \in Orders(us)
  PROVE  RootOf(InTurn(n, us, order)) = m[<<>>].root
<1> DEFINE L == Cardinality(DOMAIN us)
<1>1. /\ L \in Nat /\ order \in [1..L -> DOMAIN us]
      /\ \A u \in DOMAIN us : \E k \in 1..L : order[k] = u
  BY FS_CardinalityType DEF Orders
<1>2. Len(order) = L
  <2> HIDE DEF L
  <2>1. order \in Seq(DOMAIN us)
    BY <1>1
  <2>2. DOMAIN order = 1..Len(order) /\ Len(order) \in Nat
    BY <2>1, LenProperties
  <2> QED BY <1>1, <2>2
<1> HIDE DEF L
<1>3. PICK h : Turns(h, L, n, us, order)
  BY <1>1, TurnsExist
<1> DEFINE g == CHOOSE f : Turns(f, L, n, us, order)
<1>4. Turns(g, L, n, us, order)
  BY <1>3
<1>5. InTurn(n, us, order) = g[L]
  <2>1. g = CHOOSE N : N = [k \in 0..L |-> IF k = 0 THEN n ELSE SetAtBits(N[k - 1], order[k], us[order[k]])]
    BY DEF Turns
  <2> HIDE DEF g
  <2> QED BY <1>2, <2>1 DEF InTurn
<1> HIDE DEF g
<1> DEFINE Waiting(k) == {u \in DOMAIN us : \A j \in 1..k : order[j] # u}
           Bad == {k \in Nat : k <= L /\ ~Rel(g[k], m, Waiting(k))}
<1>6. Bad = {}
  <2> SUFFICES ASSUME Bad # {} PROVE FALSE
    OBVIOUS
  <2>0. Bad \in SUBSET Nat
    OBVIOUS
  <2> HIDE DEF Bad
  <2>1. PICK k \in Bad : \A i \in Bad : k <= i
    BY <2>0, LeastOf
  <2>2. k \in Nat /\ k <= L /\ ~Rel(g[k], m, Waiting(k))
    BY <2>1 DEF Bad
  <2>3. \A i \in 0..L : g[i] = IF i = 0 THEN n ELSE SetAtBits(g[i - 1], order[i], us[order[i]])
    BY <1>4 DEF Turns
  <2>4. CASE k = 0
    <3>1. g[0] = n
      BY <1>1, <2>3
    <3>2. Waiting(0) = DOMAIN us
      OBVIOUS
    <3> QED BY <2>2, <2>4, <3>1, <3>2
  <2>5. CASE k # 0
    <3>1. k - 1 \in Nat /\ ~(k <= k - 1) /\ k - 1 <= L /\ k \in 0..L /\ k \in 1..L
      BY <1>1, <2>2, <2>5
    <3>2. Rel(g[k - 1], m, Waiting(k - 1))
      BY <2>1, <3>1 DEF Bad
    <3>3. g[k] = SetAtBits(g[k - 1], order[k], us[order[k]])
      BY <2>3, <2>5, <3>1
    <3>4. order[k] \in DOMAIN us
      BY <1>1, <3>1
    <3>5. Waiting(k) = Waiting(k - 1) \ {order[k]}
      <4>1. \A j \in 1..k : j \in 1..(k - 1) \/ j = k
        BY <3>1
      <4>2. \A j \in 1..(k - 1) : j \in 1..k
        BY <3>1
      <4>3. k \in 1..k
        BY <3>1
      <4> QED BY <4>1, <4>2, <4>3
    <3> HIDE DEF Waiting
    <3>6. Rel(g[k], m, Waiting(k - 1) \ {order[k]})
      BY <3>2, <3>3, <3>4, SetAtRel
    <3> QED BY <2>2, <3>5, <3>6
  <2> QED BY <2>4, <2>5
<1>7. Rel(g[L], m, Waiting(L))
  <2>1. L <= L
    BY <1>1
  <2>2. \A k \in Nat : k <= L => Rel(g[k], m, Waiting(k))
    <3> HIDE DEF Waiting
    <3> QED BY <1>6
  <2> QED BY <1>1, <2>1, <2>2
<1>8. Waiting(L) = {}
  BY <1>1
<1>9. Rel(g[L], m, {})
  BY <1>7, <1>8
<1> QED BY <1>5, <1>9, RelNone

-----------------------------------------------------------------------------
(* The tree of a node of a shape.                                          *)

\* The bits of a number at a depth are a place of that depth with that number.
LEMMA StepIs ==
  ASSUME NEW d \in Nat, NEW i \in Nat, i < Pow2[d]
  PROVE  LET b == GindexBits(Pow2[d] + i)
         IN  b \in Seq(Bit) /\ Len(b) = d /\ Number(b) = i
<1>1. PICK z \in Seq(Bit) : Len(z) = d /\ Number(z) = i
  BY NumberReaches
<1>2. GindexOfBits[z] \in Nat /\ Pow2[d] \in Nat
  BY GindexRange, Pow2Is
<1>3. GindexOfBits[z] - Pow2[d] = i
  BY <1>1 DEF Number
<1>4. GindexOfBits[z] = Pow2[d] + i
  BY <1>2, <1>3
<1>5. GindexBits(GindexOfBits[z]) = z
  BY GindexBitsInvert
<1> QED BY <1>1, <1>4, <1>5

\* A node of a shape with this many parts, whose trees are subs.
Node(s, c, subs) ==
  CASE s.kind = "leaf" -> [z \in {<<>>} |-> Leaf(NatToChunk(c))]
    [] s.kind = "list" -> MixInLength(OfSubtrees(subs, ChunkDepth(s.size)), c)
    [] OTHER -> OfSubtrees(subs, ChunkDepth(s.size))

\* The number of parts is no more than the size.
Fitting(s, c) == c \in Nat /\ s.size \in Nat /\ (s.kind # "leaf" => c <= s.size)

\* The trees of the parts have every slot right.
Parts(s, c, subs) ==
  subs = [k \in 1..c |-> subs[k]] /\ (s.kind # "leaf" => \A k \in 1..c : IsFull(subs[k]))

\* The same but for the roots of pairs.
Looks(n, m, z) ==
  /\ z \in DOMAIN n <=> z \in DOMAIN m
  /\ z \in DOMAIN n => /\ n[z].pair = m[z].pair
                       /\ ~n[z].pair => n[z] = m[z]

\* Looking alike is an equivalence.
LEMMA LooksSame ==
  /\ \A n, z : Looks(n, n, z)
  /\ \A n, m, z : Looks(n, m, z) => Looks(m, n, z)
  /\ \A n, m, k, z : Looks(n, m, z) /\ Looks(m, k, z) => Looks(n, k, z)
BY DEF Looks

\* The depth of the tree of a shape.
Depth(s) == ChunkDepth(s.size)

\* The three kinds of node.
LEMMA NodeCases ==
  ASSUME NEW s, NEW c, NEW subs
  PROVE  /\ s.kind = "leaf" => Node(s, c, subs) = [z \in {<<>>} |-> Leaf(NatToChunk(c))]
         /\ s.kind = "list" => Node(s, c, subs) = MixInLength(OfSubtrees(subs, Depth(s)), c)
         /\ s.kind # "leaf" /\ s.kind # "list" => Node(s, c, subs) = OfSubtrees(subs, Depth(s))
<1>1. ASSUME s.kind = "leaf" PROVE Node(s, c, subs) = [z \in {<<>>} |-> Leaf(NatToChunk(c))]
  BY <1>1 DEF Node
<1>2. ASSUME s.kind = "list" PROVE Node(s, c, subs) = MixInLength(OfSubtrees(subs, Depth(s)), c)
  BY <1>2 DEF Node, Depth
<1>3. ASSUME s.kind # "leaf", s.kind # "list" PROVE Node(s, c, subs) = OfSubtrees(subs, Depth(s))
  BY <1>3 DEF Node, Depth
<1> QED BY <1>1, <1>2, <1>3

\* The tree of the parts of a node, its length aside.
LEMMA BodyIs ==
  ASSUME NEW s, NEW c, Fitting(s, c), s.kind # "leaf", NEW subs, Parts(s, c, subs)
  PROVE  Depth(s) \in Nat /\ c <= Pow2[Depth(s)] /\ Joins(OfSubtrees(subs, Depth(s)), subs, Depth(s), c)
<1> DEFINE d == Depth(s)
<1>1. d \in Nat /\ s.size <= Pow2[d] /\ s.size \in Nat /\ c \in Nat /\ c <= s.size
  BY ChunkDepthIs DEF Fitting, Depth
<1>2. Pow2[d] \in Nat
  BY <1>1, Pow2Is
<1> HIDE DEF d
<1>3. c <= Pow2[d]
  BY <1>1, <1>2
<1>4. subs = [k \in 1..c |-> subs[k]] /\ \A k \in 1..c : IsFull(subs[k])
  BY DEF Parts
<1>5. Joins(OfSubtrees(subs, d), subs, d, c)
  BY <1>1, <1>3, <1>4, OfSubtreesIs
<1> QED BY <1>1, <1>3, <1>5 DEF d

\* The bits of walkPath for one step are the slot of that part, past the length
\* of a list.
LEMMA StepSlot ==
  ASSUME NEW s, NEW i \in Nat, s.size \in Nat, i < Pow2[Depth(s)]
  PROVE  \E b \in Seq(Bit) : /\ Slot(b, Depth(s), i + 1)
                             /\ s.kind = "list" => StepBits(s, i) = <<0>> \o b
                             /\ s.kind # "list" => StepBits(s, i) = b
<1> DEFINE d == Depth(s)
           b == GindexBits(Pow2[d] + i)
<1>1. d \in Nat
  BY ChunkDepthIs DEF Depth
<1>2. b \in Seq(Bit) /\ Len(b) = d /\ Number(b) = i
  <2> HIDE DEF d
  <2> QED BY <1>1, StepIs DEF d
<1>3. StepBits(s, i) = (IF s.kind = "list" THEN <<0>> ELSE <<>>) \o b
  BY DEF StepBits, Depth
<1> HIDE DEF b
<1>4. i = (i + 1) - 1
  OBVIOUS
<1>5. Slot(b, d, i + 1)
  BY <1>2, <1>4 DEF Slot
<1>6. <<>> \o b = b
  BY <1>2, ConcatEmptySeq
<1>7. s.kind # "list" => StepBits(s, i) = b
  BY <1>3, <1>6
<1>8. s.kind = "list" => StepBits(s, i) = <<0>> \o b
  BY <1>3
<1> QED BY <1>2, <1>5, <1>7, <1>8

\* Where the parts of a node lie.
Holds(O, s, c, subs) ==
  \A k \in 1..c : \A y \in Seq(Bit) :
    /\ StepBits(s, k - 1) \o y \in DOMAIN O <=> y \in DOMAIN subs[k]
    /\ y \in DOMAIN subs[k] => O[StepBits(s, k - 1) \o y] = subs[k][y]

\* The tree of a node has every slot right, and each part where walkPath goes
\* for it.
LEMMA NodeIs ==
  ASSUME NEW s, NEW c, Fitting(s, c), NEW subs, Parts(s, c, subs)
  PROVE  IsFull(Node(s, c, subs)) /\ (s.kind # "leaf" => Holds(Node(s, c, subs), s, c, subs))
<1> DEFINE O == Node(s, c, subs)
           d == Depth(s)
           B == OfSubtrees(subs, d)
<1>1. CASE s.kind = "leaf"
  <2>1. IsFull([z \in {<<>>} |-> Leaf(NatToChunk(c))])
    BY LeafFull
  <2>2. Node(s, c, subs) = [z \in {<<>>} |-> Leaf(NatToChunk(c))]
    BY <1>1, NodeCases
  <2>3. IsFull(Node(s, c, subs))
    BY <2>1, <2>2, Zenon
  <2> QED BY <1>1, <2>3
<1>2. CASE s.kind # "leaf"
  <2>1. d \in Nat /\ c <= Pow2[d] /\ Joins(B, subs, d, c)
    BY <1>2, BodyIs
  <2>2. O = IF s.kind = "list" THEN MixInLength(B, c) ELSE B
    BY <1>2, NodeCases
  <2>3. Pow2[d] \in Nat /\ c \in Nat /\ s.size \in Nat
    BY <2>1, Pow2Is DEF Fitting
  <2> HIDE DEF O, d, B
  <2>4. IsFull(B)
    BY <2>1 DEF Joins
  <2>5. Mixed(MixInLength(B, c), B, c)
    BY <2>4, MixInLengthIs
  <2>6. IsFull(O)
    <3>1. IsFull(MixInLength(B, c))
      BY <2>4, <2>5, MixedFull
    <3> QED BY <2>2, <2>4, <3>1
  <2>7. ASSUME NEW k \in 1..c, NEW y \in Seq(Bit)
        PROVE  /\ StepBits(s, k - 1) \o y \in DOMAIN O <=> y \in DOMAIN subs[k]
               /\ y \in DOMAIN subs[k] => O[StepBits(s, k - 1) \o y] = subs[k][y]
    <3>1. k - 1 \in Nat /\ k - 1 < Pow2[d] /\ (k - 1) + 1 = k
      BY <2>1, <2>3
    <3>2. PICK b \in Seq(Bit) : /\ Slot(b, d, k)
                                /\ s.kind = "list" => StepBits(s, k - 1) = <<0>> \o b
                                /\ s.kind # "list" => StepBits(s, k - 1) = b
      BY <2>3, <3>1, StepSlot DEF d
    <3>3. /\ b \o y \in DOMAIN B <=> y \in DOMAIN subs[k]
          /\ y \in DOMAIN subs[k] => B[b \o y] = subs[k][y]
      BY <2>1, <3>2 DEF Joins, Lower
    <3>4. CASE s.kind # "list"
      <4>1. O = B /\ StepBits(s, k - 1) = b
        BY <2>2, <3>2, <3>4
      <4> QED BY <3>3, <4>1
    <3>5. CASE s.kind = "list"
      <4> DEFINE M == MixInLength(B, c)
                 x == b \o y
      <4>1. O = M /\ StepBits(s, k - 1) = <<0>> \o b
        BY <2>2, <3>2, <3>5
      <4>2. StepBits(s, k - 1) \o y = <<0>> \o x /\ x \in Seq(Bit)
        <5>1. (<<0>> \o b) \o y = <<0>> \o (b \o y)
          BY Assoc, FirstBit
        <5>2. b \o y \in Seq(Bit)
          BY Joined
        <5> QED BY <4>1, <5>1, <5>2
      <4>3. Mixed(M, B, c)
        BY <2>5
      <4> HIDE DEF M, x
      <4>4. /\ <<0>> \o x \in DOMAIN M <=> x \in DOMAIN B
            /\ x \in DOMAIN B => M[<<0>> \o x] = B[x]
        BY <4>2, <4>3 DEF Mixed
      <4>5. /\ x \in DOMAIN B <=> y \in DOMAIN subs[k]
            /\ y \in DOMAIN subs[k] => B[x] = subs[k][y]
        BY <3>3 DEF x
      <4> DEFINE w == StepBits(s, k - 1) \o y
      <4>6. w = <<0>> \o x
        BY <4>2
      <4>7. O = M
        BY <4>1
      <4> HIDE DEF w
      <4>8. /\ w \in DOMAIN O <=> y \in DOMAIN subs[k]
            /\ y \in DOMAIN subs[k] => O[w] = subs[k][y]
        BY <4>4, <4>5, <4>6, <4>7
      <4> QED BY <4>8 DEF w
    <3> QED BY <3>4, <3>5
  <2>8. Holds(O, s, c, subs)
    BY <2>7 DEF Holds
  <2> QED BY <2>6, <2>8 DEF O
<1> QED BY <1>1, <1>2

\* Trees of as many parts look alike outside the parts.
LEMMA BodyFrame ==
  ASSUME NEW d \in Nat, NEW c, NEW n, NEW m, NEW subs, NEW parts,
         Joins(n, subs, d, c), Joins(m, parts, d, c), NEW z \in Seq(Bit), Inner(z, d, c)
  PROVE  Looks(n, m, z)
<1>1. /\ z \in DOMAIN n <=> Len(z) <= d
      /\ Len(z) <= d => /\ n[z].pair <=> Len(z) < d
                        /\ ~(Len(z) < d) => n[z] = Leaf(ZeroHash[0])
  BY DEF Joins
<1>2. /\ z \in DOMAIN m <=> Len(z) <= d
      /\ Len(z) <= d => /\ m[z].pair <=> Len(z) < d
                        /\ ~(Len(z) < d) => m[z] = Leaf(ZeroHash[0])
  BY DEF Joins
<1>3. z \in DOMAIN n => n[z].pair \in BOOLEAN /\ m[z].pair \in BOOLEAN
  <2>1. IsTree(n) /\ IsTree(m)
    BY DEF Joins, IsFull
  <2> QED BY <1>1, <1>2, <2>1 DEF IsTree
<1>4. z \in DOMAIN n => n[z].pair = m[z].pair
  BY <1>1, <1>2, <1>3
<1>5. z \in DOMAIN n /\ ~n[z].pair => n[z] = m[z]
  BY <1>1, <1>2, Zenon
<1>6. z \in DOMAIN n <=> z \in DOMAIN m
  BY <1>1, <1>2, Zenon
<1> QED BY <1>4, <1>5, <1>6, Zenon DEF Looks

\* Nodes with as many parts look alike outside the parts: what a write to an
\* element leaves as it is.
LEMMA NodeFrame ==
  ASSUME NEW s, NEW c, Fitting(s, c), NEW subs, NEW parts, Parts(s, c, subs), Parts(s, c, parts),
         NEW z \in Seq(Bit),
         s.kind # "leaf" => \A k \in 1..c : ~IsPrefix(StepBits(s, k - 1), z)
  PROVE  Looks(Node(s, c, subs), Node(s, c, parts), z)
<1>1. CASE s.kind = "leaf"
  BY <1>1, NodeCases, LooksSame
<1>2. CASE s.kind # "leaf"
  <2> DEFINE d == Depth(s)
             B == OfSubtrees(subs, d)
             E == OfSubtrees(parts, d)
  <2>1. d \in Nat /\ c <= Pow2[d] /\ Joins(B, subs, d, c) /\ Joins(E, parts, d, c)
    BY <1>2, BodyIs
  <2>2. Pow2[d] \in Nat /\ c \in Nat /\ s.size \in Nat
    BY <2>1, Pow2Is DEF Fitting
  <2>3. /\ s.kind = "list" => /\ Node(s, c, subs) = MixInLength(B, c)
                              /\ Node(s, c, parts) = MixInLength(E, c)
        /\ s.kind # "list" => Node(s, c, subs) = B /\ Node(s, c, parts) = E
    BY <1>2, NodeCases
  <2> HIDE DEF B, E
  <2>4. ASSUME NEW b \in Seq(Bit), NEW k \in 1..c, Slot(b, d, k)
        PROVE  StepBits(s, k - 1) = IF s.kind = "list" THEN <<0>> \o b ELSE b
    <3>1. k - 1 \in Nat /\ k - 1 < Pow2[d] /\ (k - 1) + 1 = k
      BY <2>1, <2>2
    <3>2. PICK e \in Seq(Bit) : /\ Slot(e, d, k)
                                /\ s.kind = "list" => StepBits(s, k - 1) = <<0>> \o e
                                /\ s.kind # "list" => StepBits(s, k - 1) = e
      BY <2>2, <3>1, StepSlot
    <3>3. b = e
      BY <2>4, <3>2, NumberInjective DEF Slot
    <3> QED BY <3>2, <3>3
  <2> HIDE DEF d
  <2>5. CASE s.kind # "list"
    <3>1. Inner(z, d, c)
      BY <1>2, <2>4, <2>5 DEF Inner
    <3> QED BY <2>1, <2>3, <2>5, <3>1, BodyFrame
  <2>6. CASE s.kind = "list"
    <3> DEFINE M == MixInLength(B, c)
               N == MixInLength(E, c)
    <3>1. Mixed(M, B, c) /\ Mixed(N, E, c)
      BY <2>1, MixInLengthIs DEF Joins
    <3>2. Node(s, c, subs) = M /\ Node(s, c, parts) = N
      BY <2>3, <2>6
    <3> HIDE DEF M, N
    <3>3. CASE IsPrefix(<<0>>, z)
      <4>1. PICK y \in Seq(Bit) : z = <<0>> \o y
        BY <3>3, FirstBit, PrefixHas
      <4>2. ASSUME NEW b \in Seq(Bit), IsPrefix(b, y), NEW k \in 1..c, Slot(b, d, k) PROVE FALSE
        <5>1. PICK x \in Seq(Bit) : y = b \o x
          BY <4>2, PrefixHas
        <5>2. z = (<<0>> \o b) \o x /\ <<0>> \o b \in Seq(Bit)
          BY <4>1, <5>1, FirstBit, Assoc, Joined
        <5>3. IsPrefix(<<0>> \o b, z)
          BY <5>2, PrefixOf
        <5>4. StepBits(s, k - 1) = <<0>> \o b
          BY <2>4, <2>6, <4>2
        <5> QED BY <1>2, <5>3, <5>4
      <4>3. Inner(y, d, c)
        BY <4>2 DEF Inner
      <4>4. Looks(B, E, y)
        BY <2>1, <4>3, BodyFrame
      <4>5. /\ z \in DOMAIN M <=> y \in DOMAIN B
            /\ y \in DOMAIN B => M[z] = B[y]
        BY <3>1, <4>1 DEF Mixed
      <4>6. /\ z \in DOMAIN N <=> y \in DOMAIN E
            /\ y \in DOMAIN E => N[z] = E[y]
        BY <3>1, <4>1 DEF Mixed
      <4>7. Looks(M, N, z)
        BY <4>4, <4>5, <4>6 DEF Looks
      <4> QED BY <3>2, <4>7
    <3>4. CASE ~IsPrefix(<<0>>, z)
      <4>1. z \in DOMAIN M <=> z = <<>> \/ z = <<1>>
        BY <3>1, <3>4 DEF Mixed
      <4>2. z \in DOMAIN N <=> z = <<>> \/ z = <<1>>
        BY <3>1, <3>4 DEF Mixed
      <4>3. CASE z = <<>>
        <5>1. M[z].pair = TRUE /\ N[z].pair = TRUE
          BY <3>1, <4>3 DEF Mixed, Pair
        <5> QED BY <3>2, <4>1, <4>2, <5>1 DEF Looks
      <4>4. CASE z = <<1>>
        <5>1. M[z] = N[z]
          BY <3>1, <4>4 DEF Mixed
        <5> QED BY <3>2, <4>1, <4>2, <5>1 DEF Looks
      <4>5. CASE z # <<>> /\ z # <<1>>
        BY <3>2, <4>1, <4>2, <4>5 DEF Looks
      <4> QED BY <4>3, <4>4, <4>5
    <3> QED BY <3>3, <3>4
  <2> QED BY <2>5, <2>6
<1> QED BY <1>1, <1>2

-----------------------------------------------------------------------------
(* Recursion over the parts of a value, for trees and for roots.           *)

\* Finitely many sequences have bounded lengths.
LEMMA BoundedLengths ==
  ASSUME NEW A, NEW D \in SUBSET Seq(A), IsFiniteSet(D)
  PROVE  \E N \in Nat : \A z \in D : Len(z) <= N
<1> DEFINE n == Cardinality(D)
<1>1. n \in Nat /\ ExistsBijection(1..n, D)
  BY FS_CardinalityType
<1> HIDE DEF n
<1>2. PICK h : h \in Bijection(1..n, D)
  BY <1>1 DEF ExistsBijection
<1>3. h \in [1..n -> D] /\ \A z \in D : \E k \in 1..n : h[k] = z
  BY <1>2 DEF Bijection, Injection, Surjection
<1> DEFINE f == [k \in 1..n |-> Len(h[k])]
<1>4. f \in [1..n -> Nat]
  <2> SUFFICES ASSUME NEW k \in 1..n PROVE Len(h[k]) \in Nat
    OBVIOUS
  <2>1. h[k] \in Seq(A)
    BY <1>3
  <2> QED BY <2>1, LenProperties
<1>5. \A k \in 1..n : f[k] = Len(h[k])
  OBVIOUS
<1> HIDE DEF f
<1>6. PICK N \in Nat : \A k \in 1..n : f[k] <= N
  BY <1>1, <1>4, Bounded
<1>7. \A z \in D : Len(z) <= N
  <2> TAKE z \in D
  <2>1. PICK k \in 1..n : h[k] = z
    BY <1>3
  <2> QED BY <1>5, <1>6, <2>1
<1> QED BY <1>6, <1>7

\* The paths of a shape are closed under fronts and bounded.
LEMMA ShapeIs ==
  ASSUME NEW S, IsShape(S)
  PROVE  /\ FrontClosed(Nat, DOMAIN S)
         /\ \E N \in Nat : \A p \in DOMAIN S : Len(p) <= N
<1>1. DOMAIN S \in SUBSET Seq(Nat) /\ IsFiniteSet(DOMAIN S)
  BY DEF IsShape
<1>2. \E N \in Nat : \A p \in DOMAIN S : Len(p) <= N
  BY <1>1, BoundedLengths
<1>3. FrontClosed(Nat, DOMAIN S)
  BY DEF FrontClosed, IsShape
<1> QED BY <1>2, <1>3

\* So are those of a value, all of them paths of its shape.
LEMMA ValueIs ==
  ASSUME NEW S, IsShape(S), NEW v, IsValue(S, v)
  PROVE  /\ FrontClosed(Nat, DOMAIN v)
         /\ \E N \in Nat : \A p \in DOMAIN v : Len(p) <= N
         /\ DOMAIN v \subseteq DOMAIN S
<1>1. FrontClosed(Nat, DOMAIN S) /\ \E N \in Nat : \A p \in DOMAIN S : Len(p) <= N
  BY ShapeIs
<1>2. DOMAIN v \subseteq DOMAIN S /\ <<>> \in DOMAIN v
  BY DEF IsValue
<1>3. \A p \in DOMAIN v \ {<<>>} : Front(p) \in DOMAIN v
  BY <1>2 DEF IsValue
<1> QED BY <1>1, <1>2, <1>3 DEF FrontClosed

\* A value fits its shape at each of its paths and has all the parts it counts.
LEMMA ValueParts ==
  ASSUME NEW S, IsShape(S), NEW v, IsValue(S, v), NEW p \in DOMAIN v
  PROVE  /\ p \in Seq(Nat) /\ p \in DOMAIN S /\ v[p] \in Nat
         /\ Fitting(S[p], v[p])
         /\ S[p].kind # "leaf" =>
              /\ v[p] <= S[p].size
              /\ \A k \in 1..v[p] : p \o <<k - 1>> \in DOMAIN v
<1>1. p \in Seq(Nat) /\ p \in DOMAIN S /\ v[p] \in Nat /\ S[p].size \in Nat
  BY DEF IsShape, IsValue
<1>2. ASSUME S[p].kind # "leaf" PROVE v[p] <= S[p].size
  <2>1. S[p].kind \in {"container", "vector"} => v[p] = S[p].size
    BY <1>1 DEF IsValue
  <2>2. S[p].kind = "list" => v[p] <= S[p].size
    BY <1>1 DEF IsValue
  <2>3. S[p].kind \in {"container", "vector"} \/ S[p].kind = "list"
    BY <1>1, <1>2 DEF IsShape
  <2> QED BY <1>1, <2>1, <2>2, <2>3
<1>3. ASSUME S[p].kind # "leaf", NEW k \in 1..v[p] PROVE p \o <<k - 1>> \in DOMAIN v
  <2>1. v[p] <= S[p].size /\ k - 1 \in Nat /\ k - 1 < v[p] /\ k \in 1..S[p].size
    BY <1>1, <1>2, <1>3
  <2> DEFINE q == p \o <<k - 1>>
  <2>2. q \in DOMAIN S
    BY <1>1, <1>3, <2>1 DEF IsShape
  <2>3. Front(q) = p /\ Last(q) = k - 1 /\ q # <<>>
    BY <1>1, <2>1, FrontIs
  <2> HIDE DEF q
  <2>4. q \in DOMAIN v <=> Front(q) \in DOMAIN v /\ Last(q) < v[Front(q)]
    BY <2>2, <2>3 DEF IsValue
  <2>5. q \in DOMAIN v
    BY <2>1, <2>3, <2>4
  <2> QED BY <2>5 DEF q
<1>4. Fitting(S[p], v[p])
  BY <1>1, <1>2 DEF Fitting
<1> QED BY <1>1, <1>2, <1>3, <1>4

\* The reference root of a node with these roots of parts.
RootNode(s, c, subs) ==
  CASE s.kind = "leaf" -> NatToChunk(c)
    [] s.kind = "list" -> Combine(Merkleize(subs, ChunkDepth(s.size)), NatToChunk(c))
    [] OTHER -> Merkleize(subs, ChunkDepth(s.size))

\* The tree of a node, or its root.
Made(trees, s, c, subs) == IF trees THEN Node(s, c, subs) ELSE RootNode(s, c, subs)

\* f has the trees or the roots of the parts of v.
Grown(f, trees, S, v, D) ==
  f = [p \in D |-> Made(trees, S[p], v[p], [k \in 1..v[p] |-> f[p \o <<k - 1>>]])]

\* Those of a leaf depend on no part.
LEMMA MadeLeaf ==
  ASSUME NEW trees \in BOOLEAN, NEW s, s.kind = "leaf", NEW c, NEW subs, NEW parts
  PROVE  Made(trees, s, c, subs) = Made(trees, s, c, parts)
<1>1. Node(s, c, subs) = Node(s, c, parts)
  BY NodeCases
<1>2. RootNode(s, c, subs) = RootNode(s, c, parts)
  BY DEF RootNode
<1> QED BY <1>1, <1>2 DEF Made

\* There are such trees and roots: the recursion of ofShape and of hashTreeRoot
\* over the parts of a value ends.
LEMMA GrownExists ==
  ASSUME NEW trees \in BOOLEAN, NEW S, IsShape(S), NEW v, IsValue(S, v)
  PROVE  \E f : Grown(f, trees, S, v, DOMAIN v)
<1> DEFINE D == DOMAIN v
<1>0. PICK N \in Nat : \A p \in D : Len(p) <= N
  BY ValueIs
<1> DEFINE Low(k) == {p \in D : N <= Len(p) + k}
           Bad == {k \in Nat : ~\E f : Grown(f, trees, S, v, Low(k))}
<1>1. \A p \in D : p \in Seq(Nat) /\ Len(p) \in Nat
  BY ValueParts, LenProperties
<1>2. Low(N) = D
  <2>1. ASSUME NEW p \in D PROVE N <= Len(p) + N
    <3>1. Len(p) \in Nat /\ N \in Nat
      BY <1>0, <1>1
    <3> QED BY <3>1
  <2> HIDE DEF D
  <2> QED BY <2>1
<1>3. ASSUME NEW p \in D, S[p].kind # "leaf", NEW j \in 1..v[p]
      PROVE  p \o <<j - 1>> \in D /\ Len(p \o <<j - 1>>) = Len(p) + 1 /\ Len(p) + 1 <= N
  <2>1. p \o <<j - 1>> \in D /\ v[p] \in Nat /\ p \in Seq(Nat)
    BY <1>3, ValueParts
  <2>2. j - 1 \in Nat
    BY <2>1
  <2>3. Len(p \o <<j - 1>>) = Len(p) + 1
    BY <2>1, <2>2, FrontIs
  <2> QED BY <1>0, <2>1, <2>3
<1>4. Bad = {}
  <2> SUFFICES ASSUME Bad # {} PROVE FALSE
    OBVIOUS
  <2>1. Bad \in SUBSET Nat
    OBVIOUS
  <2> HIDE DEF Bad
  <2>2. PICK k \in Bad : \A j \in Bad : k <= j
    BY <2>1, LeastOf
  <2>3. k \in Nat
    BY <2>1
  <2> DEFINE K == k - 1
             f == CHOOSE f : Grown(f, trees, S, v, Low(K))
             Of(h, p) == [j \in 1..v[p] |-> h[p \o <<j - 1>>]]
             g == [p \in Low(k) |-> Made(trees, S[p], v[p], Of(f, p))]
  <2>4. \A p \in Low(k) : S[p].kind # "leaf" => \A j \in 1..v[p] : p \o <<j - 1>> \in Low(K)
    <3> SUFFICES ASSUME NEW p \in Low(k), S[p].kind # "leaf", NEW j \in 1..v[p]
                 PROVE  p \o <<j - 1>> \in Low(K)
      OBVIOUS
    <3> DEFINE q == p \o <<j - 1>>
    <3>1. p \in D /\ N <= Len(p) + k
      OBVIOUS
    <3>2. q \in D /\ Len(q) = Len(p) + 1 /\ Len(p) \in Nat
      BY <1>1, <1>3, <3>1
    <3> HIDE DEF q
    <3>3. N <= Len(q) + (k - 1)
      BY <2>3, <3>1, <3>2
    <3> QED BY <3>2, <3>3 DEF q
  <2>5. \A p \in Low(K) : p \in Low(k) /\ g[p] = f[p]
    <3> SUFFICES ASSUME NEW p \in Low(K) PROVE p \in Low(k) /\ g[p] = f[p]
      OBVIOUS
    <3>1. p \in D /\ N <= Len(p) + (k - 1) /\ Len(p) \in Nat
      BY <1>1
    <3>2. p \in Low(k)
      BY <2>3, <3>1
    <3>3. k # 0
      BY <1>0, <3>1
    <3>4. K \in Nat /\ ~(k <= K)
      BY <2>3, <3>3
    <3>5. K \notin Bad
      BY <2>2, <3>4
    <3>6. \E h : Grown(h, trees, S, v, Low(K))
      <4> HIDE DEF K
      <4> QED BY <3>4, <3>5 DEF Bad
    <3>7. Grown(f, trees, S, v, Low(K))
      <4> HIDE DEF K, Low
      <4> QED BY <3>6
    <3> HIDE DEF f
    <3>8. f[p] = Made(trees, S[p], v[p], Of(f, p))
      BY <3>7 DEF Grown
    <3>9. g[p] = Made(trees, S[p], v[p], Of(f, p))
      BY <3>2
    <3> QED BY <3>2, <3>8, <3>9
  <2> HIDE DEF f
  <2>6. \A p \in Low(k) : g[p] = Made(trees, S[p], v[p], Of(g, p))
    <3> SUFFICES ASSUME NEW p \in Low(k) PROVE g[p] = Made(trees, S[p], v[p], Of(g, p))
      OBVIOUS
    <3>1. g[p] = Made(trees, S[p], v[p], Of(f, p))
      OBVIOUS
    <3> HIDE DEF g
    <3>2. CASE S[p].kind = "leaf"
      BY <3>1, <3>2, MadeLeaf
    <3>3. CASE S[p].kind # "leaf"
      <4>1. \A j \in 1..v[p] : g[p \o <<j - 1>>] = f[p \o <<j - 1>>]
        BY <2>4, <2>5, <3>3
      <4>2. Of(g, p) = Of(f, p)
        BY <4>1
      <4> QED BY <3>1, <4>2
    <3> QED BY <3>2, <3>3
  <2>7. g = [p \in Low(k) |-> g[p]]
    OBVIOUS
  <2> HIDE DEF g, Low
  <2>8. Grown(g, trees, S, v, Low(k))
    BY <2>6, <2>7 DEF Grown
  <2> QED BY <2>2, <2>8 DEF Bad
<1>5. \E f : Grown(f, trees, S, v, Low(N))
  <2> HIDE DEF Low
  <2>1. N \notin Bad
    BY <1>4
  <2> QED BY <1>0, <2>1
<1> QED BY <1>2, <1>5

-----------------------------------------------------------------------------
(* The tree of a value.                                                    *)

\* The trees of the parts of a value.
TreesOf(S, v) ==
  LET Tree[p \in DOMAIN v] ==
        LET body == OfSubtrees([k \in 1..v[p] |-> Tree[p \o <<k - 1>>]], ChunkDepth(S[p].size))
        IN  CASE S[p].kind = "leaf" -> [z \in {<<>>} |-> Leaf(NatToChunk(v[p]))]
              [] S[p].kind = "list" -> MixInLength(body, v[p])
              [] OTHER -> body
  IN  Tree

\* The trees of the parts of the part at p.
Kids(S, v, p) == [k \in 1..v[p] |-> OfShape(S, v, p \o <<k - 1>>)]

\* ofShape, by recursion: the node of the trees of the parts.
LEMMA OfShapeIs ==
  ASSUME NEW S, IsShape(S), NEW v, IsValue(S, v), NEW p \in DOMAIN v
  PROVE  OfShape(S, v, p) = Node(S[p], v[p], Kids(S, v, p))
<1>1. PICK f : Grown(f, TRUE, S, v, DOMAIN v)
  BY GrownExists
<1>2. f = [q \in DOMAIN v |-> Node(S[q], v[q], [k \in 1..v[q] |-> f[q \o <<k - 1>>]])]
  BY <1>1 DEF Grown, Made
<1> DEFINE g == TreesOf(S, v)
<1>3. g = CHOOSE g1 : g1 = [q \in DOMAIN v |-> Node(S[q], v[q], [k \in 1..v[q] |-> g1[q \o <<k - 1>>]])]
  BY DEF TreesOf, Node
<1> HIDE DEF g
<1>4. g = [q \in DOMAIN v |-> Node(S[q], v[q], [k \in 1..v[q] |-> g[q \o <<k - 1>>]])]
  BY <1>2, <1>3
<1>5. \A q : OfShape(S, v, q) = g[q]
  BY DEF OfShape, TreesOf, g
<1>6. Kids(S, v, p) = [k \in 1..v[p] |-> g[p \o <<k - 1>>]]
  BY <1>5 DEF Kids
<1>7. g[p] = Node(S[p], v[p], [k \in 1..v[p] |-> g[p \o <<k - 1>>]])
  BY <1>4
<1> QED BY <1>5, <1>6, <1>7

\* The trees of the parts, one by one.
LEMMA KidsAre ==
  ASSUME NEW S, NEW v, NEW p
  PROVE  /\ Kids(S, v, p) = [k \in 1..v[p] |-> Kids(S, v, p)[k]]
         /\ \A k \in 1..v[p] : Kids(S, v, p)[k] = OfShape(S, v, p \o <<k - 1>>)
BY DEF Kids

\* The tree of every value has every slot right: what ofValue builds is what
\* rootOf would compute.
LEMMA ShapeFull ==
  ASSUME NEW S, IsShape(S), NEW v, IsValue(S, v)
  PROVE  \A p \in DOMAIN v : IsFull(OfShape(S, v, p))
<1> DEFINE D == DOMAIN v
           P == {p \in D : IsFull(OfShape(S, v, p))}
<1>1. PICK N \in Nat : \A p \in D : Len(p) <= N
  BY ValueIs
<1>2. D \in SUBSET Seq(Nat)
  BY ValueIs DEF FrontClosed
<1>3. ASSUME NEW p \in D, \A q \in D : Len(p) < Len(q) => q \in P PROVE p \in P
  <2>1. p \in Seq(Nat) /\ v[p] \in Nat /\ Fitting(S[p], v[p])
    BY ValueParts
  <2>2. ASSUME S[p].kind # "leaf", NEW k \in 1..v[p] PROVE IsFull(Kids(S, v, p)[k])
    <3>1. p \o <<k - 1>> \in D
      BY <2>2, ValueParts
    <3>2. k - 1 \in Nat
      BY <2>1
    <3>3. Len(p) < Len(p \o <<k - 1>>)
      BY <2>1, <3>2, FrontIs
    <3>4. IsFull(OfShape(S, v, p \o <<k - 1>>))
      BY <1>3, <3>1, <3>3
    <3> QED BY <3>4, KidsAre
  <2>3. Parts(S[p], v[p], Kids(S, v, p))
    BY <2>2, KidsAre DEF Parts
  <2>4. IsFull(Node(S[p], v[p], Kids(S, v, p)))
    BY <2>1, <2>3, NodeIs
  <2> QED BY <2>4, OfShapeIs
<1> HIDE DEF D, P
<1>4. \A p \in D : p \in P
  BY <1>1, <1>2, <1>3, Downward
<1> QED BY <1>4 DEF D, P

\* So have the trees of its parts.
LEMMA KidsParts ==
  ASSUME NEW S, IsShape(S), NEW v, IsValue(S, v), NEW p \in DOMAIN v
  PROVE  Parts(S[p], v[p], Kids(S, v, p))
<1>1. ASSUME S[p].kind # "leaf", NEW k \in 1..v[p] PROVE IsFull(Kids(S, v, p)[k])
  <2>1. p \o <<k - 1>> \in DOMAIN v
    BY <1>1, ValueParts
  <2> QED BY <2>1, KidsAre, ShapeFull
<1> QED BY <1>1, KidsAre DEF Parts

\* A tree holds those of its parts.
LEMMA ShapeHolds ==
  ASSUME NEW S, IsShape(S), NEW v, IsValue(S, v), NEW p \in DOMAIN v, S[p].kind # "leaf",
         NEW k \in 1..v[p], NEW y \in Seq(Bit)
  PROVE  /\ StepBits(S[p], k - 1) \o y \in DOMAIN OfShape(S, v, p)
              <=> y \in DOMAIN OfShape(S, v, p \o <<k - 1>>)
         /\ y \in DOMAIN OfShape(S, v, p \o <<k - 1>>)
              => OfShape(S, v, p)[StepBits(S[p], k - 1) \o y] = OfShape(S, v, p \o <<k - 1>>)[y]
<1> DEFINE O == OfShape(S, v, p)
           n == OfShape(S, v, p \o <<k - 1>>)
           w == StepBits(S[p], k - 1) \o y
<1>1. Holds(O, S[p], v[p], Kids(S, v, p))
  <2>1. Fitting(S[p], v[p])
    BY ValueParts
  <2>2. Holds(Node(S[p], v[p], Kids(S, v, p)), S[p], v[p], Kids(S, v, p))
    BY <2>1, KidsParts, NodeIs
  <2> QED BY <2>2, OfShapeIs
<1>2. Kids(S, v, p)[k] = n
  BY KidsAre
<1>3. /\ w \in DOMAIN O <=> y \in DOMAIN Kids(S, v, p)[k]
      /\ y \in DOMAIN Kids(S, v, p)[k] => O[w] = Kids(S, v, p)[k][y]
  <2> HIDE DEF O
  <2> QED BY <1>1 DEF Holds
<1> HIDE DEF O, n, w
<1>4. /\ w \in DOMAIN O <=> y \in DOMAIN n
      /\ y \in DOMAIN n => O[w] = n[y]
  BY <1>2, <1>3
<1> QED BY <1>4 DEF O, n, w

\* The tree of a part depends on nothing else.
LEMMA ShapeLocal ==
  ASSUME NEW S, IsShape(S), NEW v, IsValue(S, v), NEW u, IsValue(S, u), NEW p \in DOMAIN v,
         \A q \in Seq(Nat) : IsPrefix(p, q) =>
           /\ q \in DOMAIN v <=> q \in DOMAIN u
           /\ q \in DOMAIN v => v[q] = u[q]
  PROVE  OfShape(S, v, p) = OfShape(S, u, p)
<1> DEFINE D == {q \in DOMAIN v : IsPrefix(p, q)}
           P == {q \in D : OfShape(S, v, q) = OfShape(S, u, q)}
<1>1. PICK N \in Nat : \A q \in D : Len(q) <= N
  BY ValueIs
<1>2. D \in SUBSET Seq(Nat)
  BY ValueIs DEF FrontClosed
<1>3. ASSUME NEW q \in D, \A r \in D : Len(q) < Len(r) => r \in P PROVE q \in P
  <2>1. q \in Seq(Nat) /\ v[q] \in Nat /\ q \in DOMAIN v /\ q \in DOMAIN u /\ v[q] = u[q] /\ p \in Seq(Nat)
    BY <1>2, ValueParts
  <2>2. ASSUME S[q].kind # "leaf", NEW k \in 1..v[q] PROVE Kids(S, v, q)[k] = Kids(S, u, q)[k]
    <3> DEFINE r == q \o <<k - 1>>
    <3>1. r \in DOMAIN v
      BY <2>1, <2>2, ValueParts
    <3>2. k - 1 \in Nat
      BY <2>1
    <3>3. Len(q) < Len(r) /\ IsPrefix(q, r) /\ r \in Seq(Nat)
      <4>1. r \in Seq(Nat) /\ Len(r) = Len(q) + 1 /\ Len(q) \in Nat
        BY <2>1, <3>2, FrontIs
      <4>2. IsPrefix(q, r)
        BY <2>1, <3>2, Single, PrefixOf
      <4> HIDE DEF r
      <4> QED BY <4>1, <4>2
    <3> HIDE DEF r
    <3>4. IsPrefix(p, r)
      BY <2>1, <3>3, PrefixOrder
    <3>5. OfShape(S, v, r) = OfShape(S, u, r)
      BY <1>3, <3>1, <3>3, <3>4
    <3>6. Kids(S, v, q)[k] = OfShape(S, v, r) /\ Kids(S, u, q)[k] = OfShape(S, u, r)
      BY <2>1, KidsAre DEF r
    <3> QED BY <3>5, <3>6
  <2>3. OfShape(S, v, q) = Node(S[q], v[q], Kids(S, v, q)) /\ OfShape(S, u, q) = Node(S[q], v[q], Kids(S, u, q))
    BY <2>1, OfShapeIs
  <2>4. CASE S[q].kind = "leaf"
    BY <2>3, <2>4, NodeCases
  <2>5. CASE S[q].kind # "leaf"
    <3>1. Kids(S, v, q) = [k \in 1..v[q] |-> Kids(S, v, q)[k]]
      BY KidsAre
    <3>2. Kids(S, u, q) = [k \in 1..v[q] |-> Kids(S, u, q)[k]]
      BY <2>1, KidsAre
    <3>3. Kids(S, v, q) = Kids(S, u, q)
      BY <2>2, <2>5, <3>1, <3>2
    <3> QED BY <2>3, <3>3
  <2> QED BY <2>4, <2>5
<1> HIDE DEF D, P
<1>4. \A q \in D : q \in P
  BY <1>1, <1>2, <1>3, Downward
<1>5. p \in D
  BY ValueParts, PrefixOrder DEF D
<1> QED BY <1>4, <1>5 DEF P

-----------------------------------------------------------------------------
(* The bits of paths.                                                      *)

\* A step of a path of the type has bits.
LEMMA StepIn ==
  ASSUME WithinCapacity, NEW q \in DOMAIN T, q # <<>>
  PROVE  /\ q \in Seq(Nat) /\ Front(q) \in Seq(Nat) /\ Last(q) \in Nat /\ q = Front(q) \o <<Last(q)>>
         /\ Front(q) \in DOMAIN T /\ T[Front(q)].size \in Nat /\ T[Front(q)].kind # "leaf"
         /\ Last(q) < Pow2[Depth(T[Front(q)])]
         /\ StepBits(T[Front(q)], Last(q)) \in Seq(Bit)
<1>0. IsShape(T)
  BY ShapeAssumption
<1>1. q \in Seq(Nat) /\ Front(q) \in DOMAIN T /\ T[Front(q)].size \in Nat /\ T[Front(q)].kind # "leaf"
  BY <1>0 DEF IsShape
<1>2. Front(q) \in Seq(Nat) /\ Last(q) \in Nat /\ q = Front(q) \o <<Last(q)>>
  BY <1>1, SplitLast
<1>3. Last(q) < Pow2[Depth(T[Front(q)])]
  BY DEF WithinCapacity, Depth
<1>4. StepBits(T[Front(q)], Last(q)) \in Seq(Bit)
  <2> DEFINE s == T[Front(q)]
             i == Last(q)
  <2>1. s.size \in Nat /\ i \in Nat /\ i < Pow2[Depth(s)]
    BY <1>1, <1>2, <1>3
  <2> HIDE DEF s, i
  <2>2. StepBits(s, i) \in Seq(Bit)
    <3>1. PICK b \in Seq(Bit) : /\ Slot(b, Depth(s), i + 1)
                                /\ s.kind = "list" => StepBits(s, i) = <<0>> \o b
                                /\ s.kind # "list" => StepBits(s, i) = b
      BY <2>1, StepSlot
    <3>2. <<0>> \o b \in Seq(Bit)
      BY FirstBit, Joined
    <3> QED BY <3>1, <3>2
  <2> QED BY <2>2 DEF s, i
<1> QED BY <1>1, <1>2, <1>3, <1>4

\* The recursion of walkPath over a path is a definition.
LEMMA PathBitsDefined ==
  ASSUME WithinCapacity
  PROVE  /\ PathBits = [path \in DOMAIN T |->
              IF path = <<>> THEN <<>>
              ELSE PathBits[Front(path)] \o StepBits(T[Front(path)], Last(path))]
<1> DEFINE D == DOMAIN T
           step == [x \in Seq(Bit) \X D |-> x[1] \o StepBits(T[Front(x[2])], Last(x[2]))]
<1>1. FrontClosed(Nat, D)
  BY ShapeAssumption, ShapeIs
<1>2. \E f : Recurs(f, D, <<>>, step)
  <2> HIDE DEF D, step
  <2> QED BY <1>1, RecursionExists
<1>3. PICK f : Recurs(f, D, <<>>, step)
  BY <1>2
<1>4. f = [z \in D |-> f[z]] /\ \A z \in D : f[z] = IF z = <<>> THEN <<>> ELSE step[<<f[Front(z)], z>>]
  BY <1>3 DEF Recurs
<1> DEFINE P == {z \in D : f[z] \in Seq(Bit)}
<1>5. \A z \in D : z \in P
  <2>1. D \in SUBSET Seq(Nat) /\ \A z \in D \ {<<>>} : Front(z) \in D
    BY <1>1 DEF FrontClosed
  <2>2. ASSUME NEW z \in D, \A y \in D : Len(y) < Len(z) => y \in P PROVE z \in P
    <3>1. CASE z = <<>>
      BY <1>4, <3>1, FirstBit
    <3>2. CASE z # <<>>
      <4>1. Front(z) \in D /\ Len(Front(z)) < Len(z)
        BY <2>1, <3>2, SplitLast
      <4>2. f[Front(z)] \in Seq(Bit)
        BY <2>2, <4>1
      <4>3. step[<<f[Front(z)], z>>] = f[Front(z)] \o StepBits(T[Front(z)], Last(z))
        BY <4>2
      <4>4. StepBits(T[Front(z)], Last(z)) \in Seq(Bit)
        BY <3>2, StepIn
      <4>5. f[z] = f[Front(z)] \o StepBits(T[Front(z)], Last(z))
        BY <1>4, <3>2, <4>3
      <4>6. f[z] \in Seq(Bit)
        BY <4>2, <4>4, <4>5, Joined
      <4> QED BY <4>6
    <3> QED BY <3>1, <3>2
  <2> HIDE DEF D, P
  <2> QED BY <2>1, <2>2, Upward
<1>6. \A z \in D : f[z] = IF z = <<>> THEN <<>> ELSE f[Front(z)] \o StepBits(T[Front(z)], Last(z))
  <2> SUFFICES ASSUME NEW z \in D, z # <<>>
               PROVE f[z] = f[Front(z)] \o StepBits(T[Front(z)], Last(z))
    BY <1>4
  <2>1. Front(z) \in D
    BY StepIn
  <2>2. f[Front(z)] \in Seq(Bit)
    BY <1>5, <2>1
  <2>3. step[<<f[Front(z)], z>>] = f[Front(z)] \o StepBits(T[Front(z)], Last(z))
    BY <2>2
  <2> QED BY <1>4, <2>3
<1>7. f = [path \in DOMAIN T |->
              IF path = <<>> THEN <<>>
              ELSE f[Front(path)] \o StepBits(T[Front(path)], Last(path))]
  BY <1>4, <1>6
<1> HIDE DEF D, step, P
<1> QED BY <1>7 DEF PathBits

\* The bits of a path: those of its front, then those of its last step.
LEMMA PathBitsIs ==
  ASSUME WithinCapacity
  PROVE  /\ <<>> \in DOMAIN T /\ PathBits[<<>>] = <<>>
         /\ \A q \in DOMAIN T : PathBits[q] \in Seq(Bit)
         /\ \A q \in DOMAIN T : q # <<>> =>
              PathBits[q] = PathBits[Front(q)] \o StepBits(T[Front(q)], Last(q))
<1>1. <<>> \in DOMAIN T /\ DOMAIN T \in SUBSET Seq(Nat)
  BY ShapeAssumption DEF IsShape
<1>2. PathBits[<<>>] = <<>>
  BY <1>1, PathBitsDefined
<1>3. \A q \in DOMAIN T : q # <<>> => PathBits[q] = PathBits[Front(q)] \o StepBits(T[Front(q)], Last(q))
  BY PathBitsDefined
<1> DEFINE P == {q \in DOMAIN T : PathBits[q] \in Seq(Bit)}
<1>4. ASSUME NEW z \in DOMAIN T, \A y \in DOMAIN T : Len(y) < Len(z) => y \in P PROVE z \in P
  <2>1. CASE z = <<>>
    BY <1>2, <2>1, FirstBit
  <2>2. CASE z # <<>>
    <3>1. Front(z) \in DOMAIN T /\ StepBits(T[Front(z)], Last(z)) \in Seq(Bit)
      BY <2>2, StepIn
    <3>2. Len(Front(z)) < Len(z)
      BY <1>1, <2>2, SplitLast
    <3>3. PathBits[Front(z)] \in Seq(Bit)
      BY <1>4, <3>1, <3>2
    <3>4. PathBits[z] \in Seq(Bit)
      BY <1>3, <2>2, <3>1, <3>3, Joined
    <3> QED BY <3>4
  <2> QED BY <2>1, <2>2
<1> HIDE DEF P
<1>5. \A z \in DOMAIN T : z \in P
  BY <1>1, <1>4, Upward
<1> QED BY <1>1, <1>2, <1>3, <1>5 DEF P

\* The bits of a path extended by one step.
LEMMA NextPath ==
  ASSUME WithinCapacity, NEW p \in Seq(Nat), NEW i \in Nat, p \o <<i>> \in DOMAIN T
  PROVE  /\ p \in DOMAIN T /\ T[p].size \in Nat /\ T[p].kind # "leaf" /\ i < Pow2[Depth(T[p])]
         /\ StepBits(T[p], i) \in Seq(Bit) /\ PathBits[p] \in Seq(Bit)
         /\ PathBits[p \o <<i>>] = PathBits[p] \o StepBits(T[p], i)
<1> DEFINE q == p \o <<i>>
<1>1. q # <<>> /\ Front(q) = p /\ Last(q) = i /\ q \in DOMAIN T
  BY FrontIs
<1> HIDE DEF q
<1>2. /\ Front(q) \in DOMAIN T /\ T[Front(q)].size \in Nat /\ T[Front(q)].kind # "leaf"
      /\ Last(q) < Pow2[Depth(T[Front(q)])]
      /\ StepBits(T[Front(q)], Last(q)) \in Seq(Bit)
  BY <1>1, StepIn
<1>3. PathBits[q] = PathBits[Front(q)] \o StepBits(T[Front(q)], Last(q)) /\ PathBits[Front(q)] \in Seq(Bit)
  BY <1>1, <1>2, PathBitsIs
<1> QED BY <1>1, <1>2, <1>3 DEF q

\* A path on the way to another leads to a place on the way to the other's.
LEMMA PathOrder ==
  ASSUME WithinCapacity, NEW p \in DOMAIN T
  PROVE  \A q \in DOMAIN T : IsPrefix(p, q) => IsPrefix(PathBits[p], PathBits[q])
<1> DEFINE P == {q \in DOMAIN T : IsPrefix(p, q) => IsPrefix(PathBits[p], PathBits[q])}
<1>1. DOMAIN T \in SUBSET Seq(Nat)
  BY ShapeAssumption DEF IsShape
<1>2. ASSUME NEW q \in DOMAIN T, \A r \in DOMAIN T : Len(r) < Len(q) => r \in P, IsPrefix(p, q)
      PROVE  IsPrefix(PathBits[p], PathBits[q])
  <2>1. PathBits[p] \in Seq(Bit) /\ PathBits[q] \in Seq(Bit)
    BY PathBitsIs
  <2>2. CASE p = q
    BY <2>1, <2>2, PrefixOrder
  <2>3. CASE p # q
    <3>1. q # <<>>
      BY <1>1, <1>2, <2>3, PrefixOrder
    <3>2. /\ Front(q) \in Seq(Nat) /\ Last(q) \in Nat /\ q = Front(q) \o <<Last(q)>>
          /\ Front(q) \in DOMAIN T /\ StepBits(T[Front(q)], Last(q)) \in Seq(Bit)
      BY <3>1, StepIn
    <3>3. IsPrefix(p, Front(q))
      BY <1>1, <1>2, <2>3, <3>2, PrefixOfNext
    <3>4. Len(Front(q)) < Len(q)
      BY <1>1, <3>1, SplitLast
    <3>5. IsPrefix(PathBits[p], PathBits[Front(q)]) /\ PathBits[Front(q)] \in Seq(Bit)
      BY <1>2, <3>2, <3>3, <3>4, PathBitsIs
    <3>6. PathBits[q] = PathBits[Front(q)] \o StepBits(T[Front(q)], Last(q))
      BY <3>1, PathBitsIs
    <3>7. IsPrefix(PathBits[Front(q)], PathBits[q])
      BY <3>2, <3>5, <3>6, PrefixOf
    <3> QED BY <2>1, <3>5, <3>7, PrefixOrder
  <2> QED BY <2>2, <2>3
<1>3. ASSUME NEW q \in DOMAIN T, \A r \in DOMAIN T : Len(r) < Len(q) => r \in P PROVE q \in P
  BY <1>2, <1>3
<1> HIDE DEF P
<1>4. \A q \in DOMAIN T : q \in P
  BY <1>1, <1>3, Upward
<1> QED BY <1>4 DEF P

\* Under place b of tree O lies n.
Sits(O, b, n) ==
  \A y \in Seq(Bit) : /\ b \o y \in DOMAIN O <=> y \in DOMAIN n
                      /\ y \in DOMAIN n => O[b \o y] = n[y]

\* What lies under a place of what lies under a place.
LEMMA SitsBelow ==
  ASSUME NEW O, NEW n, NEW m, NEW b \in Seq(Bit), NEW c \in Seq(Bit), Sits(O, b, n), Sits(n, c, m)
  PROVE  Sits(O, b \o c, m)
<1> SUFFICES ASSUME NEW y \in Seq(Bit)
             PROVE  /\ (b \o c) \o y \in DOMAIN O <=> y \in DOMAIN m
                    /\ y \in DOMAIN m => O[(b \o c) \o y] = m[y]
  BY DEF Sits
<1> DEFINE x == c \o y
<1>1. x \in Seq(Bit)
  BY Joined
<1>2. (b \o c) \o y = b \o x
  BY Assoc
<1>3. (x \in DOMAIN n <=> y \in DOMAIN m) /\ (y \in DOMAIN m => n[x] = m[y])
  BY DEF Sits
<1> HIDE DEF x
<1>4. (b \o x \in DOMAIN O <=> x \in DOMAIN n) /\ (x \in DOMAIN n => O[b \o x] = n[x])
  BY <1>1 DEF Sits
<1> QED BY <1>2, <1>3, <1>4

\* The tree of a part holds that of each part of its own.
LEMMA PartSits ==
  ASSUME WithinCapacity, NEW v, IsValue(T, v), NEW p \in Seq(Nat), p \in DOMAIN v,
         NEW k \in Nat, k \in 1..v[p], T[p].kind # "leaf"
  PROVE  Sits(OfShape(T, v, p), StepBits(T[p], k - 1), OfShape(T, v, p \o <<k - 1>>))
<1>0. IsShape(T)
  BY ShapeAssumption
<1>1. ASSUME NEW y \in Seq(Bit)
      PROVE  /\ StepBits(T[p], k - 1) \o y \in DOMAIN OfShape(T, v, p)
                 <=> y \in DOMAIN OfShape(T, v, p \o <<k - 1>>)
             /\ y \in DOMAIN OfShape(T, v, p \o <<k - 1>>)
                 => OfShape(T, v, p)[StepBits(T[p], k - 1) \o y] = OfShape(T, v, p \o <<k - 1>>)[y]
  BY <1>0, ShapeHolds
<1> QED BY <1>1 DEF Sits

\* The last step of a path to a part of a value.
LEMMA NextOf ==
  ASSUME NEW v, IsValue(T, v), NEW q \in DOMAIN v, q # <<>>
  PROVE  /\ q \in DOMAIN T /\ Front(q) \in DOMAIN v /\ v[Front(q)] \in Nat
         /\ Last(q) < v[Front(q)] /\ Front(q) \in Seq(Nat) /\ Last(q) \in Nat
         /\ q = Front(q) \o <<Last(q)>> /\ Len(Front(q)) < Len(q)
         /\ T[Front(q)].kind # "leaf"
<1>0. IsShape(T)
  BY ShapeAssumption
<1>1. q \in DOMAIN T
  BY DEF IsValue
<1>2. q \in DOMAIN v <=> Front(q) \in DOMAIN v /\ Last(q) < v[Front(q)]
  BY <1>1 DEF IsValue
<1>3. v[Front(q)] \in Nat
  BY <1>2 DEF IsValue
<1>4. q \in Seq(Nat) /\ T[Front(q)].kind # "leaf"
  BY <1>0, <1>1 DEF IsShape
<1> QED BY <1>1, <1>2, <1>3, <1>4, SplitLast

\* The tree of a value holds that of each part at the bits of its path.
LEMMA PathSits ==
  ASSUME WithinCapacity, NEW v, IsValue(T, v)
  PROVE  \A p \in DOMAIN v : Sits(OfShape(T, v, <<>>), PathBits[p], OfShape(T, v, p))
<1> DEFINE O == OfShape(T, v, <<>>)
           Of(p) == OfShape(T, v, p)
           D == DOMAIN v
           P == {p \in D : Sits(O, PathBits[p], Of(p))}
<1>0. IsShape(T)
  BY ShapeAssumption
<1>1. D \in SUBSET Seq(Nat) /\ D \subseteq DOMAIN T
  BY <1>0, ValueIs DEF FrontClosed
<1>2. ASSUME NEW q \in D, \A r \in D : Len(r) < Len(q) => r \in P PROVE q \in P
  <2>1. CASE q = <<>>
    <3>1. \A y \in Seq(Bit) : PathBits[q] \o y = y
      BY <2>1, PathBitsIs, ConcatEmptySeq
    <3>2. Of(q) = O
      BY <2>1
    <3> HIDE DEF O, Of
    <3>3. Sits(O, PathBits[q], Of(q))
      BY <3>1, <3>2 DEF Sits
    <3> QED BY <3>3
  <2>2. CASE q # <<>>
    <3> DEFINE p == Front(q)
               i == Last(q)
               k == i + 1
    <3>1. /\ q \in DOMAIN T /\ p \in DOMAIN v /\ v[p] \in Nat /\ i < v[p] /\ p \in Seq(Nat) /\ i \in Nat
          /\ q = p \o <<i>> /\ Len(p) < Len(q) /\ T[p].kind # "leaf"
      BY <2>2, NextOf
    <3>2. PathBits[q] = PathBits[p] \o StepBits(T[p], i) /\ PathBits[p] \in Seq(Bit)
      BY <1>1, <2>2, <3>1, PathBitsIs
    <3>3. StepBits(T[p], i) \in Seq(Bit)
      BY <2>2, <3>1, StepIn
    <3>4. Sits(O, PathBits[p], Of(p))
      BY <1>2, <3>1
    <3> HIDE DEF p, i
    <3>5. k \in 1..v[p] /\ k - 1 = i /\ k \in Nat
      <4>1. i \in Nat /\ v[p] \in Nat /\ i < v[p]
        BY <3>1
      <4> QED BY ONLY <4>1
    <3> HIDE DEF k
    <3>6. Sits(Of(p), StepBits(T[p], i), Of(q))
      <4>1. Sits(OfShape(T, v, p), StepBits(T[p], k - 1), OfShape(T, v, p \o <<k - 1>>))
        BY <3>1, <3>5, PartSits
      <4> QED BY <3>1, <3>5, <4>1
    <3> HIDE DEF O, Of
    <3>7. Sits(O, PathBits[q], Of(q))
      BY <3>2, <3>3, <3>4, <3>6, SitsBelow
    <3> QED BY <3>7
  <2> QED BY <2>1, <2>2
<1>3. \A q \in D : q \in P
  <2> HIDE DEF P, D
  <2> QED BY <1>1, <1>2, Upward
<1> QED BY <1>3 DEF P

-----------------------------------------------------------------------------
(* Paths that lead to the same place.                                      *)

\* Concatenations with the empty sequence.
LEMMA EmptyJoin ==
  ASSUME NEW A, NEW a \in Seq(A), NEW b \in Seq(A)
  PROVE  /\ a \o b = a => b = <<>>
         /\ a \o <<>> = a
<1>1. Len(a \o b) = Len(a) + Len(b) /\ Len(a) \in Nat /\ Len(b) \in Nat
  BY Concat, LenProperties
<1>2. ASSUME a \o b = a PROVE b = <<>>
  <2>1. Len(b) = 0
    BY <1>1, <1>2
  <2> QED BY <2>1, EmptySeq
<1>3. a \o <<>> = a
  BY ConcatEmptySeq
<1> QED BY <1>2, <1>3

\* Prefixes of one sequence that begin and end alike are equal.
LEMMA SameAfter ==
  ASSUME NEW a \in Seq(Bit), NEW b \in Seq(Bit), NEW c \in Seq(Bit), Len(b) = Len(c), NEW u \in Seq(Bit),
         IsPrefix(a \o b, u), IsPrefix(a \o c, u)
  PROVE  b = c
<1> DEFINE x == a \o b
           y == a \o c
<1>1. x \in Seq(Bit) /\ y \in Seq(Bit)
  BY Joined
<1>2. Len(x) = Len(a) + Len(b) /\ Len(y) = Len(a) + Len(c)
  BY Concat
<1>3. IsPrefix(x, u) /\ IsPrefix(y, u)
  OBVIOUS
<1> HIDE DEF x, y
<1>4. Len(x) = Len(y) /\ Len(x) \in Nat /\ Len(y) \in Nat
  BY <1>1, <1>2, LenProperties
<1>5. x = y
  BY <1>1, <1>3, <1>4, PrefixLinear, PrefixOrder
<1>6. a \o b = a \o c
  BY <1>5 DEF x, y
<1> QED BY <1>6, Cancel

\* Two steps to the same place are one.
LEMMA StepsSame ==
  ASSUME NEW s, s.size \in Nat, NEW i \in Nat, i < Pow2[Depth(s)], NEW j \in Nat, j < Pow2[Depth(s)],
         NEW a \in Seq(Bit), NEW u \in Seq(Bit),
         IsPrefix(a \o StepBits(s, i), u), IsPrefix(a \o StepBits(s, j), u)
  PROVE  i = j
<1>1. PICK b \in Seq(Bit) : /\ Slot(b, Depth(s), i + 1)
                            /\ s.kind = "list" => StepBits(s, i) = <<0>> \o b
                            /\ s.kind # "list" => StepBits(s, i) = b
  BY StepSlot
<1>2. PICK c \in Seq(Bit) : /\ Slot(c, Depth(s), j + 1)
                            /\ s.kind = "list" => StepBits(s, j) = <<0>> \o c
                            /\ s.kind # "list" => StepBits(s, j) = c
  BY StepSlot
<1>3. /\ Len(b) = Depth(s) /\ Number(b) = i /\ Len(c) = Depth(s) /\ Number(c) = j
      /\ Len(b) \in Nat /\ Len(c) \in Nat
  BY <1>1, <1>2, LenProperties DEF Slot
<1>4. CASE s.kind = "list"
  <2> DEFINE e == a \o <<0>>
  <2>1. e \in Seq(Bit)
    BY FirstBit, Joined
  <2>2. a \o StepBits(s, i) = e \o b /\ a \o StepBits(s, j) = e \o c
    <3>0. <<0>> \in Seq(Bit)
      BY FirstBit
    <3>a. \A y, x \in Seq(Bit) : (a \o y) \o x = a \o (y \o x)
      <4> HIDE DEF e
      <4> QED BY AssocBits
    <3>1. ASSUME NEW x \in Seq(Bit) PROVE e \o x = a \o (<<0>> \o x)
      BY <3>0, <3>a, Zenon
    <3> QED BY <1>1, <1>2, <1>4, <3>1
  <2> HIDE DEF e
  <2>3. IsPrefix(e \o b, u) /\ IsPrefix(e \o c, u)
    BY <2>2
  <2>4. b = c
    BY <1>3, <2>1, <2>3, SameAfter
  <2> QED BY <1>3, <2>4
<1>5. CASE s.kind # "list"
  <2>1. IsPrefix(a \o b, u) /\ IsPrefix(a \o c, u)
    BY <1>1, <1>2, <1>5
  <2>2. b = c
    BY <1>3, <2>1, SameAfter
  <2> QED BY <1>3, <2>2
<1> QED BY <1>4, <1>5

\* A step that goes nowhere is that to the only part.
LEMMA StepNone ==
  ASSUME NEW s, s.size \in Nat, NEW i \in Nat, i < Pow2[Depth(s)], StepBits(s, i) = <<>>
  PROVE  s.kind # "list" /\ s.size <= 1 /\ i = 0
<1>1. PICK b \in Seq(Bit) : /\ Slot(b, Depth(s), i + 1)
                            /\ s.kind = "list" => StepBits(s, i) = <<0>> \o b
                            /\ s.kind # "list" => StepBits(s, i) = b
  BY StepSlot
<1>2. s.kind # "list"
  <2>1. <<0>> \o b # <<>>
    <3>1. Len(<<0>> \o b) = Len(<<0>>) + Len(b) /\ Len(<<0>>) = 1 /\ Len(b) \in Nat
      BY FirstBit, Concat, LenProperties
    <3>2. Len(<<0>> \o b) # 0
      BY <3>1
    <3> QED BY <3>2, FirstBit
  <2> QED BY <1>1, <2>1
<1>3. b = <<>>
  BY <1>1, <1>2
<1>4. Len(b) = 0
  BY <1>3, FirstBit
<1>5. Depth(s) = 0
  BY <1>1, <1>4 DEF Slot
<1>6. s.size <= 1
  BY <1>5, ChunkDepthIs DEF Depth
<1>7. i = 0
  <2>1. Pow2[Depth(s)] = 1
    BY <1>5, Pow2Is
  <2> QED BY <2>1
<1> QED BY <1>2, <1>6, <1>7

\* A value has every part on the way to one of its parts.
LEMMA PrefixIn ==
  ASSUME NEW v, IsValue(T, v), NEW p \in DOMAIN v, NEW n \in Seq(Nat), IsPrefix(n, p)
  PROVE  n \in DOMAIN v
<1> DEFINE D == DOMAIN v
           P == {q \in D : IsPrefix(n, q) => n \in D}
<1>1. FrontClosed(Nat, D)
  BY ShapeAssumption, ValueIs
<1>2. D \in SUBSET Seq(Nat) /\ \A q \in D \ {<<>>} : Front(q) \in D
  BY <1>1 DEF FrontClosed
<1>3. ASSUME NEW q \in D, \A r \in D : Len(r) < Len(q) => r \in P, IsPrefix(n, q) PROVE n \in D
  <2>1. CASE n = q
    BY <2>1
  <2>2. CASE n # q
    <3>1. q # <<>>
      BY <1>2, <1>3, <2>2, PrefixOrder
    <3>2. Front(q) \in Seq(Nat) /\ Last(q) \in Nat /\ q = Front(q) \o <<Last(q)>> /\ Len(Front(q)) < Len(q)
      BY <1>2, <3>1, SplitLast
    <3>3. IsPrefix(n, Front(q))
      BY <1>3, <2>2, <3>2, PrefixOfNext
    <3>4. Front(q) \in P
      BY <1>2, <1>3, <3>1, <3>2
    <3> QED BY <3>3, <3>4
  <2> QED BY <2>1, <2>2
<1>4. ASSUME NEW q \in D, \A r \in D : Len(r) < Len(q) => r \in P PROVE q \in P
  BY <1>3, <1>4
<1>5. \A q \in D : q \in P
  <2> HIDE DEF P, D
  <2> QED BY <1>2, <1>4, Upward
<1> QED BY <1>5

\* What lies on the way to a part of a value is a part of it: the path to it
\* is a part of the other, or leads on to the only part there is.
LEMMA Reaches ==
  ASSUME WithinCapacity, NEW v, IsValue(T, v), NEW p \in DOMAIN v
  PROVE  \A q \in DOMAIN T : IsPrefix(PathBits[q], PathBits[p]) => q \in DOMAIN v
<1> DEFINE D == DOMAIN T
           u == PathBits[p]
           P == {q \in D : IsPrefix(PathBits[q], u) =>
                             q \in DOMAIN v /\ (IsPrefix(q, p) \/ IsPrefix(p, q))}
<1>0. IsShape(T)
  BY ShapeAssumption
<1>1. D \in SUBSET Seq(Nat) /\ p \in D /\ <<>> \in DOMAIN v /\ p \in Seq(Nat)
  BY <1>0 DEF IsShape, IsValue
<1>2. u \in Seq(Bit)
  BY <1>1, PathBitsIs
<1> HIDE DEF u
<1>3. ASSUME NEW q \in D, \A r \in D : Len(r) < Len(q) => r \in P, IsPrefix(PathBits[q], u)
      PROVE  q \in DOMAIN v /\ (IsPrefix(q, p) \/ IsPrefix(p, q))
  <2>1. CASE q = <<>>
    BY <1>1, <2>1, PrefixOrder
  <2>2. CASE q # <<>>
    <3> DEFINE r == Front(q)
               j == Last(q)
               s == T[r]
    <3>1. /\ r \in Seq(Nat) /\ j \in Nat /\ q = r \o <<j>> /\ r \in D /\ s.size \in Nat /\ s.kind # "leaf"
          /\ j < Pow2[Depth(s)] /\ StepBits(s, j) \in Seq(Bit)
      BY <2>2, StepIn
    <3>2. PathBits[q] = PathBits[r] \o StepBits(s, j) /\ PathBits[r] \in Seq(Bit) /\ PathBits[q] \in Seq(Bit)
      BY <2>2, <3>1, PathBitsIs
    <3>3. Len(r) < Len(q)
      BY <1>1, <2>2, SplitLast
    <3>4. q \in DOMAIN v <=> r \in DOMAIN v /\ j < v[r]
      BY <2>2 DEF IsValue
    <3>10. s.kind = "container" => j < s.size
      BY <1>0, <2>2 DEF IsShape
    <3> HIDE DEF r, j
    <3>5. IsPrefix(PathBits[r], PathBits[q])
      BY <3>1, <3>2, PrefixOf
    <3>6. IsPrefix(PathBits[r], u)
      BY <1>2, <1>3, <3>2, <3>5, PrefixOrder
    <3>7. r \in DOMAIN v /\ (IsPrefix(r, p) \/ IsPrefix(p, r))
      BY <1>3, <3>1, <3>3, <3>6
    <3>8. CASE IsPrefix(p, r)
      <4>1. IsPrefix(u, PathBits[r])
        BY <1>1, <3>1, <3>8, PathOrder DEF u
      <4>2. PathBits[q] = PathBits[r]
        BY <1>2, <1>3, <3>2, <3>5, <4>1, PrefixOrder
      <4>3. StepBits(s, j) = <<>>
        <5>1. PathBits[r] \o StepBits(s, j) = PathBits[r]
          BY <3>2, <4>2
        <5>2. PathBits[r] \in Seq(Bit) /\ StepBits(s, j) \in Seq(Bit)
          BY <3>1, <3>2
        <5> HIDE DEF s
        <5> QED BY <5>1, <5>2, EmptyJoin
      <4>4. s.kind # "list" /\ s.size <= 1 /\ j = 0
        <5> HIDE DEF s
        <5> QED BY <3>1, <4>3, StepNone
      <4>5. v[r] = s.size /\ (s.kind = "vector" => s.size > 0) /\ s.kind \in {"container", "vector"}
        BY <1>0, <3>1, <3>7, <4>4 DEF IsShape, IsValue
      <4>6. j < v[r]
        <5> HIDE DEF s
        <5> QED BY <3>1, <3>10, <4>4, <4>5
      <4>7. IsPrefix(p, q)
        BY <1>1, <3>1, <3>8, PrefixOfNext
      <4> QED BY <3>4, <3>7, <4>6, <4>7
    <3>9. CASE ~IsPrefix(p, r)
      <4>1. PICK x \in Seq(Nat) : p = r \o x
        BY <1>1, <3>1, <3>7, <3>9, PrefixHas
      <4>2. x # <<>>
        BY <1>1, <3>1, <3>9, <4>1, EmptyJoin, PrefixOrder
      <4>3. PICK i \in Nat : \E y \in Seq(Nat) : x = <<i>> \o y
        BY <4>2, SplitFirst
      <4>4. PICK y \in Seq(Nat) : x = <<i>> \o y
        BY <4>3
      <4> DEFINE n == r \o <<i>>
      <4>5. n \in Seq(Nat) /\ p = n \o y
        <5>1. <<i>> \in Seq(Nat)
          BY Single
        <5>2. n \in Seq(Nat)
          BY <3>1, <5>1, Joined
        <5>3. n \o y = r \o (<<i>> \o y)
          BY <3>1, <5>1, Assoc
        <5> QED BY <4>1, <4>4, <5>2, <5>3
      <4>6. IsPrefix(n, p)
        BY <4>4, <4>5, PrefixOf
      <4>7. n \in DOMAIN v
        BY <1>1, <4>5, <4>6, PrefixIn
      <4>8. n \in D
        BY <4>7 DEF IsValue
      <4>9. i < Pow2[Depth(s)] /\ StepBits(s, i) \in Seq(Bit) /\ PathBits[n] = PathBits[r] \o StepBits(s, i)
        BY <3>1, <4>8, NextPath
      <4>10. IsPrefix(PathBits[n], u)
        BY <1>1, <4>6, <4>8, PathOrder DEF u
      <4> HIDE DEF s, n
      <4>11. i = j
        BY <1>2, <1>3, <3>1, <3>2, <4>9, <4>10, StepsSame
      <4>12. q = n
        BY <3>1, <4>11 DEF n
      <4> QED BY <4>6, <4>7, <4>12
    <3> QED BY <3>8, <3>9
  <2> QED BY <2>1, <2>2
<1>4. ASSUME NEW q \in D, \A r \in D : Len(r) < Len(q) => r \in P PROVE q \in P
  BY <1>3, <1>4
<1>5. \A q \in D : q \in P
  <2> HIDE DEF P, D
  <2> QED BY <1>1, <1>4, Upward
<1> QED BY <1>5 DEF P, u

-----------------------------------------------------------------------------
(* Writes: a part replaced.                                                *)

\* The part of a function at p, element by element.
LEMMA PartIs ==
  ASSUME NEW A, NEW f, DOMAIN f \in SUBSET Seq(A), NEW p \in Seq(A)
  PROVE  /\ DOMAIN Part(f, p) \in SUBSET Seq(A)
         /\ \A q \in Seq(A) : /\ q \in DOMAIN Part(f, p) <=> p \o q \in DOMAIN f
                              /\ q \in DOMAIN Part(f, p) => Part(f, p)[q] = f[p \o q]
<1> DEFINE D == {SubSeq(r, Len(p) + 1, Len(r)) : r \in {r \in DOMAIN f : IsPrefix(p, r)}}
<1>1. Part(f, p) = [q \in D |-> f[p \o q]]
  BY DEF Part
<1>2. \A q \in D : q \in Seq(A) /\ p \o q \in DOMAIN f
  <2> SUFFICES ASSUME NEW q \in D PROVE q \in Seq(A) /\ p \o q \in DOMAIN f
    OBVIOUS
  <2>1. PICK r \in DOMAIN f : IsPrefix(p, r) /\ q = SubSeq(r, Len(p) + 1, Len(r))
    OBVIOUS
  <2>2. q \in Seq(A) /\ r = p \o q
    BY <2>1, RestOf
  <2> QED BY <2>2
<1>3. ASSUME NEW q \in Seq(A), p \o q \in DOMAIN f PROVE q \in D
  <2> DEFINE r == p \o q
  <2>1. IsPrefix(p, r) /\ SubSeq(r, Len(p) + 1, Len(r)) = q
    BY Rest
  <2>2. r \in DOMAIN f
    BY <1>3
  <2> HIDE DEF r
  <2> QED BY <2>1, <2>2
<1> HIDE DEF D
<1> QED BY <1>1, <1>2, <1>3

\* A function with its part at p replaced: elsewhere as it was, below p the new
\* part.
LEMMA GraftedIs ==
  ASSUME NEW A, NEW f, DOMAIN f \in SUBSET Seq(A), NEW p \in Seq(A), NEW g, DOMAIN g \in SUBSET Seq(A)
  PROVE  LET h == Grafted(f, p, g)
         IN  /\ DOMAIN h \in SUBSET Seq(A)
             /\ \A r \in Seq(A) : ~IsPrefix(p, r) => /\ r \in DOMAIN h <=> r \in DOMAIN f
                                                     /\ r \in DOMAIN h => h[r] = f[r]
             /\ \A q \in Seq(A) : /\ p \o q \in DOMAIN h <=> q \in DOMAIN g
                                  /\ q \in DOMAIN g => h[p \o q] = g[q]
<1> DEFINE d == [r \in {r \in DOMAIN f : ~IsPrefix(p, r)} |-> f[r]]
           e == Placed(p, g)
           h == Overlaid(d, e)
<1>1. Grafted(f, p, g) = h
  BY DEF Grafted
<1>2. /\ \A r \in DOMAIN d : r \in Seq(A) /\ ~IsPrefix(p, r) /\ r \in DOMAIN f /\ d[r] = f[r]
      /\ \A r \in DOMAIN f : ~IsPrefix(p, r) => r \in DOMAIN d
  OBVIOUS
<1>3. /\ \A z \in DOMAIN e : z \in Seq(A) /\ IsPrefix(p, z)
      /\ \A q \in Seq(A) : /\ p \o q \in DOMAIN e <=> q \in DOMAIN g
                           /\ q \in DOMAIN g => e[p \o q] = g[q]
  BY PlacedIs
<1> HIDE DEF d, e
<1>4. /\ DOMAIN h = DOMAIN d \union DOMAIN e
      /\ \A x \in DOMAIN d : h[x] = d[x]
      /\ \A x \in DOMAIN e \ DOMAIN d : h[x] = e[x]
  BY OverlaidIs
<1> HIDE DEF h
<1>5. DOMAIN h \in SUBSET Seq(A)
  BY <1>2, <1>3, <1>4
<1>6. ASSUME NEW r \in Seq(A), ~IsPrefix(p, r)
      PROVE  (r \in DOMAIN h <=> r \in DOMAIN f) /\ (r \in DOMAIN h => h[r] = f[r])
  BY <1>2, <1>3, <1>4, <1>6
<1>7. ASSUME NEW q \in Seq(A)
      PROVE  (p \o q \in DOMAIN h <=> q \in DOMAIN g) /\ (q \in DOMAIN g => h[p \o q] = g[q])
  <2> DEFINE x == p \o q
  <2>1. IsPrefix(p, x) /\ (x \in DOMAIN e <=> q \in DOMAIN g) /\ (q \in DOMAIN g => e[x] = g[q])
    BY <1>3, PrefixOf
  <2> HIDE DEF x
  <2>2. x \notin DOMAIN d
    BY <1>2, <2>1
  <2>3. (x \in DOMAIN h <=> q \in DOMAIN g) /\ (q \in DOMAIN g => h[x] = g[q])
    BY <1>4, <2>1, <2>2
  <2> QED BY <2>3 DEF x
<1> QED BY <1>1, <1>5, <1>6, <1>7

\* What a write leaves is a value.
LEMMA GraftedValue ==
  ASSUME NEW v, IsValue(T, v), NEW p \in DOMAIN v, NEW w, IsValue(Part(T, p), w)
  PROVE  IsValue(T, Grafted(v, p, w))
<1> DEFINE S == Part(T, p)
           h == Grafted(v, p, w)
<1>0. IsShape(T)
  BY ShapeAssumption
<1>1. /\ DOMAIN T \in SUBSET Seq(Nat) /\ DOMAIN v \in SUBSET Seq(Nat) /\ p \in Seq(Nat) /\ p \in DOMAIN T
      /\ DOMAIN v \subseteq DOMAIN T
  BY <1>0 DEF IsShape, IsValue
<1>2. /\ DOMAIN S \in SUBSET Seq(Nat)
      /\ \A q \in Seq(Nat) : /\ q \in DOMAIN S <=> p \o q \in DOMAIN T
                             /\ q \in DOMAIN S => S[q] = T[p \o q]
  BY <1>1, PartIs
<1>3. IsValue(S, w)
  OBVIOUS
<1> HIDE DEF S
<1>4. DOMAIN w \in SUBSET Seq(Nat) /\ <<>> \in DOMAIN w /\ DOMAIN w \subseteq DOMAIN S
  BY <1>2, <1>3 DEF IsValue
<1>5. /\ DOMAIN h \in SUBSET Seq(Nat)
      /\ \A r \in Seq(Nat) : ~IsPrefix(p, r) => /\ r \in DOMAIN h <=> r \in DOMAIN v
                                                /\ r \in DOMAIN h => h[r] = v[r]
      /\ \A q \in Seq(Nat) : /\ p \o q \in DOMAIN h <=> q \in DOMAIN w
                             /\ q \in DOMAIN w => h[p \o q] = w[q]
  BY <1>1, <1>4, GraftedIs
<1> HIDE DEF h
<1>6. ASSUME NEW r \in DOMAIN h
      PROVE  /\ r \in DOMAIN T /\ h[r] \in Nat
             /\ T[r].kind \in {"container", "vector"} => h[r] = T[r].size
             /\ T[r].kind = "list" => h[r] <= T[r].size
  <2>1. CASE ~IsPrefix(p, r)
    BY <1>1, <1>5, <1>6, <2>1 DEF IsValue
  <2>2. CASE IsPrefix(p, r)
    <3>1. PICK q \in Seq(Nat) : r = p \o q
      BY <1>1, <1>5, <1>6, <2>2, PrefixHas
    <3>2. q \in DOMAIN w /\ h[r] = w[q] /\ q \in DOMAIN S /\ r \in DOMAIN T /\ S[q] = T[r]
      BY <1>2, <1>4, <1>5, <1>6, <3>1
    <3> QED BY <1>3, <3>2 DEF IsValue
  <2> QED BY <2>1, <2>2
<1>7. p \o <<>> = p /\ p \in DOMAIN h
  <2>1. p \o <<>> = p
    BY <1>1, EmptyJoin, EmptySeq
  <2>2. p \o <<>> \in DOMAIN h
    BY <1>4, <1>5
  <2> QED BY <2>1, <2>2
<1>8. <<>> \in DOMAIN h
  <2>1. CASE p = <<>>
    BY <1>7, <2>1
  <2>2. CASE p # <<>>
    <3>1. ~IsPrefix(p, <<>>)
      BY <1>1, <2>2, PrefixOrder
    <3> QED BY <1>1, <1>5, <3>1 DEF IsValue
  <2> QED BY <2>1, <2>2
<1>9. ASSUME NEW r \in DOMAIN T \ {<<>>}
      PROVE  r \in DOMAIN h <=> Front(r) \in DOMAIN h /\ Last(r) < h[Front(r)]
  <2> DEFINE f == Front(r)
             a == Last(r)
  <2>1. r \in Seq(Nat) /\ f \in Seq(Nat) /\ a \in Nat /\ r = f \o <<a>>
    BY <1>1, <1>9, SplitLast
  <2>2. r \in DOMAIN v <=> f \in DOMAIN v /\ a < v[f]
    BY <1>9 DEF IsValue
  <2>3. Len(f) < Len(r) /\ Len(f) \in Nat /\ Len(r) \in Nat
    BY <1>9, <2>1, SplitLast, LenProperties
  <2> HIDE DEF f, a
  <2>4. IsPrefix(p, r) <=> IsPrefix(p, f) \/ p = r
    <3>1. IsPrefix(p, f \o <<a>>) <=> IsPrefix(p, f) \/ p = f \o <<a>>
      BY <1>1, <2>1, PrefixOfNext
    <3> QED BY <2>1, <3>1
  <2>5. CASE ~IsPrefix(p, r)
    BY <1>5, <2>1, <2>2, <2>4, <2>5 DEF f, a
  <2>6. CASE p = r
    <3>1. ~IsPrefix(p, f)
      <4>1. p \in Seq(Nat) /\ f \in Seq(Nat) /\ Len(f) < Len(p) /\ Len(f) \in Nat /\ Len(p) \in Nat
        BY <1>1, <2>1, <2>3, <2>6
      <4>2. IsPrefix(p, f) => Len(p) <= Len(f)
        BY <4>1, PrefixOrder
      <4> QED BY <4>1, <4>2
    <3>2. f \in DOMAIN h /\ a < h[f]
      BY <1>5, <2>1, <2>2, <2>6, <3>1
    <3> QED BY <1>7, <2>6, <3>2 DEF f, a
  <2>7. CASE IsPrefix(p, f)
    <3>1. PICK q \in Seq(Nat) : f = p \o q
      <4>1. p \in Seq(Nat) /\ f \in Seq(Nat)
        BY <1>1, <2>1
      <4> QED BY <2>7, <4>1, PrefixHas
    <3> DEFINE e == q \o <<a>>
    <3>2. e \in Seq(Nat) /\ e # <<>> /\ Front(e) = q /\ Last(e) = a
      BY <2>1, FrontIs
    <3>3. r = p \o e
      <4>0. <<a>> \in Seq(Nat)
        BY <2>1, Single
      <4>1. (p \o q) \o <<a>> = p \o (q \o <<a>>)
        <5>1. p \in Seq(Nat)
          BY <1>1
        <5> QED BY <4>0, <5>1, Assoc
      <4> QED BY <2>1, <3>1, <4>1
    <3> HIDE DEF e
    <3>4. e \in DOMAIN S
      BY <1>2, <1>9, <3>2, <3>3
    <3>5. e \in DOMAIN w <=> q \in DOMAIN w /\ a < w[q]
      BY <1>3, <3>2, <3>4 DEF IsValue
    <3>6. r \in DOMAIN h <=> e \in DOMAIN w
      BY <1>5, <3>2, <3>3
    <3>7. (f \in DOMAIN h <=> q \in DOMAIN w) /\ (q \in DOMAIN w => h[f] = w[q])
      BY <1>5, <3>1
    <3> QED BY <3>5, <3>6, <3>7 DEF f, a
  <2> QED BY <2>4, <2>5, <2>6, <2>7
<1>10. IsValue(T, h)
  BY <1>6, <1>8, <1>9 DEF IsValue
<1> QED BY <1>10 DEF h

\* Two values that differ at p and below alone.
AgreeBut(v, h, p) ==
  /\ IsValue(T, v) /\ IsValue(T, h) /\ p \in DOMAIN v /\ p \in DOMAIN h
  /\ \A r \in Seq(Nat) : ~IsPrefix(p, r) =>
       /\ r \in DOMAIN v <=> r \in DOMAIN h
       /\ r \in DOMAIN v => v[r] = h[r]

\* What looks alike under one place looks alike in the trees around.
LEMMA LooksIn ==
  ASSUME NEW O, NEW M, NEW n, NEW m, NEW b, Sits(O, b, n), Sits(M, b, m),
         NEW y \in Seq(Bit), Looks(n, m, y)
  PROVE  Looks(O, M, b \o y)
<1> DEFINE w == b \o y
<1>1. (w \in DOMAIN O <=> y \in DOMAIN n) /\ (y \in DOMAIN n => O[w] = n[y])
  BY DEF Sits
<1>2. (w \in DOMAIN M <=> y \in DOMAIN m) /\ (y \in DOMAIN m => M[w] = m[y])
  BY DEF Sits
<1>3. /\ y \in DOMAIN n <=> y \in DOMAIN m
      /\ y \in DOMAIN n => n[y].pair = m[y].pair /\ (~n[y].pair => n[y] = m[y])
  BY DEF Looks
<1> HIDE DEF w
<1>4. Looks(O, M, w)
  BY <1>1, <1>2, <1>3 DEF Looks
<1> QED BY <1>4 DEF w

\* One step down a path that leads on.
LEMMA StepOn ==
  ASSUME NEW A, NEW q \in Seq(A), NEW p \in Seq(A), IsPrefix(q, p), q # p
  PROVE  \E i \in A : IsPrefix(q \o <<i>>, p)
<1>1. PICK x \in Seq(A) : p = q \o x
  BY PrefixHas
<1>2. x # <<>>
  BY <1>1, EmptyJoin
<1>3. PICK i \in A : \E y \in Seq(A) : x = <<i>> \o y
  BY <1>2, SplitFirst
<1>4. PICK y \in Seq(A) : x = <<i>> \o y
  BY <1>3
<1>5. <<i>> \in Seq(A)
  BY Single
<1>6. q \o (<<i>> \o y) = (q \o <<i>>) \o y
  BY <1>5, Assoc
<1>7. q \o <<i>> \in Seq(A)
  BY <1>5, Joined
<1>8. IsPrefix(q \o <<i>>, (q \o <<i>>) \o y)
  BY <1>7, PrefixOf
<1> QED BY <1>1, <1>4, <1>6, <1>8

\* The next step on the way to a path is determined.
LEMMA StepsEqual ==
  ASSUME NEW A, NEW q \in Seq(A), NEW i \in A, NEW j \in A, NEW r \in Seq(A),
         IsPrefix(q \o <<i>>, r), IsPrefix(q \o <<j>>, r)
  PROVE  i = j
<1> DEFINE x == q \o <<i>>
           y == q \o <<j>>
<1>1. x \in Seq(A) /\ y \in Seq(A) /\ Len(x) = Len(y) /\ Len(x) \in Nat /\ Last(x) = i /\ Last(y) = j
  BY FrontIs
<1>2. IsPrefix(x, r) /\ IsPrefix(y, r)
  OBVIOUS
<1> HIDE DEF x, y
<1>3. IsPrefix(x, y)
  BY <1>1, <1>2, PrefixLinear
<1>4. x = y
  BY <1>1, <1>3, PrefixOrder
<1> QED BY <1>1, <1>4

\* A part beside the one that differs has the same tree.
LEMMA OtherPart ==
  ASSUME NEW v, NEW h, NEW p, AgreeBut(v, h, p), NEW q \in Seq(Nat), NEW i \in Nat, NEW j \in Nat, i # j,
         IsPrefix(q \o <<i>>, p), q \o <<j>> \in DOMAIN v
  PROVE  OfShape(T, v, q \o <<j>>) = OfShape(T, h, q \o <<j>>)
<1> DEFINE x == q \o <<j>>
           y == q \o <<i>>
<1>1. x \in Seq(Nat) /\ y \in Seq(Nat)
  BY FrontIs
<1>2. p \in Seq(Nat) /\ IsShape(T) /\ IsValue(T, v) /\ IsValue(T, h)
  BY ShapeAssumption DEF AgreeBut, IsValue, IsShape
<1>3. ASSUME NEW r \in Seq(Nat), IsPrefix(x, r) PROVE ~IsPrefix(p, r)
  <2> SUFFICES ASSUME IsPrefix(p, r) PROVE FALSE
    OBVIOUS
  <2> HIDE DEF x
  <2>0. IsPrefix(y, p)
    OBVIOUS
  <2> HIDE DEF y
  <2>1. IsPrefix(y, r)
    BY <1>1, <1>2, <2>0, PrefixOrder
  <2>2. IsPrefix(q \o <<i>>, r) /\ IsPrefix(q \o <<j>>, r)
    BY <1>3, <2>1 DEF x, y
  <2> QED BY <2>2, StepsEqual
<1>4. \A r \in Seq(Nat) : IsPrefix(x, r) =>
        /\ r \in DOMAIN v <=> r \in DOMAIN h
        /\ r \in DOMAIN v => v[r] = h[r]
  BY <1>3 DEF AgreeBut
<1>5. x \in DOMAIN v
  OBVIOUS
<1> HIDE DEF x
<1>6. OfShape(T, v, x) = OfShape(T, h, x)
  BY <1>2, <1>4, <1>5, ShapeLocal
<1> QED BY <1>6 DEF x

-----------------------------------------------------------------------------
(* A write changes the tree of the value nowhere else.                     *)

\* A step of the induction that follows: below q the trees look alike
\* wherever they do below the next part on the way to p.
LEMMA LocalStep ==
  ASSUME WithinCapacity, NEW v, NEW h, NEW p, AgreeBut(v, h, p),
         NEW q \in DOMAIN v, NEW i \in Nat, q # p, IsPrefix(q, p), IsPrefix(q \o <<i>>, p), NEW z \in Seq(Bit),
         \A y \in Seq(Bit) : z = StepBits(T[q], i) \o y =>
           Looks(OfShape(T, v, q \o <<i>>), OfShape(T, h, q \o <<i>>), y)
  PROVE  Looks(OfShape(T, v, q), OfShape(T, h, q), z)
<1> DEFINE n == q \o <<i>>
           s == T[q]
           c == v[q]
<1>1. IsShape(T) /\ IsValue(T, v) /\ IsValue(T, h) /\ p \in DOMAIN v /\ p \in DOMAIN h
  BY ShapeAssumption DEF AgreeBut
<1>2. p \in Seq(Nat) /\ q \in Seq(Nat) /\ q \in DOMAIN T
  BY <1>1 DEF IsValue, IsShape
<1>3. ~IsPrefix(p, q)
  BY <1>2, PrefixOrder
<1>4. q \in DOMAIN h /\ h[q] = c
  BY <1>2, <1>3 DEF AgreeBut
<1>5. n \in Seq(Nat) /\ n # <<>> /\ Front(n) = q /\ Last(n) = i
  BY <1>2, FrontIs
<1>6. n \in DOMAIN v
  BY <1>1, <1>5, PrefixIn
<1>7. c \in Nat /\ i < c /\ s.kind # "leaf"
  <2> HIDE DEF n
  <2> QED BY <1>1, <1>5, <1>6, NextOf
<1>8. s.size \in Nat /\ c <= s.size
  <2> HIDE DEF c, s
  <2>1. T[q].size \in Nat /\ v[q] <= T[q].size
    BY <1>1, <1>7, ValueParts DEF c, s, Fitting
  <2> QED BY <2>1 DEF c, s
<1>9. Fitting(s, c) /\ Parts(s, c, Kids(T, v, q)) /\ Parts(s, c, Kids(T, h, q))
  <2>1. Fitting(T[q], v[q]) /\ Parts(T[q], v[q], Kids(T, v, q))
    BY <1>1, ValueParts, KidsParts
  <2>2. Parts(T[q], h[q], Kids(T, h, q))
    BY <1>1, <1>4, KidsParts
  <2> QED BY <1>4, <2>1, <2>2
<1>10. OfShape(T, v, q) = Node(s, c, Kids(T, v, q)) /\ OfShape(T, h, q) = Node(s, c, Kids(T, h, q))
  <2>1. OfShape(T, v, q) = Node(T[q], v[q], Kids(T, v, q))
    BY <1>1, OfShapeIs
  <2>2. OfShape(T, h, q) = Node(T[q], h[q], Kids(T, h, q))
    BY <1>1, <1>4, OfShapeIs
  <2> QED BY <1>4, <2>1, <2>2
<1>11. CASE \A k \in 1..c : ~IsPrefix(StepBits(s, k - 1), z)
  <2> HIDE DEF s, c
  <2>1. Looks(Node(s, c, Kids(T, v, q)), Node(s, c, Kids(T, h, q)), z)
    BY <1>9, <1>11, NodeFrame
  <2> QED BY <1>10, <2>1
<1>12. ASSUME NEW k \in 1..c, IsPrefix(StepBits(s, k - 1), z)
       PROVE  Looks(OfShape(T, v, q), OfShape(T, h, q), z)
  <2> DEFINE j == k - 1
             m == q \o <<j>>
             b == StepBits(s, j)
  <2>1. k \in Nat /\ j \in Nat /\ j < c
    BY <1>7
  <2>2. m \in DOMAIN v /\ m \in DOMAIN h
    <3>1. k \in 1..v[q] /\ k \in 1..h[q] /\ T[q].kind # "leaf"
      BY <1>4, <1>7
    <3>2. q \o <<k - 1>> \in DOMAIN v
      BY <1>1, <3>1, ValueParts
    <3>3. q \o <<k - 1>> \in DOMAIN h
      BY <1>1, <1>4, <3>1, ValueParts
    <3> QED BY <3>2, <3>3
  <2>3. b \in Seq(Bit)
    <3>1. q \o <<j>> \in DOMAIN T
      BY <1>1, <2>2 DEF IsValue
    <3> HIDE DEF j
    <3> QED BY <1>2, <2>1, <3>1, NextPath
  <2>4. PICK y \in Seq(Bit) : z = b \o y
    BY <1>12, <2>3, PrefixHas
  <2>5. Looks(OfShape(T, v, m), OfShape(T, h, m), y)
    <3>1. CASE j = i
      <4>1. z = StepBits(T[q], i) \o y
        BY <2>4, <3>1
      <4>2. Looks(OfShape(T, v, q \o <<i>>), OfShape(T, h, q \o <<i>>), y)
        BY <4>1
      <4> QED BY <3>1, <4>2
    <3>2. CASE j # i
      <4> HIDE DEF j
      <4>1. OfShape(T, v, q \o <<j>>) = OfShape(T, h, q \o <<j>>)
        BY <1>2, <2>1, <2>2, <3>2, OtherPart
      <4> QED BY <4>1, LooksSame
    <3> QED BY <3>1, <3>2
  <2>6. Sits(OfShape(T, v, q), b, OfShape(T, v, m)) /\ Sits(OfShape(T, h, q), b, OfShape(T, h, m))
    <3>1. k \in 1..v[q] /\ k \in 1..h[q] /\ T[q].kind # "leaf"
      BY <1>4, <1>7
    <3>2. Sits(OfShape(T, v, q), StepBits(T[q], k - 1), OfShape(T, v, q \o <<k - 1>>))
      BY <1>1, <1>2, <2>1, <3>1, PartSits
    <3>3. Sits(OfShape(T, h, q), StepBits(T[q], k - 1), OfShape(T, h, q \o <<k - 1>>))
      BY <1>1, <1>2, <1>4, <2>1, <3>1, PartSits
    <3> QED BY <3>2, <3>3
  <2> HIDE DEF b, m
  <2>7. Looks(OfShape(T, v, q), OfShape(T, h, q), b \o y)
    BY <2>3, <2>5, <2>6, LooksIn
  <2> QED BY <2>4, <2>7
<1> QED BY <1>11, <1>12

\* The trees of two values that differ at p and below alone look alike
\* outside the tree of the part at p.
LEMMA WriteLocal ==
  ASSUME WithinCapacity, NEW v, NEW h, NEW p, AgreeBut(v, h, p)
  PROVE  \A z \in Seq(Bit) : ~IsPrefix(PathBits[p], z) =>
           Looks(OfShape(T, v, <<>>), OfShape(T, h, <<>>), z)
<1> DEFINE D == {q \in DOMAIN v : IsPrefix(q, p)}
           Good(q) == \A z \in Seq(Bit) : ~IsPrefix(PathBits[p], PathBits[q] \o z) =>
                        Looks(OfShape(T, v, q), OfShape(T, h, q), z)
           P == {q \in D : Good(q)}
<1>1. IsShape(T) /\ IsValue(T, v) /\ IsValue(T, h) /\ p \in DOMAIN v /\ p \in DOMAIN h
  BY ShapeAssumption DEF AgreeBut
<1>2. p \in Seq(Nat) /\ D \in SUBSET Seq(Nat) /\ <<>> \in D /\ \A q \in D : Len(q) <= Len(p)
  <2>1. DOMAIN v \in SUBSET Seq(Nat) /\ <<>> \in DOMAIN v
    BY <1>1 DEF IsValue, IsShape
  <2>2. IsPrefix(<<>>, p) /\ \A q \in Seq(Nat) : IsPrefix(q, p) => Len(q) <= Len(p)
    BY <1>1, <2>1, PrefixOrder
  <2> QED BY <1>1, <2>1, <2>2
<1>3. ASSUME NEW q \in D, \A r \in D : Len(q) < Len(r) => r \in P PROVE Good(q)
  <2> SUFFICES ASSUME NEW z \in Seq(Bit), ~IsPrefix(PathBits[p], PathBits[q] \o z)
               PROVE  Looks(OfShape(T, v, q), OfShape(T, h, q), z)
    OBVIOUS
  <2>0. q \in DOMAIN v /\ IsPrefix(q, p) /\ q \in Seq(Nat) /\ q \in DOMAIN T
    BY <1>1, <1>2 DEF IsValue
  <2>1. PathBits[q] \in Seq(Bit) /\ PathBits[p] \in Seq(Bit)
    BY <1>1, <2>0, PathBitsIs DEF IsValue
  <2>2. q # p
    BY <2>1, PrefixOf
  <2>3. PICK i \in Nat : IsPrefix(q \o <<i>>, p)
    BY <1>2, <2>0, <2>2, StepOn
  <2> DEFINE n == q \o <<i>>
  <2>4. n \in Seq(Nat) /\ Len(n) = Len(q) + 1 /\ Len(q) \in Nat
    BY <2>0, FrontIs
  <2>5. n \in DOMAIN v
    BY <1>1, <2>3, <2>4, PrefixIn
  <2>6. n \in DOMAIN T
    BY <1>1, <2>5 DEF IsValue
  <2>7. StepBits(T[q], i) \in Seq(Bit) /\ PathBits[n] = PathBits[q] \o StepBits(T[q], i)
    BY <2>0, <2>6, NextPath
  <2>8. Good(n)
    <3>1. n \in D
      BY <2>3, <2>5
    <3>2. Len(q) < Len(n)
      BY <2>4
    <3> HIDE DEF n, D, Good
    <3> QED BY <1>3, <3>1, <3>2
  <2>9. ASSUME NEW y \in Seq(Bit), z = StepBits(T[q], i) \o y
        PROVE  Looks(OfShape(T, v, n), OfShape(T, h, n), y)
    <3>1. PathBits[n] \o y = PathBits[q] \o z
      <4>1. (PathBits[q] \o StepBits(T[q], i)) \o y = PathBits[q] \o (StepBits(T[q], i) \o y)
        <5> DEFINE a == PathBits[q]
                   b == StepBits(T[q], i)
        <5>1. a \in Seq(Bit) /\ b \in Seq(Bit) /\ y \in Seq(Bit)
          BY <2>1, <2>7
        <5> HIDE DEF a, b
        <5>2. (a \o b) \o y = a \o (b \o y)
          BY <5>1, Assoc
        <5> QED BY <5>2 DEF a, b
      <4> QED BY <2>7, <2>9, <4>1
    <3>2. ~IsPrefix(PathBits[p], PathBits[n] \o y)
      BY <3>1
    <3> HIDE DEF n
    <3> QED BY <2>8, <3>2
  <2> HIDE DEF D, P
  <2> QED BY <2>0, <2>2, <2>3, <2>9, LocalStep
<1>4. ASSUME NEW q \in D, \A r \in D : Len(q) < Len(r) => r \in P PROVE q \in P
  <2> HIDE DEF Good, D
  <2> QED BY <1>3, <1>4
<1>5. \A q \in D : q \in P
  <2>1. Len(p) \in Nat
    BY <1>2, LenProperties
  <2> HIDE DEF P, D
  <2> QED BY <1>2, <1>4, <2>1, Downward
<1>6. Good(<<>>)
  <2> HIDE DEF Good, D
  <2> QED BY <1>2, <1>5
<1> SUFFICES ASSUME NEW z \in Seq(Bit), ~IsPrefix(PathBits[p], z)
             PROVE  Looks(OfShape(T, v, <<>>), OfShape(T, h, <<>>), z)
  OBVIOUS
<1>7. PathBits[<<>>] \o z = z
  BY PathBitsIs, ConcatEmptySeq
<1> QED BY <1>6, <1>7

-----------------------------------------------------------------------------
(* What sszUpdate leaves and records.                                      *)

\* The places of those of the paths in Q that lead to parts of the value.
Wrote(v, Q) == {PathBits[q] : q \in Q \intersect DOMAIN v}

\* The tree is that of the value, but for the places written to.
Agree(n, v, Q) ==
  \A z \in Seq(Bit) : ~Covered(Wrote(v, Q), z) => Looks(n, OfShape(T, v, <<>>), z)

\* A write to a part changes nothing but the part.
LEMMA Grafts ==
  ASSUME NEW v, IsValue(T, v), NEW p \in DOMAIN v, NEW w, IsValue(Part(T, p), w)
  PROVE  AgreeBut(v, Grafted(v, p, w), p)
<1> DEFINE h == Grafted(v, p, w)
<1>1. IsValue(T, h)
  BY GraftedValue
<1>2. DOMAIN v \in SUBSET Seq(Nat) /\ p \in Seq(Nat) /\ p \in DOMAIN T /\ DOMAIN T \in SUBSET Seq(Nat)
  BY ShapeAssumption DEF IsValue, IsShape
<1>3. DOMAIN w \in SUBSET Seq(Nat) /\ <<>> \in DOMAIN w
  <2>1. DOMAIN Part(T, p) \in SUBSET Seq(Nat)
    BY <1>2, PartIs
  <2> QED BY <2>1 DEF IsValue
<1>4. /\ \A r \in Seq(Nat) : ~IsPrefix(p, r) => /\ r \in DOMAIN h <=> r \in DOMAIN v
                                                /\ r \in DOMAIN h => h[r] = v[r]
      /\ \A q \in Seq(Nat) : p \o q \in DOMAIN h <=> q \in DOMAIN w
  <2>1. DOMAIN v \in SUBSET Seq(Nat) /\ p \in Seq(Nat) /\ DOMAIN w \in SUBSET Seq(Nat)
    BY <1>2, <1>3
  <2>2. /\ DOMAIN h \in SUBSET Seq(Nat)
        /\ \A r \in Seq(Nat) : ~IsPrefix(p, r) => /\ r \in DOMAIN h <=> r \in DOMAIN v
                                                  /\ r \in DOMAIN h => h[r] = v[r]
        /\ \A q \in Seq(Nat) : /\ p \o q \in DOMAIN h <=> q \in DOMAIN w
                               /\ q \in DOMAIN w => h[p \o q] = w[q]
    BY <2>1, GraftedIs
  <2> HIDE DEF h
  <2> QED BY <2>2
<1> HIDE DEF h
<1>5. p \in DOMAIN h
  <2>1. p \o <<>> = p
    BY <1>2, EmptyJoin, EmptySeq
  <2>2. p \o <<>> \in DOMAIN h
    BY <1>3, <1>4, EmptySeq
  <2> QED BY <2>1, <2>2
<1>6. AgreeBut(v, h, p)
  BY <1>1, <1>4, <1>5 DEF AgreeBut
<1> QED BY <1>6 DEF h

\* A tree that agrees but for some writes agrees but for more.
LEMMA AgreeMore ==
  ASSUME NEW n, NEW v, NEW Q, NEW R, Agree(n, v, Q), Q \subseteq R
  PROVE  Agree(n, v, R)
<1>1. Wrote(v, Q) \subseteq Wrote(v, R)
  BY DEF Wrote
<1>2. \A z : Covered(Wrote(v, Q), z) => Covered(Wrote(v, R), z)
  BY <1>1 DEF Covered
<1> QED BY <1>2 DEF Agree

\* One clause of sszUpdate leaves a value, and the tree agrees with it but for
\* the earlier writes and this one, out of bounds or not.
LEMMA PutAgrees ==
  ASSUME WithinCapacity, NEW n, NEW v, IsValue(T, v), NEW Q \in SUBSET DOMAIN T, Agree(n, v, Q),
         NEW p \in DOMAIN T, NEW w, IsValue(Part(T, p), w)
  PROVE  IsValue(T, Put(v, p, w)) /\ Agree(n, Put(v, p, w), Q \union {p})
<1>1. CASE p \notin DOMAIN v
  <2>1. Put(v, p, w) = v
    BY <1>1 DEF Put, InBounds
  <2> QED BY <2>1, AgreeMore
<1>2. CASE p \in DOMAIN v
  <2> DEFINE h == Grafted(v, p, w)
  <2>1. Put(v, p, w) = h
    BY <1>2 DEF Put, InBounds
  <2>2. AgreeBut(v, h, p)
    BY <1>2, Grafts
  <2> HIDE DEF h
  <2>3. ASSUME NEW z \in Seq(Bit), ~Covered(Wrote(h, Q \union {p}), z)
        PROVE  Looks(n, OfShape(T, h, <<>>), z)
    <3>1. ~IsPrefix(PathBits[p], z)
      <4>1. PathBits[p] \in Wrote(h, Q \union {p})
        BY <2>2 DEF Wrote, AgreeBut
      <4> QED BY <2>3, <4>1 DEF Covered
    <3>2. Looks(OfShape(T, v, <<>>), OfShape(T, h, <<>>), z)
      BY <2>2, <3>1, WriteLocal
    <3>3. ~Covered(Wrote(v, Q), z)
      <4> SUFFICES ASSUME NEW q \in Q, q \in DOMAIN v, IsPrefix(PathBits[q], z) PROVE FALSE
        BY DEF Covered, Wrote
      <4>1. q \notin DOMAIN h
        <5> SUFFICES ASSUME q \in DOMAIN h PROVE FALSE
          OBVIOUS
        <5>1. PathBits[q] \in Wrote(h, Q \union {p})
          BY DEF Wrote
        <5> QED BY <2>3, <5>1 DEF Covered
      <4>2. q \in Seq(Nat) /\ q \in DOMAIN T
        BY ShapeAssumption DEF IsShape
      <4>3. IsPrefix(p, q)
        BY <2>2, <4>1, <4>2 DEF AgreeBut
      <4>4. IsPrefix(PathBits[p], PathBits[q]) /\ PathBits[p] \in Seq(Bit) /\ PathBits[q] \in Seq(Bit)
        BY <4>2, <4>3, PathOrder, PathBitsIs
      <4> QED BY <3>1, <4>4, PrefixOrder
    <3>4. Looks(n, OfShape(T, v, <<>>), z)
      BY <3>3 DEF Agree
    <3> QED BY <3>2, <3>4, LooksSame
  <2>4. Agree(n, h, Q \union {p})
    BY <2>3 DEF Agree
  <2>5. IsValue(T, h)
    BY <2>2 DEF AgreeBut
  <2> QED BY <2>1, <2>4, <2>5
<1> QED BY <1>1, <1>2

\* Each clause writes a value of the type of what its path leads to.
LEMMA ClausesAre ==
  ASSUME NEW cs \in Statements
  PROVE  /\ Len(cs) \in Nat
         /\ \A k \in 1..Len(cs) : cs[k][1] \in DOMAIN T /\ IsValue(Part(T, cs[k][1]), cs[k][2])
<1>1. /\ cs \in Seq(Range(cs))
      /\ \A c \in Range(cs) : c[1] \in DOMAIN T /\ IsValue(Part(T, c[1]), c[2])
  BY StatementsAssumption
<1>2. Len(cs) \in Nat /\ DOMAIN cs = 1..Len(cs)
  BY <1>1, LenProperties
<1>3. \A k \in DOMAIN cs : cs[k] \in Range(cs)
  BY DEF Range
<1> QED BY <1>1, <1>2, <1>3

\* The values after the first clauses.
Puts(f, k, n, cs) ==
  f = [j \in 0..k |-> IF j = 0 THEN n ELSE Put(f[j - 1], cs[j][1], cs[j][2])]

\* There is such a sequence of values.
LEMMA PutsExist ==
  ASSUME NEW n, NEW cs, NEW k \in Nat
  PROVE  \E f : Puts(f, k, n, cs)
<1> DEFINE Bad == {j \in Nat : ~\E f : Puts(f, j, n, cs)}
<1> SUFFICES ASSUME Bad # {} PROVE FALSE
  OBVIOUS
<1>0. Bad \in SUBSET Nat
  OBVIOUS
<1> HIDE DEF Bad
<1>1. PICK j \in Bad : \A i \in Bad : j <= i
  BY <1>0, LeastOf
<1>2. j \in Nat
  BY <1>0
<1>3. CASE j = 0
  <2> DEFINE g == [i \in 0..0 |-> n]
  <2>1. Puts(g, 0, n, cs)
    BY DEF Puts
  <2> HIDE DEF g
  <2> QED BY <1>1, <1>3, <2>1 DEF Bad
<1>4. CASE j # 0
  <2>1. j - 1 \in Nat /\ ~(j <= j - 1)
    BY <1>2, <1>4
  <2>2. PICK f : Puts(f, j - 1, n, cs)
    BY <1>1, <2>1 DEF Bad
  <2> DEFINE g == [i \in 0..j |-> IF i = 0 THEN n ELSE Put(f[i - 1], cs[i][1], cs[i][2])]
  <2>3. \A i \in 0..(j - 1) : i \in 0..j /\ f[i] = IF i = 0 THEN n ELSE Put(f[i - 1], cs[i][1], cs[i][2])
    <3>1. f = [i \in 0..(j - 1) |-> IF i = 0 THEN n ELSE Put(f[i - 1], cs[i][1], cs[i][2])]
      BY <2>2 DEF Puts
    <3> TAKE i \in 0..(j - 1)
    <3>2. i \in 0..j
      BY <1>2, <2>1
    <3>3. f[i] = [h \in 0..(j - 1) |-> IF h = 0 THEN n ELSE Put(f[h - 1], cs[h][1], cs[h][2])][i]
      BY <3>1, Zenon
    <3> DEFINE s(h) == IF h = 0 THEN n ELSE Put(f[h - 1], cs[h][1], cs[h][2])
    <3> HIDE DEF s
    <3>5. [h \in 0..(j - 1) |-> s(h)][i] = s(i)
      OBVIOUS
    <3>4. f[i] = IF i = 0 THEN n ELSE Put(f[i - 1], cs[i][1], cs[i][2])
      BY <3>3, <3>5 DEF s
    <3> QED BY <3>2, <3>4
  <2>4. \A i \in 0..(j - 1) : f[i] = g[i]
    BY <2>3
  <2>5. \A i \in 0..j : i # 0 => i - 1 \in 0..(j - 1)
    BY <1>2
  <2>6. Puts(g, j, n, cs)
    <3>1. \A i \in 0..j : i # 0 => f[i - 1] = g[i - 1]
      BY <2>4, <2>5
    <3>2. g = [i \in 0..j |-> IF i = 0 THEN n ELSE Put(g[i - 1], cs[i][1], cs[i][2])]
      BY <3>1
    <3> HIDE DEF g
    <3> QED BY <3>2 DEF Puts
  <2> HIDE DEF g
  <2> QED BY <1>1, <2>6 DEF Bad
<1> QED BY <1>3, <1>4

\* The paths of the first k clauses.
Targets(cs, k) == {cs[j][1] : j \in 1..k}

\* Those of one clause more.
LEMMA TargetsNext ==
  ASSUME NEW cs, NEW k \in Nat, k # 0
  PROVE  Targets(cs, k) = Targets(cs, k - 1) \union {cs[k][1]}
<1>1. \A j \in 1..k : j \in 1..(k - 1) \/ j = k
  OBVIOUS
<1>2. \A j \in 1..(k - 1) : j \in 1..k
  OBVIOUS
<1>3. k \in 1..k
  OBVIOUS
<1> QED BY <1>1, <1>2, <1>3 DEF Targets

\* An update keeps the tree right but for its targets and those of before.
LEMMA UpdatedAgrees ==
  ASSUME WithinCapacity, NEW n, NEW v, IsValue(T, v), NEW Q \in SUBSET DOMAIN T, Agree(n, v, Q),
         NEW cs \in Statements
  PROVE  /\ IsValue(T, Updated(v, cs))
         /\ Agree(n, Updated(v, cs), Q \union Targets(cs, Len(cs)))
<1> DEFINE L == Len(cs)
<1>1. L \in Nat /\ \A k \in 1..L : cs[k][1] \in DOMAIN T /\ IsValue(Part(T, cs[k][1]), cs[k][2])
  BY ClausesAre
<1>2. PICK h : Puts(h, L, v, cs)
  BY <1>1, PutsExist
<1> DEFINE g == CHOOSE f : Puts(f, L, v, cs)
<1>3. Puts(g, L, v, cs)
  BY <1>2
<1>4. Updated(v, cs) = g[L]
  <2>1. g = CHOOSE U : U = [k \in 0..L |-> IF k = 0 THEN v ELSE Put(U[k - 1], cs[k][1], cs[k][2])]
    BY DEF Puts
  <2> HIDE DEF g
  <2> QED BY <2>1 DEF Updated
<1> HIDE DEF g, L
<1> DEFINE Good(k) == IsValue(T, g[k]) /\ Agree(n, g[k], Q \union Targets(cs, k))
           Bad == {k \in Nat : k <= L /\ ~Good(k)}
<1>5. Bad = {}
  <2> SUFFICES ASSUME Bad # {} PROVE FALSE
    OBVIOUS
  <2>0. Bad \in SUBSET Nat
    OBVIOUS
  <2> HIDE DEF Bad, Good
  <2>1. PICK k \in Bad : \A i \in Bad : k <= i
    BY <2>0, LeastOf
  <2>2. k \in Nat /\ k <= L /\ ~Good(k)
    BY <2>1 DEF Bad
  <2>3. \A i \in 0..L : g[i] = IF i = 0 THEN v ELSE Put(g[i - 1], cs[i][1], cs[i][2])
    BY <1>3 DEF Puts
  <2>4. CASE k = 0
    <3>1. g[0] = v
      BY <1>1, <2>3
    <3>2. Targets(cs, 0) = {}
      BY DEF Targets
    <3>3. Agree(n, v, Q \union {})
      OBVIOUS
    <3> QED BY <2>2, <2>4, <3>1, <3>2, <3>3 DEF Good
  <2>5. CASE k # 0
    <3>1. k - 1 \in Nat /\ ~(k <= k - 1) /\ k - 1 <= L /\ k \in 0..L /\ k \in 1..L
      BY <1>1, <2>2, <2>5
    <3>2. Good(k - 1)
      BY <2>1, <3>1 DEF Bad
    <3> DEFINE p == cs[k][1]
               w == cs[k][2]
               R == Q \union Targets(cs, k - 1)
               u == g[k - 1]
    <3>3. g[k] = Put(u, p, w)
      BY <2>3, <2>5, <3>1
    <3>4. p \in DOMAIN T /\ IsValue(Part(T, p), w)
      BY <1>1, <3>1
    <3>5. IsValue(T, u) /\ Agree(n, u, R)
      BY <3>2 DEF Good
    <3>6. R \in SUBSET DOMAIN T
      BY <1>1, <2>2 DEF Targets
    <3>7. R \union {p} = Q \union Targets(cs, k)
      BY <2>2, <2>5, TargetsNext
    <3> HIDE DEF p, w, R, u
    <3>8. IsValue(T, Put(u, p, w)) /\ Agree(n, Put(u, p, w), R \union {p})
      BY <3>4, <3>5, <3>6, PutAgrees
    <3> QED BY <2>2, <3>3, <3>7, <3>8 DEF Good
  <2> QED BY <2>4, <2>5
<1>6. Good(L)
  <2> HIDE DEF Good
  <2> QED BY <1>1, <1>5
<1> QED BY <1>4, <1>6 DEF L

\* The image of a finite set is finite.
LEMMA ImageFinite ==
  ASSUME NEW S, IsFiniteSet(S), NEW f
  PROVE  IsFiniteSet({f[x] : x \in S})
<1> DEFINE R == {f[x] : x \in S}
           g == [x \in S |-> f[x]]
<1>1. g \in [S -> R] /\ \A y \in R : \E x \in S : g[x] = y
  OBVIOUS
<1> HIDE DEF g, R
<1>2. g \in Surjection(S, R)
  BY <1>1 DEF Surjection
<1>3. IsFiniteSet(R)
  BY <1>2, FS_Surjection
<1> QED BY <1>3 DEF R

\* Every write is recorded at the index of its place.
Indexed(p) ==
  /\ IsFiniteSet(DOMAIN p)
  /\ \A g \in DOMAIN p : p[g] \in DOMAIN T /\ g = Gindex(p[g])

\* The paths recorded.
Paths(p) == {p[g] : g \in DOMAIN p}

\* The index under which a clause is recorded.
KeyOf(cs, k) == Gindex(cs[k][1])

\* The indices of the clauses.
Keys(cs) == {KeyOf(cs, k) : k \in 1..Len(cs)}

\* The last clause with an index: the one that stays.
LatestOf(cs, g) ==
  CHOOSE k \in 1..Len(cs) : KeyOf(cs, k) = g /\ \A j \in (k + 1)..Len(cs) : KeyOf(cs, j) # g

\* There is one.
LEMMA LatestIs ==
  ASSUME NEW cs, Len(cs) \in Nat, NEW g \in Keys(cs)
  PROVE  LatestOf(cs, g) \in 1..Len(cs) /\ KeyOf(cs, LatestOf(cs, g)) = g
<1> DEFINE L == Len(cs)
           After == {i \in Nat : i < L /\ KeyOf(cs, L - i) = g}
<1>1. PICK k \in 1..L : KeyOf(cs, k) = g
  BY DEF Keys
<1>2. L - k \in Nat /\ L - k < L /\ L - (L - k) = k
  BY <1>1
<1>3. L - k \in After
  BY <1>1, <1>2
<1>4. After \in SUBSET Nat
  OBVIOUS
<1> HIDE DEF After
<1>5. PICK i \in After : \A j \in After : i <= j
  BY <1>3, <1>4, LeastOf
<1>6. i \in Nat /\ i < L /\ KeyOf(cs, L - i) = g
  BY <1>5 DEF After
<1>7. L - i \in 1..L
  BY <1>6
<1>8. ASSUME NEW j \in ((L - i) + 1)..L PROVE KeyOf(cs, j) # g
  <2> SUFFICES ASSUME KeyOf(cs, j) = g PROVE FALSE
    OBVIOUS
  <2>1. L - j \in Nat /\ L - j < L /\ L - (L - j) = j /\ ~(i <= L - j)
    BY <1>6, <1>8
  <2>2. L - j \in After
    BY <2>1 DEF After
  <2> QED BY <1>5, <2>1, <2>2
<1>9. \E n \in 1..L : KeyOf(cs, n) = g /\ \A j \in (n + 1)..L : KeyOf(cs, j) # g
  BY <1>6, <1>7, <1>8
<1> QED BY <1>9 DEF LatestOf

\* What is recorded after an update: its clauses, then what was recorded
\* before.
LEMMA RecordedIs ==
  ASSUME NEW p, NEW cs
  PROVE  LET R == Recorded(p, cs)
         IN  /\ DOMAIN R = Keys(cs) \union DOMAIN p
             /\ \A g \in Keys(cs) : R[g] = cs[LatestOf(cs, g)][1]
             /\ \A g \in DOMAIN p \ Keys(cs) : R[g] = p[g]
<1> DEFINE f == [g \in Keys(cs) |-> cs[LatestOf(cs, g)][1]]
<1>1. Recorded(p, cs) = Overlaid(f, p)
  BY DEF Recorded, Keys, KeyOf, LatestOf
<1>2. DOMAIN f = Keys(cs) /\ \A g \in Keys(cs) : f[g] = cs[LatestOf(cs, g)][1]
  OBVIOUS
<1> HIDE DEF f
<1> DEFINE R == Recorded(p, cs)
<1>3. /\ DOMAIN R = DOMAIN f \union DOMAIN p
      /\ \A g \in DOMAIN f : R[g] = f[g]
      /\ \A g \in DOMAIN p \ DOMAIN f : R[g] = p[g]
  <2>1. /\ DOMAIN Overlaid(f, p) = DOMAIN f \union DOMAIN p
        /\ \A x \in DOMAIN f : Overlaid(f, p)[x] = f[x]
        /\ \A x \in DOMAIN p \ DOMAIN f : Overlaid(f, p)[x] = p[x]
    BY OverlaidIs
  <2> QED BY <1>1, <2>1
<1> HIDE DEF R
<1>4. /\ DOMAIN R = Keys(cs) \union DOMAIN p
      /\ \A g \in Keys(cs) : R[g] = cs[LatestOf(cs, g)][1]
      /\ \A g \in DOMAIN p \ Keys(cs) : R[g] = p[g]
  BY <1>2, <1>3
<1> QED BY <1>4 DEF R

\* Recording keeps an index for every write, and the writes apart.
LEMMA RecordedIndexed ==
  ASSUME WithinCapacity, NEW p, Indexed(p), NEW cs \in Statements
  PROVE  LET R == Recorded(p, cs)
         IN  /\ Indexed(R)
             /\ \A q \in Paths(p) \union Targets(cs, Len(cs)) : Gindex(q) \in DOMAIN R
<1> DEFINE R == Recorded(p, cs)
<1>1. Len(cs) \in Nat /\ \A k \in 1..Len(cs) : cs[k][1] \in DOMAIN T
  BY ClausesAre
<1>2. /\ DOMAIN R = Keys(cs) \union DOMAIN p
      /\ \A g \in Keys(cs) : R[g] = cs[LatestOf(cs, g)][1]
      /\ \A g \in DOMAIN p \ Keys(cs) : R[g] = p[g]
  BY RecordedIs
<1> HIDE DEF R
<1>3. IsFiniteSet(Keys(cs))
  <2> DEFINE f == [k \in 1..Len(cs) |-> KeyOf(cs, k)]
  <2>1. Keys(cs) = {f[k] : k \in 1..Len(cs)}
    BY DEF Keys
  <2>2. IsFiniteSet(1..Len(cs))
    BY <1>1, FS_Interval
  <2> HIDE DEF f
  <2> QED BY <2>1, <2>2, ImageFinite
<1>4. IsFiniteSet(DOMAIN R)
  <2>1. IsFiniteSet(DOMAIN p)
    BY DEF Indexed
  <2>2. IsFiniteSet(Keys(cs) \union DOMAIN p)
    BY <1>3, <2>1, FS_Union
  <2> QED BY <1>2, <2>2
<1>5. ASSUME NEW g \in DOMAIN R PROVE R[g] \in DOMAIN T /\ g = Gindex(R[g])
  <2>1. CASE g \in Keys(cs)
    <3>1. LatestOf(cs, g) \in 1..Len(cs) /\ KeyOf(cs, LatestOf(cs, g)) = g
      BY <1>1, <2>1, LatestIs
    <3> QED BY <1>1, <1>2, <2>1, <3>1 DEF KeyOf
  <2>2. CASE g \notin Keys(cs)
    BY <1>2, <1>5, <2>2 DEF Indexed
  <2> QED BY <2>1, <2>2
<1>6. ASSUME NEW q \in Paths(p) \union Targets(cs, Len(cs)) PROVE Gindex(q) \in DOMAIN R
  <2>1. CASE q \in Paths(p)
    BY <1>2, <2>1 DEF Paths, Indexed
  <2>2. CASE q \in Targets(cs, Len(cs))
    <3>1. PICK k \in 1..Len(cs) : q = cs[k][1]
      BY <2>2 DEF Targets
    <3>2. KeyOf(cs, k) \in Keys(cs)
      BY DEF Keys
    <3> QED BY <1>2, <3>1, <3>2 DEF KeyOf
  <2> QED BY <2>1, <2>2
<1>7. Indexed(R)
  BY <1>4, <1>5 DEF Indexed
<1> QED BY <1>6, <1>7 DEF R

\* What is recorded covers what was written.
LEMMA RecordedAgrees ==
  ASSUME WithinCapacity, NEW p, Indexed(p), NEW cs \in Statements, NEW n, NEW v, IsValue(T, v),
         Agree(n, v, Paths(p) \union Targets(cs, Len(cs)))
  PROVE  Agree(n, v, Paths(Recorded(p, cs)))
<1> DEFINE R == Recorded(p, cs)
           Q == Paths(p) \union Targets(cs, Len(cs))
<1>1. Indexed(R) /\ \A q \in Q : Gindex(q) \in DOMAIN R
  BY RecordedIndexed
<1>2. Agree(n, v, Q)
  OBVIOUS
<1> HIDE DEF R, Q
<1>3. Wrote(v, Q) \subseteq Wrote(v, Paths(R))
  <2> SUFFICES ASSUME NEW q \in Q, q \in DOMAIN v PROVE PathBits[q] \in Wrote(v, Paths(R))
    BY DEF Wrote
  <2> DEFINE r == R[Gindex(q)]
  <2>1. r \in DOMAIN T /\ Gindex(r) = Gindex(q) /\ r \in Paths(R)
    BY <1>1 DEF Indexed, Paths
  <2>2. q \in DOMAIN T
    BY DEF IsValue
  <2> HIDE DEF r
  <2>3. PathBits[r] \in Seq(Bit) /\ PathBits[q] \in Seq(Bit)
    BY <2>1, <2>2, PathBitsIs
  <2>4. GindexBits(Gindex(r)) = PathBits[r] /\ GindexBits(Gindex(q)) = PathBits[q]
    BY <2>3, GindexBitsInvert DEF Gindex
  <2>5. PathBits[r] = PathBits[q]
    BY <2>1, <2>4
  <2>6. IsPrefix(PathBits[r], PathBits[q])
    BY <2>3, <2>5, PrefixOrder
  <2>7. r \in DOMAIN v
    BY <2>1, <2>6, Reaches
  <2> QED BY <2>1, <2>5, <2>7 DEF Wrote
<1>4. \A z : Covered(Wrote(v, Q), z) => Covered(Wrote(v, Paths(R)), z)
  BY <1>3 DEF Covered
<1>5. Agree(n, v, Paths(R))
  BY <1>2, <1>4 DEF Agree
<1> QED BY <1>5 DEF R

-----------------------------------------------------------------------------
(* The updates of the next read.                                           *)

\* Trees without an empty slot that look alike away from W have the same
\* roots away from it.
LEMMA FullSame ==
  ASSUME NEW n, NEW m, IsFull(n), IsFull(m), NEW W \in SUBSET Seq(Bit),
         \A z \in Seq(Bit) : ~Covered(W, z) => Looks(n, m, z)
  PROVE  Rel(n, m, W)
<1> DEFINE D == DOMAIN n
           Free(z) == ~Covered(W, z) /\ ~Below(W, z)
           P == {z \in D : Free(z) => n[z].root = m[z].root}
<1>1. IsTree(n) /\ IsTree(m) /\ D \in SUBSET Seq(Bit)
  BY DEF IsFull, IsTree
<1>2. PICK N \in Nat : \A z \in D : Len(z) <= N
  BY <1>1 DEF IsTree
<1>3. ASSUME NEW z \in D, \A y \in D : Len(z) < Len(y) => y \in P, Free(z) PROVE n[z].root = m[z].root
  <2>1. z \in Seq(Bit) /\ Looks(n, m, z)
    BY <1>1, <1>3
  <2>2. z \in DOMAIN m /\ n[z].pair = m[z].pair /\ (~n[z].pair => n[z] = m[z])
    BY <1>3, <2>1 DEF Looks
  <2>3. CASE ~n[z].pair
    BY <2>2, <2>3
  <2>4. CASE n[z].pair
    <3>1. Left(z) \in D /\ Right(z) \in D /\ Len(z) < Len(Left(z)) /\ Len(z) < Len(Right(z))
      BY <1>1, <1>3, <2>4, ChildIn
    <3>2. Free(Left(z)) /\ Free(Right(z))
      <4>1. ~Covered(W, z) /\ ~Below(W, z) /\ 0 \in Bit /\ 1 \in Bit
        BY <1>3, Bits01
      <4> QED BY <2>1, <4>1, NotBelow DEF Left, Right
    <3>3. n[Left(z)].root = m[Left(z)].root /\ n[Right(z)].root = m[Right(z)].root
      <4> HIDE DEF D, Free
      <4> QED BY <1>3, <3>1, <3>2
    <3>4. n[z].root = Combine(n[Left(z)].root, n[Right(z)].root)
      BY <1>3, <2>4 DEF IsFull
    <3>5. m[z].root = Combine(m[Left(z)].root, m[Right(z)].root)
      BY <2>2, <2>4 DEF IsFull
    <3> QED BY <3>3, <3>4, <3>5
  <2> QED BY <2>3, <2>4
<1>4. ASSUME NEW z \in D, \A y \in D : Len(z) < Len(y) => y \in P PROVE z \in P
  BY <1>3, <1>4
<1>5. \A z \in D : z \in P
  <2> HIDE DEF D, P
  <2> QED BY <1>1, <1>2, <1>4, Downward
<1>6. ASSUME NEW z \in Seq(Bit), ~Covered(W, z) PROVE Same(n, m, W, z)
  <2>1. Looks(n, m, z)
    BY <1>6
  <2>2. z \in DOMAIN n /\ ~Below(W, z) => n[z].root = m[z].root
    BY <1>5, <1>6
  <2> QED BY <2>1, <2>2 DEF Same, Looks
<1> QED BY <1>1, <1>6 DEF Rel

\* What the recorded writes put into the tree is what is to be there.
LEMMA WritesFit ==
  ASSUME WithinCapacity, NEW v, IsValue(T, v), NEW p, Indexed(p)
  PROVE  /\ \A g \in DOMAIN p : GindexBits(g) = PathBits[p[g]]
         /\ Fits(Writes(v, p), OfShape(T, v, <<>>))
         /\ DOMAIN Writes(v, p) = Wrote(v, Paths(p))
         /\ IsFiniteSet(DOMAIN Writes(v, p))
<1> DEFINE us == Writes(v, p)
           m == OfShape(T, v, <<>>)
           In == {g \in DOMAIN p : InBounds(v, p[g])}
           D == {GindexBits(g) : g \in In}
<1>1. \A g \in DOMAIN p : /\ p[g] \in DOMAIN T /\ g = GindexOfBits[PathBits[p[g]]]
                          /\ PathBits[p[g]] \in Seq(Bit) /\ GindexBits(g) = PathBits[p[g]]
  <2> SUFFICES ASSUME NEW g \in DOMAIN p
               PROVE  /\ p[g] \in DOMAIN T /\ g = GindexOfBits[PathBits[p[g]]]
                      /\ PathBits[p[g]] \in Seq(Bit) /\ GindexBits(g) = PathBits[p[g]]
    OBVIOUS
  <2>1. p[g] \in DOMAIN T /\ g = GindexOfBits[PathBits[p[g]]]
    BY DEF Indexed, Gindex
  <2>2. PathBits[p[g]] \in Seq(Bit)
    BY <2>1, PathBitsIs
  <2>3. GindexBits(GindexOfBits[PathBits[p[g]]]) = PathBits[p[g]]
    BY <2>2, GindexBitsInvert
  <2> QED BY <2>1, <2>2, <2>3
<1>2. us = [b \in D |-> OfShape(T, v, p[GindexOfBits[b]])]
  BY DEF Writes
<1>3. D = Wrote(v, Paths(p))
  <2>1. ASSUME NEW b \in D PROVE b \in Wrote(v, Paths(p))
    <3>1. PICK g \in In : b = GindexBits(g)
      OBVIOUS
    <3> QED BY <1>1, <3>1 DEF Wrote, Paths, InBounds
  <2>2. ASSUME NEW b \in Wrote(v, Paths(p)) PROVE b \in D
    <3>1. PICK q \in Paths(p) : q \in DOMAIN v /\ b = PathBits[q]
      BY DEF Wrote
    <3>2. PICK g \in DOMAIN p : q = p[g]
      BY DEF Paths
    <3>3. g \in In /\ GindexBits(g) = b
      BY <1>1, <3>1, <3>2 DEF InBounds
    <3> QED BY <3>3
  <2> QED BY <2>1, <2>2
<1>4. IsFiniteSet(D)
  <2>1. IsFiniteSet(In)
    <3>1. In \in SUBSET DOMAIN p
      OBVIOUS
    <3>2. IsFiniteSet(DOMAIN p)
      BY DEF Indexed
    <3> HIDE DEF In
    <3> QED BY <3>1, <3>2, FS_Subset
  <2> DEFINE f == [g \in In |-> GindexBits(g)]
  <2>2. D = {f[g] : g \in In}
    OBVIOUS
  <2> HIDE DEF f, In, D
  <2> QED BY <2>1, <2>2, ImageFinite
<1>5. ASSUME NEW u \in D
      PROVE  /\ u \in Seq(Bit) /\ IsFull(us[u]) /\ u \in DOMAIN m
             /\ \A y \in Seq(Bit) : /\ u \o y \in DOMAIN m <=> y \in DOMAIN us[u]
                                    /\ y \in DOMAIN us[u] => m[u \o y] = us[u][y]
  <2>1. PICK g \in In : u = GindexBits(g)
    OBVIOUS
  <2> DEFINE q == p[g]
             n == OfShape(T, v, q)
  <2>2. q \in DOMAIN v /\ u = PathBits[q] /\ u \in Seq(Bit) /\ g = GindexOfBits[u]
    BY <1>1, <2>1 DEF InBounds
  <2>3. us[u] = n
    BY <1>2, <2>2
  <2>4. IsFull(n)
    BY <2>2, ShapeAssumption, ShapeFull
  <2>5. Sits(m, u, n)
    BY <2>2, PathSits
  <2> HIDE DEF n, us, m, q
  <2>6. \A y \in Seq(Bit) : /\ u \o y \in DOMAIN m <=> y \in DOMAIN n
                            /\ y \in DOMAIN n => m[u \o y] = n[y]
    BY <2>5 DEF Sits
  <2>7. u \in DOMAIN m
    <3>1. u \o <<>> = u /\ <<>> \in Seq(Bit)
      BY <2>2, EmptyJoin, EmptySeq
    <3>2. <<>> \in DOMAIN n
      BY <2>4 DEF IsFull, IsTree
    <3>3. u \o <<>> \in DOMAIN m
      BY <2>6, <3>1, <3>2
    <3> QED BY <3>1, <3>3
  <2> QED BY <2>2, <2>3, <2>4, <2>6, <2>7
<1>6. DOMAIN us = D /\ us = [u \in DOMAIN us |-> us[u]]
  BY <1>2
<1> HIDE DEF us, m, D
<1>7. Fits(us, m)
  BY <1>5, <1>6 DEF Fits
<1>8. \A g \in DOMAIN p : GindexBits(g) = PathBits[p[g]]
  BY <1>1
<1> QED BY <1>3, <1>4, <1>6, <1>7, <1>8 DEF us, m

\* With the writes recorded, the tree is that of the value but for the updates
\* that the next read makes.
LEMMA WritesRel ==
  ASSUME WithinCapacity, NEW v, IsValue(T, v), NEW p, Indexed(p), NEW n, IsFull(n), Agree(n, v, Paths(p))
  PROVE  Rel(n, OfShape(T, v, <<>>), DOMAIN Writes(v, p))
<1> DEFINE m == OfShape(T, v, <<>>)
           W == DOMAIN Writes(v, p)
<1>1. W = Wrote(v, Paths(p)) /\ W \in SUBSET Seq(Bit)
  BY WritesFit DEF Fits
<1>2. \A z \in Seq(Bit) : ~Covered(W, z) => Looks(n, m, z)
  BY <1>1 DEF Agree
<1>3. IsFull(m)
  BY ShapeAssumption, ShapeFull DEF IsValue
<1> HIDE DEF m, W
<1>4. Rel(n, m, W)
  BY <1>1, <1>2, <1>3, FullSame
<1> QED BY <1>4 DEF m, W

-----------------------------------------------------------------------------
(* The reference root.                                                     *)

\* The reference roots of the parts of a value.
RootsOf(S, v) ==
  LET Root[p \in DOMAIN v] ==
        LET body == Merkleize([k \in 1..v[p] |-> Root[p \o <<k - 1>>]], ChunkDepth(S[p].size))
        IN  CASE S[p].kind = "leaf" -> NatToChunk(v[p])
              [] S[p].kind = "list" -> Combine(body, NatToChunk(v[p]))
              [] OTHER -> body
  IN  Root

\* hashTreeRoot, by recursion: the root of the node of the roots of the parts.
LEMMA RootsOfIs ==
  ASSUME NEW S, IsShape(S), NEW v, IsValue(S, v), NEW p \in DOMAIN v
  PROVE  RootsOf(S, v)[p] = RootNode(S[p], v[p], [k \in 1..v[p] |-> RootsOf(S, v)[p \o <<k - 1>>]])
<1>0. FALSE \in BOOLEAN
  OBVIOUS
<1>1. PICK f : Grown(f, FALSE, S, v, DOMAIN v)
  BY <1>0, GrownExists
<1>2. f = [q \in DOMAIN v |-> RootNode(S[q], v[q], [k \in 1..v[q] |-> f[q \o <<k - 1>>]])]
  BY <1>1 DEF Grown, Made
<1> DEFINE g == RootsOf(S, v)
<1>3. g = CHOOSE g1 : g1 = [q \in DOMAIN v |-> RootNode(S[q], v[q], [k \in 1..v[q] |-> g1[q \o <<k - 1>>]])]
  BY DEF RootsOf, RootNode
<1> HIDE DEF g
<1>4. g = [q \in DOMAIN v |-> RootNode(S[q], v[q], [k \in 1..v[q] |-> g[q \o <<k - 1>>]])]
  BY <1>2, <1>3
<1>5. g[p] = RootNode(S[p], v[p], [k \in 1..v[p] |-> g[p \o <<k - 1>>]])
  BY <1>4
<1> QED BY <1>5 DEF g

\* The three kinds of node.
LEMMA RootCases ==
  ASSUME NEW s, NEW c, NEW subs
  PROVE  /\ s.kind = "leaf" => RootNode(s, c, subs) = NatToChunk(c)
         /\ s.kind = "list" => RootNode(s, c, subs) = Combine(Merkleize(subs, Depth(s)), NatToChunk(c))
         /\ s.kind # "leaf" /\ s.kind # "list" => RootNode(s, c, subs) = Merkleize(subs, Depth(s))
<1>1. ASSUME s.kind = "leaf" PROVE RootNode(s, c, subs) = NatToChunk(c)
  BY <1>1 DEF RootNode
<1>2. ASSUME s.kind = "list"
      PROVE  RootNode(s, c, subs) = Combine(Merkleize(subs, Depth(s)), NatToChunk(c))
  BY <1>2 DEF RootNode, Depth
<1>3. ASSUME s.kind # "leaf", s.kind # "list" PROVE RootNode(s, c, subs) = Merkleize(subs, Depth(s))
  BY <1>3 DEF RootNode, Depth
<1> QED BY <1>1, <1>2, <1>3

\* The tree of a node has the reference root of the node.
LEMMA NodeRoot ==
  ASSUME NEW s, NEW c, Fitting(s, c), NEW subs, Parts(s, c, subs)
  PROVE  Node(s, c, subs)[<<>>].root = RootNode(s, c, [k \in 1..c |-> subs[k][<<>>].root])
<1> DEFINE cs == [k \in 1..c |-> subs[k][<<>>].root]
           d == Depth(s)
<1>1. CASE s.kind = "leaf"
  <2>1. Node(s, c, subs) = [z \in {<<>>} |-> Leaf(NatToChunk(c))]
    BY <1>1, NodeCases
  <2>2. Node(s, c, subs)[<<>>].root = NatToChunk(c)
    BY <2>1 DEF Leaf
  <2> QED BY <1>1, <2>2, RootCases
<1>2. CASE s.kind # "leaf"
  <2>1. /\ d \in Nat /\ c \in Nat /\ c <= Pow2[d] /\ subs = [k \in 1..c |-> subs[k]]
        /\ \A k \in 1..c : IsFull(subs[k])
    BY <1>2, BodyIs DEF Fitting, Parts
  <2>2. Joins(OfSubtrees(subs, d), subs, d, c)
    BY <1>2, BodyIs
  <2> HIDE DEF d
  <2>3. OfSubtrees(subs, d)[<<>>].root = Merkleize(cs, d)
    BY <2>1, OfSubtreesMerkleizes
  <2>4. IsFull(OfSubtrees(subs, d))
    BY <2>2 DEF Joins
  <2> HIDE DEF cs
  <2>5. CASE s.kind = "list"
    <3>1. Node(s, c, subs) = MixInLength(OfSubtrees(subs, d), c)
      BY <2>5, NodeCases DEF d
    <3>2. Mixed(MixInLength(OfSubtrees(subs, d), c), OfSubtrees(subs, d), c)
      BY <2>4, MixInLengthIs
    <3>3. Node(s, c, subs)[<<>>] = Pair(Combine(OfSubtrees(subs, d)[<<>>].root, NatToChunk(c)))
      BY <3>1, <3>2 DEF Mixed
    <3>4. Node(s, c, subs)[<<>>].root = Combine(Merkleize(cs, d), NatToChunk(c))
      BY <2>3, <3>3 DEF Pair
    <3> QED BY <2>5, <3>4, RootCases DEF cs, d
  <2>6. CASE s.kind # "list"
    <3>1. Node(s, c, subs) = OfSubtrees(subs, d)
      BY <1>2, <2>6, NodeCases DEF d
    <3>2. Node(s, c, subs)[<<>>].root = Merkleize(cs, d)
      BY <2>3, <3>1
    <3> QED BY <1>2, <2>6, <3>2, RootCases DEF cs, d
  <2> QED BY <2>5, <2>6
<1> QED BY <1>1, <1>2

\* The root of a leaf depends on no part.
LEMMA RootLeaf ==
  ASSUME NEW s, s.kind = "leaf", NEW c, NEW subs, NEW parts
  PROVE  RootNode(s, c, subs) = RootNode(s, c, parts)
BY RootCases

\* The tree of a value has its reference root.
LEMMA TreeRoot ==
  ASSUME NEW S, IsShape(S), NEW v, IsValue(S, v)
  PROVE  \A p \in DOMAIN v : OfShape(S, v, p)[<<>>].root = RootsOf(S, v)[p]
<1> DEFINE D == DOMAIN v
           P == {p \in D : OfShape(S, v, p)[<<>>].root = RootsOf(S, v)[p]}
<1>1. PICK N \in Nat : \A p \in D : Len(p) <= N
  BY ValueIs
<1>2. D \in SUBSET Seq(Nat)
  BY ValueIs DEF FrontClosed
<1>3. ASSUME NEW p \in D, \A q \in D : Len(p) < Len(q) => q \in P PROVE p \in P
  <2> DEFINE s == S[p]
             c == v[p]
             subs == Kids(S, v, p)
             cs == [k \in 1..c |-> subs[k][<<>>].root]
             ds == [k \in 1..c |-> RootsOf(S, v)[p \o <<k - 1>>]]
  <2>1. p \in Seq(Nat) /\ c \in Nat /\ Fitting(s, c)
    BY ValueParts
  <2>2. Parts(s, c, subs)
    BY KidsParts
  <2>3. OfShape(S, v, p) = Node(s, c, subs)
    BY OfShapeIs
  <2>4. RootsOf(S, v)[p] = RootNode(s, c, ds)
    BY RootsOfIs
  <2>5. OfShape(S, v, p)[<<>>].root = RootNode(s, c, cs)
    <3> HIDE DEF s, c, subs
    <3> QED BY <2>1, <2>2, <2>3, NodeRoot
  <2>6. RootNode(s, c, cs) = RootNode(s, c, ds)
    <3>1. CASE s.kind = "leaf"
      <4> HIDE DEF s, c, cs, ds
      <4> QED BY <3>1, RootLeaf
    <3>2. CASE s.kind # "leaf"
      <4>1. ASSUME NEW k \in 1..c PROVE subs[k][<<>>].root = RootsOf(S, v)[p \o <<k - 1>>]
        <5>1. p \o <<k - 1>> \in D
          BY <3>2, ValueParts
        <5>2. k - 1 \in Nat
          BY <2>1
        <5>3. Len(p) < Len(p \o <<k - 1>>)
          BY <2>1, <5>2, FrontIs
        <5>4. OfShape(S, v, p \o <<k - 1>>)[<<>>].root = RootsOf(S, v)[p \o <<k - 1>>]
          BY <1>3, <5>1, <5>3
        <5>5. subs[k] = OfShape(S, v, p \o <<k - 1>>)
          BY KidsAre
        <5> QED BY <5>4, <5>5
      <4>2. cs = ds
        BY <4>1
      <4> QED BY <4>2
    <3> QED BY <3>1, <3>2
  <2> QED BY <2>4, <2>5, <2>6
<1>4. \A p \in D : p \in P
  <2> HIDE DEF D, P
  <2> QED BY <1>1, <1>2, <1>3, Downward
<1> QED BY <1>4

\* The tree that ofShape builds of any value has at its top the root that the
\* specification's hashTreeRoot computes from the value.
THEOREM TreeHasReferenceRoot ==
  ASSUME NEW S, IsShape(S), NEW v, IsValue(S, v)
  PROVE  OfShape(S, v, <<>>)[<<>>].root = HashTreeRoot(S, v)
<1>1. <<>> \in DOMAIN v
  BY DEF IsValue
<1>2. HashTreeRoot(S, v) = RootsOf(S, v)[<<>>]
  BY DEF HashTreeRoot, RootsOf
<1> QED BY <1>1, <1>2, TreeRoot

-----------------------------------------------------------------------------
(* The inductive invariant, and what follows from it.                      *)

\* The inductive invariant: the value is one of the type; every slot of the
\* tree has its root; each write is recorded under its index; and the tree is
\* that of the value but for the places written since the last read.
IInv ==
  /\ IsValue(T, view)
  /\ IsFull(tree)
  /\ Indexed(pending) /\ Cardinality(DOMAIN pending) <= MaxPending
  /\ Agree(tree, view, Paths(pending))

\* Such a tree has no empty slot.
LEMMA FullSlots ==
  ASSUME NEW n, IsFull(n)
  PROVE  \A z \in DOMAIN n : n[z].root # None
BY DEF IsFull

\* Nothing recorded.
LEMMA EmptyPending ==
  /\ DOMAIN <<>> = {} /\ Indexed(<<>>) /\ Cardinality(DOMAIN <<>>) <= MaxPending
<1>1. DOMAIN <<>> = {}
  OBVIOUS
<1>2. IsFiniteSet({}) /\ Cardinality({}) = 0
  BY FS_EmptySet
<1> QED BY <1>1, <1>2, MaxPendingAssumption DEF Indexed

\* ofValue establishes the invariant.
LEMMA InitInv ==
  ASSUME Init PROVE IInv
<1>1. IsShape(T) /\ IsValue(T, view) /\ tree = OfShape(T, view, <<>>) /\ pending = <<>>
  BY ShapeAssumption DEF Init
<1>2. <<>> \in DOMAIN view
  BY <1>1 DEF IsValue
<1>3. IsFull(tree)
  BY <1>1, <1>2, ShapeFull
<1>4. Agree(tree, view, Paths(pending))
  BY <1>1, LooksSame DEF Agree
<1> QED BY <1>1, <1>3, <1>4, EmptyPending DEF IInv

\* What a read returns and leaves.
LEMMA ReadRootIs ==
  ASSUME WithinCapacity, IInv
  PROVE  LET m == OfShape(T, view, <<>>)
         IN  CommitAndHash(tree, Writes(view, pending)) = [root |-> m[<<>>].root, node |-> m]
<1> DEFINE m == OfShape(T, view, <<>>)
           us == Writes(view, pending)
<1>1. IsValue(T, view) /\ IsFull(tree) /\ Indexed(pending) /\ Agree(tree, view, Paths(pending))
  BY DEF IInv
<1>2. Rel(tree, m, DOMAIN us)
  BY <1>1, WritesRel
<1>3. Fits(us, m)
  BY <1>1, WritesFit
<1>4. \A z \in DOMAIN tree : tree[z].root # None
  BY <1>1, FullSlots
<1> HIDE DEF m, us
<1>5. CommitAndHash(tree, us) = [root |-> m[<<>>].root, node |-> m]
  BY <1>2, <1>3, <1>4, CommitMakesUpdates
<1> QED BY <1>5 DEF m, us

\* sszUpdate preserves the invariant.
LEMMA UpdateInv ==
  ASSUME WithinCapacity, IInv, NEW clauses \in Statements, Update(clauses)
  PROVE  IInv'
<1>1. /\ IsValue(T, view) /\ IsFull(tree) /\ Indexed(pending) /\ Agree(tree, view, Paths(pending))
  BY DEF IInv
<1>2. /\ view' = Updated(view, clauses) /\ pending' = Recorded(pending, clauses)
      /\ Cardinality(DOMAIN pending') <= MaxPending /\ tree' = tree
  BY DEF Update
<1>3. Paths(pending) \in SUBSET DOMAIN T
  BY <1>1 DEF Paths, Indexed
<1>4. /\ IsValue(T, view')
      /\ Agree(tree, view', Paths(pending) \union Targets(clauses, Len(clauses)))
  BY <1>1, <1>2, <1>3, UpdatedAgrees
<1>5. Agree(tree, view', Paths(pending'))
  <2>1. Agree(tree, view', Paths(Recorded(pending, clauses)))
    BY <1>1, <1>4, RecordedAgrees
  <2> QED BY <1>2, <2>1
<1>6. Indexed(pending')
  <2>1. Indexed(Recorded(pending, clauses))
    BY <1>1, RecordedIndexed
  <2> QED BY <1>2, <2>1
<1> QED BY <1>1, <1>2, <1>4, <1>5, <1>6 DEF IInv, Paths, Indexed, Agree

\* hashTreeRootCached preserves the invariant.
LEMMA ReadRootInv ==
  ASSUME WithinCapacity, IInv, ReadRoot
  PROVE  IInv'
<1> DEFINE m == OfShape(T, view, <<>>)
<1>1. CommitAndHash(tree, Writes(view, pending)) = [root |-> m[<<>>].root, node |-> m]
  BY ReadRootIs
<1>2. tree' = m /\ pending' = <<>> /\ view' = view
  BY <1>1 DEF ReadRoot
<1>3. IsShape(T) /\ IsValue(T, view) /\ <<>> \in DOMAIN view
  BY ShapeAssumption DEF IInv, IsValue
<1>4. IsFull(m)
  BY <1>3, ShapeFull
<1>5. Agree(m, view, Paths(<<>>))
  BY LooksSame DEF Agree
<1> HIDE DEF m
<1>6. IsValue(T, view') /\ IsFull(tree') /\ Agree(tree', view', Paths(pending'))
  BY <1>2, <1>3, <1>4, <1>5
<1>7. Indexed(pending') /\ Cardinality(DOMAIN pending') <= MaxPending
  BY <1>2, EmptyPending
<1> QED BY <1>6, <1>7 DEF IInv

\* Every step preserves the invariant.
LEMMA NextInv ==
  ASSUME WithinCapacity, IInv, [Next]_vars PROVE IInv'
<1>1. ASSUME NEW clauses \in Statements, Update(clauses) PROVE IInv'
  BY <1>1, UpdateInv
<1>2. CASE ReadRoot
  BY <1>2, ReadRootInv
<1>3. CASE UNCHANGED vars
  BY <1>3 DEF vars, IInv, Paths, Indexed, Agree
<1> QED BY <1>1, <1>2, <1>3 DEF Next

\* The inductive invariant of the cached flavour, for every type, every set of
\* values and statements: through any sequence of updates and reads, out of
\* bounds or not, every slot of the tree has its root and the tree differs from
\* that of the value only where a write is recorded.
THEOREM TreeBackedInvariant ==
  WithinCapacity => (Spec => []IInv)
<1> SUFFICES ASSUME WithinCapacity PROVE Spec => []IInv
  OBVIOUS
<1>1. Init => IInv
  BY InitInv
<1>2. IInv /\ [Next]_vars => IInv'
  BY NextInv
<1> QED BY <1>1, <1>2, PTL DEF Spec

\* Every write stays recorded under the index that leads back to its place:
\* gindexOfBits and gindexBits are inverse on the paths of sszUpdate.
THEOREM TreeBackedTypeCorrect ==
  WithinCapacity => (Spec => []TypeOK)
<1> SUFFICES ASSUME WithinCapacity PROVE Spec => []TypeOK
  OBVIOUS
<1>1. ASSUME IInv PROVE TypeOK
  <2>1. \A g \in DOMAIN pending : GindexBits(g) = PathBits[pending[g]]
    BY <1>1, WritesFit DEF IInv
  <2>2. tree[<<>>].root # None
    BY <1>1, FullSlots DEF IInv, IsFull, IsTree
  <2> QED BY <1>1, <2>1, <2>2 DEF TypeOK, IInv
<1> QED BY <1>1, TreeBackedInvariant, PTL

\* No slot of the tree ever lies, so that the side that commitAndHash does not
\* visit has the root it takes for granted.
THEOREM CachesAlwaysSound ==
  WithinCapacity => (Spec => []CachesSound)
<1> SUFFICES ASSUME WithinCapacity PROVE Spec => []CachesSound
  OBVIOUS
<1>1. ASSUME IInv PROVE CachesSound
  <2> SUFFICES ASSUME NEW z \in DOMAIN tree, tree[z].pair
               PROVE  tree[z].root = Combine(Roots(tree)[Left(z)], Roots(tree)[Right(z)])
    BY DEF CachesSound
  <2>1. IsFull(tree) /\ IsTree(tree)
    BY <1>1 DEF IInv, IsFull
  <2>2. Left(z) \in DOMAIN tree /\ Right(z) \in DOMAIN tree
    BY <2>1, ChildIn
  <2>3. \A y \in DOMAIN tree : Roots(tree)[y] = tree[y].root
    BY <2>1, FullRoots
  <2>4. tree[z].root = Combine(tree[Left(z)].root, tree[Right(z)].root)
    BY <2>1 DEF IsFull
  <2> QED BY <2>2, <2>3, <2>4
<1> QED BY <1>1, TreeBackedInvariant, PTL

\* No write is lost before it is committed: where the tree differs from that of
\* the value, a write at the place or above it is recorded, and it is one that
\* the next read does not drop.
THEOREM WritesNeverLost ==
  WithinCapacity => (Spec => []NoWriteLost)
<1> SUFFICES ASSUME WithinCapacity PROVE Spec => []NoWriteLost
  OBVIOUS
<1>1. ASSUME IInv PROVE NoWriteLost
  <2> DEFINE m == OfShape(T, view, <<>>)
  <2> SUFFICES ASSUME NEW place \in Differences(tree, m)
               PROVE  \E g \in DOMAIN pending : IsPrefix(GindexBits(g), place) /\ InBounds(view, pending[g])
    BY DEF NoWriteLost
  <2>1. IsFull(tree) /\ Agree(tree, view, Paths(pending))
    BY <1>1 DEF IInv
  <2>2. place \in DOMAIN tree /\ ~(tree[place].pair /\ m[place].pair) /\ tree[place] # m[place]
    BY DEF Differences
  <2>3. place \in Seq(Bit)
    BY <2>1, <2>2 DEF IsFull, IsTree
  <2>4. ~Looks(tree, m, place)
    <3> HIDE DEF m
    <3> QED BY <2>2 DEF Looks
  <2>5. Covered(Wrote(view, Paths(pending)), place)
    BY <2>1, <2>3, <2>4 DEF Agree
  <2>6. PICK u \in Wrote(view, Paths(pending)) : IsPrefix(u, place)
    BY <2>5 DEF Covered
  <2>7. PICK q \in Paths(pending) : q \in DOMAIN view /\ u = PathBits[q]
    BY DEF Wrote
  <2>8. PICK g \in DOMAIN pending : q = pending[g]
    BY DEF Paths
  <2>9. GindexBits(g) = u
    BY <1>1, <2>7, <2>8, WritesFit DEF IInv
  <2> QED BY <2>6, <2>7, <2>8, <2>9 DEF InBounds
<1> QED BY <1>1, TreeBackedInvariant, PTL

\* The single walk of commitAndHash returns the root that its two walks would,
\* and that of the writes made one by one in any order: parents and children in
\* one batch do not disturb each other.
THEOREM CommitAlwaysFused ==
  WithinCapacity => (Spec => []FusedCommit)
<1> SUFFICES ASSUME WithinCapacity PROVE Spec => []FusedCommit
  OBVIOUS
<1>1. ASSUME IInv PROVE FusedCommit
  <2> DEFINE m == OfShape(T, view, <<>>)
             us == Writes(view, pending)
             s == SetManyAt(tree, us)
  <2>1. IsValue(T, view) /\ IsFull(tree) /\ Indexed(pending) /\ Agree(tree, view, Paths(pending))
    BY <1>1 DEF IInv
  <2>2. Rel(tree, m, DOMAIN us)
    BY <2>1, WritesRel
  <2>3. Fits(us, m) /\ IsFiniteSet(DOMAIN us)
    BY <2>1, WritesFit
  <2>4. CommitAndHash(tree, us).root = m[<<>>].root
    <3> HIDE DEF m, us
    <3> QED BY <2>2, <2>3, CommitMakesUpdates
  <2>5. MerkleRootWithCache(s).root = m[<<>>].root
    <3>1. Rel(s, m, {})
      <4> HIDE DEF m, us
      <4>1. Rel(SetManyAt(tree, us), m, DOMAIN us \ DOMAIN us)
        BY <2>2, <2>3, SetManyRel
      <4>2. DOMAIN us \ DOMAIN us = {}
        OBVIOUS
      <4> QED BY <4>1, <4>2
    <3> HIDE DEF s, m
    <3>2. RootOf(s) = m[<<>>].root
      BY <3>1, RelNone
    <3> QED BY <3>2 DEF MerkleRootWithCache, RootOf
  <2>6. \A order \in Orders(us) : RootOf(InTurn(tree, us, order)) = m[<<>>].root
    <3> HIDE DEF m, us
    <3> QED BY <2>2, <2>3, InTurnIs
  <2> HIDE DEF m
  <2> QED BY <2>4, <2>5, <2>6 DEF FusedCommit
<1> QED BY <1>1, TreeBackedInvariant, PTL

-----------------------------------------------------------------------------
(* Roots read.                                                             *)

\* A read returns the reference root of the value.
LEMMA ReadRootGives ==
  ASSUME WithinCapacity, IInv, ReadRoot
  PROVE  root' = HashTreeRoot(T, view) /\ view' = view
<1> DEFINE m == OfShape(T, view, <<>>)
<1>1. CommitAndHash(tree, Writes(view, pending)) = [root |-> m[<<>>].root, node |-> m]
  BY ReadRootIs
<1>2. root' = m[<<>>].root /\ view' = view
  BY <1>1 DEF ReadRoot
<1>3. IsShape(T) /\ IsValue(T, view)
  BY ShapeAssumption DEF IInv
<1> QED BY <1>2, <1>3, TreeHasReferenceRoot

\* hashTreeRootCached returns the reference root of the value, as
\* TreeBacked.lean says of it.
THEOREM RootAlwaysCoherent ==
  WithinCapacity => (Spec => []Coherent)
<1> SUFFICES ASSUME WithinCapacity PROVE Spec => []Coherent
  OBVIOUS
<1>1. Init => Coherent
  BY DEF Init, Coherent
<1>2. IInv /\ Coherent /\ [Next]_vars => Coherent'
  <2> SUFFICES ASSUME IInv, Coherent, [Next]_vars PROVE Coherent'
    OBVIOUS
  <2>1. ASSUME NEW clauses \in Statements, Update(clauses) PROVE Coherent'
    BY <2>1 DEF Update, Coherent
  <2>2. CASE ReadRoot
    BY <2>2, ReadRootGives DEF Coherent
  <2>3. CASE UNCHANGED vars
    BY <2>3 DEF vars, Coherent
  <2> QED BY <2>1, <2>2, <2>3 DEF Next
<1> QED BY <1>1, <1>2, TreeBackedInvariant, PTL DEF Spec

\* The reference root is that of module UncachedSSZ.
LEMMA SameRoot == \A S, v : Uncached!HashTreeRoot(S, v) = HashTreeRoot(S, v)
BY DEF Uncached!HashTreeRoot, HashTreeRoot, Uncached!Merkleize, Merkleize,
       Uncached!CombineLayer, CombineLayer, Uncached!ChunkDepth, ChunkDepth,
       Uncached!ZeroHash, ZeroHash, Uncached!Pow2, Pow2, Uncached!NatToChunk, NatToChunk,
       Uncached!Combine, Combine, Uncached!Zero, Zero

\* So is the update of a value.
LEMMA SameUpdated == \A v, cs : Uncached!Updated(v, cs) = Updated(v, cs)
BY DEF Uncached!Updated, Updated, Uncached!Put, Put, Uncached!InBounds, InBounds,
       Uncached!Grafted, Grafted, Uncached!Placed, Placed, Uncached!Overlaid, Overlaid,
       Uncached!Evaluated, Evaluated, Uncached!IsPrefix, IsPrefix

\* The cached flavour implements the one without a cache: every step is a step
\* of it or changes nothing callers see.
THEOREM TreeBackedImplementsUncached ==
  WithinCapacity => (Spec => ImplementsUncached)
<1> SUFFICES ASSUME WithinCapacity PROVE Spec => ImplementsUncached
  OBVIOUS
<1>1. Init => Uncached!Init
  BY DEF Init, Uncached!Init, NoRoot, Uncached!NoRoot
<1>2. IInv /\ [Next]_vars => [Uncached!Next]_<<view, root>>
  <2> SUFFICES ASSUME IInv, [Next]_vars PROVE [Uncached!Next]_<<view, root>>
    OBVIOUS
  <2>1. ASSUME NEW clauses \in Statements, Update(clauses) PROVE Uncached!Update(clauses)
    BY <2>1, SameUpdated DEF Update, Uncached!Update, NoRoot, Uncached!NoRoot
  <2>2. CASE ReadRoot
    <3>1. Uncached!ReadRoot
      BY <2>2, ReadRootGives, SameRoot DEF Uncached!ReadRoot
    <3> QED BY <3>1 DEF Uncached!Next
  <2>3. CASE UNCHANGED vars
    BY <2>3 DEF vars
  <2> QED BY <2>1, <2>2, <2>3 DEF Next, Uncached!Next
<1> QED BY <1>1, <1>2, TreeBackedInvariant, PTL DEF Spec, ImplementsUncached, Uncached!Spec
=============================================================================
