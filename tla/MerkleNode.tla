----------------------------- MODULE MerkleNode -----------------------------
(***************************************************************************)
(* Merkle trees of the Lean library (SizzLean, Cache/MerkleTree): a node   *)
(* is a leaf with its chunk, or a pair with a slot for its root, empty     *)
(* where the root is not known.  A tree maps places to nodes; a place is   *)
(* the way to it, a sequence of bits, 0 for left.  Updates map places to   *)
(* the trees that go there.                                                *)
(***************************************************************************)
EXTENDS SszValue

None == <<>>
Leaf(chunk) == [pair |-> FALSE, root |-> chunk]
Pair(cache) == [pair |-> TRUE, root |-> cache]

Left(z) == z \o <<0>>
Right(z) == z \o <<1>>

-----------------------------------------------------------------------------
(* Roots.  The slot of a pair is believed wherever it is filled.           *)

Roots(n) ==
  LET Root[z \in DOMAIN n] ==
        IF n[z].pair /\ n[z].root = None THEN Combine(Root[Left(z)], Root[Right(z)]) ELSE n[z].root
  IN  Root

RootOf(n) == Roots(n)[<<>>]

\* The root, and the tree with every slot on the walk filled, which stops
\* where it finds one filled.
MerkleRootWithCache(n) ==
  LET roots == Roots(n)
      Unknown(z) == n[z].pair /\ n[z].root = None
      walked == {z \in DOMAIN n : \A k \in 0..Len(z) : Unknown(SubSeq(z, 1, k))}
  IN  [root |-> roots[<<>>],
       node |-> [z \in DOMAIN n |-> IF z \in walked THEN Pair(roots[z]) ELSE n[z]]]

-----------------------------------------------------------------------------
(* Generalized indices: 1 is the root, the children of g are 2g and 2g+1.  *)

Bit == {0, 1}

\* Faulty: the path from the target to the root.
GindexBitsUpwards(g) ==
  LET n == CHOOSE k \in 0..g : Pow2[k] <= g /\ g < Pow2[k + 1]
  IN  [k \in 1..n |-> (g \div Pow2[k - 1]) % 2]

GindexBits(g) ==
  LET n == CHOOSE k \in 0..g : Pow2[k] <= g /\ g < Pow2[k + 1]
  IN  [k \in 1..n |-> (g \div Pow2[n - k]) % 2]

GindexOfBits[z \in Seq(Bit)] ==
  IF z = <<>> THEN 1 ELSE 2 * GindexOfBits[Front(z)] + Last(z)

\* The number of a place among those of its depth, from the left.
Number(z) == GindexOfBits[z] - Pow2[Len(z)]

-----------------------------------------------------------------------------
(* Trees of values.                                                        *)

Places(depth) == UNION {[1..k -> Bit] : k \in 0..depth}

\* Faulty: the slot gets the zero hash of the child's height.
ZeroSlotOneLow(height) == ZeroHash[IF height = 0 THEN 0 ELSE height - 1]

\* The root that zeroLeaf puts into an all-zero tree.
ZeroSlot(height) == ZeroHash[height]

\* The subtrees as the leaves of a tree, completed with zero trees on the right.
OfSubtrees(subs, depth) ==
  LET fit == SubSeq(subs, 1, IF Len(subs) <= Pow2[depth] THEN Len(subs) ELSE Pow2[depth])
      Empty(z) == Len(fit) <= Number(z) * Pow2[depth - Len(z)]
      ZeroTree(z) == Empty(z) /\ (Len(z) = depth \/ Number(z) # 0)
      Sub(z) == fit[Number(z) + 1]
      Root[z \in Places(depth)] ==
        IF ZeroTree(z) THEN ZeroSlot(depth - Len(z))
        ELSE IF Len(z) = depth THEN RootOf(Sub(z))
        ELSE Combine(Root[Left(z)], Root[Right(z)])
      bottom == {z \in Places(depth) : Len(z) = depth /\ ~Empty(z)}
      below == UNION {{b \o y : y \in DOMAIN Sub(b)} : b \in bottom}
  IN  Overlaid(
        [z \in Places(depth) \ bottom |-> IF Len(z) < depth THEN Pair(Root[z]) ELSE Leaf(Root[z])],
        [z \in below |-> Sub(SubSeq(z, 1, depth))[SubSeq(z, depth + 1, Len(z))]])

MixInLength(n, count) ==
  Overlaid([z \in {<<>>, <<1>>} |-> IF z = <<>> THEN Pair(Combine(RootOf(n), NatToChunk(count)))
                                    ELSE Leaf(NatToChunk(count))],
           Placed(<<0>>, n))

\* The tree of what a value has at a path.
OfShape(S, v, path) ==
  LET Tree[p \in DOMAIN v] ==
        LET body == OfSubtrees([k \in 1..v[p] |-> Tree[p \o <<k - 1>>]], ChunkDepth(S[p].size))
        IN  CASE S[p].kind = "leaf" -> [z \in {<<>>} |-> Leaf(NatToChunk(v[p]))]
              [] S[p].kind = "list" -> MixInLength(body, v[p])
              [] OTHER -> body
  IN  Tree[path]

-----------------------------------------------------------------------------
(* Updates of trees.                                                       *)

\* The updates that replace the place or what holds it, and those below it.
Over(us, z) == {u \in DOMAIN us : IsPrefix(u, z)}
Under(us, z) == {u \in DOMAIN us : IsStrictPrefix(z, u)}

\* The walk goes down to the first update on its way, or to a leaf; it makes
\* the pairs anew that it passes.
Passed(n, us) == {z \in DOMAIN n : n[z].pair /\ Over(us, z) = {} /\ Under(us, z) # {}}

Rebuilt(n, us, slots, news) ==
  LET kept == {z \in DOMAIN n : Over(us, z) = {}}
      first == {u \in DOMAIN us \intersect DOMAIN n : Over(us, u) = {u}}
      new == UNION {{u \o y : y \in DOMAIN news[u]} : u \in first}
      First(z) == CHOOSE u \in first : IsPrefix(u, z)
  IN  Overlaid([z \in kept |-> IF z \in Passed(n, us) THEN Pair(slots[z]) ELSE n[z]],
               [z \in new |-> news[First(z)][SubSeq(z, Len(First(z)) + 1, Len(z))]])

\* Many updates in one walk: the one that replaces the whole of a subtree
\* wins over all that go below it.
SetManyAt(n, us) == Rebuilt(n, us, [z \in Passed(n, us) |-> None], us)

\* One update.  A path that goes past a leaf replaces nothing.
SetAtBits(n, bits, new) == SetManyAt(n, [u \in {bits} |-> new])

\* Faulty: a side that gets updates keeps the root it had.
CommitAndHashStale(n, us) ==
  LET roots == Roots(n)
      Root[z \in {z \in DOMAIN n : Over(us, z) \subseteq {z}}] ==
        IF z \in DOMAIN us THEN RootOf(us[z])
        ELSE IF z \in Passed(n, us) THEN Combine(Root[Left(z)], roots[Right(z)])
        ELSE roots[z]
  IN  IF DOMAIN us = {} THEN MerkleRootWithCache(n)
      ELSE [root |-> Root[<<>>],
            node |-> Rebuilt(n, us, Root, [u \in DOMAIN us |-> MerkleRootWithCache(us[u]).node])]

\* SetManyAt and MerkleRootWithCache in one walk: a side without updates is
\* kept as it is, and its root taken from its slot.
CommitAndHash(n, us) ==
  LET roots == Roots(n)
      Root[z \in {z \in DOMAIN n : Over(us, z) \subseteq {z}}] ==
        IF z \in DOMAIN us THEN RootOf(us[z])
        ELSE IF z \in Passed(n, us) THEN Combine(Root[Left(z)], Root[Right(z)])
        ELSE roots[z]
  IN  IF DOMAIN us = {} THEN MerkleRootWithCache(n)
      ELSE [root |-> Root[<<>>],
            node |-> Rebuilt(n, us, Root, [u \in DOMAIN us |-> MerkleRootWithCache(us[u]).node])]
=============================================================================
