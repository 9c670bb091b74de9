------------------------------ MODULE InPlace ------------------------------
(***************************************************************************)
(* The layer loop of Java and Zig.  The other runtimes hash the pairs of a *)
(* layer into a scratch buffer and copy it back (HashPairs); these two     *)
(* store each digest in the buffer at once, over chunks that the pairs     *)
(* were made of.                                                           *)
(***************************************************************************)
EXTENDS Hasher

\* One iteration of the inner loop: the digest of the pair at chunks 2p and
\* 2p + 1 replaces chunk p.
HashPair(s, p) ==
  LET hash == Digest(ChunkAt(s, 2 * p), ChunkAt(s, 2 * p + 1))
  IN  [k \in 1..Len(s) |->
         IF k \in (p * ChunkSize + 1)..((p + 1) * ChunkSize) THEN hash[k - p * ChunkSize] ELSE s[k]]

Pairs(s) == Len(s) \div (2 * ChunkSize)

\* Faulty: from the last pair to the first.
HashPairsFromLast(s) ==
  LET After[p \in 0..Pairs(s)] == IF p = Pairs(s) THEN s ELSE HashPair(After[p + 1], p)
  IN  Below(After[0], Pairs(s) * ChunkSize)

HashPairsInPlace(s) ==
  LET After[p \in 0..Pairs(s)] == IF p = 0 THEN s ELSE HashPair(After[p - 1], p - 1)
  IN  Below(After[Pairs(s)], Pairs(s) * ChunkSize)

\* Java and Zig, which overwrite a layer while they read it, leave the same
\* layer as the runtimes that hash it into a scratch buffer (merkleizeInner
\* against merkleize_inner).
InPlaceAgrees ==
  [][Layer =>
       Above(buf', Top.idx) =
         HashPairsInPlace(EvenLayer(Above(buf, Top.idx), merkle.layer))]_vars
=============================================================================
