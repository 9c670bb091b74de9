------------------------------ MODULE SszValue ------------------------------
(***************************************************************************)
(* SSZ values of the Lean library, their reference root, and updates by    *)
(* path (SizzLean: Spec/HashTreeRoot.lean and the view side of sszUpdate). *)
(*                                                                         *)
(* A path is a sequence of steps, each the number of a field or the index  *)
(* of an element, from 0.  A shape maps paths to kinds and sizes: a leaf   *)
(* is what fills one chunk, the size of a list its capacity.  A value maps *)
(* the paths that exist in it to numbers: that of a leaf, or how many      *)
(* fields or elements there are.  A shape may have elements of lists and   *)
(* vectors beyond its size, for callers who use them; no value has.        *)
(* A chunk is <<n>> and the hash of two roots the pair of them.            *)
(***************************************************************************)
EXTENDS Powers, FiniteSets, SequencesExt

Zero == <<0>>
Combine(x, y) == <<x, y>>
NatToChunk(n) == <<n>>

\* The tables of zero hashes end here, and types stay below (MAX_LENGTH = 2^32).
MaxDepth == 64

ZeroHash[d \in Nat] == IF d = 0 THEN Zero ELSE Combine(ZeroHash[d - 1], ZeroHash[d - 1])

\* The least depth whose tree has n leaves.
ChunkDepth(n) == CHOOSE d \in 0..n : n <= Pow2[d] /\ (d = 0 \/ Pow2[d - 1] < n)

-----------------------------------------------------------------------------
(* Functions on sequences: values by path, trees by place.                 *)

\* What lies at p and below, and the function with this replaced.
Part(f, p) ==
  [q \in {SubSeq(r, Len(p) + 1, Len(r)) : r \in {r \in DOMAIN f : IsPrefix(p, r)}} |-> f[p \o q]]

\* The function itself; TLC evaluates it once here, not at each application.
Evaluated(f) == CHOOSE g \in {f} : g = g

\* Both functions, the first where both are defined.
Overlaid(f, g) ==
  Evaluated([x \in DOMAIN f \union DOMAIN g |-> IF x \in DOMAIN f THEN f[x] ELSE g[x]])

Placed(p, g) == [r \in {p \o q : q \in DOMAIN g} |-> g[SubSeq(r, Len(p) + 1, Len(r))]]

Grafted(f, p, g) == Overlaid([r \in {r \in DOMAIN f : ~IsPrefix(p, r)} |-> f[r]], Placed(p, g))

IsShape(S) ==
  /\ DOMAIN S \subseteq Seq(Nat) /\ IsFiniteSet(DOMAIN S) /\ <<>> \in DOMAIN S
  /\ \A p \in DOMAIN S :
       /\ S[p].kind \in {"leaf", "container", "vector", "list"}
       /\ S[p].size \in Nat /\ ChunkDepth(S[p].size) <= MaxDepth
       /\ S[p].kind = "vector" => S[p].size > 0
       /\ S[p].kind # "leaf" => \A k \in 1..S[p].size : p \o <<k - 1>> \in DOMAIN S
       /\ p # <<>> => /\ Front(p) \in DOMAIN S /\ S[Front(p)].kind # "leaf"
                      /\ S[Front(p)].kind = "container" => Last(p) < S[Front(p)].size

\* The size of a list is part of its type, as is that of a vector.
IsValue(S, v) ==
  /\ DOMAIN v \subseteq DOMAIN S /\ <<>> \in DOMAIN v
  /\ \A p \in DOMAIN v :
       /\ v[p] \in Nat
       /\ S[p].kind \in {"container", "vector"} => v[p] = S[p].size
       /\ S[p].kind = "list" => v[p] <= S[p].size
  /\ \A p \in DOMAIN S \ {<<>>} :
       p \in DOMAIN v <=> Front(p) \in DOMAIN v /\ Last(p) < v[Front(p)]

-----------------------------------------------------------------------------
(* The reference root.                                                     *)

\* One layer: a last chunk without a neighbour is joined to the root of the
\* all-zero tree of the layer's height.
CombineLayer(level, cs) ==
  [k \in 1..((Len(cs) + 1) \div 2) |->
     Combine(cs[2 * k - 1], IF 2 * k <= Len(cs) THEN cs[2 * k] ELSE ZeroHash[level])]

Merkleize(cs, depth) ==
  LET Layer[k \in 0..depth] == IF k = 0 THEN cs ELSE CombineLayer(k - 1, Layer[k - 1])
  IN  IF cs = <<>> THEN ZeroHash[depth] ELSE Layer[depth][1]

HashTreeRoot(S, v) ==
  LET Root[p \in DOMAIN v] ==
        LET body == Merkleize([k \in 1..v[p] |-> Root[p \o <<k - 1>>]], ChunkDepth(S[p].size))
        IN  CASE S[p].kind = "leaf" -> NatToChunk(v[p])
              [] S[p].kind = "list" -> Combine(body, NatToChunk(v[p]))
              [] OTHER -> body
  IN  Root[<<>>]

-----------------------------------------------------------------------------
(* Updates.                                                                *)

\* Every index of the path is within its list or vector.
InBounds(v, path) == path \in DOMAIN v

\* The value with its part at the path replaced; a write whose index is out
\* of bounds changes nothing (Array.set!).
Put(v, path, w) == IF InBounds(v, path) THEN Grafted(v, path, w) ELSE v

\* The clauses of one sszUpdate, each a path and a value, applied in order.
Updated(v, clauses) ==
  LET U[k \in 0..Len(clauses)] ==
        IF k = 0 THEN v ELSE Put(U[k - 1], clauses[k][1], clauses[k][2])
  IN  U[Len(clauses)]
=============================================================================
