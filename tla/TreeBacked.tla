----------------------------- MODULE TreeBacked -----------------------------
(***************************************************************************)
(* The cached flavour (SizzLean, Cache/TreeBacked.lean and Update.lean): a *)
(* value, a Merkle tree of an earlier value with every root in its slot,   *)
(* and the writes since.  An update changes the value at once and records  *)
(* only where; when a root is read, each recorded write looks up its part  *)
(* in the value as it is by then, and the tree is updated and hashed in    *)
(* one walk.                                                               *)
(***************************************************************************)
EXTENDS MerkleNode

CONSTANTS
  T, Values, Statements,  (* As in UncachedSSZ.                             *)
  MaxPending              (* Bound on the writes recorded between reads.    *)

ASSUME ShapeAssumption ==
  /\ IsShape(T)
  /\ \A v \in Values : IsValue(T, v)

\* sszUpdate checks at elaboration that a path is one of the type, and the
\* type of what is written there.
ASSUME StatementsAssumption ==
  \A clauses \in Statements :
    /\ clauses \in Seq(Range(clauses))
    /\ \A c \in Range(clauses) : c[1] \in DOMAIN T /\ IsValue(Part(T, c[1]), c[2])

ASSUME MaxPendingAssumption == MaxPending \in Nat

VARIABLES
  view,     (* The value.                                                   *)
  tree,     (* The tree without the recorded writes.                        *)
  pending,  (* The recorded writes: a path for each generalized index.      *)
  root      (* The root read since the last update, or NoRoot.              *)

vars == <<view, tree, pending, root>>

NoRoot == <<>>

-----------------------------------------------------------------------------
(* Where a path lies in the tree.                                          *)

StepBits(shape, step) ==
  (IF shape.kind = "list" THEN <<0>> ELSE <<>>)
    \o GindexBits(Pow2[ChunkDepth(shape.size)] + step)

PathBits[path \in DOMAIN T] ==
  IF path = <<>> THEN <<>>
  ELSE PathBits[Front(path)] \o StepBits(T[Front(path)], Last(path))

Gindex(path) == GindexOfBits[PathBits[path]]

\* No index leads past the chunks of its list or vector.  sszUpdate does not
\* compare an index with the capacity, and one past them has the bits of
\* another part.
WithinCapacity ==
  \A p \in DOMAIN T \ {<<>>} : Last(p) < Pow2[ChunkDepth(T[Front(p)].size)]

-----------------------------------------------------------------------------
\* Faulty: a write out of bounds commits the default of its type, here 1.
WritesUnchecked(v, p) ==
  LET One == [z \in {<<>>} |-> Leaf(NatToChunk(1))]
      Default(path) == IF T[path].kind = "leaf" THEN One ELSE OfSubtrees(<<One, One>>, 1)
      Taken(path) == IF InBounds(v, path) THEN OfShape(T, v, path) ELSE Default(path)
  IN  [bits \in {GindexBits(g) : g \in DOMAIN p} |-> Taken(p[GindexOfBits[bits]])]

\* The recorded writes as updates of the tree.  Each takes its part from the
\* value; one that is out of bounds is dropped.
Writes(v, p) ==
  [bits \in {GindexBits(g) : g \in {g \in DOMAIN p : InBounds(v, p[g])}} |->
     OfShape(T, v, p[GindexOfBits[bits]])]

-----------------------------------------------------------------------------
Init ==
  /\ view \in Values
  /\ tree = OfShape(T, view, <<>>)
  /\ pending = <<>>
  /\ root = NoRoot

\* A write replaces the one recorded at the same index.
Recorded(p, clauses) ==
  LET Key(k) == Gindex(clauses[k][1])
      Latest(g) == CHOOSE k \in 1..Len(clauses) :
                     Key(k) = g /\ \A j \in (k + 1)..Len(clauses) : Key(j) # g
  IN  Overlaid([g \in {Key(k) : k \in 1..Len(clauses)} |-> clauses[Latest(g)][1]], p)

\* sszUpdate: all its clauses at once.
Update(clauses) ==
  /\ view' = Updated(view, clauses)
  /\ pending' = Recorded(pending, clauses)
  /\ Cardinality(DOMAIN pending') <= MaxPending
  /\ root' = NoRoot
  /\ UNCHANGED tree

\* Faulty: the tree that is kept lacks the writes.
ReadRootUncommitted ==
  /\ root' = CommitAndHash(tree, Writes(view, pending)).root
  /\ pending' = <<>>
  /\ UNCHANGED <<tree, view>>

\* hashTreeRootCached.
ReadRoot ==
  LET commit == CommitAndHash(tree, Writes(view, pending))
  IN  /\ root' = commit.root
      /\ tree' = commit.node
      /\ pending' = <<>>
      /\ UNCHANGED view

Next == (\E clauses \in Statements : Update(clauses)) \/ ReadRoot

Spec == Init /\ [][Next]_vars

-----------------------------------------------------------------------------
(* Properties.                                                             *)

\* The places where two trees differ, as deep as both have them.
Differences(n, m) ==
  {z \in DOMAIN n \intersect DOMAIN m : ~(n[z].pair /\ m[z].pair) /\ n[z] # m[z]}

\* Every write is recorded under the generalized index that leads back to
\* it: gindexOfBits and gindexBits are inverse on the paths of sszUpdate.
TypeOK ==
  /\ \A g \in DOMAIN pending : GindexBits(g) = PathBits[pending[g]]
  /\ Cardinality(DOMAIN pending) <= MaxPending
  /\ tree[<<>>].root # None

\* No slot of the tree lies, whatever the order in which parents, children
\* and elements that come and go were written: a later root that takes it
\* for granted is right.
CachesSound ==
  LET roots == Roots(tree)
  IN  \A z \in DOMAIN tree :
        tree[z].pair => tree[z].root \in {None, Combine(roots[Left(z)], roots[Right(z)])}

\* No write is lost before it is committed: wherever the tree differs from
\* the tree of the value, a write at that place or above it is recorded and
\* will not be dropped.
NoWriteLost ==
  \A place \in Differences(tree, OfShape(T, view, <<>>)) :
    \E g \in DOMAIN pending :
      IsPrefix(GindexBits(g), place) /\ InBounds(view, pending[g])

\* The tree with the updates made one by one.
InTurn(n, us, order) ==
  LET N[k \in 0..Len(order)] ==
        IF k = 0 THEN n ELSE SetAtBits(N[k - 1], order[k], us[order[k]])
  IN  N[Len(order)]

\* The orders in which updates may be made.
Orders(us) ==
  {order \in [1..Cardinality(DOMAIN us) -> DOMAIN us] :
     \A u \in DOMAIN us : \E k \in DOMAIN order : order[k] = u}

\* The single walk of commitAndHash gives the root of the two walks it
\* stands for (SetAt.lean, "observationally equivalent to (n.setManyAt
\* updates).merkleRootWithCache"), and of the writes made one by one, in any
\* order.
FusedCommit ==
  LET us == Writes(view, pending)
      commit == CommitAndHash(tree, us)
  IN  /\ commit.root = MerkleRootWithCache(SetManyAt(tree, us)).root
      /\ \A order \in Orders(us) : commit.root = RootOf(InTurn(tree, us, order))

\* Callers cannot tell the flavours apart: each root the cache returns is the
\* root of the value, in every order of updates and reads.
Uncached == INSTANCE UncachedSSZ
ImplementsUncached == Uncached!Spec

\* The same of a single state, as the module says of hashTreeRootCached: the
\* root read is the root of the value.
Coherent == root # NoRoot => root = HashTreeRoot(T, view)
=============================================================================
