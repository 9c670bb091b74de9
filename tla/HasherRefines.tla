--------------------------- MODULE HasherRefines ---------------------------
(***************************************************************************)
(* The flat buffer implements the stack of values: what lies between two   *)
(* indices is what has been written to one value, and a value that is      *)
(* being merkleized still counts as open, with the cells it had.           *)
(***************************************************************************)
EXTENDS Hasher

BarCells(i) == IF i = Len(frames) /\ pc = "layers" THEN input ELSE Owned(i)

BarStack ==
  [i \in 1..Len(frames) |->
     [kind |-> frames[i].kind, width |-> frames[i].width, limit |-> frames[i].limit,
      num |-> frames[i].num, cells |-> BarCells(i)]]

BarRoot == IF pc = "done" THEN Above(buf, Len(buf) - ChunkSize) ELSE root

Promise == INSTANCE TreeHash WITH stack <- BarStack, root <- BarRoot

\* Every step of the hasher is a step of the specification of roots, or
\* leaves its state alone: in particular the root a hasher returns is that of
\* the value written (TreeHash), whatever was nested in it.
ImplementsTreeHash == Promise!Spec
=============================================================================
