---------------------------- MODULE MCTreeBacked ----------------------------
(***************************************************************************)
(* Instances of TreeBacked for TLC: a container of a list of at most three *)
(* containers of two numbers, a vector of three numbers, and a number.     *)
(***************************************************************************)
EXTENDS TreeBacked

\* The paths, those of a list's elements for the indices that callers use.
Shape(indices) ==
  LET Are(paths, kind, size) == [p \in paths |-> [kind |-> kind, size |-> size]]
      elements == {<<0, i>> : i \in indices}
  IN  Are({<<>>}, "container", 3) @@ Are({<<0>>}, "list", 3) @@ Are({<<1>>}, "vector", 3)
        @@ Are(elements, "container", 2)
        @@ Are({e \o <<k>> : e \in elements, k \in {0, 1}} \union {<<1, k>> : k \in 0..2}
                 \union {<<2>>}, "leaf", 0)

MCShape == Shape(0..3)
MCShapeBeyond == Shape(0..4)

\* Three elements fill four chunks; a fifth has the bits of another part.
ASSUME CapacityAssumption == WithinCapacity <=> T = MCShape

\* A value from those of its parts, and that of a leaf.
Node(parts) ==
  [p \in {<<>>} \union UNION {{<<k - 1>> \o q : q \in DOMAIN parts[k]} : k \in 1..Len(parts)} |->
     IF p = <<>> THEN Len(parts) ELSE parts[p[1] + 1][Tail(p)]]
Num(n) == [p \in {<<>>} |-> n]
Nums(ns) == Node([k \in 1..Len(ns) |-> Num(ns[k])])

MCValues == {Node(<<Node(<<>>), Nums(<<1, 1, 1>>), Num(0)>>),
             Node(<<Node(<<Nums(<<1, 5>>), Nums(<<2, 5>>)>>), Nums(<<1, 2, 1>>), Num(0)>>)}

Elems == {Nums(<<1, 5>>), Nums(<<2, 5>>)}
Lists == {Node(<<>>), Node(<<Nums(<<2, 5>>)>>),
          Node(<<Nums(<<1, 5>>), Nums(<<2, 5>>), Nums(<<1, 5>>)>>)}

\* The list, an element of it (some out of bounds), a field of an element, an
\* element of the vector, and the same in one statement.
Single(indices) ==
  {<<<<<<0>>, xs>>>> : xs \in Lists}
    \union {<<<<<<0, i>>, e>>>> : i \in indices, e \in Elems}
    \union {<<<<<<0, i, 0>>, Num(n)>>>> : i \in indices, n \in {1, 2}}
    \union {<<<<<<1, 2>>, Num(2)>>>>}

Double ==
  {<<<<<<0, 0, 0>>, Num(2)>>, <<<<0, 0>>, Nums(<<1, 5>>)>>>>}
    \union {<<<<<<0>>, Node(<<Nums(<<1, 5>>)>>)>>, <<<<0, i>>, Nums(<<2, 5>>)>>>> : i \in {0, 2}}

InRange == Single({0, 1, 3}) \union Double
BeyondCapacity == Single({0, 4})
=============================================================================
