------------------------------ MODULE MCHasher ------------------------------
(***************************************************************************)
(* Instances of Hasher for TLC: chunks of two bytes, bytes of two bits.    *)
(***************************************************************************)
EXTENDS HasherRefines, InPlace, SequencesExt

MCPow2 == [i \in 0..MaxDepth |-> 2^i]

MCZeroHash ==
  LET Z[i \in 0..MaxDepth] == IF i = 0 THEN ZeroChunk ELSE Digest(Z[i - 1], Z[i - 1])
  IN  [i \in 0..MaxDepth |-> Z[i]]

\* Values nested in values: every kind that holds others.
Nested ==
  [kinds |-> Containers \union Series \union {"bytelist"}, widths |-> {1}, limits |-> {2},
   numbers |-> {1}, strings |-> {<<>>, <<1, 2, 1>>}, maxCells |-> 3, maxFrames |-> 3]

\* Byte strings and bit lists, within and at their limits.
Stringy ==
  [kinds |-> {"container"} \union ByteStrings, widths |-> {1}, limits |-> {1, 2, 3, 9},
   numbers |-> {1},
   strings |-> {<<>>, <<1>>, <<0, 1>>, <<1, 2>>, <<0, 0, 1>>, <<1, 0, 3>>, <<2, 0>>,
                <<1, 2, 0, 0, 1>>, <<1, 2, 3, 1, 2, 3, 1, 2, 3, 1, 2>>},
   maxCells |-> 2, maxFrames |-> 2]

\* Series of up to five chunks: trees of three layers, odd and even.
Long ==
  [kinds |-> {"container", "list", "vector"}, widths |-> {2}, limits |-> {5, 6},
   numbers |-> {1}, strings |-> {}, maxCells |-> 8, maxFrames |-> 2]

\* Sparse progressive containers that reach the third subtree.
Sparse ==
  [kinds |-> {"progressive"}, widths |-> {}, limits |-> {},
   numbers |-> {1, 2}, strings |-> {}, maxCells |-> 13, maxFrames |-> 1]

\* Lists of strings, bounded and progressive, and one in a table of its own.
Texts ==
  [kinds |-> Containers \union {"list", "pstrings", "bytelist", "bytevector"}, widths |-> {},
   limits |-> {2}, numbers |-> {}, strings |-> {<<1>>, <<1, 2, 1>>}, maxCells |-> 3,
   maxFrames |-> 3]

AllSchemas == {Nested, Stringy, Texts, Long, Sparse}
TextsOnly == {Texts}
SparseOnly == {Sparse}
=============================================================================
