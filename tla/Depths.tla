------------------------------- MODULE Depths -------------------------------
(***************************************************************************)
(* The depth of the tree under a bounded list.  A generator turns ssz_max  *)
(* into a limit in chunks, in 64-bit words, and writes it as a literal;    *)
(* the runtime of the language derives the depth from it, in words or, in  *)
(* TypeScript, in 32-bit integers.  Words, integers and chunks are scaled  *)
(* down here.  The Go runtime is not in the repository.                    *)
(***************************************************************************)
EXTENDS Flatc, Integers

CONSTANTS
  WordBits,     (* 64 in the code.                                          *)
  IntBits,      (* 32 in the code.                                          *)
  ChunkBytes    (* 32 in the code.                                          *)

Pow2[n \in Nat] == IF n = 0 THEN 1 ELSE 2 * Pow2[n - 1]

\* A chunk is a power of two, has whole elements of every size, and a word
\* counts the bits of at least two chunks.
ASSUME WidthAssumption ==
  /\ IntBits \in Nat \ {0, 1} /\ WordBits \in Nat /\ IntBits < WordBits
  /\ \E c \in 3..(WordBits - 4) : ChunkBytes = Pow2[c]

\* The numbers of ssz_max are words (StringToUInt).
ASSUME NumbersAssumption ==
  \A s \in Sources : \A k \in 1..Len(s) : \A f \in Range(s[k].fields) :
    \A i \in 1..Len(f.max) : f.max[i] < Pow2[WordBits]

Runtimes == {"rust", "ts", "java", "csharp", "zig", "nim"}

Word(n) == n % Pow2[WordBits]

\* Conversion to a signed integer, as by the bit operators of JavaScript.
Int32(n) ==
  LET m == n % Pow2[IntBits]
  IN  IF m < Pow2[IntBits - 1] THEN m ELSE m - Pow2[IntBits]

\* The trees under a field with a bound: what its leaves hold, how many of
\* these it has at most and, of elements, their size.
Trees(field, info) ==
  CASE info.ssz = "bitlist" /\ field.attr = "bitlist" ->
         {[of |-> "bits", limit |-> field.max[1]]}
    [] info.ssz = "list" /\ info.elem.ssz = "list" ->
         {[of |-> "roots", limit |-> info.limit]}
           \union {[of |-> "bytes", limit |-> l] : l \in {info.elem.limit} \ {0}}
    [] info.ssz = "list" /\ info.elem.ssz = "container" ->
         {[of |-> "roots", limit |-> info.limit]}
    [] info.ssz = "list" /\ info.elem.ssz = "uint" /\ info.elem.size = 1 ->
         {[of |-> "bytes", limit |-> info.limit]}
    [] info.ssz = "list" /\ info.elem.ssz \in {"bool", "uint"} /\ info.elem # Info("uint", FALSE, 1) ->
         {[of |-> "elements", limit |-> info.limit, size |-> info.elem.size]}
    [] OTHER -> {}

-----------------------------------------------------------------------------
\* Faulty: a last chunk that is not full is not counted.
LimitForElementsDown(limit, size) == limit \div (ChunkBytes \div size)

\* ssz_limit_for_elements of all generators but the Rust one.
LimitForElements(limit, size) ==
  LET perChunk == ChunkBytes \div size
  IN  Word(limit + perChunk - 1) \div perChunk

\* The limit in chunks that a generated method passes to the hasher, or that
\* put_bitlist passes on.
ChunkLimit(runtime, tree) ==
  CASE tree.of = "roots" -> tree.limit
    [] tree.of = "bytes" -> Word(tree.limit + ChunkBytes - 1) \div ChunkBytes
    [] tree.of = "elements" ->
         IF runtime = "rust"
         THEN Word(tree.limit * tree.size + ChunkBytes - 1) \div ChunkBytes
         ELSE LimitForElements(tree.limit, tree.size)
    [] tree.of = "bits" ->
         IF runtime = "ts"
         THEN Int32((tree.limit + 8 * ChunkBytes - 1) \div (8 * ChunkBytes))
         ELSE Word(tree.limit + 8 * ChunkBytes - 1) \div (8 * ChunkBytes)

-----------------------------------------------------------------------------
(* What the generated hash methods need.  No hasher but the one of Rust    *)
(* has all names that the generators write; the copies beside the          *)
(* benchmarks, under tests/ssz, have more of them, and count here.         *)

\* The sizes of integers that a hasher takes by the names in the code.
UintsNamed(runtime) == IF runtime \in {"ts", "java"} THEN {8} ELSE {1, 2, 4, 8}

\* hashTreeRootWith is called on nested tables in Java and C#, and never written.
NestedNamed(runtime) == runtime \notin {"java", "csharp"}

\* The fields with a leaf.
Hashed(table) ==
  {k \in LiveFields(table) : table.progressive => table.fields[k].id # NoId}

\* Index 0 counts as one even when no field has an index.
HasGap(table) ==
  /\ table.progressive
  /\ {table.fields[k].id : k \in Hashed(table)} \notin {0..(n - 1) : n \in 1..Len(table.fields)}

\* The integers are fields, elements that are not bytes, and a gap's zero.
UintsCalled(table) ==
  LET types == {table.fields[k].type : k \in Hashed(table)}
      lists == {table.fields[k].type :
                  k \in {h \in Hashed(table) : /\ table.fields[h].type.base \in {"vector", "array"}
                                              /\ table.fields[h].attr \in {"none", "progressive_list"}}}
  IN  {t.size : t \in {u \in types : u.base = "uint"}}
        \union ({t.elem.size : t \in {l \in lists : l.elem.base = "uint"}} \ {1})
        \union (IF HasGap(table) THEN {1} ELSE {})

NestedCalled(table) == \E k \in Hashed(table) : Callee(table.fields[k]) # NoTable

\* A literal of Java without a suffix is of type int.
LiteralFits(runtime, tree) ==
  runtime = "java" =>
    (IF tree.of = "bits" THEN tree.limit ELSE ChunkLimit(runtime, tree)) < Pow2[IntBits - 1]

\* The decoder of Rust, in the same impl, fills arrays of bytes only.
ArraysConvert(runtime, table) ==
  runtime = "rust" =>
    \A k \in LiveFields(table) :
      table.fields[k].type.base = "array" /\ table.fields[k].attr # "bitvector"
        => table.fields[k].type.elem = UintType(1)

\* The hash methods of a schema compile: all that they call is there, and their
\* limits are literals of the language.
Compiles(runtime) ==
  \A t \in Range(parsed) :
    /\ ArraysConvert(runtime, t)
    /\ UintsCalled(t) \subseteq UintsNamed(runtime)
    /\ NestedCalled(t) => NestedNamed(runtime)
    /\ \A k \in Hashed(t) :
         \A tree \in Trees(t.fields[k], ResolveSszFieldInfo(t.fields[k], NoFields)) :
           LiteralFits(runtime, tree)

-----------------------------------------------------------------------------
(* The depth, and what it should be.                                       *)

LeastPower(n) == CHOOSE d \in 0..WordBits : n <= Pow2[d] /\ \A e \in 0..(d - 1) : Pow2[e] < n

\* The shifts of getDepth set every bit below the highest one.
Smear(v) == IF v < 0 THEN -1 ELSE Pow2[LeastPower(v + 1)] - 1

\* getDepth of TypeScript; 31 - clz32(0) is -1.
IntDepth(n) ==
  LET v == Smear(Int32(n - 1)) + 1
  IN  IF v = 0 THEN -1 ELSE LeastPower(v)

\* The next power of two above half the words is no word: Rust, C# and Zig
\* stop or have no depth then, and Nim takes 0.
NoDepth == -1
Depth(runtime, n) ==
  CASE n <= 1 -> 0
    [] n > 1 /\ runtime = "ts" -> IntDepth(n)
    [] n > 1 /\ runtime # "ts" -> IF n > Pow2[WordBits - 1] THEN NoDepth ELSE LeastPower(n)

CeilDiv(n, d) == (n + d - 1) \div d

\* The chunks of a value at its bound.
Leaves(tree) ==
  CASE tree.of = "roots" -> tree.limit
    [] tree.of = "bytes" -> CeilDiv(tree.limit, ChunkBytes)
    [] tree.of = "elements" -> CeilDiv(tree.limit * tree.size, ChunkBytes)
    [] tree.of = "bits" -> CeilDiv(tree.limit, 8 * ChunkBytes)

\* No sum or product on the way to the depth is beyond its type.
InRange(runtime, tree) ==
  LET top == Pow2[WordBits]
      bits == tree.of = "bits"
  IN  /\ Leaves(tree) <= Pow2[WordBits - 1]
      /\ runtime = "ts" => Leaves(tree) <= Pow2[IntBits - 1] - (IF bits THEN 1 ELSE 0)
      /\ tree.of = "bytes" => tree.limit + ChunkBytes - 1 < top
      /\ bits => runtime = "ts" \/ tree.limit + 8 * ChunkBytes - 1 < top
      /\ tree.of = "elements" =>
           IF runtime = "rust" THEN tree.limit * tree.size + ChunkBytes - 1 < top
           ELSE tree.limit + (ChunkBytes \div tree.size) - 1 < top

\* Every runtime that the hash methods of a schema compile with hashes a
\* bounded list in a tree of the depth of its bound, and so all compute one
\* root, exactly as long as no arithmetic overflows: in TypeScript, up to 2^31
\* chunks and in a bit list 2^31 - 1; in Rust, up to an ssz_max of 2^64 bytes
\* (getDepth, and the limits in GenHashField).
DepthsRight ==
  \A runtime \in {r \in Runtimes : Compiles(r)}, k \in Done :
    LET g == Generated(k)
        c == g.container
    IN  \A j \in {i \in 1..Len(c.infos) : i \in Range(g.leaves)} :
          \A tree \in Trees(c.fields[j], c.infos[j]) :
            Depth(runtime, ChunkLimit(runtime, tree)) = LeastPower(Leaves(tree))
              <=> InRange(runtime, tree)
=============================================================================
