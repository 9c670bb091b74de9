----------------------------- MODULE HashTypes -----------------------------
(***************************************************************************)
(* The calls that generated tree_hash_with methods make of a Hasher.  A    *)
(* method opens a value by remembering the hasher's index, writes its      *)
(* fields or elements, and closes the value by merkleizing everything      *)
(* above that index.  What may be written where is fixed by the generator, *)
(* GenHashMethod and GenHashField.                                         *)
(***************************************************************************)
EXTENDS Chunks

CONSTANTS
  Schemas,        (* The schemas considered, see Schema.                    *)
  BitsPerByte,    (* 8 in the code.                                         *)
  LimitRespected  (* TRUE when the caller never exceeds a declared limit.   *)

-----------------------------------------------------------------------------
(* Kinds of value.  A series holds elements of a basic type of some width, *)
(* or, with width 0, tables or byte strings.  A byte string is written in  *)
(* one call.  A progressive list of strings (pstrings) is accepted, and of *)
(* its elements only the number is hashed: GenHashField has no branch for  *)
(* them.                                                                   *)

Containers == {"container", "progressive"}
Series == {"list", "plist", "vector", "pstrings"}
Bitlists == {"bitlist", "pbitlist"}
ByteStrings == {"bytelist", "pbytelist", "bytevector"} \union Bitlists
Kinds == Containers \union Series \union ByteStrings

ProgressiveKinds == {"progressive", "plist", "pstrings", "pbytelist"}
Plain == {"container", "vector", "bytevector"}      \* no length is mixed in
Limited == {"list", "bytelist", "bitlist"}

\* A schema declares kinds of values, sizes of the basic elements of a
\* series (they divide the chunk size) and limits of elements (ssz_max); with
\* it come the numbers and byte strings that are written, and two bounds:
\* on the bytes in the buffer when a call is made, and on nesting.
Schema ==
  [kinds : SUBSET Kinds, widths : SUBSET (Nat \ {0}), limits : SUBSET Nat,
   numbers : SUBSET Nat, strings : SUBSET Seq(Nat), maxCells : Nat, maxFrames : Nat]

ASSUME CallAssumption ==
  /\ Schemas \subseteq Schema
  /\ BitsPerByte \in Nat \ {0}
  /\ LimitRespected \in BOOLEAN
  /\ BitsPerByte <= MaxDepth
  /\ \A s \in Schemas : \A w \in s.widths : ChunkSize % w = 0
  /\ \A s \in Schemas : \A bs \in s.strings : \A k \in 1..Len(bs) : bs[k] < Pow2[BitsPerByte]

-----------------------------------------------------------------------------
(* Shapes of values.                                                       *)

Shape == [kind : Kinds, width : Nat, limit : Nat]

\* The shapes of the tables and series that schema s declares.
Openable(s) ==
  [kind : s.kinds \intersect (Containers \union {"pstrings"}), width : {0}, limit : {0}]
    \union [kind : s.kinds \intersect {"list"}, width : s.widths \union {0}, limit : s.limits]
    \union [kind : s.kinds \intersect {"plist", "vector"}, width : s.widths \union {0}, limit : {0}]

\* The shapes of the byte strings that it declares.
Writable(s) ==
  [kind : s.kinds \intersect {"bytelist", "bitlist"}, width : {1}, limit : s.limits]
    \union [kind : s.kinds \intersect {"pbytelist", "pbitlist", "bytevector"},
            width : {1}, limit : {0}]

\* The limit in chunks that the generator computes from ssz_max.
ChunkLimit(f) ==
  CASE f.kind = "list" /\ f.width = 0 -> f.limit
    [] f.kind = "list" /\ f.width > 0 -> CeilDiv(f.limit * f.width, ChunkSize)
    [] f.kind = "bytelist" -> CeilDiv(f.limit, ChunkSize)
    [] f.kind = "bitlist" -> CeilDiv(f.limit, ChunkSize * BitsPerByte)
    [] OTHER -> 0

\* Only a table is hashed on its own; a table's field has any shape; an
\* element of a series of width 0 is a table or, in a list, a string: with a
\* limit of its own, or without one and then without its length (as SSZ has
\* no such list, this is the generators' convention and not a root of SSZ).
CanHold(open, kind) ==
  IF open = <<>> THEN kind \in Containers
  ELSE LET top == open[Len(open)]
       IN  \/ top.kind \in Containers
           \/ top.kind \in Series \ {"pstrings"} /\ top.width = 0 /\ kind \in Containers
           \/ top.kind = "list" /\ top.width = 0 /\ kind \in {"bytelist", "bytevector"}

\* One more element would still be within the declared limit.
HasRoom(f) == f.kind = "list" /\ LimitRespected => f.num < f.limit

Fits(shape, num) == shape.kind \in Limited /\ LimitRespected => num <= shape.limit

\* The value that holds a new field or element counts it.  A list counts its
\* elements; a progressive container sets the active bit of the position.
Counted(f, position) ==
  CASE f.kind = "progressive" -> [f EXCEPT !.num = @ + Pow2[position]]
    [] f.kind \in Series -> [f EXCEPT !.num = @ + 1]
    [] OTHER -> f

\* A progressive container ends at the position of a field; one whose fields
\* have no ids has a single gap.
Complete(f, positions) ==
  f.kind = "progressive" =>
    positions > 0 /\ (positions = 1 \/ f.num >= Pow2[positions - 1])
=============================================================================
