------------------------------ MODULE TreeHash ------------------------------
(***************************************************************************)
(* What a runtime promises to a generated tree_hash_root: a stack of open  *)
(* values, each holding the bytes written to it so far, where closing one  *)
(* replaces it in the value that holds it by its SSZ root.  There is no    *)
(* shared buffer, no index and no layer, and the root of a value is the    *)
(* reference definition: a complete binary tree over its chunks, where a   *)
(* leaf beyond the data is the zero chunk.  It is the SSZ root of the type *)
(* with two exceptions, which take over what the generators do (HashTypes):*)
(* a string without a limit in a list, whose length is not mixed in, and a *)
(* progressive list of strings, whose elements leave no chunk.             *)
(***************************************************************************)
EXTENDS HashTypes

VARIABLES
  schema, (* The schema of the tables that are hashed.                      *)
  stack,  (* The open values, outermost first: a shape, the number of       *)
          (* elements (or the active bits), and the cells written.          *)
  root    (* The root of the last finished value, or NoRoot.                *)

vars == <<schema, stack, root>>

NoRoot == <<>>

-----------------------------------------------------------------------------
(* Reference roots.                                                        *)

TreeRoot(s, D) ==
  LET Leaf(p) == IF p * ChunkSize < Len(s) THEN ChunkAt(PadToChunk(s), p) ELSE ZeroChunk
      Node[d \in 0..D, p \in 0..Pow2[D]] ==
        IF d = 0 THEN Leaf(p) ELSE Digest(Node[d - 1, 2 * p], Node[d - 1, 2 * p + 1])
  IN  Node[D, 0]

Depth(n) == CHOOSE d \in 0..MaxDepth : n <= Pow2[d] /\ (d = 0 \/ Pow2[d - 1] < n)

Count(s) == CeilDiv(Len(s), ChunkSize)

BoundedRoot(s, limit) == TreeRoot(s, Depth(IF limit = 0 THEN Count(s) ELSE limit))

\* Subtrees of 1, 4, 16, ... leaves, chained from the smallest; the chain
\* ends in a zero chunk.  A single chunk stands for itself.
Chain(s) ==
  LET Rest[k \in 0..MaxDepth] ==
        LET from == (Pow2[2 * k] - 1) \div 3
            here == Below(Above(s, from * ChunkSize), Pow2[2 * k] * ChunkSize)
        IN  IF from >= Count(s) THEN ZeroChunk
            ELSE Digest(TreeRoot(here, 2 * k), Rest[k + 1])
  IN  Rest[0]

ProgressiveRoot(s) == IF Count(s) = 1 THEN PadToChunk(s) ELSE Chain(s)

-----------------------------------------------------------------------------
(* Bit lists: the most significant set bit of the string ends the list.  A *)
(* string with no set bit in its last byte is read as the empty list.  The *)
(* tree is over the bytes up to the last set bit of the list, which        *)
(* matters where no limit fixes its depth.                                 *)

BitsOf(bs) == {k \in 0..(Len(bs) * BitsPerByte - 1) :
                 (bs[k \div BitsPerByte + 1] \div Pow2[k % BitsPerByte]) % 2 = 1}
Last(bits) == CHOOSE k \in bits : \A j \in bits : j <= k
Sentinel(bs) == Last(BitsOf(bs))
IsBitlist(bs) == bs # <<>> /\ bs[Len(bs)] # 0

BitCells(bs) ==
  IF IsBitlist(bs) /\ BitsOf(bs) # {Sentinel(bs)}
  THEN [k \in 1..(Last(BitsOf(bs) \ {Sentinel(bs)}) \div BitsPerByte + 1) |->
          Byte(IF k = Len(bs) THEN bs[k] - Pow2[Sentinel(bs) % BitsPerByte] ELSE bs[k])]
  ELSE <<>>

Size(kind, bs) ==
  IF kind \notin Bitlists THEN Len(bs) ELSE IF IsBitlist(bs) THEN Sentinel(bs) ELSE 0

-----------------------------------------------------------------------------
Data(f) ==
  IF f.kind \in Bitlists THEN BitCells([k \in 1..Len(f.cells) |-> f.cells[k][1]]) ELSE f.cells

FrameRoot(f) ==
  LET data == IF f.kind \in ProgressiveKinds
              THEN ProgressiveRoot(Data(f))
              ELSE BoundedRoot(Data(f), ChunkLimit(f))
  IN  IF f.kind \in Plain THEN data ELSE Digest(data, NumberChunk(f.num))

Top == stack[Len(stack)]
Rest == SubSeq(stack, 1, Len(stack) - 1)

Holder == IF stack = <<>> THEN <<>> ELSE Append(Rest, Counted(Top, Count(Top.cells)))

Frame(shape, num, cells) ==
  [kind |-> shape.kind, width |-> shape.width, limit |-> shape.limit,
   num |-> num, cells |-> cells]

Init == schema \in Schemas /\ stack = <<>> /\ root = NoRoot

\* A table or a series is opened as the root, a field or an element.
Open(shape) ==
  /\ CanHold(stack, shape.kind)
  /\ stack # <<>> => HasRoom(Top)
  /\ stack' = Append(Holder, Frame(shape, 0, <<>>))
  /\ root' = NoRoot
  /\ UNCHANGED schema

\* A byte string is opened with all its content.
OpenString(shape, bs) ==
  /\ stack # <<>>
  /\ CanHold(stack, shape.kind)
  /\ HasRoom(Top)
  /\ Fits(shape, Size(shape.kind, bs))
  /\ stack' = Append(Holder, Frame(shape, Size(shape.kind, bs), Bytes(bs)))
  /\ UNCHANGED <<schema, root>>

Write(cells) ==
  /\ stack' = [Holder EXCEPT ![Len(stack)].cells = @ \o cells]
  /\ UNCHANGED <<schema, root>>

\* A field of basic type, or a byte vector that fits in one chunk.
PutNumber(n) == stack # <<>> /\ Top.kind \in Containers /\ Write(NumberChunk(n))
PutShort(bs) == /\ stack # <<>> /\ Top.kind \in Containers
                /\ Len(bs) \in 1..ChunkSize
                /\ Write(PadToChunk(Bytes(bs)))

\* A position of a progressive container that no field has.
PutInactive ==
  /\ stack # <<>> /\ Top.kind = "progressive"
  /\ stack' = [stack EXCEPT ![Len(stack)].cells = @ \o ZeroChunk]
  /\ UNCHANGED <<schema, root>>

AppendNumber(n) ==
  /\ stack # <<>> /\ Top.kind \in Series /\ Top.width > 0 /\ HasRoom(Top)
  /\ Write(NumberCells(n, Top.width))

PassString == stack # <<>> /\ Top.kind = "pstrings" /\ Write(<<>>)

Close ==
  /\ stack # <<>>
  /\ Complete(Top, Count(Top.cells))
  /\ IF Len(stack) = 1
     THEN stack' = <<>> /\ root' = FrameRoot(Top)
     ELSE /\ stack' = [Rest EXCEPT ![Len(Rest)].cells = @ \o FrameRoot(Top)]
          /\ UNCHANGED root
  /\ UNCHANGED schema

Next ==
  \/ \E shape \in Openable(schema) : Open(shape)
  \/ \E shape \in Writable(schema), bs \in schema.strings : OpenString(shape, bs)
  \/ \E n \in schema.numbers : PutNumber(n) \/ AppendNumber(n)
  \/ \E bs \in schema.strings : PutShort(bs)
  \/ PutInactive \/ PassString
  \/ Close

Spec == Init /\ [][Next]_vars
=============================================================================
