------------------------------- MODULE Hasher -------------------------------
(***************************************************************************)
(* The merkleization engine of the generated code.  One flat buffer serves *)
(* all open values: index() is its length, a value being hashed owns what  *)
(* lies above the index taken when it was opened, and merkleize(idx)       *)
(* replaces that by one chunk, hashing layer by layer in place.  Nothing   *)
(* in the buffer says where a value begins or what has been padded, so     *)
(* every value relies on each of those nested in it to leave exactly one   *)
(* chunk behind.                                                           *)
(*                                                                         *)
(* Each iteration of the layer loop is a step of its own.  The progressive *)
(* tree is built in temporary hashers and is one step.                     *)
(***************************************************************************)
EXTENDS HashTypes

\* Every tree fits the table of zero hashes, and every position of a
\* progressive container has a bit.
ASSUME DepthAssumption ==
  \A s \in Schemas :
    /\ "progressive" \in s.kinds => s.maxCells \div ChunkSize <= MaxDepth
    /\ s.maxCells + ChunkSize <= Pow2[MaxDepth]
    /\ \A bs \in s.strings : s.maxCells + ChunkSize + Len(bs) <= Pow2[MaxDepth]
    /\ \A shape \in Openable(s) \union Writable(s) : ChunkLimit(shape) <= Pow2[MaxDepth]

VARIABLES
  schema,  (* The schema of the tables that are hashed.                     *)
  buf,     (* Hasher.buf.                                                   *)
  frames,  (* The tree_hash_with calls in progress: the idx each has taken, *)
           (* its shape, and the number of elements (or the active bits)    *)
           (* it passes when it merkleizes.                                 *)
  pc,      (* "write": the innermost call writes; "layers": it merkleizes;  *)
           (* "done": the outermost call has returned.                      *)
  merkle,  (* The layer loop: next layer and number of layers.              *)
  input,   (* History: the cells that are being merkleized.                 *)
  root     (* The result of the last finish(), or NoRoot.                   *)

vars == <<schema, buf, frames, pc, merkle, input, root>>

NoRoot == <<>>
NoLoop == [layer |-> 0, depth |-> 0]

Top == frames[Len(frames)]
Callers == SubSeq(frames, 1, Len(frames) - 1)

-----------------------------------------------------------------------------
(* Writing.                                                                *)

\* append_bytes32: padding depends on the string alone.
AppendBytes32(b, s) == b \o PadToChunk(s)

\* parse_bitlist: the sentinel bit is cleared and trailing zeros dropped.
Msb(n) == CHOOSE i \in 0..(BitsPerByte - 1) : Pow2[i] <= n /\ n < 2 * Pow2[i]

TrimZeros(bs) ==
  SubSeq(bs, 1, CHOOSE n \in 0..Len(bs) : /\ n > 0 => bs[n] # 0
                                          /\ \A k \in (n + 1)..Len(bs) : bs[k] = 0)

ParseBitlist(bs) ==
  IF bs = <<>> \/ bs[Len(bs)] = 0
  THEN [bits |-> <<>>, size |-> 0]
  ELSE LET msb == Msb(bs[Len(bs)])
       IN  [bits |-> TrimZeros([bs EXCEPT ![Len(bs)] = @ - Pow2[msb]]),
            size |-> BitsPerByte * (Len(bs) - 1) + msb]

-----------------------------------------------------------------------------
(* merkleize_inner, on the cells above the index.                          *)

Count(s) == CeilDiv(Len(s), ChunkSize)

Effective(s, limit) == IF limit = 0 THEN Count(s) ELSE limit

LayerCount(s, limit) ==
  IF Effective(s, limit) <= 1 \/ Len(s) = 0 THEN 0 ELSE GetDepth(Effective(s, limit))

\* Everything before the loop.
Prologue(s, limit) ==
  CASE Effective(s, limit) = 0 -> ZeroHash[0]
    [] Effective(s, limit) = 1 -> IF Len(s) >= ChunkSize THEN Below(s, ChunkSize) ELSE ZeroHash[0]
    [] Effective(s, limit) > 1 -> IF Len(s) = 0 THEN ZeroHash[GetDepth(limit)] ELSE PadToChunk(s)

\* Faulty: completes the even layers.
OddLayer(s, layer) ==
  IF (Len(s) \div ChunkSize) % 2 = 0 THEN s \o ZeroHash[layer] ELSE s

\* Faulty: completes every layer with the zero chunk.
ZeroPaddedLayer(s, layer) ==
  IF (Len(s) \div ChunkSize) % 2 = 1 THEN s \o ZeroHash[0] ELSE s

\* One iteration: an odd layer is completed by the zero hash of its height,
\* and each pair of chunks is replaced by its digest.
EvenLayer(s, layer) ==
  IF (Len(s) \div ChunkSize) % 2 = 1 THEN s \o ZeroHash[layer] ELSE s

HashPairs(s) ==
  LET Pair(p) == Digest(ChunkAt(s, 2 * p), ChunkAt(s, 2 * p + 1))
  IN  [k \in 1..((Len(s) \div (2 * ChunkSize)) * ChunkSize) |->
         Pair((k - 1) \div ChunkSize)[((k - 1) % ChunkSize) + 1]]

HashLayer(s, layer) == HashPairs(EvenLayer(s, layer))

\* merkleize_inner run to its end in a hasher of its own.
MerkleizeAlone(s, limit) ==
  LET After[i \in 0..LayerCount(s, limit)] ==
        IF i = 0 THEN Prologue(s, limit) ELSE HashLayer(After[i - 1], i - 1)
  IN  Below(After[LayerCount(s, limit)], ChunkSize)

\* merkleize_progressive, on filled cells: subtree k starts after the
\* (4^k - 1) / 3 chunks of those before it and has a capacity of 4^k; the
\* roots are folded from the right.
Capacity(k) == Pow2[2 * k]
First(k) == (Capacity(k) - 1) \div 3
Subtree(s, k) == Below(Above(s, First(k) * ChunkSize), Capacity(k) * ChunkSize)

FoldFrom(s, j) ==
  LET Fold[k \in 0..MaxDepth] ==
        IF First(k) >= Count(s) THEN ZeroHash[0]
        ELSE Digest(MerkleizeAlone(Subtree(s, k), Capacity(k)), Fold[k + 1])
  IN  Fold[j]

MerkleizeProgressive(s) ==
  CASE Count(s) = 0 -> ZeroHash[0]
    [] Count(s) = 1 -> Below(s, ChunkSize)
    [] Count(s) > 1 -> Digest(MerkleizeAlone(Subtree(s, 0), Capacity(0)), FoldFrom(s, 1))

\* Hashing the chunk at an index with a number, in place.
MixIn(b, idx, num) ==
  LET hash == Digest(SubSeq(b, idx + 1, idx + ChunkSize), NumberChunk(num))
  IN  [k \in 1..Len(b) |-> IF k \in (idx + 1)..(idx + ChunkSize) THEN hash[k - idx] ELSE b[k]]

-----------------------------------------------------------------------------
Init ==
  /\ schema \in Schemas
  /\ buf = <<>>
  /\ frames = <<>>
  /\ pc = "write"
  /\ merkle = NoLoop
  /\ input = <<>>
  /\ root = NoRoot

\* The calls in progress once the innermost one has counted a new field or
\* element.
Holder ==
  IF frames = <<>> THEN <<>>
  ELSE Append(Callers, Counted(Top, (Len(buf) - Top.idx) \div ChunkSize))

Frame(shape, num) ==
  [idx |-> Len(buf), kind |-> shape.kind, width |-> shape.width,
   limit |-> shape.limit, num |-> num]

Writing == pc = "write" /\ Len(buf) <= schema.maxCells
CanOpen(shape) ==
  /\ Writing
  /\ Len(frames) < schema.maxFrames
  /\ CanHold(frames, shape.kind)
  /\ frames # <<>> => HasRoom(Top)

\* tree_hash_root and tree_hash_with take the index; so does GenHashField
\* for a series of elements.
Open(shape) ==
  /\ CanOpen(shape)
  /\ frames' = Append(Holder, Frame(shape, 0))
  /\ root' = NoRoot
  /\ UNCHANGED <<schema, buf, pc, merkle, input>>

\* A call to merkleize, merkleize_with_mixin or one of the progressive
\* variants at index idx, up to the layer loop.
Merkleize(shape, b, idx) ==
  LET s == Above(b, idx)
  IN  /\ pc' = "layers"
      /\ IF shape.kind \in ProgressiveKinds
         THEN /\ buf' = Below(b, idx) \o MerkleizeProgressive(s)
              /\ merkle' = NoLoop
         ELSE /\ buf' = Below(b, idx) \o Prologue(s, ChunkLimit(shape))
              /\ merkle' = [layer |-> 0, depth |-> LayerCount(s, ChunkLimit(shape))]

\* The whole of a byte string: index, append_bytes32, merkleize.  A bit list
\* is parsed first (put_bitlist); a byte vector of a container is
\* merkleized only when it is longer than a chunk (put_bytes).
OpenString(shape, bs) ==
  LET parsed == IF shape.kind \in Bitlists THEN ParseBitlist(bs)
                                          ELSE [bits |-> bs, size |-> Len(bs)]
      written == AppendBytes32(buf, Bytes(parsed.bits))
  IN  /\ CanOpen(shape)
      /\ frames # <<>>
      /\ Fits(shape, parsed.size)
      /\ shape.kind = "bytevector" /\ Top.kind \in Containers => Len(bs) > ChunkSize
      /\ frames' = Append(Holder, Frame(shape, parsed.size))
      /\ input' = Bytes(IF shape.kind \in Bitlists THEN bs ELSE parsed.bits)
      /\ Merkleize(shape, written, Len(buf))
      /\ UNCHANGED <<schema, root>>

Write(cells) ==
  /\ Writing
  /\ frames' = Holder
  /\ buf' = buf \o cells
  /\ UNCHANGED <<schema, pc, merkle, input, root>>

\* put_bool and put_u8 to put_u64: a chunk for each field.
PutNumber(n) == frames # <<>> /\ Top.kind \in Containers /\ Write(NumberChunk(n))

\* Faulty: does not pad.
PutShortBare(bs) ==
  /\ frames # <<>> /\ Top.kind \in Containers
  /\ Len(bs) \in 1..ChunkSize
  /\ Write(Bytes(bs))

\* put_bytes of at most one chunk.
PutShort(bs) ==
  /\ frames # <<>> /\ Top.kind \in Containers
  /\ Len(bs) \in 1..ChunkSize
  /\ Write(PadToChunk(Bytes(bs)))

\* put_zero_hash at a position of a progressive container without a field;
\* the bound leaves room for the field that ends the container.
PutInactive ==
  /\ frames # <<>> /\ Top.kind = "progressive"
  /\ Writing /\ Len(buf) + ChunkSize <= schema.maxCells
  /\ buf' = buf \o ZeroHash[0]
  /\ UNCHANGED <<schema, frames, pc, merkle, input, root>>

\* append_bool to append_u64: elements of a series share chunks.
AppendNumber(n) ==
  /\ frames # <<>> /\ Top.kind \in Series /\ Top.width > 0 /\ HasRoom(Top)
  /\ Write(NumberCells(n, Top.width))

\* An element of a progressive list of strings: the loop over the elements
\* has an empty body.
PassString ==
  /\ frames # <<>> /\ Top.kind = "pstrings" /\ Top.num < schema.maxCells
  /\ Write(<<>>)

\* The innermost call has written everything and merkleizes: fill_up_to_32
\* in the generated code of a series of basic elements, and again wherever a
\* number is mixed in.
Close ==
  /\ frames # <<>> /\ pc = "write"
  /\ Complete(Top, (Len(buf) - Top.idx) \div ChunkSize)
  /\ input' = Above(buf, Top.idx)
  /\ Merkleize(Top, IF Top.width > 0 \/ Top.kind \notin Plain THEN PadToChunk(buf) ELSE buf,
               Top.idx)
  /\ UNCHANGED <<schema, frames, root>>

\* Faulty: the loop does not end.
LayerForever ==
  /\ pc = "layers"
  /\ buf' = Below(buf, Top.idx) \o HashLayer(Above(buf, Top.idx), merkle.layer)
  /\ merkle' = [merkle EXCEPT !.layer = @ + 1]
  /\ UNCHANGED <<schema, frames, pc, input, root>>

\* One iteration of the layer loop.
Layer ==
  /\ pc = "layers" /\ merkle.layer < merkle.depth
  /\ buf' = Below(buf, Top.idx) \o HashLayer(Above(buf, Top.idx), merkle.layer)
  /\ merkle' = [merkle EXCEPT !.layer = @ + 1]
  /\ UNCHANGED <<schema, frames, pc, input, root>>

\* The loop is over: the length, or the active fields, are mixed in where
\* the shape asks for it, and the call returns to the one that made it.
Return ==
  /\ pc = "layers" /\ merkle.layer = merkle.depth
  /\ buf' = IF Top.kind \in Plain THEN buf ELSE MixIn(buf, Top.idx, Top.num)
  /\ frames' = Callers
  /\ pc' = IF Len(frames) = 1 THEN "done" ELSE "write"
  /\ merkle' = NoLoop
  /\ input' = <<>>
  /\ UNCHANGED <<schema, root>>

\* finish() takes the last chunk; HasherPool.put resets the hasher.
Finish ==
  /\ pc = "done"
  /\ root' = IF Len(buf) >= ChunkSize THEN Above(buf, Len(buf) - ChunkSize) ELSE ZeroChunk
  /\ buf' = <<>>
  /\ pc' = "write"
  /\ UNCHANGED <<schema, frames, merkle, input>>

Next ==
  \/ \E shape \in Openable(schema) : Open(shape)
  \/ \E shape \in Writable(schema), bs \in schema.strings : OpenString(shape, bs)
  \/ \E n \in schema.numbers : PutNumber(n) \/ AppendNumber(n)
  \/ \E bs \in schema.strings : PutShort(bs)
  \/ PutInactive \/ PassString
  \/ Close \/ Layer \/ Return \/ Finish

Spec == Init /\ [][Next]_vars

-----------------------------------------------------------------------------
(* Properties.                                                             *)

IsBuffer(s) == s \in Seq(Range(s))

Call == [idx : Nat, kind : Kinds, width : Nat, limit : Nat, num : Nat]

\* Types: a buffer of cells, a stack of calls, a loop within the table of
\* zero hashes.
TypeOK ==
  /\ schema \in Schemas
  /\ IsBuffer(buf) /\ IsBuffer(input) /\ IsBuffer(root)
  /\ frames \in Seq(Call)
  /\ pc \in {"write", "layers", "done"}
  /\ merkle \in [layer : 0..MaxDepth, depth : 0..MaxDepth]

\* The cells of the i-th call in progress: from its index to the index of
\* the call it is making.
Owned(i) ==
  SubSeq(buf, frames[i].idx + 1,
         IF i = Len(frames) THEN Len(buf) ELSE frames[i + 1].idx)

\* Indices nest: each call's index is on a chunk boundary and not below its
\* caller's, and the buffer has not shrunk below the innermost one.  The
\* padding rules rely on it: fill_up_to_32 pads the buffer and
\* append_bytes32 pads the string, and both mean the value.
IndicesNest ==
  /\ \A i \in 1..Len(frames) :
       /\ frames[i].idx % ChunkSize = 0
       /\ frames[i].idx <= Len(buf)
       /\ i > 1 => frames[i - 1].idx <= frames[i].idx
  /\ frames # <<>> => frames[1].idx = 0

\* debug_assert!(self.buf.len() == idx + 32): when the layer loop is over,
\* the value has become exactly one chunk.
OneChunkLeft ==
  pc = "layers" /\ merkle.layer = merkle.depth => Len(buf) = Top.idx + ChunkSize

\* While layers remain, the chunks above the index fit the tree that is left.
LayersSuffice ==
  pc = "layers" =>
    /\ merkle.layer <= merkle.depth
    /\ Len(buf) > Top.idx
    /\ Len(buf) - Top.idx <= Pow2[merkle.depth - merkle.layer] * ChunkSize

\* "Each field keeps a stable generalized index across all forks": the first
\* field of a progressive container is the left child of its tree, however
\* many fields come after it.
FirstFieldIndexStable ==
  pc = "layers" /\ Top.kind = "progressive" /\ input # <<>> =>
    LET node == buf[Top.idx + 1]
    IN  Len(node) = 2 /\ node[1] = Below(input, ChunkSize)

\* An "EIP-7916 ProgressiveList" has the roots of its elements for leaves: of
\* the elements that a list counts and that are no basic values, each has left
\* a chunk, whatever its type.
ElementsHashed ==
  pc = "write" /\ frames # <<>> /\ Top.kind \in Series /\ Top.width = 0 =>
    Len(buf) = Top.idx + Top.num * ChunkSize
=============================================================================
