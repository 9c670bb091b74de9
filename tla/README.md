# A TLA+ model of the SSZ support of flatssz

flatssz is FlatBuffers with an SSZ back end: `flatc` generates, for every table
of a schema, code that encodes, decodes and hashes (merkleizes) values in the
Simple Serialize format, in Go, Rust, TypeScript, Zig, Java, C#, Nim and Lean.
This directory models the parts of it where behaviour emerges from many steps:
the parser as it reads a schema from files that include each other; the
analysis of a schema by recursion, and the files that a run of `flatc` leaves;
the code it generates, as encoders and decoders in different languages that
exchange messages; the merkleization engine that all generated code drives, and
the pool of engines that threads share; and the tree cache of the Lean library.
TLC checks the models on small instances; TLAPS proves the theorems listed below
for every value of the constants.

## Inventory

| Component | State | Operations | Hard about it |
|---|---|---|---|
| Hasher of each runtime (`src/rust/ssz_flatbuffers/src/lib.rs`, and the Java, C#, TypeScript, Zig, Nim ones) | one flat byte buffer, scratch buffers | `index`, `put_*`, `append_*`, `fill_up_to_32`, `merkleize`, `merkleize_with_mixin`, progressive variants, `finish`, `reset` | values nest in one buffer and only the callers' indices say where they begin; odd layers; limits; progressive subtrees; bit lists |
| HasherPool of each runtime | a stack or bag of idle hashers, a mutex | `get`, `put` | threads, failing calls between `get` and `put`, compare-then-add |
| Generated `tree_hash_with`, `tree_hash_root` (`GenHashMethod`, `GenHashField`) | the indices on the call stack | one call sequence per schema | it is the contract the hasher is used under |
| Schema analysis of each generator (`AnalyzeContainer`, `Resolve*`) | field tables, static size, limits, active fields; the stack of its own calls | one recursion over the schema | ids, duplicates, recursion, errors half-way, 32- and 64-bit arithmetic of limits |
| `generate()` of each generator | files written so far | one pass over the tables | what a run that fails leaves behind; sizes of included types compiled in |
| Generated encoders, decoders, views | offsets in a byte string, the caller's object (Go) | size, marshal, unmarshal, validate, accessors, `to_owned_type` | offsets of dynamic fields, checks that differ by language, an object that is decoded into again |
| Parser (`idl_parser.cpp`) and `flatc.cpp`, as far as SSZ schemas go | files included, tables defined and declared forward, marks | `DoParse`, `StartStruct`, `ParseField`, `MarkGenerated`, `ParseRoot`; the ids of fields | files that include each other, starting a file anew, names used before they are defined, sparse ids |
| SizzLean (vendored Lean library), cache | a value, a Merkle tree with cached roots, pending writes | `sszUpdate`, `hashTreeRootCached` | deferred writes in any order, stale cached roots, lists that shrink |
| SizzLean, specification and codec | none | `serialize`, `deserialize`, `hashTreeRoot` | proved in Lean itself |
| FlatBuffers builder, verifier, other generators | | | upstream; the SSZ back end does not call them |

Interaction: a generated `tree_hash_root` of Rust, Nim or TypeScript takes a
hasher from the pool, calls `tree_hash_with`, which calls the hasher and, for
nested tables, further `tree_hash_with` methods with the same hasher, reads the
root with `finish` and puts the hasher back. In Java, C# and Zig it makes a
hasher of its own, and the pools of these runtimes are public classes without a
caller in the repository. The pool is the only state that threads share. `flatc`
parses the file it is given, with what that includes, and hands the tables to
one generator; generated programs meet only in the bytes they exchange and in
the roots they compare.

What makes each part correct:

- hasher: the root is the SSZ root of the value, whatever was written before it
  or is nested in it; each merkleization leaves exactly one chunk; indices stay
  on chunk boundaries.
- pool: no hasher in two hands; a root covers its own call's writes only; the
  pool keeps to its capacity; every call returns.
- parser: it ends, whatever files include whatever; it reads each file once, and
  what it hands on is a schema in which each name means one thing and exactly
  the tables of the root file are to generate.
- analysis: static sizes and the mark variable are those SSZ defines; active
  bits and leaves agree; each field is hashed; it ends.
- a run: it ends; what it does not write it leaves alone; what it writes fits
  together.
- codec: size, encoders and decoders agree across languages; no decoder takes a
  message for another value than another decoder does; a view shows what
  decoding gives; nothing of an earlier message survives in an object.
- Lean cache: no caller can tell it from a value without a cache.

## Modules

| Module | Models | Notes |
|---|---|---|
| `Chunks` | cells, chunks, padding, zero hashes, `get_depth` | digests are symbolic terms, so equal roots mean equal trees |
| `HashTypes` | kinds of values and the calls `GenHashMethod` and `GenHashField` make for them, with the chunk limits they compute | what may be written where |
| `TreeHash` | abstract specification: a stack of values, reference roots | no buffer, index or layer |
| `Hasher` | `lib.rs`: the flat buffer, indices, layer loop, mix-ins, progressive trees, `parse_bitlist` | one action per call; one step per layer |
| `HasherRefines` | refinement mapping from `Hasher` to `TreeHash` | property `ImplementsTreeHash` |
| `HasherProofs` | facts of the operators of `Hasher` (division into chunks, padding, depths, layers, limits), its invariant and theorems, and that layers in place are the batch | TLAPS |
| `MCHasher` | instances for TLC | |
| `HasherPool` | `HasherPool.get`/`put` and a hashing call, for threads | mutex (Rust, Java, Zig, Nim) and bag (C#) |
| `HasherPoolProofs` | invariant and theorems of `HasherPool` | TLAPS |
| `MCHasherPool` | instances for TLC | |
| `InPlace` | the layer loop of Java and Zig, which overwrite a layer while they read it | `InPlaceAgrees` |
| `SszSchema` | the analysis that all SSZ generators repeat: `Resolve*`, `AnalyzeContainer`, parser order of fields | pure operators |
| `Flatc` | a run of `flatc`: ids checked, tables analysed call by call on a bounded stack, files saved | Go and Rust generators |
| `Depths` | limits and depths of lists in scaled machine integers | each generator with its runtime |
| `FlatcProofs` | invariant of a run of `Flatc`, what it leaves | TLAPS |
| `AnalysisProofs` | invariant of the recursive analysis: layouts, sizes across files, overflow | TLAPS |
| `SchemaReader` | the parser over a directory of files that include each other | |
| `Compiler` | composition: read a package, then generate code from it | refines `Flatc` |
| `CompilerProofs` | invariant of the parser, bound of its recursion, that `Compiler` implements `Flatc` | TLAPS |
| `DepthsProofs` | which runtimes find the depth of a bound, for every width | TLAPS |
| `SampleSchemas`, `MCFlatc`, `MCCompiler` | fields, tables, schemas and packages for TLC | |
| `SszCodec` | the emitted size, encoder, decoders by language, views with validation and accessors | over what `SszSchema` says of a type |
| `Exchange` | values on their way between programs; damaged messages; an object decoded into again | |
| `MCExchange` | types and values for TLC | |
| `Powers` | powers of two | |
| `SszValue` | SizzLean's reference root, and updates of values by path | a value maps paths to numbers |
| `UncachedSSZ` | abstract specification of an SSZ value with updates and roots | |
| `MerkleNode` | trees with root slots, generalized indices, writes of many paths at once, the fused walk | a tree maps places to nodes |
| `TreeBacked` | the cached flavour: value, tree, pending writes | implements `UncachedSSZ` |
| `MerkleProofs` | what the operators of `MerkleNode` do, for trees of every shape | TLAPS |
| `TreeBackedProofs` | invariant and theorems of `TreeBacked`, its refinement | TLAPS |
| `MCTreeBacked` | instances for TLC | |

Operators whose comment begins with "Faulty" are variants of the definition
that follows them, with a mistake a programmer could make; each shows that the
properties notice it.

### Hasher

A cell is a byte of the buffer. A byte of data is `Byte(n)`; the first cell of a
digest records its two operands and the others are blank. `buf` is
`Hasher.buf`. `frames` is the Rust call stack of `tree_hash_with` methods and of
the blocks of `GenHashField`: each frame has the `idx` it has taken, the shape
of the value and the number it will mix in (a length, or the bits of
`active_fields`). `Open`, `OpenString`, `PutNumber`, `PutShort`, `PutInactive`
and `AppendNumber` are the writing calls; `Close` is the call to one of the
`merkleize` functions up to its layer loop; `Layer` is one iteration of that
loop; `Return` mixes the number in and returns; `Finish` is `finish()` and the
reset by the pool. A byte string is written in one call, so `OpenString` takes
the index, appends and enters `merkleize`. The progressive tree is computed in
temporary hashers and nothing of it is visible before it is done, so it is one
step.

`HashTypes.CanHold` is the grammar of `GenHashField`: only a table is hashed on
its own; a list holds basic values, tables or strings; a string in a list
without an inner limit is merkleized without its length (kind `bytevector`); a
progressive list of strings (`pstrings`) counts its elements and writes nothing
for them (`PassString`); a progressive bit list (`pbitlist`) is a bit list of
limit 0. `Complete` says that
a progressive container ends at the position of a field, and that one without
ids has a single gap, as in the loop to `max_ssz_index`.

`TreeHash` says what this should compute without a buffer: the root of a
complete binary tree over the chunks of each value. It says so of what the
generators hash, and in four places that is a convention of theirs, not SSZ: a
progressive value of one chunk is its own root; a progressive bit list is one
binary tree over the bytes up to its last set bit; a string without limit in a
list has no length mixed in; and a progressive list of strings is one of no
leaves. `ImplementsTreeHash` holds with them and cannot tell whether they are
right. The runs `progressive_growth` and
`progressive_strings` are about two of them, and the progressive bit list is
among the observations below; lists of strings without a limit do not exist in
SSZ, so there is nothing to compare with.

### HasherPool

`pc` walks a thread through `get`, the call's own work and `put`. With a mutex,
`get` is `LockToPop; Pop` and `put` is `Reset; LockToPush; Push`; the concurrent
bag of C# has `TryTake`, and `CompareCount; Add` as two steps. `content` records
per buffer which thread wrote into it; `wrote` and `result` are history. `Fail`
is a panic or exception inside the call. What becomes of the hasher is a matter
of the caller: in Rust's `tree_hash_root` it is dropped, and Nim's `defer` puts
it back (`LosesOnFailure`, `ReturnsOnFailure`). The generated methods of Java,
C# and Zig make their own hasher (`idl_gen_ssz_java.cpp:1500`,
`idl_gen_ssz_csharp.cpp:1516`, `idl_gen_ssz_zig.cpp:1188`), so for their pools
the model has any caller, one that loses the hasher and one that puts it back.
TypeScript puts it back in `finally`, without threads, which is Nim's case with
one thread. A poisoned Rust mutex is not modelled: nothing panics while holding
it.

### Layers in place

`HashPair` is one iteration of the inner loop of `merkleizeInner` in Java and
Zig: the digest of a pair replaces a chunk the loop has read already.
`InPlaceAgrees` relates it to every step `Layer` of the engine, which is the
batch through a scratch buffer of Rust, C#, TypeScript and Nim.

### Flatc

The state is a developer's directory and one run in it. `schema` is the source;
`Run` starts `flatc` with the Go or the Rust generator. `ParseTable` and
`RejectTable` are the end of `ParseDecl`, which checks the ids and sorts the
fields (`std::sort` leaves fields of one id in any order); the rest of parsing
is in `SchemaReader`. Then the generator goes through the tables: `SkipGenerated`,
`EnterTable`, and inside a table one step for a field: `ResolveField`,
`SkipDeprecated`, `FailField`, `CallNested` and `ReturnNested` are
`ResolveSszFieldInfo` and the recursive calls of `AnalyzeContainer`, each on a
frame of `stack`; `Overflow` is the end of the machine stack, `MaxFrames` calls
deep. `FinishTable` is `GenHashMethod` and the saving of a Go file; `leaves` is
chosen among what the order of a map keyed by pointers may leave of fields of
one id. `SaveFails` and `FinalSaveFails` tear a file. `before` is history: the
directory as the run found it.

The sizes of the analysis are `uint32_t`: `Uint32` takes each sum and product
modulo `Sizes`, 2^32 in the code, and `ssz_bitsize` is cut to 32 bits before 7 is
added. `StaticSize`, with which `LayoutRight` compares, is unbounded, so the
property says what becomes of a size that has no 32 bits: it is laid out modulo
2^32. A bit vector whose rounding wraps before the division is excluded
(`BitsFit`).

`Depths` has, for every tree under a bounded field, the limit as each generator
writes it and the depth as each runtime finds it, in words and integers of
`WordBits` and `IntBits`. A runtime counts for a schema only if what is generated
from it compiles (`Compiles`), and much does not: TypeScript and Java call
`putUint8` and the like, of which the runtimes under `ts/` and `java/` have none
and the copies beside the benchmarks `putUint64` and `appendUint64` only; these
copies count, as they have more (`UintsNamed`). TypeScript calls `hashRoot`,
which only the copy has. Java and C# call `hashTreeRootWith` on nested tables and
never write it (`NestedNamed`). A literal of Java is an `int` (`LiteralFits`), and
Rust makes arrays of bytes only (`ArraysConvert`). A gap of a progressive table
calls `putUint8` in Java and TypeScript (`HasGap`). The schemas `Bounds` of
`MCFlatc` have one that compiles with all six runtimes and others that lose some.

### SchemaReader and Compiler

A package is what `flatc` sees: files by path, a root, directories of `-I`, and
`--gen-all`. `calls` is the recursion of `DoParse`. After an include has been
read, `DoParse` forgets that it is in the file that has it, marks what is
defined, and calls itself on that file again, which passes over the includes it
has read: `EnterInclude`, `SkipInclude` and `ReturnToIncluder`. The two nested
calls of a restart are one frame, and `restarts` counts the calls below it.
`DefineTable` is `StartStruct`, the fields and the end of `ParseDecl`, with
`CheckClash` of names like `x` and `x_length` (`NoClash`; `Accessors` says which
names of the instance are such pairs);
`RefuseTable` any of its errors. `RefusePackage` is the check for types that are
only named, in `ParseRoot`, and `HasCircularStructDependency`. A file is known by
name and contents, as the hash of the code has it, so copies in two directories
are one file.

`Compiler` composes the reader with `Flatc`: a package that is read becomes
`schema`, and `Generate` runs a generator on it. The id checks of `ParseDecl`
come in `Flatc`'s own pass, after the reading and not between two fields; the
outcome, an error and no file, is the same. The order in which forward
declarations are defined is the order of their definitions.

### SszCodec and Exchange

A message is a sequence of cells; `Number` and `LE` are the little-endian
conversions. `SszAppend` is the encoder of seven languages, which reserves
offsets and patches them; `SszWrite` is Zig's, which adds up sizes beforehand.
`DecodeNew` is `from_ssz_bytes` by language: the decoders of Rust, Go,
TypeScript, C# and Java differ in the checks they make on offsets, bools and
lengths, in signed or unsigned comparisons, and in how they fail where a slice
is impossible.
`UnmarshalSSZ` of Go gets the object that it fills, field by field, also when it
fails half-way; a list is made anew, and an array keeps what comes after the
element that fails (`DecodeVector`). An array of structs is one of pointers,
`Nil` in a new object. `Receivers` are the languages that a type compiles in:
Rust makes arrays of bytes only. `ViewValid` is what `from_ssz_bytes` of a Rust view checks,
`ViewRead` what its accessors show. In `Exchange`, `Send` encodes a value,
`Corrupt`, `Truncate` and `Extend` damage the message once, `ReceiveNew` decodes
into a new object and `ReceiveGo` into the one of the message before. Go's
slices may reach past the end of a message into its capacity; the model stops
at the end.

### TreeBacked

The values and trees of the Lean library are inductive types; here both are
functions. A value maps each path that exists in it to a number: that of a leaf,
or how many fields or elements there are. A tree maps places, sequences of bits
from the root, to nodes, and a node is a leaf with its chunk or a pair with a
slot for its root (`cached`), empty where it is not known. A recursion over a
tree in the code is a function on its places, so the walk of `commitAndHash` is
its result: which pairs it makes anew (`Passed`), where it puts a subtree
(`Rebuilt`), and the root of each place it visits.

`view` is the value, `tree` the Merkle tree of an earlier one, `pending` the
`TreeMap` from generalized index to path. `Update` runs the clauses of a
`sszUpdate` on the value and records where; `ReadRoot` looks every recorded path
up in the value as it is by then, drops those out of bounds, and updates and
hashes the tree in one walk (`commitAndHash`). An element of basic type is
packed with others in a chunk and `sszUpdate` refuses to index it, so leaves
fill a chunk here. The hash-consing table only shares equal nodes and is left
out.

## Runs

| Run | Question | Result |
|---|---|---|
| `hasher` | does the flat buffer compute the root of the tree of every value that the generators accept, however values nest, also hashed in place? | holds: `TypeOK`, `IndicesNest`, `OneChunkLeft`, `LayersSuffice`, `InPlaceAgrees`, `ImplementsTreeHash` |
| `hasher_over_limit` | and when a list exceeds its `ssz_max`? | violated: the assertion `buf.len() == idx + 32` fails |
| `progressive_growth` | is a progressive field's place in the tree stable? | violated: a container of one position has no tree above it |
| `progressive_strings` | does every element of a list reach the root? | violated: a progressive list of strings hashes only their number |
| `hasher_pool` | do threads and failing calls ever mix values or overfill the pool, and does every call return? | holds: `TypeOK`, `Exclusive`, `RootIsOwn`, `LockedPoolBound`, `HashersBounded`, `CallsReturn` |
| `pool_bag_maximum` | does the C# pool respect `MaxPoolSize`? | violated by two threads |
| `tree_backed` | does the Lean cache behave as a value without one? | holds: `TypeOK`, `CachesSound`, `NoWriteLost`, `FusedCommit`, `ImplementsUncached` |
| `tree_backed_alias` | also with an index beyond the capacity of the list? | violated: the write goes to another place's key |
| `flatc` | from files that include each other to generated code: is the schema right, does each run end, are layout, leaves and depths right, and what does a run that stops leave? | holds: see below |
| `flatc_same_id` | is every field of an accepted progressive table hashed? | violated by two fields of one id |
| `codec` | do the languages agree on every message, sound or damaged, and does anything of an earlier one survive? | holds: `TypeOK`, `SizeRight`, `EncodersAgree`, `RoundTrip`, `AcceptorsAgree`, `AcceptedIsCanonical`, `ReuseExplained`, `ViewConverts`, `ViewShowsOwned` |
| `codec_struct_arrays` | and on an array of structs? | violated: Go stops at a pointer that is not set |

`flatc` checks of the parser `ReadRight` (against a walk over the files),
`ReadIsSource`, `RecursionBounded` and `ReadingEnds`; of the generators
`LayoutRight`, `ActiveBitsRight`, `UnhashedExplained`, `OverflowIsCycle` and
`DepthsRight`; of the directory `FailureLeaves` and `PackageAgrees`; `RunEnds`;
and `ImplementsFlatc`, that reading packages and generating code is what `Flatc`
says, a schema that is edited between runs.

Bounds of `hasher`: chunks of 2 bytes and bytes of 2 bits, so that partial
chunks, partial bytes and sentinels at every place of a byte occur with few
cells; a table of zero hashes to depth 8, which no tree here exceeds (the
assumption `DepthAssumption`). Five schemas: `Nested` puts every kind that
holds values into every other, three deep; `Stringy` has all kinds of byte
strings and bit lists with limits that are met, missed by one and not a power
of two, in trees of up to three layers; `Long` has series of up to five chunks;
`Sparse` reaches the third progressive subtree (seven positions). `maxCells` is
the bound on the buffer at a call, `maxFrames` the bound on nesting; `Texts` has
progressive lists of strings, up to `maxCells` of them, between other fields.
`LimitRespected` says that no list is longer than its `ssz_max`. The code does
not check it, so `hasher_over_limit` drops it.

Bounds of the pool runs: a pool of capacity 1, two threads (three in
`pool_bag_maximum`), two calls each and two writes a call, so that a hasher can
be reused by its own and by another thread and the capacity is exceeded when it
can be; four hashers are enough for two held, one idle and one excess. Two
threads are what any race over one pool needs, and the theorems below have any
number. `hasher_pool` has no symmetry, which would be unsound for `CallsReturn`.
There is no deadlock check: all threads stop after their last call.

Bounds of `flatc`: `MCCompiler` has a package for each schema of `MCFlatc`
(nested tables and structs, arrays, bit fields, progressive tables with ids in
sequence, with gaps, missing and shared, types that contain themselves), and
packages in which files are split, include each other in a cycle, meet in a
diamond (with and without `--gen-all`), are copies, lie in a directory of `-I`,
are blank or missing, or define what the parser refuses, one mistake each.
Analysis is at most four calls deep on these schemas unless it never ends, so
`MaxFrames` is 4, a place for each table of each schema (`Room`, below); two runs let a file of an earlier schema be found by a later
one. Widths are scaled: words of 10 bits for 64, integers of 4 bits for 32,
chunks of 8 bytes for 32, so that limits on both sides of each overflow are in
the schemas; `Sizes` is 256 for 2^32, and a schema (`Wide`) has arrays and bit
vectors whose sizes wrap. There is no deadlock check: `flatc` is not run again after the last
run.

Bounds of `codec`: a cell has 8 values for the 256 of a byte, so that TLC tries
every value at every place of every message; an offset is four cells and its
sign bit weighs 2048. One message of two may be damaged, in one place, cut or
extended: `ReuseExplained` needs a message that fails half-way and then a
sound one. The types have each kind of field, fixed and dynamic, nested once.
`Sizes` is 1024, which no type here reaches.

Bounds of `tree_backed`: a list of capacity three of containers, a vector and a
number; the list grows, shrinks, is replaced and has elements and fields of
elements written, in and out of bounds, with up to three writes pending. These
are the shapes in which one path is a prefix of another and one index is in
bounds at the write and not at the commit, or the reverse. Three elements have
four chunks, and index 3 is within these: `CapacityAssumption` says that
`WithinCapacity`, which the theorems need, holds in this run, and that it does
not in `tree_backed_alias`, where a fifth element is written.

Fairness: `RunEnds` and `ReadingEnds` assume weak fairness of `Process`, the
steps that `flatc` takes by itself; it is one sequential process that never
waits. Nothing is assumed of the developer. `CallsReturn` assumes weak fairness of `Progress(t)`, that is, that a
thread inside a call keeps being scheduled. Nothing is assumed of `Begin` or
`Fail`. Weak fairness of the lock steps is enough here because every thread
makes finitely many calls: a mutex without any queueing guarantee may let
another thread in first, but not for ever.

## Proofs

### The hasher

`HasherProofs` proves, for every chunk size, every depth of the table of zero
hashes and every set of schemas that satisfies `CallAssumption` and
`DepthAssumption`:

- `HasherTypeCorrect`: `Spec => []TypeOK`; in particular the layer loop stays
  within the table of zero hashes.
- `IndicesAlwaysNest`: `Spec => []IndicesNest`.
- `LayersAlwaysSuffice`: if `LimitRespected`, then `Spec => []LayersSuffice`.
- `OneChunkAlwaysLeft`: if `LimitRespected`, then `Spec => []OneChunkLeft`, the
  assertion of `lib.rs:204`.

The first two hold even when callers exceed their limits; the last two are false
then, as `hasher_over_limit` shows.

None of the properties is inductive. `IndicesNest` alone allows a call whose
buffer has a partial chunk to be followed by a nested one, and `OneChunkLeft`
says nothing until a loop is over. `IInv` (theorem `HasherInvariant`) says how
many chunks lie above each index at every moment of a call:

- a call that writes elements with a chunk of their own has an aligned buffer
  (`WriteOK`), and only such calls wait for others (`Waiting`), so the next
  index is on a chunk boundary;
- in the layer loop the innermost call has q whole chunks above its index, with
  1 <= q <= 2^(depth - layer) (`LayersOK`); a layer halves q, rounding up, so
  that one chunk is left after the last layer;
- a list has written exactly as many elements as it has counted (`TopCounted`,
  and `ListsCounted` for those that wait for an element), and has not counted
  more than its limit (`ListsLimited`), so the limit on elements, turned into
  chunks by `GenHashField`, is a limit on the chunks in the buffer;
- each call is one the schema declares (`Declared`), and the buffer fits the
  table of zero hashes (`Bounded`).

The proof has one lemma for each action. The first part of the module supplies
what the operators return: `GetDepth` is enough for its argument and minimal, a layer of
q chunks becomes one of (q + 1) div 2, a trimmed bit list of at most n bits fits
the chunks of its limit. Where such a fact is an induction (a power of two that
bounds a number, the position of the highest bit), the proof takes the least
counterexample. The assumptions are that a chunk is a whole number of elements
of every basic width, that the tables `Pow2` and `ZeroHash` are what their
recursions define, and that the table is deep enough for the bounds of the
schemas. The invariant was also checked by TLC, on the instances of the runs
`hasher` and `hasher_over_limit`, before it was proved.

### The pool

`HasherPoolProofs` proves, for any finite set of threads, any set of
hashers and any capacity, each of the five runtimes, and any bounds on calls:

- `TypeCorrect`: `Spec => []TypeOK`; no thread leaves the discipline of its
  runtime.
- `HashersExclusive`: `Spec => []Exclusive`.
- `RootsAreOwn`: `Spec => []RootIsOwn`.
- `LockedPoolBounded`: `Spec => []LockedPoolBound`.
- `HashersAreBounded`: `Spec => []HashersBounded`, at most as many hashers as
  threads, which also bounds the bag of C#.

All follow from `PoolInvariant`, whose `PoolInv` adds to the properties what
makes them inductive: a thread has the lock exactly in its critical section
(`LockInv`) and a hasher exactly between `get` and `put` (`HeldInv`); hashers in
the pool and on their way into it are empty, and the hasher of a working call
contains that call's writes (`ContentInv`), which needs that a call's history
starts empty (`CallInv`); and the idle hashers together with the threads that
have a hasher *or are about to make one* do not outnumber the threads
(`BusyInv`): without the threads about to make one, the bound is not inductive,
because the pool may fill between a thread's finding it empty and its making a
hasher. The assumptions are those of `PoolAssumption`.

### The layers in place

`HasherProofs` also proves `InPlaceIsBatch`, that for every buffer and chunk size the
inner loop of Java and Zig leaves what the batch leaves, and from it
`InPlaceAlwaysAgrees`: `Spec => InPlaceAgrees`. After p iterations the first p
chunks are digests and the rest is as it was (`Partly`), and iteration p reads
chunks 2p and 2p + 1, which are not below p. The induction over p takes the
least counterexample.

### flatc

`FlatcProofs` proves, for every set of schemas (`SourcesAssumption`), any stack
and any number of runs (`BoundsAssumption`): `FlatcTypeCorrect`,
`FailureAlwaysLeaves`, `UnhashedAlwaysExplained` and `ActiveBitsAlwaysRight`. The
inductive invariant (`FlatcInvariant`) says that the parser's tables are those of
the source with their fields sorted (`ParsedInv`); that each frame of the stack
holds the analysis of exactly the fields it has passed, and that a frame which
waits is at a field (`StackInv`, without which a return could resume past the
end); that the directory differs from what the run found only in the Go files of
the tables that are done (`DirInv`); and that everything written is sound at its
place (`OutputInv`). Soundness of one file is enough for the last two theorems:
the fields' ids are below the number of leaves because both loops have the same
maximum, by the least counterexample again.

`CompilerProofs` discharges the assumption on schemas. For every package of files
(`PackagesAssumption`), `ReadAlwaysIsSource`: what is read is a schema as
`SourcesAssumption` wants it and exactly the tables of the root file are to
generate. The invariant (`ReaderInvariant`) says that only the innermost call of
`DoParse` is among its tables (`CallsInv`), that names are unique and what is
mentioned is defined or declared forward and has a type and attributes that the
parser lets through (`DefinedInv`), and that a table which is
not marked was defined by the innermost call, while none of the root file's is
marked (`MarksInv`): that is why marking all that is defined, at each return, is
right. `ReadingImplementsFlatc` is the refinement, for sources that include what
is read, and `PackagesGenerateRight` and `PackagesAnalyzedRight` carry the results
about `Flatc` over to packages.

### The recursive analysis

`AnalysisProofs` proves, for every set of schemas that the parser can hold,
however their tables nest:

- `LayoutAlwaysRight`: `Spec => []LayoutRight`, for any `Sizes` above 8: the sums
  of the analysis wrap at each step and SSZ's are taken modulo `Sizes` at the
  end, so the proof carries congruences through the recursion.
- `PackageAlwaysAgrees`: `Spec => []PackageAgrees`.
- `OverflowAlwaysCycle`: `Room => (Spec => []OverflowIsCycle)`. `Room` says that
  the stack has a place for each table of a schema; on a smaller stack a long
  chain of tables overflows too, as it would in the code.

The generators analyze a nested table anew wherever it occurs, so nothing in the
state says that two analyses of one table agree. The invariant
(`AnalysisInvariant`) says that there is *one* assignment of analyses to the
tables that have been analyzed so far, by any file or frame, such that each is
what the loop over the fields collects from the others, and every frame, return
value and written file agrees with it (`Analyses`, `DoneKnown`, `StackKnown`).
Each has a rank above those it calls for: a table that contains itself can have
none, which is the second half of `OverflowIsCycle`. For the first half, the
stack is a chain of tables of which each calls for the next (`ChainInv`); a full
one with room for every table has one of them twice. SSZ's definition of the
static size recurs over the types stored inline; the analysis of a table equals
it by the least counterexample among ranks, and a closure under a relation
contains what it should because it is reached in as many steps as there are
tables. Here it matters what the parser lets through (`IsSource`): that a struct
has only fixed fields known to their end, and that tables have no arrays.

### The recursion of the parser

`RecursionAlwaysBounded`: `CompilerSpec => []RecursionBounded`, for every package
of files in finitely many. The comment in `DoParse` counts include statements, and
the proof finds one for each call but the innermost: a file is on the stack of
calls once, because an include is entered only when its file is not among those
included, and a restarted or waiting call has that many of its own includes
among those (`DepthKept`). Neither holds without the other, since a return
forgets the file that it restarts.

### Depths

`DepthsAlwaysRight`: `Spec => []DepthsRight`, for the runtimes that a schema
compiles with, words and integers of any
widths (64 and 32 in the code), chunks of any power of two of at least 8 bytes
of which at least 16 fit the words (`WidthAssumption`), and any numbers in the
schemas that are words (`NumbersAssumption`; the parser reads them so). TLC can
only check scaled widths. The property is an equivalence, so each case has two
halves: as long as nothing overflows, the depth is right, and otherwise it is
wrong.

- `LeastPower(n)` is the least sufficient depth: `n <= 2^e` exactly for the e
  from it on (`LeastPowerIs`). Rust and the like find it up to half the words,
  the shifts of TypeScript up to half the integers (`IntDepthIs`).
- A sum that rounds a limit up to chunks and wraps leaves no chunk, so depth 0,
  of a tree that has at least two (`WrappedDivision`).
- In a bit list TypeScript converts the chunks to an integer first: the signed
  remainder is negative, or smaller than the bound by a multiple of 2^32
  (`IntBitsAgree`).
- Rust's product wraps to any word. What is left of n chunks is below q, the
  chunks that the words count, and the true number is q or more, so no power of
  two fits both (`ProductAgrees`).

`TreesAre` finds that every tree under a field is one of these, with a limit that
is a word; `WordsInv` keeps that for the tables the parser holds, and the
analysis invariant says that the fields of what is generated are among theirs.
`PackagesDepthsRight` carries the result over to packages of files.

### The tree cache

`TreeBackedProofs` proves, for every type, however deep, any values, any updates
that `sszUpdate` accepts and any number of pending writes:

- `TreeBackedImplementsUncached`: `Spec => Uncached!Spec`. Each update and each
  read of the cached flavour is one of a value without a cache, so a caller who
  chooses between the two by a constructor gets the same roots.
- `RootAlwaysCoherent`: `Spec => []Coherent`, the root that `hashTreeRootCached`
  returns is the root that the specification computes.
- `WritesNeverLost`, `CachesAlwaysSound`, `CommitAlwaysFused` and
  `TreeBackedTypeCorrect`: `Spec => []NoWriteLost`, `[]CachesSound`,
  `[]FusedCommit` and `[]TypeOK`.

All assume `WithinCapacity`, that no index lies past the chunks that its list or
vector has room for. Without it the root is wrong, as `tree_backed_alias` shows:
`sszUpdate` does not compare the index with the capacity. An index past the *length* is
allowed, before and after the list shrinks or grows. Of types it is assumed
(`IsShape`) that vectors have elements, as SSZ requires, that no list or vector
is deeper than the tables of zero hashes, and that a path which names a field of
a container names one it has, which the elaborator checks (`ShapeAssumption`,
`StatementsAssumption`).

None of these is inductive: `NoWriteLost` says where the tree may differ from that
of the value, not that a slot there is one the value had. `IInv`
(`TreeBackedInvariant`) has four parts:

- the value is one of the type;
- every slot of the tree has the root of what is below it (`IsFull`);
- a pending write is recorded under the index of its path (`Indexed`), and there
  are at most `MaxPending`;
- the tree and that of the value look alike (`Agree`) wherever no pending write
  to a part that the value still has is on the way. This is over *all* sequences
  of bits: where one of them has no node, the other has none.

The third part is what `GindexBitsInvert` is for: bits to generalized index and
back is the identity on the sequences that start at the root. `PathSits` says
that the bits of a path lead, in the tree of a value, to the tree of the part at
that path, so an update of the value changes its tree there and nowhere else
(`WriteLocal`), and to record the place is to keep `Agree`. A write that is out
of bounds when it is made changes nothing, and one that is out of bounds when it
is committed is dropped; then what it could have hidden is a place that the
value's tree does not reach either (`Reaches`). Here `WithinCapacity` is needed:
within it, a path out of bounds leads to the zeros that complete the tree, and
past it into another part.

`MerkleProofs` has what this rests on. `Rel(n, m, W)` says that the tree n is m
but for updates W that have not been made, and that whatever slot is filled in n
has the root of m at that place. `CommitMakesUpdates` proves that the single walk
of `commitAndHash`, given updates for W, leaves m and returns its root: a side
without updates is m's already, so its slot may be believed. `setManyAt` and then
`merkleRootWithCache`, or `setAt` for each update in any order, lead to the same
m (`CommitAlwaysFused`): all take their parts from one value, so an update below
the place of another has what that one has there (`Fits`, `RebuiltRel`).
`OfSubtreesMerkleizes` proves that the tree which the library builds by halves
has the root of the specification's `merkleize`, which goes up layer by layer;
`TreeHasReferenceRoot` carries this over nested types to
`hashTreeRoot`.

The code recurs over trees and values, and so do the definitions, as recursive
functions. That a function with such an equation exists, and only one, is shown
by induction on the length of places, for recursion from the root (bits to
index) and to the root (`Roots`), in the form of a least counterexample. `IInv`
quantifies over all sequences of bits, so TLC checks the properties that follow
from it and not `IInv` itself.

### Only model-checked

Liveness (`CallsReturn`, `RunEnds`, `ReadingEnds`) is beyond the prover.
The codec (`Exchange`, nine properties) recurses over types with `RECURSIVE`
operators, about which the prover can say nothing. `ImplementsTreeHash` needs,
beyond the chunk counts of the hasher's invariant, what every chunk below them
contains, through layers and progressive subtrees, and is not proved;
`ReadRight` compares with a recursive walk over the files.

## Findings

1. A list longer than its `ssz_max` breaks the hasher's own assertion
   (`lib.rs:204`), or, in builds without assertions, corrupts the roots of the
   values that hold it. No decoder rejects it; `ErrListTooBig` is unused.
2. `README.md:115` promises stable generalized indices for progressive
   containers; a container of one position has a root of another form.
3. The C# pool can exceed `MaxPoolSize`; it is bounded by the number of threads
   (`HashersBounded`).
4. In the Lean cache, an update with an index beyond the capacity takes the key
   of another place (`Update.lean:382`) and, instead of being a no-op, removes a
   pending write there: the cached root is no longer that of the value.
5. Two fields of a progressive table may share an id, against the comment at
   `idl_parser.cpp:2948`; one of them is then encoded and never hashed.
6. Of a progressive list of strings, which the generators accept
   (`idl_gen_ssz_rust.cpp:294-300`), only the number is hashed (1237-1247).
7. `UnmarshalSSZ` of Go cannot decode an array of structs into a new object: its
   elements are pointers that nothing sets (`idl_gen_ssz_go.cpp:1138`).

Observed on the way, and written into the properties as they are:

- the depth is wrong in TypeScript above 2^31 chunks, in bit lists from 2^31
  chunks on, and in Rust where `ssz_max` times the element's size reaches 2^64;
  Java code with a limit beyond `int` does not compile (`DepthsRight`);
- a progressive bit list (EIP-7916) is resolved to a bit list of limit 0
  (`idl_gen_ssz_rust.cpp:272`) and hashed as one binary tree, not as progressive
  subtrees (`lib.rs:157`; `TreeHash` follows the code, `ImplementsTreeHash`);
- the hash methods of TypeScript, Java and C# call names that their runtimes, or
  the classes generated beside them, do not have (`Compiles`);
- a size of 2^32 bytes or more is laid out modulo 2^32 (`LayoutRight`);
- `HasCircularStructDependency` passes a struct with an array of itself, on
  which every generator recurses without end (`OverflowIsCycle`);
- a progressive table without ids has one leaf of zeros (`UnhashedExplained`);
- Go keeps a list of elements between offsets from the message before when the
  new one is empty (`ReuseExplained`);
- a Rust view is said to be created "with full validation"
  (`idl_gen_ssz_rust.cpp:1404`), but looks neither at offsets below the top
  level nor at elements; `to_owned_type` then panics on some of them
  (`ViewConverts`, `ViewShowsOwned`);
- a Go package holds types of two schemas after a run that stops half-way, and
  an included type's size is the included file's, not that of the Go file that
  is there (`FailureLeaves`, `PackageAgrees`).

## Not modelled

- Hasher: 64-bit overflow of `(max_size + 255) / 256` outside `Depths`, the
  capacity of the scratch buffers, the SHA-256 implementations; the low 32 bits
  of a length that TypeScript mixes in. The Go hasher is not in the repository.
- Codec: the SSZ back ends never see unions; `uint128` and `uint256` are not
  produced by the parser. Nim decodes from raw memory, without a defined outcome
  on a damaged message; Zig's decoder of lists other than of bytes, and Rust's of
  arrays other than of bytes, do not compile. Lean's generator emits
  declarations only.
- Parser: enums, unions, services, namespaces, default values, JSON and binary
  schemas. They are upstream and reach the SSZ back ends as scalars or not at all.
- SizzLean: the hash-consing table; serializer, deserializer and specification,
  which Lean proves; lists deeper than the tables of zero hashes, 64 layers.
- FlatBuffers itself (builder, verifier, reflection, the generators of the
  FlatBuffers format for C++, Python, Swift and others): most of the repository's
  lines, none of them called by the SSZ back end.

What remains worth doing: generated hash methods on views (they hash cells
where owned values are hashed), the progressive tree's temporary hashers as a
process of their own, and proofs about `SszCodec` and `TreeHash` after their recursion
is written as recursive functions, as in `SszValue` and `MerkleNode`.
