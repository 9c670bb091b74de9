------------------------------ MODULE SszCodec ------------------------------
(***************************************************************************)
(* The methods that the SSZ generators emit for a type: size, encoders,    *)
(* decoders and, in Rust, the validation of views.  They are operators     *)
(* over what the generators know of the type (SszSchema).  A generator     *)
(* unrolls its loops into straight code; here the loops stand.             *)
(*                                                                         *)
(* A value is a boolean, a number, a sequence of cells (bytes that are not *)
(* read as numbers), or a sequence of the values of elements or fields.    *)
(* A message is a sequence of cells.  A cell is a byte that has Base       *)
(* values in place of 256.                                                 *)
(***************************************************************************)
EXTENDS SszSchema, Integers

CONSTANTS
  Base,     (* The values of a cell.                                        *)
  Nil       (* A pointer that was not set; what an accessor gives that      *)
            (* panics.                                                      *)

ASSUME BaseAssumption == Base \in Nat /\ Base >= 4 /\ Base % 4 = 0

Cells == 0..(Base - 1)

\* Step(..Step(Step(base, 1), 2).., n)
Fold(Step(_, _), base, n) ==
  LET upto[k \in 0..n] == IF k = 0 THEN base ELSE Step(upto[k - 1], k)
  IN  upto[n]

Total(numbers) == Fold(LAMBDA sum, k : sum + numbers[k], 0, Len(numbers))
Concat(parts) == Fold(LAMBDA whole, k : whole \o parts[k], <<>>, Len(parts))
Upto(n) == [k \in 1..n |-> k]

\* Faulty: a byte is not cut off at its width.
LEUntruncated(n, size) == [k \in 1..size |-> n \div Base^(k - 1)]

\* to_le_bytes and from_le_bytes.
LE(n, size) == [k \in 1..size |-> (n \div Base^(k - 1)) % Base]

\* Faulty: the first byte is the highest.
NumberBigEndian(cells) == Fold(LAMBDA n, k : Base * n + cells[k], 0, Len(cells))

Number(cells) == Fold(LAMBDA n, k : n + cells[k] * Base^(k - 1), 0, Len(cells))

Composite(info) == info.ssz \in {"container", "list", "progressive_list", "vector"}

\* The parts of a composite value and what is known of them.
Parts(info, value) ==
  IF info.ssz = "container" THEN info.of.infos ELSE [k \in 1..Len(value) |-> info.elem]

Dynamic(infos) == SelectSeq(Upto(Len(infos)), LAMBDA k : infos[k].dynamic)

\* What a part takes in the static section.
Width(info) == IF info.dynamic THEN OffsetSize ELSE info.size

-----------------------------------------------------------------------------
(* ssz_bytes_len.                                                          *)

\* Faulty: the offsets of a list's elements are not counted.
FixedShareBare(info, value) ==
  CASE info.ssz = "container" -> info.of.size
    [] info.ssz \in {"list", "progressive_list"} ->
         IF info.elem.dynamic THEN 0 ELSE Len(value) * info.elem.size

\* The part of the size that does not depend on what the elements hold.
FixedShare(info, value) ==
  CASE info.ssz = "container" -> info.of.size
    [] info.ssz \in {"list", "progressive_list"} -> Len(value) * Width(info.elem)

RECURSIVE Size(_, _)
Size(info, value) ==
  CASE ~info.dynamic -> info.size
    [] info.ssz = "bitlist" -> Len(value)
    [] OTHER ->
         LET parts == Parts(info, value)
             dynamic == Dynamic(parts)
         IN  FixedShare(info, value) +
             Total([i \in 1..Len(dynamic) |-> Size(parts[dynamic[i]], value[dynamic[i]])])

-----------------------------------------------------------------------------
(* ssz_append.                                                             *)

Basic(info, value) ==
  CASE info.ssz = "bool" -> <<IF value THEN 1 ELSE 0>>
    [] info.ssz = "uint" -> LE(value, info.size)
    [] OTHER -> value

\* Faulty: the offset counts from the start of the message.
PatchAbsolute(buf, at, start) ==
  SubSeq(buf, 1, at) \o LE(Len(buf), OffsetSize) \o SubSeq(buf, at + OffsetSize + 1, Len(buf))

\* The placeholder at a position is replaced by the length written so far.
Patch(buf, at, start) ==
  SubSeq(buf, 1, at) \o LE(Len(buf) - start, OffsetSize)
    \o SubSeq(buf, at + OffsetSize + 1, Len(buf))

\* Every generator but Zig's: placeholders, patched when their part is
\* written.  Elements of a list are written as fields of a container are.
RECURSIVE SszAppend(_, _, _)
SszAppend(buf, info, value) ==
  IF ~Composite(info) THEN buf \o Basic(info, value)
  ELSE LET parts == Parts(info, value)
           Static(acc, k) ==
             [buf |-> IF parts[k].dynamic THEN acc.buf \o LE(0, OffsetSize)
                      ELSE SszAppend(acc.buf, parts[k], value[k]),
              at |-> Append(acc.at, Len(acc.buf))]
           static == Fold(Static, [buf |-> buf, at |-> <<>>], Len(parts))
           Section(acc, k) ==
             IF parts[k].dynamic
             THEN SszAppend(Patch(acc, static.at[k], Len(buf)), parts[k], value[k])
             ELSE acc
       IN  Fold(Section, static.buf, Len(parts))

\* Zig: each offset is written at once, and advanced by the size of its part.
RECURSIVE SszWrite(_, _)
SszWrite(info, value) ==
  IF ~Composite(info) THEN Basic(info, value)
  ELSE LET parts == Parts(info, value)
           dynamic == Dynamic(parts)
           Before(k) == SelectSeq(dynamic, LAMBDA j : j < k)
           Offset(k) == FixedShare(info, value) +
             Total([i \in 1..Len(Before(k)) |-> Size(parts[Before(k)[i]], value[Before(k)[i]])])
       IN  Concat([k \in 1..Len(parts) |->
                     IF parts[k].dynamic THEN LE(Offset(k), OffsetSize)
                     ELSE SszWrite(parts[k], value[k])])
           \o Concat([i \in 1..Len(dynamic) |-> SszWrite(parts[dynamic[i]], value[dynamic[i]])])

-----------------------------------------------------------------------------
(* Decoders.  A decoder reads the cells lo+1..hi of the message into an    *)
(* object; only Go's is ever handed one that is not new.  It ends well,    *)
(* with an error, or in a trap: a panic or an exception of the language.   *)

Runtimes == {"rust", "go", "ts", "csharp", "java"}

\* Rust's try_into makes arrays of bytes only: of a type with another array
\* nothing compiles there.
RECURSIVE Converts(_)
Converts(info) ==
  CASE info.ssz = "vector" -> info.elem.ssz = "uint" /\ info.elem.size = 1
    [] info.ssz \in {"list", "progressive_list"} -> Converts(info.elem)
    [] info.ssz = "container" -> \A k \in 1..Len(info.of.infos) : Converts(info.of.infos[k])
    [] OTHER -> TRUE
Receivers(info) == {rt \in Runtimes : rt = "rust" => Converts(info)}

Ok(value) == [st |-> "ok", value |-> value]
Error(value) == [st |-> "error", value |-> value]
Trap(value) == [st |-> "trap", value |-> value]

RECURSIVE Zero(_), Made(_, _)

\* Elements that were made and not filled: structs are held by pointers.
Made(elem, count) == [i \in 1..count |-> IF elem.ssz = "container" THEN Nil ELSE Zero(elem)]

Zero(info) ==
  CASE info.ssz = "bool" -> FALSE
    [] info.ssz = "uint" -> 0
    [] info.ssz = "bitvector" -> [k \in 1..info.size |-> 0]
    [] info.ssz = "vector" -> Made(info.elem, info.limit)
    [] info.ssz = "container" -> [k \in 1..Len(info.of.infos) |-> Zero(info.of.infos[k])]
    [] OTHER -> <<>>

\* An offset, or NoWord when the read is out of bounds.  Go's reads are
\* bounded by the capacity of the slice, which reaches to the message's end.
NoWord == Base^OffsetSize
Word(rt, msg, at, hi) ==
  IF at + OffsetSize > (IF rt = "go" THEN Len(msg) ELSE hi) THEN NoWord
  ELSE LET n == Number(SubSeq(msg, at + 1, at + OffsetSize))
       IN  IF rt \in {"java", "csharp"} /\ n >= NoWord \div 2 THEN n - NoWord ELSE n

\* Faulty: no decoder compares the byte with 1.
BoolUnchecked(rt, cell) == cell \in Cells

\* Java's bytes are signed.
BoolAccepted(rt, cell) ==
  \/ rt = "rust"
  \/ cell <= 1
  \/ rt = "java" /\ cell >= Base \div 2

\* Faulty: Rust takes any byte but 0 for true.
BoolNonZero(rt, cell) == IF rt = "rust" THEN cell # 0 ELSE cell = 1

BoolValue(rt, cell) == cell = 1

\* Where the field k of a container begins, and the offset found there.
Place(container, lo, k) ==
  lo + Total([j \in 1..(k - 1) |-> Width(container.infos[j])])
OffsetAt(rt, container, msg, lo, hi, k) == Word(rt, msg, Place(container, lo, k), hi)

DynamicBefore(container, k) == SelectSeq(Dynamic(container.infos), LAMBDA j : j < k)
DynamicAfter(container, k) == SelectSeq(Dynamic(container.infos), LAMBDA j : j > k)

\* The check of a dynamic field's offset.
OffsetAccepted(rt, container, msg, lo, hi, k) ==
  LET offset == OffsetAt(rt, container, msg, lo, hi, k)
      before == DynamicBefore(container, k)
  IN  IF before = <<>> THEN offset = container.size
      ELSE /\ offset >= OffsetAt(rt, container, msg, lo, hi, before[Len(before)])
           /\ offset <= hi - lo

\* Where the section of a dynamic field ends.
SectionEnd(rt, container, msg, lo, hi, k) ==
  LET after == DynamicAfter(container, k)
  IN  IF after = <<>> THEN hi ELSE lo + OffsetAt(rt, container, msg, lo, hi, after[1])

RECURSIVE Decode(_, _, _, _, _, _)

\* What follows a part that was decoded: with that part, the value so far.
After(r, soFar) == [st |-> r.st, value |-> soFar]

DecodeContainer(rt, info, msg, lo, hi, old) ==
  LET c == info.of
      Into(acc, k, from, to) ==
        LET r == Decode(rt, c.infos[k], msg, from, to, acc.value[k])
        IN  After(r, [acc.value EXCEPT ![k] = r.value])
      Static(acc, k) ==
        CASE acc.st # "ok" -> acc
          [] acc.st = "ok" /\ c.infos[k].dynamic ->
               IF OffsetAccepted(rt, c, msg, lo, hi, k) THEN acc ELSE Error(acc.value)
          [] acc.st = "ok" /\ ~c.infos[k].dynamic ->
               Into(acc, k, Place(c, lo, k), Place(c, lo, k) + c.infos[k].size)
      Section(acc, k) ==
        IF acc.st = "ok" /\ c.infos[k].dynamic
        THEN Into(acc, k, lo + OffsetAt(rt, c, msg, lo, hi, k), SectionEnd(rt, c, msg, lo, hi, k))
        ELSE acc
  IN  IF hi - lo < c.size THEN Error(old)
      ELSE Fold(Section, Fold(Static, Ok(old), Len(c.infos)), Len(c.infos))

\* count elements were made; the first Len(acc.value) are filled.
Filled(acc, elem, count) ==
  [acc EXCEPT !.value = @ \o Made(elem, count - Len(@))]

\* Elements of one size: those that fit.
DecodeFixedList(rt, info, msg, lo, hi) ==
  LET size == info.elem.size
      count == (hi - lo) \div size
      Next(acc, i) ==
        LET r == Decode(rt, info.elem, msg, lo + (i - 1) * size, lo + i * size, Zero(info.elem))
        IN  IF acc.st = "ok" THEN After(r, Append(acc.value, r.value)) ELSE acc
  IN  Filled(Fold(Next, Ok(<<>>), count), info.elem, count)

\* Elements of an array, each in its place; Go decodes a struct into the one
\* that the array already points to.
DecodeVector(rt, info, msg, lo, old) ==
  LET size == info.elem.size
      Into(acc, i) == IF rt = "go" THEN acc.value[i] ELSE Zero(info.elem)
      Next(acc, i) ==
        LET r == Decode(rt, info.elem, msg, lo + (i - 1) * size, lo + i * size, Into(acc, i))
        IN  IF acc.st = "ok" THEN After(r, [acc.value EXCEPT ![i] = r.value]) ELSE acc
  IN  Fold(Next, Ok(old), info.limit)

\* Elements between offsets, from the one after acc.  The first offset told
\* how many there are; it is within the section unless Rust is about to trap.
RECURSIVE DecodeBetween(_, _, _, _, _, _, _)
DecodeBetween(rt, elem, msg, lo, hi, count, acc) ==
  LET i == Len(acc.value)
      start == Word(rt, msg, lo + i * OffsetSize, hi)
      end == IF i + 1 < count THEN Word(rt, msg, lo + (i + 1) * OffsetSize, hi) ELSE hi - lo
      r == Decode(rt, elem, msg, lo + start, lo + end, Zero(elem))
  IN  CASE acc.st # "ok" \/ i = count -> acc
        [] OTHER ->
             IF NoWord \in {start, end} THEN Trap(acc.value)
             ELSE IF start > end \/ end > hi - lo
             THEN (IF rt = "rust" THEN Trap(acc.value) ELSE Error(acc.value))
             ELSE IF start < 0 THEN Trap(acc.value)
             ELSE DecodeBetween(rt, elem, msg, lo, hi, count,
                                After(r, Append(acc.value, r.value)))

\* Faulty: the elements are appended to those of the object.
DecodeOffsetListAppends(rt, info, msg, lo, hi, old) ==
  LET first == Word(rt, msg, lo, hi)
      r == DecodeBetween(rt, info.elem, msg, lo, hi, first \div OffsetSize, Ok(<<>>))
  IN  IF lo = hi THEN Ok(old)
      ELSE IF first = NoWord THEN Trap(old)
      ELSE IF first % OffsetSize # 0 \/ first < 0 THEN Error(old)
      ELSE After(r, old \o r.value)

DecodeOffsetList(rt, info, msg, lo, hi, old) ==
  LET first == Word(rt, msg, lo, hi)
      count == first \div OffsetSize
  IN  IF lo = hi THEN Ok(old)
      ELSE IF first = NoWord THEN Trap(old)
      ELSE IF rt # "rust" /\ first % OffsetSize # 0 THEN Error(old)
      ELSE IF first < 0 THEN Trap(old)
      ELSE Filled(DecodeBetween(rt, info.elem, msg, lo, hi, count, Ok(<<>>)), info.elem, count)

Decode(rt, info, msg, lo, hi, old) ==
  LET cells == SubSeq(msg, lo + 1, hi)
  IN  CASE info.ssz = "bool" ->
             IF BoolAccepted(rt, cells[1]) THEN Ok(BoolValue(rt, cells[1])) ELSE Error(old)
        [] info.ssz = "uint" -> Ok(Number(cells))
        [] info.ssz \in {"bitvector", "bitlist"} -> Ok(cells)
        [] info.ssz = "container" ->
             IF old = Nil THEN Trap(Nil) ELSE DecodeContainer(rt, info, msg, lo, hi, old)
        [] info.ssz = "vector" -> DecodeVector(rt, info, msg, lo, old)
        [] info.ssz \in {"list", "progressive_list"} ->
             IF info.elem.dynamic THEN DecodeOffsetList(rt, info, msg, lo, hi, old)
             ELSE DecodeFixedList(rt, info, msg, lo, hi)

\* Into a new object.
DecodeNew(rt, info, msg) == Decode(rt, info, msg, 0, Len(msg), Zero(info))

-----------------------------------------------------------------------------
(* from_ssz_bytes of a Rust view: what it checks of the message.           *)

ListOffsetsValid(msg, lo, hi) ==
  LET Offset(j) == Word("rust", msg, lo + j * OffsetSize, hi)
  IN  lo # hi =>
        /\ lo + OffsetSize <= hi
        /\ Offset(0) % OffsetSize = 0
        /\ Offset(0) <= hi - lo
        /\ \A j \in 1..(Offset(0) \div OffsetSize - 1) :
             Offset(j) >= Offset(j - 1) /\ Offset(j) <= hi - lo

\* Faulty: a list of structs is divided by the size of an offset.
SectionValidByOffset(info, msg, from, to) ==
  info.ssz = "list" /\ info.elem.ssz = "container" =>
    IF info.elem.dynamic THEN ListOffsetsValid(msg, from, to)
    ELSE (to - from) % OffsetSize = 0

\* What is checked of the section of a dynamic field.
SectionValid(info, msg, from, to) ==
  info.ssz = "list" /\ info.elem.ssz = "container" =>
    IF info.elem.dynamic THEN ListOffsetsValid(msg, from, to)
    ELSE (to - from) % info.elem.size = 0

RECURSIVE ViewValid(_, _, _, _)
ViewValid(container, msg, lo, hi) ==
  LET infos == container.infos
      StaticValid(k) ==
        LET at == Place(container, lo, k)
        IN  CASE infos[k].ssz = "bool" -> msg[at + 1] <= 1
              [] infos[k].ssz = "container" ->
                   ViewValid(infos[k].of, msg, at, at + infos[k].size)
              [] OTHER -> TRUE
  IN  /\ hi - lo >= container.size
      /\ \A k \in 1..Len(infos) :
           IF infos[k].dynamic THEN OffsetAccepted("rust", container, msg, lo, hi, k)
           ELSE StaticValid(k)
      /\ \A k \in 1..Len(infos) :
           infos[k].dynamic =>
             SectionValid(infos[k], msg, lo + OffsetAt("rust", container, msg, lo, hi, k),
                          SectionEnd("rust", container, msg, lo, hi, k))

-----------------------------------------------------------------------------
(* The accessors of a Rust view, all of them: the value that they show of  *)
(* the cells lo+1..hi, with Nil where one panics.  The views of elements   *)
(* and nested tables are made without from_ssz_bytes.  Lists of strings    *)
(* and of numbers are shown as bare cells, which the reader decodes.       *)

\* Faulty: any byte but 0 is true.
ViewBoolNonZero(cell) == cell # 0

ViewBool(cell) == cell = 1

RECURSIVE ViewRead(_, _, _, _)

\* &self.0[from..to] of a view, or of a section, that ends at hi.
Slice(info, msg, from, to, hi) ==
  IF from <= to /\ to <= hi THEN ViewRead(info, msg, from, to) ELSE Nil

ViewElements(elem, msg, lo, hi) ==
  LET Offset(i) == Word("rust", msg, lo + i * OffsetSize, hi)
      count == IF elem.dynamic THEN Offset(0) \div OffsetSize ELSE (hi - lo) \div elem.size
      At(i) ==
        IF ~elem.dynamic THEN Slice(elem, msg, lo + i * elem.size, lo + (i + 1) * elem.size, hi)
        ELSE LET end == IF i + 1 < count THEN Offset(i + 1) ELSE hi - lo
             IN  IF NoWord \in {Offset(i), end} THEN Nil
                 ELSE Slice(elem, msg, lo + Offset(i), lo + end, hi)
  IN  IF lo = hi THEN <<>>
      ELSE IF elem.dynamic /\ Offset(0) = NoWord THEN Nil
      ELSE [k \in 1..count |-> At(k - 1)]

ViewFields(container, msg, lo, hi) ==
  LET At(k) == OffsetAt("rust", container, msg, lo, hi, k)
      after(k) == DynamicAfter(container, k)
      Shown(k) ==
        IF ~container.infos[k].dynamic
        THEN Slice(container.infos[k], msg, Place(container, lo, k),
                   Place(container, lo, k) + container.infos[k].size, hi)
        ELSE IF At(k) = NoWord \/ (after(k) # <<>> /\ At(after(k)[1]) = NoWord) THEN Nil
        ELSE Slice(container.infos[k], msg, lo + At(k),
                   SectionEnd("rust", container, msg, lo, hi, k), hi)
  IN  [k \in 1..Len(container.infos) |-> Shown(k)]

ViewRead(info, msg, lo, hi) ==
  LET r == Decode("rust", info, msg, lo, hi, Zero(info))
  IN  CASE info.ssz = "bool" -> ViewBool(msg[lo + 1])
        [] info.ssz = "container" -> ViewFields(info.of, msg, lo, hi)
        [] info.ssz = "list" /\ info.elem.ssz = "container" ->
             ViewElements(info.elem, msg, lo, hi)
        [] OTHER -> IF r.st = "ok" THEN r.value ELSE Nil
=============================================================================
