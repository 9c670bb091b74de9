----------------------------- MODULE SszSchema -----------------------------
(***************************************************************************)
(* Schemas, and what the SSZ generators work out about them.  The eight    *)
(* generators share this analysis (ResolveSszFieldInfo to                  *)
(* AnalyzeContainer); the Rust one is mapped.                              *)
(*                                                                         *)
(* A schema is a sequence of tables and structs in order of declaration.   *)
(* Each has a name, marks (progressive: ssz_progressive; struct;           *)
(* generated: it comes from an included file) and fields.  A field has a   *)
(* name, a type, an id or NoId, a mark (deprecated), an attr (the ssz_     *)
(* flag of a vector or array, or "none") and the numbers of ssz_max or     *)
(* ssz_bitsize, the empty sequence when the attribute is missing.          *)
(*                                                                         *)
(* The numbers of the attributes have 64 bits, the sizes in bytes and in   *)
(* bits only 32: sums, products and conversions of sizes wrap around.      *)
(***************************************************************************)
EXTENDS Naturals, Sequences, FiniteSets, Functions

CONSTANT Sizes        \* The values of a uint32_t: 2^32 in the code.

ASSUME SizesAssumption == Sizes \in Nat /\ Sizes > 8

Uint32(n) == n % Sizes

NoId == 65536         \* ids are of type voffset_t
NoTable == "no table"
OffsetSize == 4       \* bytes of an offset

\* The type of a field, as the parser has it.
BoolType == [base |-> "bool", size |-> 1]
UintType(size) == [base |-> "uint", size |-> size]
FloatType == [base |-> "float", size |-> 8]
StringType == [base |-> "string"]
VectorType(elem) == [base |-> "vector", elem |-> elem]
ArrayType(elem, len) == [base |-> "array", elem |-> elem, len |-> len]
TableType(name) == [base |-> "struct", name |-> name]

\* Of the basic types.
Sized(type) == type.base \in {"bool", "uint"} => type.size \in {1, 2, 4, 8}

\* A field as the generators look at it: of the flags, those that its type can
\* have.  NoTable is not an identifier.
IsField(f) ==
  /\ f.id \in 0..NoId
  /\ f.max \in Seq(Nat)
  /\ Sized(f.type)
  /\ f.type.base \in {"vector", "array"} => Sized(f.type.elem)
  /\ f.type.base = "struct" => f.type.name # NoTable
  /\ f.type.base = "vector" =>
       f.attr \in {"none", "bitlist", "progressive_bitlist", "progressive_list"}
  /\ f.type.base = "array" => f.type.len \in Nat /\ f.attr \in {"none", "bitvector"}

\* A table or struct as the parser has it.
IsTable(t) ==
  /\ t \in [name : STRING, progressive : BOOLEAN, struct : BOOLEAN, generated : BOOLEAN,
            fields : Seq(Range(t.fields))]
  /\ t.name # NoTable
  /\ \A f \in Range(t.fields) : IsField(f)

TableNames(schema) == {schema[k].name : k \in 1..Len(schema)}
Named(schema, name) == CHOOSE t \in Range(schema) : t.name = name
StructsOf(tables) == {tables[k].name : k \in {j \in 1..Len(tables) : tables[j].struct}}

Scalars == {"bool", "uint", "float"}

\* ParseField: a struct is of scalars, of structs that are known to their end
\* or of arrays of these; the struct itself counts as known.
FitsStruct(defs, table, type) ==
  LET of == IF type.base = "array" THEN type.elem ELSE type
  IN  \/ of.base \in Scalars
      \/ of.base = "struct" /\ of.name \in StructsOf(defs) \union {table.name}

FitsTable(type) == type.base # "array"

-----------------------------------------------------------------------------
(* What is known of a field: its SSZ type, whether it is dynamic and its   *)
(* size when it is not; with an element, its analysis and the limit; with  *)
(* a table, the analysis of the table.                                     *)

Info(ssz, dynamic, size) == [ssz |-> ssz, dynamic |-> dynamic, size |-> size]
Unsupported == Info("unsupported", FALSE, 0)    \* after LogCompilerError

OfElem(ssz, dynamic, size, elem, limit) ==
  IF elem.ssz = "unsupported" THEN Unsupported
  ELSE [ssz |-> ssz, dynamic |-> dynamic, size |-> size, elem |-> elem, limit |-> limit]

ListInfo(ssz, elem, limit) == OfElem(ssz, TRUE, 0, elem, limit)

ContainerInfo(nested) ==
  [ssz |-> "container", dynamic |-> ~nested.fixed,
   size |-> IF nested.fixed THEN nested.size ELSE 0, of |-> nested]

NeedsMax(field) ==
  \/ field.type.base = "string"
  \/ field.type.base = "vector" /\ field.attr \notin {"progressive_bitlist", "progressive_list"}

\* The table whose analysis the field needs, if the code gets that far.
Callee(field) ==
  LET t == field.type
  IN  CASE t.base = "struct" -> t.name
        [] /\ t.base \in {"vector", "array"}
           /\ t.elem.base = "struct"
           /\ field.attr \in {"none", "progressive_list"}
           /\ NeedsMax(field) => field.max # <<>> -> t.elem.name
        [] OTHER -> NoTable

\* An element type; nested is the analysis of its table, if it is one.
ResolveElemType(t, nested) ==
  CASE t.base \in {"bool", "uint"} -> Info(t.base, FALSE, t.size)
    [] t.base = "string" -> ListInfo("list", Info("uint", FALSE, 1), 0)
    [] t.base = "struct" -> ContainerInfo(nested)
    [] OTHER -> Unsupported

\* The second number of ssz_max is the limit of strings in a vector.
WithInnerMax(elem, max) ==
  IF elem.ssz = "list" /\ Len(max) = 2 THEN [elem EXCEPT !.limit = max[2]] ELSE elem

ResolveVectorType(field, nested) ==
  LET elem == ResolveElemType(field.type.elem, nested)
  IN  CASE NeedsMax(field) /\ field.max = <<>> -> Unsupported
        [] field.attr = "progressive_bitlist" -> Info("bitlist", TRUE, 0)
        [] field.attr = "bitlist" /\ field.max # <<>> -> Info("bitlist", TRUE, 0)
        [] field.attr = "progressive_list" -> ListInfo("progressive_list", elem, 0)
        [] field.attr = "none" /\ field.max # <<>> ->
             ListInfo("list", WithInnerMax(elem, field.max), field.max[1])

ResolveArrayType(field, nested) ==
  LET elem == ResolveElemType(field.type.elem, nested)
      bitsize == Uint32(IF field.max = <<>> THEN 8 * field.type.len ELSE field.max[1])
  IN  IF field.attr = "bitvector" THEN Info("bitvector", FALSE, Uint32(bitsize + 7) \div 8)
      ELSE OfElem("vector", FALSE, Uint32(field.type.len * elem.size), elem, field.type.len)

\* A union is a type tag and a value for the parser; the tag comes first and
\* is not a supported scalar.
ResolveSszFieldInfo(field, nested) ==
  LET t == field.type
  IN  CASE t.base \in {"bool", "uint"} -> Info(t.base, FALSE, t.size)
        [] t.base = "string" ->
             IF field.max = <<>> THEN Unsupported
             ELSE ListInfo("list", Info("uint", FALSE, 1), field.max[1])
        [] t.base = "vector" -> ResolveVectorType(field, nested)
        [] t.base = "array" -> ResolveArrayType(field, nested)
        [] t.base = "struct" -> ContainerInfo(nested)
        [] OTHER -> Unsupported

-----------------------------------------------------------------------------
(* Containers.                                                             *)

NoFields == [fixed |-> TRUE, size |-> 0, fields |-> <<>>, infos |-> <<>>]

\* Faulty: the offset of a dynamic field is not counted.
AddFieldUncounted(container, field, info) ==
  [fixed |-> container.fixed /\ ~info.dynamic,
   size |-> Uint32(container.size + info.size),
   fields |-> Append(container.fields, field),
   infos |-> Append(container.infos, info)]

\* One field of AnalyzeContainer's loop, that is not deprecated.
AddField(container, field, info) ==
  [fixed |-> container.fixed /\ ~info.dynamic,
   size |-> Uint32(container.size + (IF info.dynamic THEN OffsetSize ELSE info.size)),
   fields |-> Append(container.fields, field),
   infos |-> Append(container.infos, info)]

Indices(container) ==
  {container.fields[k].id : k \in 1..Len(container.fields)} \ {NoId}

MaxIndex(container) ==
  IF Indices(container) = {} THEN 0
  ELSE CHOOSE i \in Indices(container) : \A j \in Indices(container) : j <= i

\* The active fields of a progressive container: bits in whole bytes.
ActiveBits(container) ==
  [k \in 0..(8 * ((MaxIndex(container) + 8) \div 8) - 1) |-> k \in Indices(container)]

\* The analysis of table name, all calls together.  The tables on the way
\* to a leaf must not repeat: the code has no such check.
Analysis(schema) ==
  LET Of[name \in TableNames(schema)] ==
        LET table == Named(schema, name)
            Nested(field) == IF Callee(field) = NoTable THEN NoFields ELSE Of[Callee(field)]
            Upto[k \in 0..Len(table.fields)] ==
              IF k = 0 THEN NoFields
              ELSE IF table.fields[k].deprecated THEN Upto[k - 1]
              ELSE AddField(Upto[k - 1], table.fields[k],
                            ResolveSszFieldInfo(table.fields[k], Nested(table.fields[k])))
        IN  Upto[Len(table.fields)]
  IN  Of
=============================================================================
