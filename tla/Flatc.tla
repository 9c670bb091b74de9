-------------------------------- MODULE Flatc --------------------------------
(***************************************************************************)
(* A developer's directory: a schema that is edited, and the files that    *)
(* flatc --ssz-go or --ssz-rust writes from it.  A run parses every table  *)
(* and then generates code table by table.  The analysis of a table calls  *)
(* itself on the tables of its fields; the calls are modelled one field    *)
(* at a time on a stack of frames, which can overflow.  The Go generator   *)
(* saves a file for each table as it goes, the Rust one a single file when *)
(* it has been through all of them, and neither removes anything.          *)
(***************************************************************************)
EXTENDS SszSchema

CONSTANTS
  Sources,    (* The schemas that the developer may write.                  *)
  MaxFrames,  (* Frames of AnalyzeContainer that fit on the stack.          *)
  MaxRuns     (* Bound on the runs of flatc.                                *)

ASSUME BoundsAssumption == MaxFrames \in Nat \ {0} /\ MaxRuns \in Nat

\* Tables of different names; the type of each field is one of them or none.
\* Structs are of scalars and structs, and tables have no arrays.
IsSource(s) ==
  /\ s \in Seq(Range(s))
  /\ \A j, k \in 1..Len(s) : s[j].name = s[k].name => j = k
  /\ \A k \in 1..Len(s) :
       /\ IsTable(s[k])
       /\ \A f \in Range(s[k].fields) :
            /\ Callee(f) \in TableNames(s) \union {NoTable}
            /\ IF s[k].struct THEN FitsStruct(s, s[k], f.type) ELSE FitsTable(f.type)

\* What the parser makes of a file (Compiler).
ASSUME SourcesAssumption == \A s \in Sources : IsSource(s)

VARIABLES
  schema,   (* The source file.                                             *)
  lang,     (* The generator that runs, or ran last.                        *)
  pc,       (* "idle", "parse" or "generate".                               *)
  parsed,   (* The tables as the parser holds them, fields in its order.    *)
  next,     (* The table that the parser or the generator is at.            *)
  stack,    (* Calls of AnalyzeContainer, outermost first.                  *)
  code,     (* all_code of the Rust generator: a file for each table.       *)
  disk,     (* The Go files by table, and the Rust file.                    *)
  result,   (* How the last run ended: "none", "ok", "error", "overflow".   *)
  before,   (* History: disk when the run started.                          *)
  runs      (* The number of runs so far.                                   *)

vars == <<schema, lang, pc, parsed, next, stack, code, disk, result, before, runs>>

AllNames == UNION {TableNames(s) : s \in Sources}
NoFile == [status |-> "none"]
Torn == [status |-> "torn"]     \* a file whose writing failed

Gap == 0
-----------------------------------------------------------------------------
(* ParseDecl, after the fields of a table.                                 *)

Ids(table) == {k \in 1..Len(table.fields) : table.fields[k].id # NoId}

\* All fields have an id or none has.  Ids are 0, 1, ... in a table, and at
\* most 255 in a progressive one, where they are not compared.
IdsAccepted(table) ==
  \/ table.struct
  \/ Ids(table) = {}
  \/ /\ Ids(table) = 1..Len(table.fields)
     /\ IF table.progressive
        THEN \A k \in Ids(table) : table.fields[k].id <= 255
        ELSE {table.fields[k].id : k \in Ids(table)} = 0..(Len(table.fields) - 1)

\* std::sort by id, which does not keep the order of equal ids.
Sorted(table) ==
  IF table.struct \/ Ids(table) = {} THEN {table}
  ELSE {[table EXCEPT !.fields = [k \in 1..Len(table.fields) |-> table.fields[p[k]]]] :
          p \in {q \in Bijection(1..Len(table.fields), 1..Len(table.fields)) :
                   \A j, k \in 1..Len(table.fields) :
                     j < k => table.fields[q[j]].id <= table.fields[q[k]].id}}

-----------------------------------------------------------------------------
(* GenHashMethod: which field each leaf of a container's tree is.          *)

\* Faulty: the leaves of gaps are left out.
LeavesWithoutGaps(table, container) ==
  {[k \in 1..Len(container.fields) |-> k]}

\* Faulty: the loop stops before the highest index.
LeavesBelowMax(table, container) ==
  LET n == Len(container.fields)
      At(i) == {k \in 1..n : container.fields[k].id = i}
  IN  IF ~table.progressive THEN {[k \in 1..n |-> k]}
      ELSE {l \in [1..MaxIndex(container) -> 0..n] :
              \A i \in DOMAIN l :
                IF At(i - 1) = {} THEN l[i] = Gap ELSE l[i] \in At(i - 1)}

\* index_to_field is filled in the order of the fields' addresses: of two
\* fields with one id, either is left.
LeafChoices(table, container) ==
  LET n == Len(container.fields)
      At(i) == {k \in 1..n : container.fields[k].id = i}
  IN  IF ~table.progressive THEN {[k \in 1..n |-> k]}
      ELSE {l \in [1..(MaxIndex(container) + 1) -> 0..n] :
              \A i \in DOMAIN l :
                IF At(i - 1) = {} THEN l[i] = Gap ELSE l[i] \in At(i - 1)}

Code(table, container, leaves) ==
  [table |-> table, container |-> container, leaves |-> leaves]

File(content) == [status |-> "whole", content |-> content]

-----------------------------------------------------------------------------
Init ==
  /\ schema \in Sources
  /\ lang = "go" /\ pc = "idle" /\ result = "none" /\ runs = 0
  /\ parsed = <<>> /\ next = 1 /\ stack = <<>> /\ code = <<>>
  /\ disk = [go |-> [name \in AllNames |-> NoFile], rust |-> NoFile]
  /\ before = disk

Edit ==
  /\ pc = "idle" /\ runs < MaxRuns
  /\ schema' \in Sources \ {schema}
  /\ UNCHANGED <<lang, pc, parsed, next, stack, code, disk, result, before, runs>>

Run(l) ==
  /\ pc = "idle" /\ runs < MaxRuns
  /\ lang' = l /\ pc' = "parse" /\ result' = "none" /\ runs' = runs + 1
  /\ parsed' = <<>> /\ next' = 1 /\ stack' = <<>> /\ code' = <<>>
  /\ before' = disk
  /\ UNCHANGED <<schema, disk>>

Stop(outcome) == pc' = "idle" /\ result' = outcome

ParseTable ==
  /\ pc = "parse" /\ next <= Len(schema)
  /\ IdsAccepted(schema[next])
  /\ \E table \in Sorted(schema[next]) : parsed' = Append(parsed, table)
  /\ next' = next + 1
  /\ UNCHANGED <<schema, lang, pc, stack, code, disk, result, before, runs>>

RejectTable ==
  /\ pc = "parse" /\ next <= Len(schema)
  /\ ~IdsAccepted(schema[next])
  /\ Stop("error")
  /\ parsed' = <<>> /\ next' = 1
  /\ UNCHANGED <<schema, lang, stack, code, disk, before, runs>>

Parsed ==
  /\ pc = "parse" /\ next > Len(schema)
  /\ pc' = "generate" /\ next' = 1
  /\ UNCHANGED <<schema, lang, parsed, stack, code, disk, result, before, runs>>

-----------------------------------------------------------------------------
(* The generators' loop over the tables and AnalyzeContainer.              *)

Frame(name) == [name |-> name, pos |-> 1, container |-> NoFields]

Looping == pc = "generate" /\ stack = <<>> /\ next <= Len(parsed)

SkipGenerated ==
  /\ Looping /\ parsed[next].generated
  /\ next' = next + 1
  /\ UNCHANGED <<schema, lang, pc, parsed, stack, code, disk, result, before, runs>>

EnterTable ==
  /\ Looping /\ ~parsed[next].generated
  /\ stack' = <<Frame(parsed[next].name)>>
  /\ UNCHANGED <<schema, lang, pc, parsed, next, code, disk, result, before, runs>>

Top == stack[Len(stack)]
Callers == SubSeq(stack, 1, Len(stack) - 1)
AtField == /\ pc = "generate" /\ stack # <<>>
           /\ Top.pos <= Len(Named(parsed, Top.name).fields)
Field == Named(parsed, Top.name).fields[Top.pos]
AtEnd == /\ pc = "generate" /\ stack # <<>>
         /\ Top.pos > Len(Named(parsed, Top.name).fields)

\* Faulty: the loop does not go on to the next field.
SkipDeprecatedInPlace == AtField /\ Field.deprecated /\ UNCHANGED vars

SkipDeprecated ==
  /\ AtField /\ Field.deprecated
  /\ stack' = Append(Callers, [Top EXCEPT !.pos = @ + 1])
  /\ UNCHANGED <<schema, lang, pc, parsed, next, code, disk, result, before, runs>>

\* The loop of a frame goes on with the analysis of its field.
Resolved(frame, field, nested) ==
  [frame EXCEPT !.pos = @ + 1,
                !.container = AddField(@, field, ResolveSszFieldInfo(field, nested))]

ResolveField ==
  /\ AtField /\ ~Field.deprecated /\ Callee(Field) = NoTable
  /\ ResolveSszFieldInfo(Field, NoFields) # Unsupported
  /\ stack' = Append(Callers, Resolved(Top, Field, NoFields))
  /\ UNCHANGED <<schema, lang, pc, parsed, next, code, disk, result, before, runs>>

\* Faulty: only the innermost call returns.
FailInnermost ==
  /\ AtField /\ ~Field.deprecated /\ Callee(Field) = NoTable
  /\ ResolveSszFieldInfo(Field, NoFields) = Unsupported
  /\ Stop("error")
  /\ stack' = Callers
  /\ UNCHANGED <<schema, lang, parsed, next, code, disk, before, runs>>

\* Every caller returns false, and the generator too.
FailField ==
  /\ AtField /\ ~Field.deprecated /\ Callee(Field) = NoTable
  /\ ResolveSszFieldInfo(Field, NoFields) = Unsupported
  /\ Stop("error")
  /\ stack' = <<>>
  /\ UNCHANGED <<schema, lang, parsed, next, code, disk, before, runs>>

CallNested ==
  /\ AtField /\ ~Field.deprecated /\ Callee(Field) # NoTable
  /\ Len(stack) < MaxFrames
  /\ stack' = Append(stack, Frame(Callee(Field)))
  /\ UNCHANGED <<schema, lang, pc, parsed, next, code, disk, result, before, runs>>

\* Faulty: below a depth, tables count as empty.
CutOff ==
  /\ AtField /\ ~Field.deprecated /\ Callee(Field) # NoTable
  /\ Len(stack) = MaxFrames
  /\ stack' = Append(Callers, Resolved(Top, Field, NoFields))
  /\ UNCHANGED <<schema, lang, pc, parsed, next, code, disk, result, before, runs>>

Overflow ==
  /\ AtField /\ ~Field.deprecated /\ Callee(Field) # NoTable
  /\ Len(stack) = MaxFrames
  /\ Stop("overflow")
  /\ stack' = <<>>
  /\ UNCHANGED <<schema, lang, parsed, next, code, disk, before, runs>>

ReturnNested ==
  /\ AtEnd /\ Len(stack) > 1
  /\ LET caller == stack[Len(stack) - 1]
         field == Named(parsed, caller.name).fields[caller.pos]
     IN  stack' = [Callers EXCEPT ![Len(Callers)] = Resolved(caller, field, Top.container)]
  /\ UNCHANGED <<schema, lang, pc, parsed, next, code, disk, result, before, runs>>

\* Faulty: both generators save what they have after each table.
FinishTableSaves ==
  /\ AtEnd /\ Len(stack) = 1
  /\ \E leaves \in LeafChoices(parsed[next], Top.container) :
       LET type == Code(parsed[next], Top.container, leaves)
       IN  /\ code' = Append(code, type)
           /\ disk' = IF lang = "go" THEN [disk EXCEPT !.go[Top.name] = File(type)]
                      ELSE [disk EXCEPT !.rust = File(code')]
  /\ next' = next + 1
  /\ stack' = <<>>
  /\ UNCHANGED <<schema, lang, pc, parsed, result, before, runs>>

\* The analysis of a table is complete: GenerateType, and in Go SaveType.
FinishTable ==
  /\ AtEnd /\ Len(stack) = 1
  /\ \E leaves \in LeafChoices(parsed[next], Top.container) :
       LET type == Code(parsed[next], Top.container, leaves)
       IN  IF lang = "go"
           THEN disk' = [disk EXCEPT !.go[Top.name] = File(type)] /\ UNCHANGED code
           ELSE code' = Append(code, type) /\ UNCHANGED disk
  /\ next' = next + 1
  /\ stack' = <<>>
  /\ UNCHANGED <<schema, lang, pc, parsed, result, before, runs>>

\* Faulty: what SaveType returns is ignored.
SaveFailsUnseen ==
  /\ AtEnd /\ Len(stack) = 1 /\ lang = "go"
  /\ disk' = [disk EXCEPT !.go[Top.name] = Torn]
  /\ next' = next + 1
  /\ stack' = <<>>
  /\ UNCHANGED <<schema, lang, pc, parsed, code, result, before, runs>>

\* A write fails: the Go generator stops at this table.
SaveFails ==
  /\ AtEnd /\ Len(stack) = 1 /\ lang = "go"
  /\ disk' = [disk EXCEPT !.go[Top.name] = Torn]
  /\ Stop("error")
  /\ stack' = <<>>
  /\ UNCHANGED <<schema, lang, parsed, next, code, before, runs>>

Finished == pc = "generate" /\ stack = <<>> /\ next > Len(parsed)

FinishRun ==
  /\ Finished
  /\ disk' = IF lang = "rust" THEN [disk EXCEPT !.rust = File(code)] ELSE disk
  /\ Stop("ok")
  /\ UNCHANGED <<schema, lang, parsed, next, stack, code, before, runs>>

FinalSaveFails ==
  /\ Finished /\ lang = "rust"
  /\ disk' = [disk EXCEPT !.rust = Torn]
  /\ Stop("error")
  /\ UNCHANGED <<schema, lang, parsed, next, stack, code, before, runs>>

Step ==
  \/ ParseTable \/ RejectTable \/ Parsed
  \/ SkipGenerated \/ EnterTable
  \/ SkipDeprecated \/ ResolveField \/ FailField \/ CallNested \/ Overflow \/ ReturnNested
  \/ FinishTable \/ SaveFails \/ FinishRun \/ FinalSaveFails

Next == Edit \/ (\E l \in {"go", "rust"} : Run(l)) \/ Step

Spec == Init /\ [][Next]_vars /\ WF_vars(Step)

-----------------------------------------------------------------------------
(* Reference definitions.                                                  *)

LiveFields(table) == {k \in 1..Len(table.fields) : ~table.fields[k].deprecated}

\* Where a relation between tables, by name, leads in any number of steps.
Closure(tables, of, from) ==
  LET Within[n \in 0..Len(tables)] ==
        IF n = 0 THEN from ELSE Within[n - 1] \union UNION {of[m] : m \in Within[n - 1]}
  IN  Within[Len(tables)]

\* The tables that the analysis of a table calls for.
Calls(tables) ==
  [name \in TableNames(tables) |->
     LET t == Named(tables, name)
     IN  {Callee(t.fields[k]) : k \in LiveFields(t)} \ {NoTable}]

Reached(tables, name) == Closure(tables, Calls(tables), Calls(tables)[name])

Cyclic(tables, name) ==
  \E m \in Reached(tables, name) \union {name} : m \in Reached(tables, m)

\* A type is variable if it, or a type stored inline in it, has a list.
Inline(tables) ==
  [name \in TableNames(tables) |->
     LET t == Named(tables, name)
     IN  {Callee(t.fields[k]) : k \in {j \in LiveFields(t) : t.fields[j].type.base # "vector"}}
           \ {NoTable}]

Stored(tables, name) == Closure(tables, Inline(tables), {name})

IsVariable(tables, name) ==
  \E m \in Stored(tables, name) :
    LET t == Named(tables, m)
    IN  \E k \in LiveFields(t) : t.fields[k].type.base \in {"string", "vector"}

BitsOf(f) == IF f.max = <<>> THEN 8 * f.type.len ELSE f.max[1]

\* The bytes of a field in the static section, and those of the section, as
\* numbers without a bound; size has those of the tables that are stored inline.
FieldWidth(tables, f, size) ==
  LET Of(type) == IF type.base = "struct"
                  THEN (IF IsVariable(tables, type.name) THEN OffsetSize ELSE size[type.name])
                  ELSE type.size
  IN  CASE f.type.base \in {"string", "vector"} -> OffsetSize
        [] f.type.base = "array" /\ f.attr = "bitvector" -> (BitsOf(f) + 7) \div 8
        [] f.type.base = "array" /\ f.attr # "bitvector" -> f.type.len * Of(f.type.elem)
        [] OTHER -> Of(f.type)

SectionSize(tables, fields, size) ==
  LET Upto[k \in 0..Len(fields)] ==
        IF k = 0 THEN 0
        ELSE IF fields[k].deprecated THEN Upto[k - 1]
        ELSE Upto[k - 1] + FieldWidth(tables, fields[k], size)
  IN  Upto[Len(fields)]

StaticSize(tables, name) ==
  LET Size[m \in Stored(tables, name)] == SectionSize(tables, Named(tables, m).fields, Size)
  IN  Size[name]

\* No bit vector in the static section has more bits than a uint32_t counts
\* when it is rounded up to whole bytes.
BitsFit(tables, name) ==
  \A m \in Stored(tables, name) :
    LET t == Named(tables, m)
    IN  \A k \in LiveFields(t) :
          t.fields[k].type.base = "array" /\ t.fields[k].attr = "bitvector"
            => BitsOf(t.fields[k]) + 7 < Sizes

-----------------------------------------------------------------------------
(* Properties.                                                             *)

Tables == {k \in 1..Len(parsed) : ~parsed[k].generated}
Done == IF pc = "parse" THEN {} ELSE {k \in Tables : k < next}

TypeOK ==
  /\ schema \in Sources
  /\ lang \in {"go", "rust"}
  /\ pc \in {"idle", "parse", "generate"}
  /\ result \in {"none", "ok", "error", "overflow"}
  /\ Len(parsed) <= Len(schema) \/ pc = "idle"
  /\ next \in 1..(Len(parsed) + 1)
  /\ Len(stack) <= MaxFrames
  /\ stack # <<>> => pc = "generate"
  /\ \A d \in {disk, before} :
       /\ DOMAIN d.go = AllNames
       /\ \A name \in AllNames : d.go[name].status \in {"none", "torn", "whole"}
       /\ d.rust.status \in {"none", "torn", "whole"}
  /\ runs \in 0..MaxRuns

\* What this run has generated for the k-th table: the Go file, or the part
\* of the Rust code at the table's place among those that are not included.
Generated(k) ==
  IF lang = "go" THEN disk.go[parsed[k].name].content
  ELSE (IF result = "ok" THEN disk.rust.content ELSE code)[Cardinality({j \in Tables : j <= k})]

\* The recursive analysis finds whether a type is variable and the size of its
\* static section as SSZ defines them, for the generated types and for the
\* nested ones whose sizes are baked into them (AnalyzeContainer).  The size
\* is in 32 bits: the sums and products on the way may wrap around, and what
\* is left is the size that SSZ defines, modulo 2^32, so that it is wrong just
\* when that size has no 32 bits.  A wrap before the division of ssz_bitsize by
\* 8 is the exception, so no such bit vector may be stored inline.
LayoutRight ==
  \A k \in Done :
    LET c == Generated(k).container
        Right(name, d) == /\ d.fixed = ~IsVariable(parsed, name)
                          /\ BitsFit(parsed, name) => d.size = Uint32(StaticSize(parsed, name))
    IN  /\ Right(parsed[k].name, c)
        /\ \A j \in 1..Len(c.infos) :
             c.infos[j].ssz = "container" => Right(Callee(c.fields[j]), c.infos[j].of)

\* A run that has not ended well leaves the Rust file as it was or torn, and
\* the Go files of the tables from where it stopped as they were (SaveType in
\* the loop against SaveFile after it).
FailureLeaves ==
  result # "ok" =>
    /\ disk.rust \in {before.rust, Torn}
    /\ \A name \in AllNames \ {parsed[k].name : k \in Done} :
         disk.go[name] \in {before.go[name], Torn}

\* After a run that ended well each file of the package is whole, and the size
\* of a nested type in it is the one in the nested type's own file, unless
\* that type was only included: its file may be of an earlier schema.
PackageAgrees ==
  result = "ok" /\ pc = "idle" =>
    \A k \in Tables :
      /\ lang = "go" => disk.go[parsed[k].name].status = "whole"
      /\ LET c == Generated(k).container
         IN  \A j \in 1..Len(c.infos), m \in Tables :
               c.infos[j].ssz = "container" /\ parsed[m].name = Callee(c.fields[j])
                 => c.infos[j].of = Generated(m).container

\* The active_fields that are mixed into a progressive root say of each leaf
\* whether it is a field (AnalyzeContainer and GenHashMethod).
ActiveBitsRight ==
  \A k \in Done :
    LET g == Generated(k)
        bits == ActiveBits(g.container)
    IN  parsed[k].progressive =>
          /\ Len(g.leaves) <= Cardinality(DOMAIN bits)
          /\ \A i \in DOMAIN bits :
               bits[i] <=> i < Len(g.leaves) /\ g.leaves[i + 1] # Gap

\* Each field of an accepted table has a leaf of its own.
EveryFieldHashed ==
  \A k \in Done :
    LET g == Generated(k)
    IN  \A f \in 1..Len(g.container.fields) :
          Cardinality({i \in 1..Len(g.leaves) : g.leaves[i] = f}) = 1

\* A field of a generated type is left out of its root only in a progressive
\* table, and there only if it has no id or shares it with another field.
UnhashedExplained ==
  \A k \in Done :
    LET g == Generated(k)
        fs == g.container.fields
    IN  \A f \in 1..Len(fs) :
          Cardinality({i \in 1..Len(g.leaves) : g.leaves[i] = f}) # 1 =>
            /\ parsed[k].progressive
            /\ \/ fs[f].id = NoId
               \/ \E e \in 1..Len(fs) : e # f /\ fs[e].id = fs[f].id

\* The analysis overflows its stack only on tables that contain themselves,
\* and never ends well on those (AnalyzeContainer, which calls itself for
\* each field without a check).
OverflowIsCycle ==
  LET cyclic == \E k \in Tables : Cyclic(parsed, parsed[k].name)
  IN  /\ result = "overflow" => cyclic
      /\ result = "ok" => ~cyclic

\* A run of flatc ends, on every schema.
RunEnds == (pc # "idle") ~> (pc = "idle")
=============================================================================
