--------------------------- MODULE CompilerProofs ---------------------------
(***************************************************************************)
(* What flatc reads from any package of files is a schema as the           *)
(* generators take it for granted, and reading packages and generating     *)
(* code from them are steps of module Flatc.                               *)
(***************************************************************************)
EXTENDS Compiler, AnalysisProofs

-----------------------------------------------------------------------------
(* The invariant.                                                          *)

CallSet == [path : DOMAIN package.files, entered : {TRUE}, include : Nat \ {0},
           table : Nat \ {0}, restarts : Nat]

\* Only the innermost file is at its tables, and past its includes there.
CallsInv ==
  /\ calls \in Seq(CallSet)
  /\ calls # <<>> /\ calls[1].path = package.root
  /\ \A i \in 1..Len(calls) :
       /\ calls[i].table <= Len(Contents(calls[i].path).tables) + 1
       /\ i < Len(calls) => calls[i].table = 1
       /\ calls[i].include <= Len(Contents(calls[i].path).includes) => calls[i].table = 1

InFiles(table) == \E path \in DOMAIN package.files : table \in Range(Contents(path).tables)

FieldFits(defs, table, f) ==
  IF table.struct THEN FitsStruct(defs, table, f.type) ELSE FitsTable(f.type)

DefinedInv ==
  /\ defined \in Seq(Range(defined))
  /\ \A k \in 1..Len(defined) :
       /\ InFiles(defined[k])
       /\ MentionedIn(defined[k]) \subseteq NamesOf(defined) \union forward
       /\ \A i \in 1..Len(defined[k].fields) : FieldFits(defined, defined[k], defined[k].fields[i])
  /\ \A j, k \in 1..Len(defined) : defined[j].name = defined[k].name => j = k

\* A call has defined a table of its file.
DefinedBy(files, frame, table) ==
  \E i \in 1..(frame.table - 1) : table = files[frame.path].tables[i]

\* What is not marked is of the innermost file, and what the root file has
\* defined is not marked.
MarksInv ==
  /\ marked \subseteq NamesOf(defined)
  /\ package.all => marked = {}
  /\ ~package.all =>
       \A k \in 1..Len(defined) :
         defined[k].name \in marked \/ DefinedBy(package.files, calls[Len(calls)], defined[k])
  /\ \A i \in 1..(calls[1].table - 1) : Contents(package.root).tables[i].name \notin marked

ReadKept == CallsInv /\ DefinedInv /\ MarksInv

ReaderInv ==
  /\ reading \in {"no", "reading", "ok", "error"}
  /\ reading # "no" => package \in Packages
  /\ reading \in {"reading", "ok"} => pc = "idle" /\ runs < MaxRuns
  /\ reading = "reading" => ReadKept
  /\ ReadIsSource

-----------------------------------------------------------------------------
(* Lemmas.                                                                 *)

LEMMA SeqInto ==
  ASSUME NEW S, NEW s, IsSeq(s), \A k \in 1..Len(s) : s[k] \in S
  PROVE  s \in Seq(S)
<1>1. Range(s) \subseteq S
  BY SeqFacts DEF Range
<1> QED BY <1>1, SeqMonotonic DEF IsSeq

LEMMA CalleeIsMentioned ==
  ASSUME NEW field PROVE Callee(field) \in Mentions(field.type) \union {NoTable}
<1>1. CASE field.type.base = "struct"
  BY <1>1 DEF Callee, Mentions
<1>2. CASE field.type.base # "struct" /\ Callee(field) # NoTable
  <2>1. /\ field.type.base \in {"vector", "array"} /\ field.type.elem.base = "struct"
        /\ Callee(field) = field.type.elem.name
    BY <1>2 DEF Callee
  <2>2. Mentions(field.type) = {field.type.elem.name}
    BY <1>2, <2>1 DEF Mentions
  <2> QED BY <2>1, <2>2
<1> QED BY <1>1, <1>2

LEMMA TopIsLast ==
  ASSUME CallsInv
  PROVE  /\ Len(calls) \in Nat \ {0}
         /\ This \in CallSet /\ This = calls[Len(calls)]
         /\ Outer \in Seq(CallSet) /\ Len(Outer) = Len(calls) - 1
         /\ \A i \in 1..(Len(calls) - 1) : Outer[i] = calls[i]
<1>1. calls \in Seq(CallSet) /\ calls # <<>>
  BY DEF CallsInv
<1>2. IsSeq(calls)
  BY <1>1, SeqIs
<1>3. /\ Len(calls) \in Nat \ {0} /\ IsSeq(Outer) /\ Len(Outer) = Len(calls) - 1
      /\ \A i \in 1..(Len(calls) - 1) : Outer[i] = calls[i]
  BY <1>1, <1>2, FrontIs DEF Outer
<1>4. Len(calls) \in 1..Len(calls) /\ \A i \in 1..(Len(calls) - 1) : i \in 1..Len(calls)
  BY <1>3
<1>5. \A i \in 1..Len(calls) : calls[i] \in CallSet
  BY <1>1
<1>6. This \in CallSet /\ This = calls[Len(calls)]
  BY <1>4, <1>5 DEF This
<1>7. Outer \in Seq(CallSet)
  BY <1>3, <1>4, <1>5, SeqInto
<1> QED BY <1>3, <1>6, <1>7

LEMMA FreshFrame ==
  ASSUME NEW path \in DOMAIN package.files, NEW n \in Nat
  PROVE  [path |-> path, entered |-> TRUE, include |-> 1, table |-> 1, restarts |-> n] \in CallSet
BY DEF CallSet

LEMMA FrameMoves ==
  ASSUME NEW f \in CallSet
  PROVE  LET g == [f EXCEPT !.include = @ + 1]
             h == [f EXCEPT !.table = @ + 1]
         IN  /\ g \in CallSet /\ g.path = f.path /\ g.include = f.include + 1 /\ g.table = f.table
             /\ h \in CallSet /\ h.path = f.path /\ h.include = f.include /\ h.table = f.table + 1
<1>1. f.include + 1 \in Nat \ {0} /\ f.table + 1 \in Nat \ {0}
  <2>1. f.include \in Nat \ {0} /\ f.table \in Nat \ {0}
    BY DEF CallSet
  <2> QED BY <2>1
<1> DEFINE m == f.include + 1
           n == f.table + 1
<1> HIDE DEF m, n
<1>2. m \in Nat \ {0} /\ n \in Nat \ {0}
  BY <1>1 DEF m, n
<1>3. /\ [f EXCEPT !.include = m] \in CallSet
      /\ [f EXCEPT !.include = m].path = f.path
      /\ [f EXCEPT !.include = m].include = m
      /\ [f EXCEPT !.include = m].table = f.table
  BY <1>2 DEF CallSet
<1>4. /\ [f EXCEPT !.table = n] \in CallSet
      /\ [f EXCEPT !.table = n].path = f.path
      /\ [f EXCEPT !.table = n].include = f.include
      /\ [f EXCEPT !.table = n].table = n
  BY <1>2 DEF CallSet
<1> QED BY <1>3, <1>4 DEF m, n

\* The tables of a file of the package.
LEMMA FileTables ==
  ASSUME package \in Packages, NEW path \in DOMAIN package.files
  PROVE  LET tables == Contents(path).tables
         IN  /\ Len(tables) \in Nat /\ Len(Contents(path).includes) \in Nat
             /\ \A i \in 1..Len(tables) :
                  /\ tables[i] \in Range(tables)
                  /\ IsTable(tables[i]) /\ ~tables[i].generated
<1> DEFINE tables == Contents(path).tables
           includes == Contents(path).includes
<1>1. /\ includes \in Seq(Range(includes))
      /\ tables \in Seq(Range(tables)) /\ \A t \in Range(tables) : IsTable(t) /\ ~t.generated
  BY PackagesAssumption DEF Contents
<1> HIDE DEF tables, includes
<1>2. Len(includes) \in Nat
  BY <1>1
<1>3. Len(tables) \in Nat /\ \A i \in 1..Len(tables) : tables[i] \in Range(tables)
  BY <1>1
<1> QED BY <1>1, <1>2, <1>3 DEF tables, includes

LEMMA IsDefinedBy ==
  ASSUME NEW files, NEW frame, NEW i \in 1..(frame.table - 1)
  PROVE  DefinedBy(files, frame, files[frame.path].tables[i])
BY DEF DefinedBy

\* Any step that only changes where the innermost call is.
LEMMA TopMoves ==
  ASSUME CallsInv, package' = package,
         NEW top \in CallSet, top.path = This.path,
         top.table <= Len(Contents(top.path).tables) + 1,
         top.include <= Len(Contents(top.path).includes) => top.table = 1,
         calls' = Append(Outer, top)
  PROVE  /\ CallsInv' /\ Len(calls') = Len(calls) /\ calls'[Len(calls)] = top
         /\ \A i \in 1..(Len(calls) - 1) : calls'[i] = calls[i]
<1>1. /\ Len(calls) \in Nat \ {0}
      /\ Outer \in Seq(CallSet) /\ Len(Outer) = Len(calls) - 1
      /\ \A i \in 1..(Len(calls) - 1) : Outer[i] = calls[i]
      /\ This = calls[Len(calls)]
  BY TopIsLast
<1>2. /\ calls' \in Seq(CallSet) /\ Len(calls') = Len(calls) /\ calls'[Len(calls)] = top
      /\ \A i \in 1..(Len(calls) - 1) : calls'[i] = calls[i]
  BY <1>1
<1>3. CallSet' = CallSet
  BY DEF CallSet
<1>4. calls'[1].path = package.root
  BY <1>1, <1>2 DEF CallsInv
<1>5. ASSUME NEW i \in 1..Len(calls')
      PROVE  /\ calls'[i].table <= Len(Contents(calls'[i].path).tables) + 1
             /\ i < Len(calls') => calls'[i].table = 1
             /\ calls'[i].include <= Len(Contents(calls'[i].path).includes) => calls'[i].table = 1
  <2>1. CASE i = Len(calls)
    BY <2>1, <1>2
  <2>2. CASE i # Len(calls)
    <3>1. i \in 1..(Len(calls) - 1) /\ i \in 1..Len(calls)
      BY <2>2, <1>1, <1>2
    <3> QED BY <3>1, <1>2 DEF CallsInv
  <2> QED BY <2>1, <2>2
<1>6. calls' # <<>>
  BY <1>1, <1>2
<1>7. CallsInv'
  BY <1>2, <1>3, <1>4, <1>5, <1>6 DEF CallsInv, Contents
<1> QED BY <1>2, <1>7

\* The first of the calls is the innermost, or it is not.
LEMMA FirstOrLast ==
  ASSUME Len(calls) \in Nat \ {0} PROVE Len(calls) = 1 \/ 1 \in 1..(Len(calls) - 1)
OBVIOUS

-----------------------------------------------------------------------------
(* Reading.                                                                *)

LEMMA ReaderInvInit == CompilerInit => ReaderInv
BY DEF CompilerInit, ReaderInit, ReaderInv, ReadIsSource

\* flatc starts to read a package.
LEMMA StartKeeps ==
  ASSUME NEW p \in Packages, StartReading(p) PROVE ReadKept'
<1>1. /\ package' = p /\ reading' = "reading"
      /\ calls' = <<[path |-> p.root, entered |-> TRUE, include |-> 1, table |-> 1,
                     restarts |-> 0]>>
      /\ defined' = <<>> /\ forward' = {} /\ marked' = {}
  BY DEF StartReading
<1>2. p.root \in DOMAIN p.files /\ p.files[p.root].tables \in Seq(Range(p.files[p.root].tables))
  BY PackagesAssumption
<1>3. CallsInv'
  <2>1. calls' \in Seq(CallSet') /\ Len(calls') = 1 /\ calls'[1].path = p.root /\ calls'[1].table = 1
    BY <1>1, <1>2 DEF CallSet
  <2>2. 1 <= Len(p.files[p.root].tables) + 1
    BY <1>2
  <2> QED BY <1>1, <2>1, <2>2 DEF CallsInv, Contents
<1>4. DefinedInv'
  BY <1>1 DEF DefinedInv
<1>5. MarksInv'
  BY <1>1 DEF MarksInv
<1> QED BY <1>3, <1>4, <1>5 DEF ReadKept

LEMMA FailKeeps ==
  ASSUME ReaderInv, reading = "reading", ReadFails PROVE ReaderInv'
BY DEF ReaderInv, ReadFails, ReadIsSource

LEMMA StartInvariant ==
  ASSUME ReaderInv, NEW p \in Packages, Read(p) PROVE ReaderInv'
<1>1. /\ ReadKept' /\ reading' = "reading" /\ package' \in Packages
  BY StartKeeps DEF Read, StartReading
<1>2. pc' = "idle" /\ runs' < MaxRuns
  BY DEF Read, vars
<1> QED BY <1>1, <1>2 DEF ReaderInv, ReadIsSource

\* A call goes on to the next include: nothing is defined at that place.
LEMMA SkipKeeps ==
  ASSUME ReadKept, SkipInclude PROVE ReadKept'
<1> DEFINE top == [This EXCEPT !.include = @ + 1]
<1>1. /\ CallsInv /\ DefinedInv /\ MarksInv
      /\ This.include <= Len(Contents(This.path).includes)
      /\ calls' = Append(Outer, top)
      /\ UNCHANGED <<package, defined, forward, marked>>
  BY DEF ReadKept, SkipInclude, AtInclude, InFile
<1>2. /\ Len(calls) \in Nat \ {0} /\ Len(calls) \in 1..Len(calls)
      /\ This \in CallSet /\ This = calls[Len(calls)]
  BY <1>1, TopIsLast
<1>3. This.table = 1 /\ This.table <= Len(Contents(This.path).tables) + 1
  BY <1>1, <1>2 DEF CallsInv
<1>4. top \in CallSet /\ top.path = This.path /\ top.table = This.table
  BY <1>2, FrameMoves
<1> HIDE DEF top
<1>5. /\ CallsInv' /\ Len(calls') = Len(calls) /\ calls'[Len(calls)] = top
      /\ \A i \in 1..(Len(calls) - 1) : calls'[i] = calls[i]
  BY <1>1, <1>3, <1>4, TopMoves
<1>6. calls'[1].table = calls[1].table
  BY <1>2, <1>4, <1>5, FirstOrLast
<1>7. DefinedInv'
  BY <1>1 DEF DefinedInv, InFiles, Contents
<1>8. MarksInv'
  <2>1. calls'[Len(calls')].table = This.table /\ calls'[Len(calls')].path = This.path
    BY <1>4, <1>5
  <2>2. \A t : DefinedBy(package.files, calls[Len(calls)], t) =>
               DefinedBy(package'.files, calls'[Len(calls')], t)
    BY <1>1, <1>2, <2>1 DEF DefinedBy
  <2>3. /\ marked' \subseteq NamesOf(defined') /\ (package'.all => marked' = {})
        /\ ~package'.all => \A k \in 1..Len(defined') :
             \/ defined'[k].name \in marked'
             \/ DefinedBy(package'.files, calls'[Len(calls')], defined'[k])
    BY <1>1, <2>2 DEF MarksInv
  <2>4. \A i \in 1..(calls'[1].table - 1) :
          package'.files[package'.root].tables[i].name \notin marked'
    BY <1>1, <1>6 DEF MarksInv, Contents
  <2> QED BY <2>3, <2>4 DEF MarksInv, Contents
<1> QED BY <1>5, <1>7, <1>8 DEF ReadKept

\* A call for a file included, which defines nothing before its includes.
LEMMA EnterKeeps ==
  ASSUME ReadKept, package \in Packages, EnterInclude PROVE ReadKept'
<1> DEFINE top == Call(Include, included, 0)
<1>1. /\ CallsInv /\ DefinedInv /\ MarksInv
      /\ This.include <= Len(Contents(This.path).includes)
      /\ Include \in DOMAIN package.files /\ HashFile(Include) \notin included
      /\ calls' = Append(calls, top)
      /\ UNCHANGED <<package, defined, forward, marked>>
  BY DEF ReadKept, EnterInclude, AtInclude, InFile, Exists
<1>2. /\ Len(calls) \in Nat \ {0} /\ Len(calls) \in 1..Len(calls) /\ 1 \in 1..Len(calls)
      /\ This \in CallSet /\ This = calls[Len(calls)]
  BY <1>1, TopIsLast
<1>3. This.table = 1
  BY <1>1, <1>2 DEF CallsInv
<1>4. top \in CallSet /\ top.path = Include /\ top.table = 1
  <2>1. top = [path |-> Include, entered |-> TRUE, include |-> 1, table |-> 1, restarts |-> 0]
    BY <1>1 DEF Call
  <2>2. Include \in DOMAIN package.files
    BY <1>1
  <2> HIDE DEF top
  <2>3. top \in CallSet /\ top.path = Include /\ top.table = 1
    BY <2>1, <2>2, FreshFrame
  <2> QED BY <2>3
<1> HIDE DEF top
<1>5. /\ calls' \in Seq(CallSet) /\ Len(calls') = Len(calls) + 1 /\ calls'[Len(calls) + 1] = top
      /\ \A i \in 1..Len(calls) : calls'[i] = calls[i]
  BY <1>1, <1>4, AppendProperties DEF CallsInv
<1>6. calls'[1] = calls[1]
  BY <1>2, <1>5
<1>7. CallsInv'
  <2>1. CallSet' = CallSet
    BY <1>1 DEF CallSet
  <2>2. ASSUME NEW i \in 1..Len(calls')
        PROVE  /\ calls'[i].table <= Len(Contents(calls'[i].path).tables) + 1
               /\ i < Len(calls') => calls'[i].table = 1
               /\ calls'[i].include <= Len(Contents(calls'[i].path).includes)
                    => calls'[i].table = 1
    <3>1. CASE i = Len(calls) + 1
      <4>1. Len(Contents(Include).tables) \in Nat
        BY <1>1, FileTables
      <4>2. 1 <= Len(Contents(Include).tables) + 1
        BY <4>1
      <4>3. calls'[i] = top
        BY <3>1, <1>5
      <4> QED BY <1>4, <4>2, <4>3
    <3>2. CASE i # Len(calls) + 1
      <4>1. i \in 1..Len(calls)
        <5>1. Len(calls) \in Nat
          BY <1>2
        <5> QED BY <5>1, <3>2, <1>5
      <4>2. calls'[i] = calls[i]
        BY <4>1, <1>5
      <4>3. calls[i].table = 1
        <5>1. CASE i = Len(calls)
          BY <5>1, <1>2, <1>3
        <5>2. CASE i # Len(calls)
          <6>1. i < Len(calls)
            BY <4>1, <5>2
          <6> QED BY <4>1, <6>1, <1>1 DEF CallsInv
        <5> QED BY <5>1, <5>2
      <4> QED BY <4>1, <4>2, <4>3, <1>1 DEF CallsInv
    <3> QED BY <3>1, <3>2
  <2>3. calls' # <<>> /\ calls'[1].path = package.root
    BY <1>1, <1>2, <1>5, <1>6 DEF CallsInv
  <2> QED BY <1>1, <1>5, <2>1, <2>2, <2>3 DEF CallsInv, Contents
<1>8. DefinedInv'
  BY <1>1 DEF DefinedInv, InFiles, Contents
<1>9. MarksInv'
  <2>1. \A t : ~DefinedBy(package.files, calls[Len(calls)], t)
    BY <1>2, <1>3 DEF DefinedBy
  <2> QED BY <1>1, <1>6, <2>1 DEF MarksInv, Contents
<1> QED BY <1>7, <1>8, <1>9 DEF ReadKept

\* The innermost call defines a table: its name is new.
LEMMA DefineKeeps ==
  ASSUME ReadKept, package \in Packages, DefineTable PROVE ReadKept'
<1> DEFINE top == [This EXCEPT !.table = @ + 1]
<1>1. /\ CallsInv /\ DefinedInv /\ MarksInv
      /\ ~(This.include <= Len(Contents(This.path).includes))
      /\ This.table <= Len(Contents(This.path).tables)
      /\ Table.name \notin NamesOf(defined)
      /\ \A i \in 1..Len(Table.fields) : FieldFits(defined, Table, Table.fields[i])
      /\ defined' = Append(defined, Table)
      /\ forward' = (forward \union MentionedIn(Table)) \ ({Table.name} \union NamesOf(defined))
      /\ calls' = Append(Outer, top)
      /\ UNCHANGED <<package, marked>>
  <2>1. /\ CallsInv /\ DefinedInv /\ MarksInv
        /\ This.include > Len(Contents(This.path).includes)
        /\ This.table <= Len(Contents(This.path).tables)
        /\ Table.name \notin NamesOf(defined)
        /\ FieldsRefused(defined, Types, Table) = {}
        /\ defined' = Append(defined, Table)
        /\ forward' = (forward \union MentionedIn(Table)) \ ({Table.name} \union NamesOf(defined))
        /\ calls' = Append(Outer, top)
        /\ UNCHANGED <<package, marked>>
    BY DEF ReadKept, DefineTable, AtTable, Accepted
  <2>2. This.path \in DOMAIN package.files /\ This.include \in Nat
    BY <2>1, TopIsLast DEF CallSet
  <2>3. Len(Contents(This.path).includes) \in Nat
    BY <2>2, FileTables
  <2>4. \A i \in 1..Len(Table.fields) : FieldFits(defined, Table, Table.fields[i])
    BY <2>1 DEF FieldsRefused, FieldFits
  <2> QED BY <2>1, <2>2, <2>3, <2>4
<1>2. /\ Len(calls) \in Nat \ {0} /\ Len(calls) \in 1..Len(calls)
      /\ This \in CallSet /\ This = calls[Len(calls)]
  BY <1>1, TopIsLast
<1>3. /\ This.path \in DOMAIN package.files /\ This.table \in Nat \ {0}
  BY <1>2 DEF CallSet
<1>4. top \in CallSet /\ top.path = This.path /\ top.include = This.include
      /\ top.table = This.table + 1
  BY <1>2, FrameMoves
<1> HIDE DEF top
<1>5. This.table \in 1..Len(Contents(This.path).tables)
      /\ top.table <= Len(Contents(This.path).tables) + 1
  <2>1. Len(Contents(This.path).tables) \in Nat
    BY <1>3, FileTables
  <2> QED BY <1>1, <1>3, <1>4, <2>1
<1>6. /\ CallsInv' /\ Len(calls') = Len(calls) /\ calls'[Len(calls)] = top
      /\ \A i \in 1..(Len(calls) - 1) : calls'[i] = calls[i]
  BY <1>1, <1>4, <1>5, TopMoves
<1>7. /\ IsSeq(defined') /\ Len(defined) \in Nat /\ Len(defined') = Len(defined) + 1
      /\ defined'[Len(defined) + 1] = Table
      /\ \A k \in 1..Len(defined) : defined'[k] = defined[k]
  BY <1>1, Appended, SeqFacts DEF DefinedInv, IsSeq
<1>8. \A k \in 1..Len(defined') : k \in 1..Len(defined) \/ k = Len(defined) + 1
  BY <1>7
<1>9. NamesOf(defined') = NamesOf(defined) \union {Table.name}
  <2>1. NamesOf(defined') \subseteq NamesOf(defined) \union {Table.name}
    BY <1>7, <1>8 DEF NamesOf
  <2>2. Len(defined) + 1 \in 1..Len(defined') /\ \A k \in 1..Len(defined) : k \in 1..Len(defined')
    BY <1>7
  <2>3. NamesOf(defined) \union {Table.name} \subseteq NamesOf(defined')
    BY <1>7, <2>2 DEF NamesOf
  <2> QED BY <2>1, <2>3
<1>10. DefinedInv'
  <2>1. InFiles(Table) /\ \A t : InFiles(t) <=> InFiles(t)'
    <3>1. Table \in Range(Contents(This.path).tables)
      BY <1>3, <1>5, FileTables DEF Table
    <3> QED BY <1>1, <1>3, <3>1 DEF InFiles, Contents
  <2>f. ASSUME NEW t, NEW f, FieldFits(defined, t, f) PROVE FieldFits(defined', t, f)
    <3>1. StructsOf(defined) \subseteq StructsOf(defined')
      <4>1. \A k \in 1..Len(defined) : k \in 1..Len(defined') /\ defined'[k] = defined[k]
        BY <1>7
      <4> QED BY <4>1 DEF StructsOf
    <3> QED BY <2>f, <3>1 DEF FieldFits, FitsStruct
  <2>2. ASSUME NEW k \in 1..Len(defined')
        PROVE  /\ InFiles(defined'[k])
               /\ MentionedIn(defined'[k]) \subseteq NamesOf(defined') \union forward'
               /\ \A i \in 1..Len(defined'[k].fields) :
                    FieldFits(defined', defined'[k], defined'[k].fields[i])
    <3>1. CASE k \in 1..Len(defined)
      <4>1. /\ MentionedIn(defined[k]) \subseteq NamesOf(defined) \union forward
            /\ InFiles(defined[k])
            /\ \A i \in 1..Len(defined[k].fields) :
                 FieldFits(defined, defined[k], defined[k].fields[i])
        BY <3>1, <1>1 DEF DefinedInv
      <4>2. \A i \in 1..Len(defined'[k].fields) :
              FieldFits(defined', defined'[k], defined'[k].fields[i])
        BY <2>f, <3>1, <4>1, <1>7
      <4> QED BY <3>1, <4>1, <4>2, <1>1, <1>7, <1>9
    <3>2. CASE k = Len(defined) + 1
      <4>1. \A i \in 1..Len(defined'[k].fields) :
              FieldFits(defined', defined'[k], defined'[k].fields[i])
        BY <2>f, <3>2, <1>1, <1>7
      <4> QED BY <3>2, <4>1, <2>1, <1>1, <1>7, <1>9
    <3> QED BY <3>1, <3>2, <1>8
  <2>3. ASSUME NEW j \in 1..Len(defined'), NEW k \in 1..Len(defined'),
               defined'[j].name = defined'[k].name
        PROVE  j = k
    <3>1. CASE j \in 1..Len(defined) /\ k \in 1..Len(defined)
      <4>1. defined[j].name = defined[k].name
        BY <3>1, <2>3, <1>7
      <4> QED BY <3>1, <4>1, <1>1 DEF DefinedInv
    <3>2. CASE j \in 1..Len(defined) /\ k = Len(defined) + 1
      BY <3>2, <2>3, <1>1, <1>7 DEF NamesOf
    <3>3. CASE j = Len(defined) + 1 /\ k \in 1..Len(defined)
      BY <3>3, <2>3, <1>1, <1>7 DEF NamesOf
    <3> QED BY <3>1, <3>2, <3>3, <1>8
  <2> QED BY <1>7, <2>1, <2>2, <2>3 DEF DefinedInv, IsSeq
<1>11. MarksInv'
  <2>1. marked' \subseteq NamesOf(defined') /\ (package'.all => marked' = {})
    BY <1>1, <1>9 DEF MarksInv
  <2>2. /\ calls'[Len(calls')].table = This.table + 1 /\ calls'[Len(calls')].path = This.path
    BY <1>4, <1>6
  <2>3. \A t : DefinedBy(package.files, calls[Len(calls)], t) =>
               DefinedBy(package'.files, calls'[Len(calls')], t)
    <3> SUFFICES ASSUME NEW t, NEW i \in 1..(This.table - 1), t = package.files[This.path].tables[i]
                 PROVE  DefinedBy(package'.files, calls'[Len(calls')], t)
      BY <1>2 DEF DefinedBy
    <3> DEFINE n == calls'[Len(calls')].table
    <3>1. n = This.table + 1
      BY <2>2
    <3> HIDE DEF n
    <3>2. t = package'.files[calls'[Len(calls')].path].tables[i]
      BY <1>1, <2>2
    <3>3. i \in 1..(n - 1)
      BY <1>3, <3>1
    <3> QED BY <3>2, <3>3, IsDefinedBy DEF n
  <2>4. DefinedBy(package'.files, calls'[Len(calls')], Table)
    <3>1. This.table \in 1..(This.table + 1 - 1)
      BY <1>3
    <3>2. package' = package
      BY <1>1
    <3> QED BY <2>2, <3>1, <3>2 DEF DefinedBy, Table, Contents
  <2>5. ASSUME ~package.all, NEW k \in 1..Len(defined')
        PROVE  \/ defined'[k].name \in marked
               \/ DefinedBy(package'.files, calls'[Len(calls')], defined'[k])
    <3>1. CASE k \in 1..Len(defined)
      BY <3>1, <2>3, <2>5, <1>1, <1>7 DEF MarksInv
    <3>2. CASE k = Len(defined) + 1
      BY <3>2, <2>4, <1>7
    <3> QED BY <3>1, <3>2, <1>8
  <2>6. ASSUME NEW i \in 1..(calls'[1].table - 1)
        PROVE  Contents(package.root).tables[i].name \notin marked
    <3>1. CASE Len(calls) = 1
      <4>1. calls'[1].table = This.table + 1 /\ calls[1] = This
        BY <3>1, <1>2, <1>4, <1>6
      <4>2. i \in 1..(calls[1].table - 1) \/ i = This.table
        BY <4>1, <1>3
      <4>3. This.path = package.root
        BY <4>1, <1>1 DEF CallsInv
      <4>4. Table.name \notin marked
        BY <1>1 DEF MarksInv
      <4> QED BY <4>2, <4>3, <4>4, <1>1 DEF MarksInv, Table
    <3>2. CASE 1 \in 1..(Len(calls) - 1)
      <4>1. calls'[1] = calls[1]
        BY <3>2, <1>6
      <4> QED BY <4>1, <2>6, <1>1 DEF MarksInv
    <3> QED BY <3>1, <3>2, <1>2, FirstOrLast
  <2> QED BY <1>1, <2>1, <2>5, <2>6 DEF MarksInv, Contents
<1> QED BY <1>6, <1>10, <1>11 DEF ReadKept

\* The including file is started anew, with all that is defined marked.
LEMMA ReturnKeeps ==
  ASSUME ReadKept, package \in Packages, ReturnToIncluder PROVE ReadKept'
<1> DEFINE includer == calls[Len(calls) - 1]
           rest == Forgotten(included, includer.path)
           top == Call(includer.path, rest, includer.restarts + 1)
<1>1. /\ CallsInv /\ DefinedInv /\ MarksInv /\ Len(calls) > 1
      /\ calls' = [Outer EXCEPT ![Len(Outer)] = top]
      /\ marked' = IF package.all THEN marked ELSE Marked(marked, defined, forward)
      /\ UNCHANGED <<package, defined, forward>>
  BY DEF ReadKept, ReturnToIncluder
<1>2. /\ Len(calls) \in Nat \ {0} /\ Outer \in Seq(CallSet) /\ Len(Outer) = Len(calls) - 1
      /\ \A i \in 1..(Len(calls) - 1) : Outer[i] = calls[i]
  BY <1>1, TopIsLast
<1> DEFINE n == Len(Outer)
<1>3. /\ n \in Nat \ {0} /\ n = Len(calls) - 1 /\ n \in 1..Len(calls) /\ n < Len(calls)
      /\ 1 \in 1..n /\ n \in 1..n
  <2>1. Len(calls) \in Nat \ {0} /\ Len(calls) > 1 /\ n = Len(calls) - 1
    BY <1>1, <1>2
  <2> HIDE DEF n
  <2> QED BY <2>1
<1>4. includer \in CallSet /\ Outer[n] = includer
  BY <1>1, <1>2, <1>3 DEF CallsInv
<1>5. top \in CallSet /\ top.path = includer.path /\ top.table = 1
  <2> DEFINE path == includer.path
             m == includer.restarts + 1
  <2>1. top = [path |-> path, entered |-> TRUE, include |-> 1, table |-> 1, restarts |-> m]
    <3>1. HashFile(path) \notin rest
      BY DEF Forgotten
    <3> QED BY <3>1 DEF Call
  <2>2. path \in DOMAIN package.files
    BY <1>4 DEF CallSet
  <2>3. includer.restarts \in Nat
    BY <1>4 DEF CallSet
  <2>4. m \in Nat
    BY <2>3
  <2> HIDE DEF top, path, m
  <2>5. top \in CallSet /\ top.path = path /\ top.table = 1
    BY <2>1, <2>2, <2>4, FreshFrame
  <2> QED BY <2>5 DEF path
<1>6. includer.path \in DOMAIN package.files
  BY <1>4 DEF CallSet
<1> HIDE DEF top
<1>7. /\ calls' \in Seq(CallSet) /\ Len(calls') = n /\ calls'[n] = top
      /\ \A i \in 1..n : i # n => calls'[i] = calls[i]
  BY <1>1, <1>2, <1>3, <1>5
<1> HIDE DEF n
<1>8. calls'[1].path = package.root /\ calls'[1].table = 1
  <2>1. calls[1].path = package.root /\ calls[1].table = 1
    <3>1. 1 \in 1..Len(calls) /\ 1 < Len(calls)
      BY <1>1, <1>2
    <3> QED BY <3>1, <1>1 DEF CallsInv
  <2>2. CASE n = 1
    <3>1. calls[1] = includer
      BY <2>2, <1>3
    <3> QED BY <2>1, <2>2, <3>1, <1>5, <1>7
  <2>3. CASE n # 1
    BY <2>1, <2>3, <1>3, <1>7
  <2> QED BY <2>2, <2>3
<1>9. CallsInv'
  <2>1. CallSet' = CallSet
    BY <1>1 DEF CallSet
  <2>2. ASSUME NEW i \in 1..Len(calls')
        PROVE  /\ calls'[i].table <= Len(Contents(calls'[i].path).tables) + 1
               /\ i < Len(calls') => calls'[i].table = 1
               /\ calls'[i].include <= Len(Contents(calls'[i].path).includes)
                    => calls'[i].table = 1
    <3>1. CASE i = n
      <4>1. Len(Contents(includer.path).tables) \in Nat
        BY <1>6, FileTables
      <4>2. 1 <= Len(Contents(includer.path).tables) + 1
        BY <4>1
      <4>3. calls'[i] = top
        BY <3>1, <1>7
      <4> QED BY <4>2, <4>3, <1>5
    <3>2. CASE i # n
      <4>1. calls'[i] = calls[i]
        BY <3>2, <1>7
      <4>2. i \in 1..Len(calls) /\ i < Len(calls)
        <5>1. i \in 1..n /\ n \in Nat /\ n = Len(calls) - 1 /\ Len(calls) \in Nat
          BY <1>2, <1>3, <1>7
        <5> QED BY <5>1
      <4> QED BY <4>1, <4>2, <1>1 DEF CallsInv
    <3> QED BY <3>1, <3>2
  <2>3. calls' # <<>>
    BY <1>3, <1>7
  <2> QED BY <1>1, <1>7, <1>8, <2>1, <2>2, <2>3 DEF CallsInv, Contents
<1>10. DefinedInv'
  BY <1>1 DEF DefinedInv, InFiles, Contents
<1>11. MarksInv'
  <2>1. /\ marked' \subseteq NamesOf(defined')
        /\ package'.all => marked' = {}
    BY <1>1 DEF MarksInv, Marked
  <2>2. ASSUME ~package.all, NEW k \in 1..Len(defined) PROVE defined[k].name \in marked'
    BY <1>1, <2>2 DEF Marked, NamesOf
  <2>3. \A i : i \notin 1..(calls'[1].table - 1)
    BY <1>8
  <2> QED BY <1>1, <2>1, <2>2, <2>3 DEF MarksInv
<1> QED BY <1>9, <1>10, <1>11 DEF ReadKept

\* All is read: the root file is at its end, and each type is defined.
LEMMA AllReadIs ==
  ASSUME ReadKept, package \in Packages, AcceptPackage PROVE IsSourceOf(SchemaRead)
<1> DEFINE tables == SchemaRead
           all == Contents(package.root).tables
<1>1. /\ CallsInv /\ DefinedInv /\ MarksInv /\ Len(calls) = 1 /\ forward = {}
      /\ This.entered => This.table > Len(Contents(This.path).tables)
  BY DEF ReadKept, AcceptPackage, ReturnFromRoot, AtReturn, AllDefined
<1>2. /\ This \in CallSet /\ This = calls[1] /\ This.path = package.root
      /\ 1 \in 1..Len(calls)
  BY <1>1, TopIsLast DEF CallsInv
<1>3. /\ This.entered /\ This.table \in Nat \ {0} /\ package.root \in DOMAIN package.files
  BY <1>2 DEF CallSet
<1>4. Len(all) \in Nat
  BY <1>3, FileTables
<1>5. This.table = Len(all) + 1
  <2>1. This.table <= Len(all) + 1
    BY <1>1, <1>2 DEF CallsInv
  <2> QED BY <1>1, <1>2, <1>3, <1>4, <2>1
<1>6. \A i \in 1..(This.table - 1) : i \in 1..Len(all)
  BY <1>4, <1>5
<1>7. \A i \in 1..Len(all) : i \in 1..(This.table - 1)
  BY <1>4, <1>5
<1>8. /\ Len(defined) \in Nat
      /\ \A k \in 1..Len(defined) : MentionedIn(defined[k]) \subseteq NamesOf(defined)
  BY <1>1 DEF DefinedInv
<1>9. /\ IsSeq(tables) /\ Len(tables) = Len(defined)
      /\ \A k \in 1..Len(defined) :
           tables[k] = [defined[k] EXCEPT !.generated = defined[k].name \in marked]
  <2> DEFINE n == Len(defined)
             F(k) == [defined[k] EXCEPT !.generated = defined[k].name \in marked]
             S == {F(k) : k \in 1..n}
  <2>1. tables = [k \in 1..n |-> F(k)]
    BY DEF SchemaRead
  <2>2. n \in Nat /\ \A k \in 1..n : F(k) \in S
    BY <1>8
  <2> HIDE DEF tables, n, F, S
  <2>3. tables \in Seq(S) /\ Len(tables) = n /\ \A k \in 1..n : tables[k] = F(k)
    BY <2>1, <2>2
  <2>4. IsSeq(tables)
    BY <2>3, SeqIs
  <2> QED BY <2>3, <2>4 DEF n, F
<1> HIDE DEF tables
<1>10. ASSUME NEW k \in 1..Len(defined)
       PROVE  /\ IsTable(tables[k]) /\ tables[k].name = defined[k].name
              /\ tables[k].fields = defined[k].fields /\ tables[k].struct = defined[k].struct
              /\ tables[k].generated = (defined[k].name \in marked)
              /\ [tables[k] EXCEPT !.generated = FALSE] = defined[k]
              /\ InFiles(defined[k])
  <2> DEFINE d == defined[k]
             g == d.name \in marked
  <2>1. InFiles(d)
    BY <1>1 DEF DefinedInv
  <2>2. PICK path \in DOMAIN package.files : d \in Range(Contents(path).tables)
    BY <2>1 DEF InFiles
  <2>3. IsTable(d) /\ ~d.generated
    BY <2>2, PackagesAssumption DEF Contents
  <2>4. tables[k] = [d EXCEPT !.generated = g] /\ g \in BOOLEAN
    BY <1>9
  <2> HIDE DEF d, g
  <2>5. /\ d \in [name : STRING, progressive : BOOLEAN, struct : BOOLEAN, generated : BOOLEAN,
                  fields : Seq(Range(d.fields))]
        /\ d.name # NoTable /\ \A f \in Range(d.fields) : IsField(f)
    BY <2>3 DEF IsTable
  <2>6. d.generated = FALSE
    BY <2>3, <2>5
  <2>7. /\ tables[k].name = d.name /\ tables[k].fields = d.fields /\ tables[k].generated = g
        /\ tables[k].struct = d.struct
        /\ tables[k] \in [name : STRING, progressive : BOOLEAN, struct : BOOLEAN,
                          generated : BOOLEAN, fields : Seq(Range(d.fields))]
        /\ [tables[k] EXCEPT !.generated = FALSE] = d
    BY <2>4, <2>5, <2>6
  <2>8. IsTable(tables[k])
    BY <2>5, <2>7 DEF IsTable
  <2> QED BY <2>1, <2>7, <2>8 DEF d, g
<1>11. Len(tables) = Len(defined) /\ \A k \in 1..Len(defined) :
         tables[k].name = defined[k].name /\ tables[k].struct = defined[k].struct
  BY <1>9, <1>10
<1>12. TableNames(tables) = NamesOf(defined) /\ StructsOf(tables) = StructsOf(defined)
  BY <1>11 DEF TableNames, NamesOf, StructsOf
<1>13. IsSource(tables)
  <2>1. ASSUME NEW j \in 1..Len(tables), NEW k \in 1..Len(tables), tables[j].name = tables[k].name
        PROVE  j = k
    BY <2>1, <1>1, <1>9, <1>10 DEF DefinedInv
  <2>2. ASSUME NEW k \in 1..Len(tables), NEW f \in Range(tables[k].fields)
        PROVE  /\ Callee(f) \in TableNames(tables) \union {NoTable}
               /\ FieldFits(tables, tables[k], f)
    <3>1. k \in 1..Len(defined) /\ f \in Range(defined[k].fields)
      BY <1>9, <1>10
    <3>2. IsSeq(defined[k].fields)
      <4>1. tables[k].fields \in Seq(Range(tables[k].fields))
        BY <3>1, <1>10 DEF IsTable
      <4> QED BY <4>1, <3>1, <1>10 DEF IsSeq
    <3>3. PICK i \in 1..Len(defined[k].fields) : f = defined[k].fields[i]
      BY <3>1, <3>2, SeqFacts DEF Range
    <3>4. Mentions(f.type) \subseteq NamesOf(defined)
      BY <3>1, <3>3, <1>8 DEF MentionedIn
    <3>5. FieldFits(defined, defined[k], f)
      BY <3>1, <3>3, <1>1 DEF DefinedInv
    <3>6. FieldFits(tables, tables[k], f)
      BY <3>1, <3>5, <1>10, <1>12 DEF FieldFits, FitsStruct
    <3> QED BY <3>4, <3>6, <1>12, CalleeIsMentioned
  <2>3. \A k \in 1..Len(tables) : IsTable(tables[k])
    BY <1>9, <1>10
  <2> QED BY <1>9, <2>1, <2>2, <2>3 DEF IsSource, IsSeq, FieldFits
<1>14. ASSUME NEW k \in 1..Len(tables)
       PROVE  /\ \E path \in DOMAIN package.files :
                   [tables[k] EXCEPT !.generated = FALSE] \in Range(Contents(path).tables)
              /\ tables[k].generated <=>
                   ~package.all /\ tables[k].name \notin NamesOf(all)
  <2>1. k \in 1..Len(defined)
    BY <1>9
  <2>2. tables[k].generated = (defined[k].name \in marked) /\ tables[k].name = defined[k].name
    BY <2>1, <1>10
  <2>3. ASSUME defined[k].name \in marked
        PROVE  ~package.all /\ defined[k].name \notin NamesOf(all)
    <3>1. \A i \in 1..Len(all) : all[i].name \notin marked
      BY <1>1, <1>2, <1>7 DEF MarksInv
    <3> QED BY <2>3, <3>1, <1>1 DEF MarksInv, NamesOf
  <2>4. ASSUME ~package.all, defined[k].name \notin NamesOf(all)
        PROVE  defined[k].name \in marked
    <3>1. CASE DefinedBy(package.files, calls[1], defined[k])
      <4>1. PICK i \in 1..(This.table - 1) : defined[k] = all[i]
        BY <3>1, <1>2 DEF DefinedBy, Contents
      <4> QED BY <4>1, <1>6, <2>4 DEF NamesOf
    <3> QED BY <3>1, <2>1, <2>4, <1>1 DEF MarksInv
  <2>5. \E path \in DOMAIN package.files :
          [tables[k] EXCEPT !.generated = FALSE] \in Range(Contents(path).tables)
    BY <2>1, <1>10 DEF InFiles
  <2> QED BY <2>2, <2>3, <2>4, <2>5
<1> QED BY <1>13, <1>14 DEF IsSourceOf, tables

-----------------------------------------------------------------------------
(* Every step.                                                             *)

LEMMA StepWorks == ASSUME Step PROVE pc # "idle" /\ schema' = schema
<1>1. CASE ParseTable
  BY <1>1 DEF ParseTable
<1>2. CASE RejectTable
  BY <1>2 DEF RejectTable
<1>3. CASE Parsed
  BY <1>3 DEF Parsed
<1>4. CASE SkipGenerated
  BY <1>4 DEF SkipGenerated, Looping
<1>5. CASE EnterTable
  BY <1>5 DEF EnterTable, Looping
<1>6. CASE SkipDeprecated
  BY <1>6 DEF SkipDeprecated, AtField
<1>7. CASE ResolveField
  BY <1>7 DEF ResolveField, AtField
<1>8. CASE FailField
  BY <1>8 DEF FailField, AtField
<1>9. CASE CallNested
  BY <1>9 DEF CallNested, AtField
<1>10. CASE Overflow
  BY <1>10 DEF Overflow, AtField
<1>11. CASE ReturnNested
  BY <1>11 DEF ReturnNested, AtEnd
<1>12. CASE FinishTable
  BY <1>12 DEF FinishTable, AtEnd
<1>13. CASE SaveFails
  BY <1>13 DEF SaveFails, AtEnd
<1>14. CASE FinishRun
  BY <1>14 DEF FinishRun, Finished, Looping
<1>15. CASE FinalSaveFails
  BY <1>15 DEF FinalSaveFails, Finished, Looping
<1> QED BY <1>1, <1>2, <1>3, <1>4, <1>5, <1>6, <1>7, <1>8,
          <1>9, <1>10, <1>11, <1>12, <1>13, <1>14, <1>15 DEF Step

LEMMA NextKeeps ==
  ASSUME ReaderInv, [CompilerNext]_compilerVars PROVE ReaderInv'
<1> USE DEF ReaderInv
<1>1. ASSUME NEW p \in Packages, Read(p) PROVE ReaderInv'
  BY <1>1, StartInvariant
<1>2. CASE ReadMore
  <2>1. reading = "reading" /\ ReadKept /\ package \in Packages /\ UNCHANGED <<pc, runs, package>>
        /\ pc = "idle" /\ runs < MaxRuns
    BY <1>2 DEF ReadMore, ReadOn, vars, EmptyFile, MissingInclude, SkipInclude, EnterInclude,
                DefineTable, RefuseTable, ReturnToIncluder, RefusePackage, ReturnFromRoot,
                AtInclude, AtTable, AtReturn, InFile, ReadFails
  <2>2. CASE ReadFails
    BY <2>1, <2>2 DEF ReadFails, ReadIsSource
  <2>3. ASSUME ReadKept', reading' = reading PROVE ReaderInv'
    BY <2>1, <2>3 DEF ReadIsSource
  <2>4. CASE SkipInclude
    BY <2>1, <2>3, <2>4, SkipKeeps DEF SkipInclude
  <2>5. CASE EnterInclude
    BY <2>1, <2>3, <2>5, EnterKeeps DEF EnterInclude
  <2>6. CASE DefineTable
    BY <2>1, <2>3, <2>6, DefineKeeps DEF DefineTable
  <2>7. CASE ReturnToIncluder
    BY <2>1, <2>3, <2>7, ReturnKeeps DEF ReturnToIncluder
  <2> QED BY <1>2, <2>2, <2>4, <2>5, <2>6, <2>7
          DEF ReadMore, ReadOn, EmptyFile, MissingInclude, RefuseTable, RefusePackage
<1>3. CASE ReadAll
  <2>1. reading = "reading" /\ ReadKept /\ package \in Packages /\ pc = "idle" /\ runs < MaxRuns
    BY <1>3 DEF ReadAll, AcceptPackage, ReturnFromRoot, AtReturn
  <2>2. /\ reading' = "ok" /\ package' = package /\ schema' = SchemaRead
        /\ pc' = pc /\ runs' = runs
    BY <1>3 DEF ReadAll, AcceptPackage
  <2>3. IsSourceOf(SchemaRead)
    BY <1>3, <2>1, AllReadIs DEF ReadAll
  <2>4. ReadIsSource'
    BY <2>2, <2>3 DEF ReadIsSource, IsSourceOf, Contents
  <2> QED BY <2>1, <2>2, <2>4
<1>4. ASSUME NEW l \in {"go", "rust"}, Generate(l) PROVE ReaderInv'
  BY <1>4 DEF Generate, ReadIsSource
<1>5. CASE Step /\ UNCHANGED readerVars
  BY <1>5, StepWorks DEF readerVars, ReadIsSource, IsSourceOf, Contents
<1>6. CASE UNCHANGED compilerVars
  BY <1>6 DEF compilerVars, vars, readerVars, ReadIsSource, IsSourceOf, ReadKept, CallsInv,
              DefinedInv, MarksInv, CallSet, InFiles, Contents
<1> QED BY <1>1, <1>2, <1>3, <1>4, <1>5, <1>6 DEF CompilerNext, Process

-----------------------------------------------------------------------------
(* How deep DoParse calls itself.                                          *)

\* The include statements of a file that lead to files entered before.
Past(path) ==
  {i \in 1..Len(Contents(path).includes) :
     LET file == Located(path, Contents(path).includes[i])
     IN  Exists(file) /\ HashFile(file) \in included}

\* The files being read have all been entered and are different ones; each
\* start anew of one of them, and the call for the file it includes, is for an
\* include statement of it.
DepthKept ==
  /\ \A k \in 1..Len(calls) :
       /\ HashFile(calls[k].path) \in included
       /\ calls[k].restarts + (IF k < Len(calls) THEN 1 ELSE 0) <= Cardinality(Past(calls[k].path))
  /\ \A j, k \in 1..Len(calls) :
       HashFile(calls[j].path) = HashFile(calls[k].path) => j = k

DepthInv ==
  /\ IF reading = "reading" THEN DepthKept ELSE calls = <<>>
  /\ reading = "no" => package = NoPackage

LEMMA PastFinite ==
  ASSUME package \in Packages, NEW path \in DOMAIN package.files
  PROVE  /\ Len(Contents(path).includes) \in Nat
         /\ IsFiniteSet(Past(path)) /\ Cardinality(Past(path)) \in Nat
         /\ Cardinality(Past(path)) <= Len(Contents(path).includes)
<1> DEFINE n == Len(Contents(path).includes)
<1>1. n \in Nat
  BY FileTables
<1>2. Past(path) \in SUBSET (1..n)
  BY DEF Past
<1> HIDE DEF n
<1>3. IsFiniteSet(1..n) /\ Cardinality(1..n) = n
  BY <1>1, FS_Interval
<1>4. IsFiniteSet(Past(path)) /\ Cardinality(Past(path)) <= n
  BY <1>2, <1>3, FS_Subset
<1> QED BY <1>1, <1>4, FS_CardinalityType DEF n

\* The steps that enter no file and start none anew.
LEMMA SamePlaces ==
  ASSUME DepthKept, UNCHANGED <<package, included>>, Len(calls') = Len(calls),
         \A k \in 1..Len(calls) : /\ calls'[k].path = calls[k].path
                                  /\ calls'[k].restarts = calls[k].restarts
  PROVE  DepthKept'
<1>1. \A path : Past(path)' = Past(path) /\ HashFile(path)' = HashFile(path)
  BY DEF Past, HashFile, Contents, Located, Candidates, Exists
<1> QED BY <1>1 DEF DepthKept

LEMMA StartDepth ==
  ASSUME NEW p \in Packages, StartReading(p) PROVE DepthKept'
<1>1. /\ package' = p /\ included' = {<<Last(p.root), p.files[p.root]>>}
      /\ Len(calls') = 1 /\ calls'[1].path = p.root /\ calls'[1].restarts = 0
  BY DEF StartReading
<1>2. package' \in Packages /\ p.root \in DOMAIN package'.files
  BY <1>1, PackagesAssumption
<1>3. Cardinality(Past(p.root))' \in Nat
  <2>1. Past(p.root)' \in SUBSET (1..Len(p.files[p.root].includes))
    BY <1>1 DEF Past, Contents
  <2>2. Len(p.files[p.root].includes) \in Nat
    BY PackagesAssumption
  <2> DEFINE n == Len(p.files[p.root].includes)
  <2> HIDE DEF n
  <2>3. IsFiniteSet(1..n)
    BY <2>2, FS_Interval DEF n
  <2>4. IsFiniteSet(Past(p.root)')
    BY <2>1, <2>3, FS_Subset DEF n
  <2> QED BY <2>4, FS_CardinalityType
<1>4. HashFile(p.root)' \in included'
  BY <1>1 DEF HashFile
<1> QED BY <1>1, <1>3, <1>4 DEF DepthKept

LEMMA SameFiles ==
  ASSUME package' = package, NEW path
  PROVE  /\ HashFile(path)' = HashFile(path)
         /\ Contents(path)' = Contents(path)
         /\ Exists(path)' <=> Exists(path)
         /\ \A name : Located(path, name)' = Located(path, name)
<1>1. \A file : Exists(file)' <=> Exists(file)
  BY DEF Exists
<1>2. \A name : Located(path, name)' = Located(path, name)
  <2> TAKE name
  <2>1. PICK paths : paths = Candidates(path, name)
    OBVIOUS
  <2>2. Candidates(path, name)' = paths
    BY <2>1 DEF Candidates
  <2> QED BY <2>1, <2>2 DEF Located, Exists
<1> QED BY <1>1, <1>2 DEF HashFile, Contents

LEMMA PastIs ==
  ASSUME package' = package, NEW path
  PROVE  Past(path)' = {i \in 1..Len(Contents(path).includes) :
                          LET file == Located(path, Contents(path).includes[i])
                          IN  Exists(file) /\ HashFile(file) \in included'}
<1> DEFINE name(i) == Contents(path).includes[i]
<1>1. Contents(path)' = Contents(path)
  BY SameFiles
<1>2. ASSUME NEW i
      PROVE  LET file == Located(path, name(i))
             IN  (Exists(file) /\ HashFile(file) \in included)'
                   <=> Exists(file) /\ HashFile(file) \in included'
  <2>1. PICK n : n = name(i)
    OBVIOUS
  <2>2. PICK file : file = Located(path, n)
    OBVIOUS
  <2>3. name(i)' = n
    BY <1>1, <2>1
  <2>4. Located(path, n)' = file
    BY <2>2, SameFiles
  <2>5. /\ HashFile(file)' = HashFile(file)
        /\ Exists(file)' <=> Exists(file)
    BY SameFiles
  <2>6. Located(path, name(i))' = file
    BY <2>3, <2>4
  <2> HIDE DEF name
  <2>7. /\ HashFile(Located(path, name(i)))' = HashFile(file)
        /\ Exists(Located(path, name(i)))' <=> Exists(file)
    BY <2>5, <2>6
  <2> QED BY <2>1, <2>2, <2>7
<1> QED BY <1>1, <1>2 DEF Past

LEMMA PastGrows ==
  ASSUME package \in Packages, package' = package, included \subseteq included',
         NEW path \in DOMAIN package.files
  PROVE  /\ Cardinality(Past(path)) \in Nat /\ Cardinality(Past(path)') \in Nat
         /\ Cardinality(Past(path)) <= Cardinality(Past(path)')
         /\ \A i \in Past(path)' \ Past(path) : Cardinality(Past(path)) + 1 <= Cardinality(Past(path)')
<1> DEFINE old == Past(path)
           new == Past(path)'
           n == Len(Contents(path).includes)
<1>1. old \subseteq new /\ new \in SUBSET (1..n)
  <2>1. old \subseteq new
    BY PastIs DEF Past
  <2>2. new \in SUBSET (1..n)
    BY PastIs
  <2> QED BY <2>1, <2>2
<1>2. n \in Nat /\ IsFiniteSet(old) /\ Cardinality(old) \in Nat
  BY PastFinite
<1> HIDE DEF old, new, n
<1>3. IsFiniteSet(new) /\ Cardinality(new) \in Nat
  <2>1. IsFiniteSet(1..n)
    BY <1>2, FS_Interval
  <2>2. IsFiniteSet(new)
    BY <1>1, <2>1, FS_Subset
  <2> QED BY <2>2, FS_CardinalityType
<1>4. Cardinality(old) <= Cardinality(new)
  BY <1>1, <1>3, FS_Subset
<1>5. ASSUME NEW i \in new \ old PROVE Cardinality(old) + 1 <= Cardinality(new)
  <2>1. Cardinality(old) # Cardinality(new)
    BY <1>1, <1>3, <1>5, FS_Subset
  <2> QED BY <1>2, <1>3, <1>4, <2>1
<1> QED BY <1>2, <1>3, <1>4, <1>5 DEF old, new

LEMMA EnterDepth ==
  ASSUME CallsInv, DepthKept, package \in Packages, EnterInclude PROVE DepthKept'
<1> DEFINE top == Call(Include, included, 0)
           n == Len(calls)
<1>1. /\ This.include <= Len(Contents(This.path).includes)
      /\ Include \in DOMAIN package.files /\ HashFile(Include) \notin included
      /\ calls' = Append(calls, top)
      /\ included' = included \union {HashFile(Include)}
      /\ package' = package
  BY DEF EnterInclude, AtInclude, InFile, Exists
<1>2. n \in Nat \ {0} /\ This \in CallSet /\ This = calls[n]
  BY TopIsLast
<1>3. top.path = Include /\ top.restarts = 0
  BY DEF Call
<1>4. calls \in Seq(CallSet)
  BY DEF CallsInv
<1>5. Len(calls') = n + 1 /\ calls'[n + 1] = top /\ \A k \in 1..n : calls'[k] = calls[k]
  BY <1>1, <1>4, Appended, SeqIs
<1>6. \A path : HashFile(path)' = HashFile(path)
  BY <1>1 DEF HashFile
<1>7. \A k \in 1..n : calls[k].path \in DOMAIN package.files /\ calls[k].restarts \in Nat
  <2>1. \A k \in 1..n : calls[k] \in CallSet
    BY <1>4
  <2> QED BY <2>1 DEF CallSet
<1>8. PICK here : here = This.path
  OBVIOUS
<1>9. PICK there : there = Include
  OBVIOUS
<1>10. \E i : i \in Past(here)' \ Past(here)
  <2>1. PICK i : i = This.include
    OBVIOUS
  <2>2. i \in 1..Len(Contents(here).includes)
    <3>1. i \in Nat \ {0} /\ Len(Contents(here).includes) \in Nat
      BY <1>2, <1>8, <2>1, FileTables DEF CallSet
    <3> QED BY <1>1, <1>8, <2>1, <3>1
  <2>3. there = Located(here, Contents(here).includes[i])
    BY <1>8, <1>9, <2>1 DEF Include
  <2>4. Exists(there) /\ HashFile(there) \in included' /\ HashFile(there) \notin included
    BY <1>1, <1>9 DEF Exists
  <2>5. i \notin Past(here)
    BY <2>3, <2>4 DEF Past
  <2>6. i \in Past(here)'
    <3>1. package' = package
      BY <1>1
    <3> QED BY <2>2, <2>3, <2>4, <3>1, PastIs
  <2> QED BY <2>5, <2>6
<1> HIDE DEF top, n
<1>11. \A path \in DOMAIN package.files :
        /\ Cardinality(Past(path)) \in Nat /\ Cardinality(Past(path)') \in Nat
        /\ Cardinality(Past(path)) <= Cardinality(Past(path)')
        /\ \A i \in Past(path)' \ Past(path) :
             Cardinality(Past(path)) + 1 <= Cardinality(Past(path)')
  BY <1>1, PastGrows
<1>12. ASSUME NEW k \in 1..(n + 1)
       PROVE  /\ HashFile(calls'[k].path) \in included'
              /\ calls'[k].restarts + (IF k < n + 1 THEN 1 ELSE 0)
                   <= Cardinality(Past(calls[k].path))'
  <2>1. CASE k = n + 1
    <3>1. calls'[k].path = there /\ calls'[k].restarts = 0 /\ ~(k < n + 1)
      BY <1>2, <1>3, <1>5, <1>9, <2>1
    <3>2. Cardinality(Past(there)') \in Nat
      BY <1>1, <1>9, <1>11
    <3>3. Cardinality(Past(calls[k].path))' = Cardinality(Past(there)')
      BY <3>1
    <3> QED BY <1>1, <1>9, <3>1, <3>2, <3>3
  <2>2. CASE k # n + 1
    <3>1. k \in 1..n /\ k < n + 1 /\ (k < n \/ k = n)
      BY <1>2, <2>2
    <3>2. /\ calls'[k] = calls[k] /\ HashFile(calls[k].path) \in included
          /\ calls[k].restarts + (IF k < n THEN 1 ELSE 0) <= Cardinality(Past(calls[k].path))
      BY <1>5, <3>1 DEF DepthKept, n
    <3>p. PICK path : path = calls[k].path
      OBVIOUS
    <3> DEFINE c == Cardinality(Past(path))
               d == Cardinality(Past(path)')
               r == calls[k].restarts
    <3>3. c \in Nat /\ d \in Nat /\ c <= d /\ r \in Nat
      BY <1>7, <1>11, <3>1, <3>p
    <3>4. k = n => c + 1 <= d
      <4>1. k = n => path = here /\ path \in DOMAIN package.files
        BY <1>2, <1>7, <1>8, <3>1, <3>p
      <4> QED BY <1>10, <1>11, <4>1
    <3>5. r + (IF k < n THEN 1 ELSE 0) <= c
      BY <3>2, <3>p
    <3>6. calls'[k].restarts = r /\ Cardinality(Past(calls[k].path))' = d
      BY <3>2, <3>p
    <3> HIDE DEF c, d, r
    <3>7. r + 1 <= d
      BY <1>2, <3>1, <3>3, <3>4, <3>5
    <3> QED BY <1>1, <3>1, <3>2, <3>6, <3>7
  <2> QED BY <2>1, <2>2
<1>13. ASSUME NEW j \in 1..(n + 1), NEW k \in 1..(n + 1),
              HashFile(calls'[j].path) = HashFile(calls'[k].path)
       PROVE  j = k
  <2>1. HashFile(calls'[n + 1].path) \notin included
    BY <1>1, <1>3, <1>5
  <2>2. \A i \in 1..n : HashFile(calls'[i].path) \in included /\ calls'[i] = calls[i]
    BY <1>5 DEF DepthKept, n
  <2>3. (j \in 1..n \/ j = n + 1) /\ (k \in 1..n \/ k = n + 1)
    BY <1>2
  <2>4. CASE j \in 1..n /\ k \in 1..n
    BY <1>13, <2>2, <2>4 DEF DepthKept, n
  <2> QED BY <1>13, <2>1, <2>2, <2>3, <2>4
<1> QED BY <1>5, <1>6, <1>12, <1>13 DEF DepthKept

LEMMA ReturnDepth ==
  ASSUME CallsInv, DepthKept, package \in Packages, ReturnToIncluder PROVE DepthKept'
<1> DEFINE m == Len(calls) - 1
           includer == calls[m]
           path == includer.path
           rest == Forgotten(included, path)
           top == Call(path, rest, includer.restarts + 1)
<1>1. /\ Len(calls) > 1 /\ calls' = [Outer EXCEPT ![Len(Outer)] = top]
      /\ included' = rest \union {HashFile(path)}
      /\ package' = package
  BY DEF ReturnToIncluder
<1>2. /\ Len(calls) \in Nat /\ Outer \in Seq(CallSet) /\ Len(Outer) = m
      /\ \A i \in 1..m : Outer[i] = calls[i]
  BY TopIsLast
<1>3. top.path = path /\ top.restarts = includer.restarts + 1
  BY DEF Call
<1> HIDE DEF top
<1>4. m \in Nat \ {0} /\ m \in 1..Len(calls) /\ m < Len(calls) /\ \A k \in 1..m : k \in 1..Len(calls)
  BY <1>1, <1>2
<1>5. included' = included
  BY <1>1, <1>4 DEF Forgotten, DepthKept
<1>6. \A p : Past(p)' = Past(p) /\ HashFile(p)' = HashFile(p)
  <2>1. package' = package
    BY <1>1
  <2>2. \A p : Past(p)' = Past(p)
    BY <1>5, <2>1, PastIs DEF Past
  <2> QED BY <2>1, <2>2 DEF HashFile
<1>7. \A k \in 1..Len(calls) : /\ calls[k].path \in DOMAIN package.files
                               /\ calls[k].restarts \in Nat
  <2>1. \A k \in 1..Len(calls) : calls[k] \in CallSet
    BY DEF CallsInv
  <2> QED BY <2>1 DEF CallSet
<1>8. /\ Len(calls') = m
      /\ \A k \in 1..m : calls'[k] = IF k = m THEN top ELSE calls[k]
  <2> HIDE DEF m
  <2> QED BY <1>1, <1>2, <1>4
<1>9. \A k \in 1..m : /\ calls'[k].path = calls[k].path
                      /\ calls'[k].restarts = calls[k].restarts + (IF k < m THEN 0 ELSE 1)
  <2>1. ASSUME NEW k \in 1..m, k = m
        PROVE  /\ calls'[k].path = calls[k].path /\ ~(k < m)
               /\ calls'[k].restarts = calls[k].restarts + 1
    BY <1>3, <1>4, <1>8, <2>1
  <2>2. ASSUME NEW k \in 1..m, k # m
        PROVE  /\ calls'[k].path = calls[k].path /\ k < m
               /\ calls'[k].restarts = calls[k].restarts + 0
    <3> HIDE DEF m
    <3>1. k < m /\ calls'[k] = calls[k] /\ calls[k].restarts \in Nat
      BY <1>4, <1>7, <1>8, <2>2
    <3> QED BY <3>1
  <2> HIDE DEF m
  <2> QED BY <2>1, <2>2
<1> HIDE DEF m, includer, path, rest
<1>10. ASSUME NEW k \in 1..m
      PROVE  /\ HashFile(calls'[k].path) \in included
             /\ calls'[k].restarts + (IF k < m THEN 1 ELSE 0) <= Cardinality(Past(calls[k].path))'
  <2>1. k < Len(calls) /\ k \in 1..Len(calls)
    BY <1>2, <1>4
  <2>2. PICK p : p = calls[k].path
    OBVIOUS
  <2>3. /\ HashFile(p) \in included
        /\ calls[k].restarts + 1 <= Cardinality(Past(p))
    BY <2>1, <2>2 DEF DepthKept
  <2>4. calls'[k].path = p /\ Cardinality(Past(calls[k].path))' = Cardinality(Past(p))
    BY <1>6, <1>9, <2>2
  <2>5. calls'[k].restarts + (IF k < m THEN 1 ELSE 0) = calls[k].restarts + 1
    <3>1. calls[k].restarts \in Nat
      BY <1>7, <2>1
    <3> QED BY <1>9, <3>1
  <2> QED BY <2>3, <2>4, <2>5
<1>11. ASSUME NEW j \in 1..m, NEW k \in 1..m, HashFile(calls'[j].path) = HashFile(calls'[k].path)
       PROVE  j = k
  BY <1>4, <1>9, <1>11 DEF DepthKept
<1> QED BY <1>5, <1>6, <1>8, <1>10, <1>11 DEF DepthKept

\* A call that goes on in its file.
LEMMA MovesDepth ==
  ASSUME CallsInv, DepthKept, UNCHANGED <<package, included>>,
         NEW top, top.path = This.path, top.restarts = This.restarts, calls' = Append(Outer, top)
  PROVE  DepthKept'
<1>1. /\ Len(calls) \in Nat \ {0} /\ This = calls[Len(calls)]
      /\ Outer \in Seq(CallSet) /\ Len(Outer) = Len(calls) - 1
      /\ \A k \in 1..(Len(calls) - 1) : Outer[k] = calls[k]
  BY TopIsLast
<1>2. /\ Len(calls') = Len(calls) /\ calls'[Len(calls)] = top
      /\ \A k \in 1..(Len(calls) - 1) : calls'[k] = calls[k]
  <2>1. IsSeq(Outer)
    BY <1>1, SeqIs
  <2>2. /\ Len(calls') = Len(Outer) + 1 /\ calls'[Len(Outer) + 1] = top
        /\ \A k \in 1..Len(Outer) : calls'[k] = Outer[k]
    BY <2>1, Appended
  <2>3. Len(Outer) + 1 = Len(calls)
    BY <1>1
  <2> QED BY <1>1, <2>2, <2>3
<1>3. ASSUME NEW k \in 1..Len(calls)
      PROVE  calls'[k].path = calls[k].path /\ calls'[k].restarts = calls[k].restarts
  <2>1. CASE k = Len(calls)
    BY <1>1, <1>2, <2>1
  <2>2. CASE k # Len(calls)
    <3>1. k \in 1..(Len(calls) - 1)
      BY <1>1, <2>2
    <3> QED BY <1>2, <3>1
  <2> QED BY <2>1, <2>2
<1> QED BY <1>2, <1>3, SamePlaces

LEMMA SkipDepth ==
  ASSUME CallsInv, DepthKept, SkipInclude PROVE DepthKept'
<1> DEFINE top == [This EXCEPT !.include = @ + 1]
<1>1. /\ calls' = Append(Outer, top) /\ UNCHANGED <<package, included>>
  <2>1. included' = included /\ package' = package /\ calls' = Append(Outer, top)
    BY DEF SkipInclude
  <2> QED BY <2>1
<1>2. This \in CallSet
  BY TopIsLast
<1>3. top.path = This.path /\ top.restarts = This.restarts
  BY <1>2 DEF CallSet
<1> HIDE DEF top
<1> QED BY <1>1, <1>3, MovesDepth

LEMMA DefineDepth ==
  ASSUME CallsInv, DepthKept, DefineTable PROVE DepthKept'
<1> DEFINE top == [This EXCEPT !.table = @ + 1]
<1>1. calls' = Append(Outer, top) /\ UNCHANGED <<package, included>>
  BY DEF DefineTable
<1>2. This \in CallSet
  BY TopIsLast
<1>3. top.path = This.path /\ top.restarts = This.restarts
  BY <1>2 DEF CallSet
<1> HIDE DEF top
<1> QED BY <1>1, <1>3, MovesDepth

LEMMA NextDepth ==
  ASSUME ReaderInv, DepthInv, [CompilerNext]_compilerVars PROVE DepthInv'
<1>1. ASSUME NEW p \in Packages, Read(p) PROVE DepthInv'
  <2>1. StartReading(p) /\ reading' = "reading"
    BY <1>1 DEF Read, StartReading
  <2> QED BY <2>1, StartDepth DEF DepthInv
<1>2. CASE ReadMore
  <2>1. reading = "reading" /\ CallsInv /\ DepthKept /\ package \in Packages
    BY <1>2 DEF ReaderInv, ReadKept, DepthInv, ReadMore, ReadOn, EmptyFile, MissingInclude,
                SkipInclude, EnterInclude, DefineTable, RefuseTable, ReturnToIncluder,
                RefusePackage, ReturnFromRoot, AtInclude, AtTable, AtReturn, InFile
  <2>2. CASE ReadFails
    BY <2>2 DEF ReadFails, DepthInv
  <2>3. ASSUME DepthKept', reading' = reading PROVE DepthInv'
    BY <2>1, <2>3 DEF DepthInv
  <2>4. CASE SkipInclude
    BY <2>1, <2>3, <2>4, SkipDepth DEF SkipInclude
  <2>5. CASE EnterInclude
    BY <2>1, <2>3, <2>5, EnterDepth DEF EnterInclude
  <2>6. CASE DefineTable
    BY <2>1, <2>3, <2>6, DefineDepth DEF DefineTable
  <2>7. CASE ReturnToIncluder
    BY <2>1, <2>3, <2>7, ReturnDepth DEF ReturnToIncluder
  <2> QED BY <1>2, <2>2, <2>4, <2>5, <2>6, <2>7
          DEF ReadMore, ReadOn, EmptyFile, MissingInclude, RefuseTable, RefusePackage
<1>3. CASE ReadAll
  BY <1>3 DEF ReadAll, AcceptPackage, DepthInv
<1>4. ASSUME NEW l \in {"go", "rust"}, Generate(l) PROVE DepthInv'
  BY <1>4 DEF Generate, DepthInv
<1>5. CASE UNCHANGED readerVars
  <2>1. UNCHANGED <<package, reading, calls, included>>
    BY <1>5 DEF readerVars
  <2>2. DepthKept => DepthKept'
    BY <2>1, SamePlaces
  <2> QED BY <2>1, <2>2 DEF DepthInv
<1> QED BY <1>1, <1>2, <1>3, <1>4, <1>5 DEF CompilerNext, Process, compilerVars

LEMMA StatementsFinite ==
  ASSUME package \in Packages
  PROVE  IsFiniteSet(UNION {{path} \X (1..Len(Contents(path).includes)) : path \in DOMAIN package.files})
<1> DEFINE D == DOMAIN package.files
           Of(path) == {path} \X (1..Len(Contents(path).includes))
           all == {Of(path) : path \in D}
<1>1. IsFiniteSet(D)
  BY PackagesAssumption
<1>2. ASSUME NEW path \in D PROVE IsFiniteSet(Of(path))
  <2> DEFINE n == Len(Contents(path).includes)
  <2>1. n \in Nat
    BY FileTables
  <2> HIDE DEF n
  <2>2. IsFiniteSet(1..n)
    BY <2>1, FS_Interval
  <2>3. IsFiniteSet({path})
    BY FS_Singleton
  <2>4. IsFiniteSet({path} \X (1..n))
    BY <2>2, <2>3, FS_Product
  <2> QED BY <2>4 DEF n
<1>3. IsFiniteSet(all)
  <2> DEFINE f == [path \in D |-> Of(path)]
  <2>1. f \in Surjection(D, all)
    <3> HIDE DEF Of
    <3> QED BY DEF Surjection
  <2> HIDE DEF f, all, D
  <2> QED BY <1>1, <2>1, FS_Surjection
<1> HIDE DEF Of
<1>4. \A S \in all : IsFiniteSet(S)
  BY <1>2
<1> HIDE DEF all
<1>5. IsFiniteSet(UNION all)
  BY <1>3, <1>4, FS_UNION
<1> QED BY <1>5 DEF all, Of

\* A call of DoParse, but for the innermost, stands for an include statement.
LEMMA CallsBounded ==
  ASSUME CallsInv, DepthKept, package \in Packages PROVE RecursionBounded
<1> DEFINE n == Len(calls)
           last == <<n, calls[n].restarts>>
           F == UNION {{k} \X (0..calls[k].restarts) : k \in DOMAIN calls}
           G == F \ {last}
           S == UNION {{path} \X (1..Len(Contents(path).includes)) : path \in DOMAIN package.files}
           f == [x \in G |-> <<calls[x[1]].path, x[2] + 1>>]
<1>1. n \in Nat \ {0} /\ DOMAIN calls = 1..n
  BY TopIsLast DEF CallsInv
<1>2. \A k \in 1..n : calls[k].path \in DOMAIN package.files /\ calls[k].restarts \in Nat
  <2>1. \A k \in 1..n : calls[k] \in CallSet
    BY DEF CallsInv
  <2> QED BY <2>1 DEF CallSet
<1>3. IsFiniteSet(S)
  BY StatementsFinite
<1>4. ASSUME NEW x \in G
      PROVE  /\ x = <<x[1], x[2]>> /\ x[1] \in 1..n /\ x[2] \in Nat
             /\ calls[x[1]].path \in DOMAIN package.files
             /\ x[2] + 1 \in 1..Len(Contents(calls[x[1]].path).includes)
  <2>0. PICK k \in 1..n : x \in {k} \X (0..calls[k].restarts)
    BY <1>1
  <2>1. PICK j \in 0..calls[k].restarts : x = <<k, j>>
    BY <2>0
  <2>2. k = n => j # calls[k].restarts
    BY <2>1
  <2> DEFINE r == calls[k].restarts
             c == Cardinality(Past(calls[k].path))
             len == Len(Contents(calls[k].path).includes)
  <2>3. r \in Nat /\ calls[k].path \in DOMAIN package.files
    BY <1>2
  <2>4. c \in Nat /\ len \in Nat /\ c <= len
    BY <2>3, PastFinite
  <2>5. r + (IF k < n THEN 1 ELSE 0) <= c
    BY DEF DepthKept
  <2>6. j \in 0..r /\ (k = n => j # r)
    BY <2>2
  <2>7. x[1] = k /\ x[2] = j
    BY <2>1
  <2> HIDE DEF r, c, len, n
  <2>8. j \in Nat /\ j + 1 \in 1..len
    BY <1>1, <2>3, <2>4, <2>5, <2>6
  <2> QED BY <2>1, <2>3, <2>7, <2>8 DEF len
<1>5. \A x \in G : f[x] \in S
  <2> TAKE x \in G
  <2> DEFINE path == calls[x[1]].path
             i == x[2] + 1
  <2>1. path \in DOMAIN package.files /\ i \in 1..Len(Contents(path).includes)
    BY <1>4
  <2>2. f[x] = <<path, i>>
    OBVIOUS
  <2> HIDE DEF path, i, f, G
  <2> QED BY <2>1, <2>2
<1>6. ASSUME NEW x \in G, NEW y \in G, f[x] = f[y] PROVE x = y
  <2>1. calls[x[1]].path = calls[y[1]].path /\ x[2] + 1 = y[2] + 1
    BY <1>6
  <2>2. /\ x = <<x[1], x[2]>> /\ x[1] \in 1..n /\ x[2] \in Nat
        /\ y = <<y[1], y[2]>> /\ y[1] \in 1..n /\ y[2] \in Nat
    BY <1>4
  <2>3. x[1] = y[1]
    BY <2>1, <2>2 DEF DepthKept
  <2>4. x[2] = y[2]
    BY <2>1, <2>2
  <2> QED BY <2>2, <2>3, <2>4
<1> HIDE DEF G, S, F, last
<1>7. f \in Injection(G, S)
  <2>1. f \in [G -> S]
    BY <1>5
  <2> QED BY <1>6, <2>1 DEF Injection, IsInjective
<1> HIDE DEF f
<1>8. IsFiniteSet(G) /\ Cardinality(G) <= Cardinality(S)
  BY <1>3, <1>7, FS_Injection
<1>9. Cardinality(G) \in Nat /\ Cardinality(S) \in Nat
  BY <1>3, <1>8, FS_CardinalityType
<1>10. IsFiniteSet(G \union {last}) /\ Cardinality(G \union {last}) <= Cardinality(G) + 1
       /\ Cardinality(G \union {last}) \in Nat
  <2>1. /\ IsFiniteSet(G \union {last})
        /\ \/ Cardinality(G \union {last}) = Cardinality(G)
           \/ Cardinality(G \union {last}) = Cardinality(G) + 1
    BY <1>8, FS_AddElement, Zenon
  <2>2. Cardinality(G \union {last}) \in Nat
    BY <2>1, FS_CardinalityType
  <2> QED BY <1>9, <2>1, <2>2
<1>11. Cardinality(F) <= Cardinality(G \union {last})
  <2>1. F \in SUBSET (G \union {last})
    BY DEF G
  <2> QED BY <1>10, <2>1, FS_Subset
<1>12. Cardinality(F) <= Cardinality(S) + 1
  <2>1. IsFiniteSet(F)
    <3>1. F \in SUBSET (G \union {last})
      BY DEF G
    <3> QED BY <1>10, <3>1, FS_Subset
  <2>2. Cardinality(F) \in Nat
    BY <2>1, FS_CardinalityType
  <2> QED BY <1>8, <1>9, <1>10, <1>11, <2>2
<1> QED BY <1>12 DEF RecursionBounded, F, S, Contents

LEMMA NoCallsBounded ==
  ASSUME calls = <<>>, package \in Packages \/ package = NoPackage PROVE RecursionBounded
<1> DEFINE F == UNION {{k} \X (0..calls[k].restarts) : k \in DOMAIN calls}
           S == UNION {{path} \X (1..Len(Contents(path).includes)) : path \in DOMAIN package.files}
<1>1. F = {}
  OBVIOUS
<1>2. IsFiniteSet(S)
  <2>1. CASE package = NoPackage
    <3>1. DOMAIN package.files = {}
      BY <2>1 DEF NoPackage
    <3>2. S = {}
      BY <3>1
    <3> QED BY <3>2, FS_EmptySet
  <2> QED BY <2>1, StatementsFinite
<1> HIDE DEF F, S
<1>3. Cardinality(S) \in Nat /\ Cardinality(F) = 0
  BY <1>1, <1>2, FS_CardinalityType, FS_EmptySet
<1>4. Cardinality(F) <= Cardinality(S) + 1
  BY <1>3
<1> QED BY <1>4 DEF RecursionBounded, F, S, Contents

-----------------------------------------------------------------------------
(* Theorems.                                                               *)

\* The invariant of DoParse.
THEOREM ReaderInvariant == CompilerSpec => []ReaderInv
<1>1. CompilerInit => ReaderInv
  BY ReaderInvInit
<1>2. ReaderInv /\ [CompilerNext]_compilerVars => ReaderInv'
  BY NextKeeps
<1> QED BY <1>1, <1>2, PTL DEF CompilerSpec

\* Whatever files a package has and however they include each other, what is
\* read of it is a schema as the generators take it for granted, and the
\* tables of the root file are those to generate code for (DoParse,
\* StartStruct, MarkGenerated and ParseRoot).
THEOREM ReadAlwaysIsSource == CompilerSpec => []ReadIsSource
<1>1. ReaderInv => ReadIsSource
  BY DEF ReaderInv
<1> QED BY <1>1, ReaderInvariant, PTL

\* However files include each other, DoParse goes no deeper than there are
\* include statements ("This is recursive, but only go as deep as the number
\* of include statements").
THEOREM RecursionAlwaysBounded == CompilerSpec => []RecursionBounded
<1>1. CompilerInit => DepthInv
  BY DEF CompilerInit, ReaderInit, DepthInv
<1>2. ReaderInv /\ DepthInv /\ [CompilerNext]_compilerVars => DepthInv'
  BY NextDepth
<1>3. ReaderInv /\ DepthInv => RecursionBounded
  <2> SUFFICES ASSUME ReaderInv, DepthInv PROVE RecursionBounded
    OBVIOUS
  <2>1. CASE reading = "reading"
    BY <2>1, CallsBounded DEF ReaderInv, ReadKept, DepthInv
  <2>2. CASE reading # "reading"
    BY <2>2, NoCallsBounded DEF ReaderInv, DepthInv
  <2> QED BY <2>1, <2>2
<1> QED BY <1>1, <1>2, <1>3, ReaderInvariant, PTL DEF CompilerSpec

\* As long as Sources has what is read, reading packages and generating code
\* from them is editing a schema and running flatc on it (ParseFile and
\* GenerateCode in flatc.cpp).
THEOREM ReadingImplementsFlatc ==
  CompilerSpec /\ [](reading = "ok" => schema \in Sources) => ImplementsFlatc
<1>1. CompilerInit => Init
  BY DEF CompilerInit
<1>2. ReaderInv /\ [CompilerNext]_compilerVars /\ (reading = "ok" => schema \in Sources)'
        => [Next]_vars
  <2> SUFFICES ASSUME ReaderInv, [CompilerNext]_compilerVars,
                      (reading = "ok" => schema \in Sources)'
               PROVE  [Next]_vars
    OBVIOUS
  <2>1. ASSUME NEW p \in Packages, Read(p) PROVE UNCHANGED vars
    BY <2>1 DEF Read
  <2>2. CASE ReadMore
    BY <2>2 DEF ReadMore
  <2>3. CASE ReadAll
    <3>1. pc = "idle" /\ runs < MaxRuns /\ schema' \in Sources
      BY <2>3 DEF ReaderInv, ReadAll, AcceptPackage, ReturnFromRoot, AtReturn
    <3>2. schema' = schema \/ Edit
      BY <2>3, <3>1 DEF ReadAll, Edit
    <3> QED BY <2>3, <3>2 DEF ReadAll, Next, vars
  <2>4. ASSUME NEW l \in {"go", "rust"}, Generate(l) PROVE Next
    BY <2>4 DEF Generate, Next
  <2>5. CASE Step
    BY <2>5 DEF Next
  <2>6. CASE UNCHANGED compilerVars
    BY <2>6 DEF compilerVars
  <2> QED BY <2>1, <2>2, <2>3, <2>4, <2>5, <2>6 DEF CompilerNext, Process
<1> QED BY <1>1, <1>2, ReaderInvariant, PTL DEF CompilerSpec, ImplementsFlatc

\* So what is proved of any schema that is edited holds when the schema is
\* read from files: what a run that fails leaves, which fields have no leaf,
\* and the active bits.
THEOREM PackagesGenerateRight ==
  CompilerSpec /\ [](reading = "ok" => schema \in Sources)
    => [](FailureLeaves /\ UnhashedExplained /\ ActiveBitsRight)
<1>1. IInv /\ OutputInv => FailureLeaves /\ UnhashedExplained /\ ActiveBitsRight
  BY InvariantExplains
<1>2. ImplementsFlatc => [](IInv /\ OutputInv)
  BY InvariantKept DEF ImplementsFlatc
<1> QED BY <1>1, <1>2, ReadingImplementsFlatc, PTL

\* And so are the layouts, the sizes that the files of a package have of each
\* other's types and, with room on the stack for each table, its overflow.
THEOREM PackagesAnalyzedRight ==
  CompilerSpec /\ [](reading = "ok" => schema \in Sources)
    => [](LayoutRight /\ PackageAgrees /\ (Room => OverflowIsCycle))
<1>1. IInv /\ OutputInv /\ AInv
        => LayoutRight /\ PackageAgrees /\ (Room => OverflowIsCycle)
  BY LayoutExplained, PackageExplained, OverflowExplained
<1>2. ImplementsFlatc => [](IInv /\ OutputInv /\ AInv)
  BY AnalysisKept DEF ImplementsFlatc
<1> QED BY <1>1, <1>2, ReadingImplementsFlatc, PTL
=============================================================================
