---------------------------- MODULE SchemaReader ----------------------------
(***************************************************************************)
(* How flatc reads a schema that is spread over files (Parser::DoParse).   *)
(* A file names the files it includes before its tables.  When an include  *)
(* has been read, the parser does not go on with the file: it forgets that *)
(* it is in it, starts it anew and skips what it has read already.         *)
(*                                                                         *)
(* A package is a directory tree and what flatc is asked to do: files maps *)
(* a path, a sequence of names, to the file there; root is the path given  *)
(* on the command line, dirs the directories of -I, all the flag --gen-all.*)
(* A file is Blank or has names of files, relative paths, and tables.      *)
(* There is one namespace, and no enum, union or service.                  *)
(***************************************************************************)
EXTENDS SszSchema, SequencesExt

CONSTANTS
  Packages,   (* The directory trees and command lines of flatc.            *)
  Accessors   (* Names that generated functions of fields have: <<n, f, b>> *)
              (* where n is f and a suffix for fields of base type b, like  *)
              (* "_length" for vectors and "_byte_vector" for strings.      *)

ASSUME AccessorsAssumption == Accessors \subseteq STRING \X STRING \X {"vector", "string"}

ASSUME PackagesAssumption ==
  \A p \in Packages :
    /\ p.root \in DOMAIN p.files
    /\ p.all \in BOOLEAN
    /\ IsFiniteSet(DOMAIN p.files)
    /\ \A path \in DOMAIN p.files :
         LET includes == p.files[path].includes
             tables == p.files[path].tables
         IN  /\ includes \in Seq(Range(includes))
             /\ tables \in Seq(Range(tables))
             /\ \A t \in Range(tables) : IsTable(t) /\ ~t.generated

VARIABLES
  package,    (* What flatc runs on.                                        *)
  reading,    (* "no", "reading", "ok" or "error".                          *)
  calls,      (* Calls of DoParse, outermost first.                         *)
  included,   (* included_files_: the hashes of the files entered.          *)
  defined,    (* The tables and structs of structs_ that are defined, in    *)
              (* the order in which StartStruct has moved them to the back. *)
  forward,    (* The names of those that are not, marked predecl.           *)
  marked      (* The names of those with the mark generated.                *)

readerVars == <<package, reading, calls, included, defined, forward, marked>>

Blank == [blank |-> TRUE, includes |-> <<>>, tables |-> <<>>]
NoPackage == [files |-> <<>>, root |-> <<>>, dirs |-> <<>>, all |-> FALSE]

-----------------------------------------------------------------------------
(* Files.                                                                  *)

Exists(path) == path \in DOMAIN package.files

\* Beside the including file, else in the directories of -I, the last of
\* which is that of the root file (ParseFile in flatc.cpp).
Candidates(path, name) ==
  LET dirs == <<Front(path)>> \o package.dirs \o <<Front(package.root)>>
  IN  [k \in 1..Len(dirs) |-> dirs[k] \o name]

Located(path, name) ==
  LET paths == Candidates(path, name)
      k == CHOOSE k \in 1..Len(paths) :
             /\ Exists(paths[k]) \/ k = Len(paths)
             /\ \A j \in 1..(k - 1) : ~Exists(paths[j])
  IN  paths[k]

\* A file is known by its name, without the directory, and its contents.
HashFile(path) == <<Last(path), package.files[path]>>

\* A call of DoParse, which returns at once for a file it is in or has read.
\* A file that was started anew so many times has as many calls below it.
Call(path, hashes, restarts) ==
  [path |-> path, entered |-> HashFile(path) \notin hashes, include |-> 1, table |-> 1,
   restarts |-> restarts]

\* Faulty: all that has been read is forgotten.
ForgottenAll(hashes, path) == {}

\* Faulty: the file that is started anew is not forgotten.
ForgottenNone(hashes, path) == hashes

Forgotten(hashes, path) == hashes \ {HashFile(path)}

-----------------------------------------------------------------------------
(* Tables and structs.                                                     *)

\* The table or struct that a type names.
Mentions(type) ==
  CASE type.base = "struct" -> {type.name}
    [] type.base \in {"vector", "array"} ->
         IF type.elem.base = "struct" THEN {type.elem.name} ELSE {}
    [] OTHER -> {}

MentionedIn(table) == UNION {Mentions(table.fields[k].type) : k \in 1..Len(table.fields)}

NamesOf(tables) == {tables[k].name : k \in 1..Len(tables)}

\* A field must not have the name of a type or of an earlier field.
NameFree(types, table, k) ==
  /\ table.fields[k].name \notin types \union {table.name}
  /\ \A j \in 1..(k - 1) :
       /\ table.fields[k].name # table.fields[j].name
       /\ table.fields[k].name \notin Mentions(table.fields[j].type)

\* The fields at which ParseField stops.
FieldsRefused(defs, types, table) ==
  {k \in 1..Len(table.fields) :
     \/ ~NameFree(types, table, k)
     \/ IF table.struct THEN \/ ~FitsStruct(defs, table, table.fields[k].type)
                             \/ table.fields[k].deprecated
        ELSE ~FitsTable(table.fields[k].type)}

\* CheckClash: no field has the name of a function of another.
NoClash(table) ==
  \A e, f \in Range(table.fields) : <<e.name, f.name, f.type.base>> \notin Accessors

HasSize(table) ==
  table.struct => \E k \in 1..Len(table.fields) : Mentions(table.fields[k].type) # {table.name}

\* StartStruct, the fields and the end of ParseDecl, but for the ids.  A
\* struct of nothing but itself has size 0.
Accepted(defs, types, table) ==
  /\ table.name \notin NamesOf(defs)
  /\ FieldsRefused(defs, types, table) = {}
  /\ NoClash(table)
  /\ HasSize(table)

\* Faulty: what is only named so far is marked too, and nothing takes the
\* mark away when it is defined.
MarkedAll(names, defs, named) == names \union NamesOf(defs) \union named

\* MarkGenerated: no code for the definitions of the files included.
Marked(names, defs, named) == names \union NamesOf(defs)

\* HasCircularStructDependency: a cycle through fields, not through arrays.
Circular(defs) ==
  \E S \in SUBSET StructsOf(defs) \ {{}} :
    \A k \in 1..Len(defs) :
      defs[k].name \in S =>
        \E j \in 1..Len(defs[k].fields) :
          defs[k].fields[j].type.base = "struct" /\ defs[k].fields[j].type.name \in S

-----------------------------------------------------------------------------
ReaderInit ==
  /\ package = NoPackage /\ reading = "no"
  /\ calls = <<>> /\ included = {}
  /\ defined = <<>> /\ forward = {} /\ marked = {}

\* GenerateCode makes a new parser for the file.
StartReading(p) ==
  /\ reading \in {"no", "error"}
  /\ package' = p /\ reading' = "reading"
  /\ calls' = <<[path |-> p.root, entered |-> TRUE, include |-> 1, table |-> 1, restarts |-> 0]>>
  /\ included' = {<<Last(p.root), p.files[p.root]>>}
  /\ defined' = <<>> /\ forward' = {} /\ marked' = {}

This == calls[Len(calls)]
Outer == SubSeq(calls, 1, Len(calls) - 1)
Contents(path) == package.files[path]
InFile == reading = "reading" /\ calls # <<>> /\ This.entered

ReadFails ==
  /\ reading' = "error"
  /\ calls' = <<>> /\ included' = {}
  /\ defined' = <<>> /\ forward' = {} /\ marked' = {}
  /\ UNCHANGED package

EmptyFile == InFile /\ Contents(This.path).blank /\ ReadFails

AtInclude == InFile /\ ~Contents(This.path).blank /\ This.include <= Len(Contents(This.path).includes)
Include == Located(This.path, Contents(This.path).includes[This.include])

MissingInclude == AtInclude /\ ~Exists(Include) /\ ReadFails

\* Faulty: the include is not left behind.
SkipIncludeInPlace ==
  AtInclude /\ Exists(Include) /\ HashFile(Include) \in included /\ UNCHANGED readerVars

SkipInclude ==
  /\ AtInclude /\ Exists(Include) /\ HashFile(Include) \in included
  /\ calls' = Append(Outer, [This EXCEPT !.include = @ + 1])
  /\ UNCHANGED <<package, reading, included, defined, forward, marked>>

EnterInclude ==
  /\ AtInclude /\ Exists(Include) /\ HashFile(Include) \notin included
  /\ calls' = Append(calls, Call(Include, included, 0))
  /\ included' = included \union {HashFile(Include)}
  /\ UNCHANGED <<package, reading, defined, forward, marked>>

AtTable ==
  /\ InFile /\ ~Contents(This.path).blank
  /\ This.include > Len(Contents(This.path).includes)
  /\ This.table <= Len(Contents(This.path).tables)
Table == Contents(This.path).tables[This.table]

\* The types that are known by name.
Types == NamesOf(defined) \union forward

DefineTable ==
  /\ AtTable /\ Accepted(defined, Types, Table)
  /\ defined' = Append(defined, Table)
  /\ forward' = (forward \union MentionedIn(Table)) \ ({Table.name} \union NamesOf(defined))
  /\ calls' = Append(Outer, [This EXCEPT !.table = @ + 1])
  /\ UNCHANGED <<package, reading, included, marked>>

RefuseTable == AtTable /\ ~Accepted(defined, Types, Table) /\ ReadFails

\* The end of a file, or of a call that returned at once.
AtReturn ==
  /\ reading = "reading" /\ calls # <<>>
  /\ This.entered =>
       /\ ~Contents(This.path).blank
       /\ This.include > Len(Contents(This.path).includes)
       /\ This.table > Len(Contents(This.path).tables)

\* Back in the file that has the include, which is started anew.
ReturnToIncluder ==
  /\ AtReturn /\ Len(calls) > 1
  /\ LET includer == calls[Len(calls) - 1]
         path == includer.path
         rest == Forgotten(included, path)
     IN  /\ calls' = [Outer EXCEPT ![Len(Outer)] = Call(path, rest, includer.restarts + 1)]
         /\ included' = rest \union {HashFile(path)}
  /\ marked' = IF package.all THEN marked ELSE Marked(marked, defined, forward)
  /\ UNCHANGED <<package, reading, defined, forward>>

\* Faulty: types that are only named are let through.
AllDefinedUnchecked(defs, named) == ~Circular(defs)

\* ParseRoot's check of the types named, and flatc's of the structs.
AllDefined(defs, named) == named = {} /\ ~Circular(defs)

ReturnFromRoot == AtReturn /\ Len(calls) = 1

RefusePackage == ReturnFromRoot /\ ~AllDefined(defined, forward) /\ ReadFails

\* What the parser holds when it has read all.
SchemaRead ==
  [k \in 1..Len(defined) |-> [defined[k] EXCEPT !.generated = defined[k].name \in marked]]

AcceptPackage ==
  /\ ReturnFromRoot /\ AllDefined(defined, forward)
  /\ reading' = "ok"
  /\ calls' = <<>> /\ included' = {}
  /\ defined' = <<>> /\ forward' = {} /\ marked' = {}
  /\ UNCHANGED package

ReadOn ==
  \/ EmptyFile \/ MissingInclude \/ SkipInclude \/ EnterInclude
  \/ DefineTable \/ RefuseTable \/ ReturnToIncluder \/ RefusePackage
=============================================================================
