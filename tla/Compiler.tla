------------------------------ MODULE Compiler ------------------------------
(***************************************************************************)
(* flatc on packages of files: it reads a package, and if that ends well   *)
(* it generates code from what it has read.  Then the package may be       *)
(* another one, over the files that the run before has left.               *)
(***************************************************************************)
EXTENDS Flatc, SchemaReader

compilerVars == <<vars, readerVars>>

CompilerInit == Init /\ schema = <<>> /\ ReaderInit

Read(p) == /\ pc = "idle" /\ runs < MaxRuns
           /\ StartReading(p)
           /\ UNCHANGED vars

ReadMore == ReadOn /\ UNCHANGED vars

\* The parser's tables are the schema of the run: Edit, or nothing.
ReadAll ==
  /\ AcceptPackage
  /\ schema' = SchemaRead
  /\ UNCHANGED <<lang, pc, parsed, next, stack, code, disk, result, before, runs>>

Generate(l) ==
  /\ reading = "ok"
  /\ Run(l)
  /\ reading' = "no" /\ package' = NoPackage
  /\ UNCHANGED <<calls, included, defined, forward, marked>>

\* What flatc does by itself once it is started.
Process ==
  \/ ReadMore \/ ReadAll
  \/ \E l \in {"go", "rust"} : Generate(l)
  \/ Step /\ UNCHANGED readerVars

CompilerNext == (\E p \in Packages : Read(p)) \/ Process

CompilerSpec == CompilerInit /\ [][CompilerNext]_compilerVars /\ WF_compilerVars(Process)

-----------------------------------------------------------------------------
(* Reference definitions.                                                  *)

\* A walk over the files, depth first and each file once: the files entered,
\* those left, in order, and whether one was missing or empty.
FilesRead ==
  LET Paths == DOMAIN package.files
      Walks == [entered : SUBSET {HashFile(p) : p \in Paths}, left : Seq(Paths), broken : BOOLEAN]
      Walk[n \in 0..Cardinality(Paths), name \in UNION {Range(package.files[p].includes) : p \in Paths},
           from \in Paths, walk \in Walks] ==
        LET path == Located(from, name)
        IN  IF ~Exists(path) THEN [walk EXCEPT !.broken = TRUE]
            ELSE IF HashFile(path) \in walk.entered THEN walk
            ELSE LET Through[k \in 0..Len(Contents(path).includes)] ==
                       IF k = 0 THEN [walk EXCEPT !.entered = @ \union {HashFile(path)},
                                                  !.broken = @ \/ Contents(path).blank]
                       ELSE Walk[n - 1, Contents(path).includes[k], path, Through[k - 1]]
                 IN  [Through[Len(Contents(path).includes)] EXCEPT !.left = Append(@, path)]
      Root[k \in 0..Len(Contents(package.root).includes)] ==
        IF k = 0 THEN [entered |-> {HashFile(package.root)}, left |-> <<>>,
                       broken |-> Contents(package.root).blank]
        ELSE Walk[Cardinality(Paths), Contents(package.root).includes[k], package.root, Root[k - 1]]
  IN  [Root[Len(Contents(package.root).includes)] EXCEPT !.left = Append(@, package.root)]

\* The tables of the files, in that order; those of the root are to generate.
TablesRead ==
  LET Of(path) ==
        [k \in 1..Len(Contents(path).tables) |->
           [Contents(path).tables[k] EXCEPT !.generated = path # package.root /\ ~package.all]]
  IN  FoldLeft(LAMBDA sofar, path : sofar \o Of(path), <<>>, FilesRead.left)

\* A sequence of tables that is a schema.
Declarable(tables) ==
  LET Upto(k) == {tables[j].name : j \in 1..k}
      Said(k) == Upto(k) \union UNION {MentionedIn(tables[j]) : j \in 1..(k - 1)}
      Elem(type) == IF type.base = "array" THEN type.elem ELSE type
      Inner(k) == {j \in 1..(k - 1) : tables[j].struct}
  IN  \A k \in 1..Len(tables) :
        LET t == tables[k]
        IN  /\ t.name \notin Upto(k - 1)
            /\ MentionedIn(t) \subseteq Upto(Len(tables))
            /\ Cardinality({t.fields[i].name : i \in 1..Len(t.fields)}) = Len(t.fields)
            /\ \A accessor \in Accessors :
                 accessor[1] \in {t.fields[i].name : i \in 1..Len(t.fields)} =>
                   \A f \in Range(t.fields) :
                     f.name = accessor[2] => f.type.base # accessor[3]
            /\ \A i \in 1..Len(t.fields) :
                 t.fields[i].name \notin
                   Said(k) \union UNION {Mentions(t.fields[j].type) : j \in 1..(i - 1)}
            /\ IF ~t.struct THEN \A f \in Range(t.fields) : f.type.base # "array"
               ELSE /\ \A f \in Range(t.fields) :
                         /\ ~f.deprecated
                         /\ f.type # TableType(t.name)
                         /\ \/ Elem(f.type).base \in Scalars
                            \/ Elem(f.type).base = "struct" /\
                                 Elem(f.type).name \in {tables[j].name : j \in Inner(k) \union {k}}
                    /\ \E f \in Range(t.fields) : Elem(f.type) # TableType(t.name)

-----------------------------------------------------------------------------
(* Properties.                                                             *)

\* Reading ends well just when each file that is named is there and their
\* tables make a schema, whatever file includes whatever other; the parser
\* then holds each table once, in the order in which the files end, and those
\* of the root file are the ones that code is generated for (DoParse, which
\* starts the file anew after each include, and MarkGenerated).
ReadRight ==
  LET right == ~FilesRead.broken /\ Declarable(TablesRead)
  IN  /\ reading = "ok" => right /\ schema = TablesRead
      /\ reading = "error" => ~right

\* A schema as the generators take it for granted: tables of different names,
\* each defined in a file of the package, whose fields are of tables among
\* them; all but those of the root file are marked.
IsSourceOf(tables) ==
  /\ IsSource(tables)
  /\ \A k \in 1..Len(tables) :
       /\ \E path \in DOMAIN package.files :
            [tables[k] EXCEPT !.generated = FALSE] \in Range(Contents(path).tables)
       /\ tables[k].generated <=>
            ~package.all /\ tables[k].name \notin NamesOf(Contents(package.root).tables)

\* What has been read is such a schema (StartStruct, the check for types not
\* defined in ParseRoot, and MarkGenerated).
ReadIsSource == reading = "ok" => IsSourceOf(schema)

\* DoParse calls itself to read a file and to start one anew.  "This is
\* recursive, but only go as deep as the number of include statements": no
\* deeper than all of these in the package, below the first call.
RecursionBounded ==
  LET files == package.files
      ofDoParse == UNION {{k} \X (0..calls[k].restarts) : k \in DOMAIN calls}
      includes == UNION {{path} \X (1..Len(files[path].includes)) : path \in DOMAIN files}
  IN  Cardinality(ofDoParse) <= Cardinality(includes) + 1

\* Reading a package ends, also when files include each other (DoParse, which
\* forgets the file it starts anew).
ReadingEnds == (reading = "reading") ~> (reading # "reading")

\* Reading packages and generating code from them is editing the schema and
\* running flatc on it, as module Flatc has them.
ImplementsFlatc == Init /\ [][Next]_vars
=============================================================================
