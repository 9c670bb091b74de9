----------------------------- MODULE MCCompiler -----------------------------
(***************************************************************************)
(* Packages for flatc: each schema of MCFlatc in one file or, where one of *)
(* its tables is included, in two; and directories of files that include   *)
(* each other in every way.                                                *)
(***************************************************************************)
EXTENDS Compiler, MCFlatc

Text(includes, tables) == [blank |-> FALSE, includes |-> includes, tables |-> tables]
Dir(files) == [files |-> files, root |-> <<"root">>, dirs |-> <<>>, all |-> FALSE]
OneFile(tables) == Dir((<<"root">> :> Text(<<>>, tables)))

MCAccessors ==
  {<<"x_length", "x", "vector">>, <<"xLength", "x", "vector">>,
   <<"x_byte_vector", "x", "string">>, <<"xByteVector", "x", "string">>}

\* Tables named by letters, of other tables or structs.
Of(name, fields) == T(name, [k \in 1..Len(fields) |-> Plain(ToString(k), TableType(fields[k]))])
StructOf(name, fields) ==
  Struct(name, <<Plain("n", BoolType)>> \o
               [k \in 1..Len(fields) |-> Plain(ToString(k), TableType(fields[k]))])
Leaf(name) == T(name, <<Plain("x", BoolType)>>)

SplitSchema == CHOOSE s \in Sources : \E k \in 1..Len(s) : s[k].generated
Split ==
  Dir((<<"root">> :> Text(<<<<"lib", "inner">>>>, <<SplitSchema[2]>>)) @@
      (<<"lib", "inner">> :> Text(<<>>, <<[SplitSchema[1] EXCEPT !.generated = FALSE]>>)))

\* Files that include each other and themselves; a forward reference from
\* the included file to a table of the root.
Cycle ==
  Dir((<<"root">> :> Text(<<<<"b">>, <<"root">>>>, <<Leaf("A")>>)) @@
      (<<"b">> :> Text(<<<<"c">>>>, <<Of("B", <<"A">>)>>)) @@
      (<<"c">> :> Text(<<<<"root">>, <<"b">>>>, <<Of("C", <<"A">>)>>)))

\* Two ways to one file; a file that declares no table.
Diamond ==
  Dir((<<"root">> :> Text(<<<<"l">>, <<"r">>>>, <<Of("A", <<"L", "R">>)>>)) @@
      (<<"l">> :> Text(<<<<"attributes">>, <<"base">>>>, <<Of("L", <<"B">>)>>)) @@
      (<<"r">> :> Text(<<<<"base">>, <<"attributes">>>>, <<StructOf("R", <<"B">>)>>)) @@
      (<<"attributes">> :> Text(<<<<"base">>>>, <<>>)) @@
      (<<"base">> :> Text(<<>>, <<StructOf("B", <<>>)>>)))

\* A package of which only the root file declares a table.
Bare ==
  Dir((<<"root">> :> Text(<<<<"attributes">>>>, <<Leaf("A")>>)) @@
      (<<"attributes">> :> Text(<<>>, <<>>)))

\* Copies of a file in two directories: the second is not read, nor what it
\* includes.
Copies ==
  Dir((<<"root">> :> Text(<<<<"v1", "t">>, <<"v2", "t">>>>, <<Of("A", <<"T">>)>>)) @@
      (<<"v1", "t">> :> Text(<<<<"u">>>>, <<Of("T", <<"U">>)>>)) @@
      (<<"v2", "t">> :> Text(<<<<"u">>>>, <<Of("T", <<"U">>)>>)) @@
      (<<"v1", "u">> :> Text(<<>>, <<Leaf("U")>>)) @@
      (<<"v2", "u">> :> Text(<<>>, <<Leaf("U"), Leaf("V")>>)))

\* A file found in a directory of -I, which has one of its own beside it.
Elsewhere ==
  [Dir((<<"root">> :> Text(<<<<"t">>>>, <<Of("A", <<"T", "U">>)>>)) @@
       (<<"inc", "t">> :> Text(<<<<"u">>>>, <<Leaf("T")>>)) @@
       (<<"inc", "u">> :> Text(<<>>, <<Leaf("U")>>)) @@
       (<<"u">> :> Text(<<>>, <<Leaf("W")>>)))
   EXCEPT !.dirs = <<<<"none">>, <<"inc">>>>]

\* Wrong in one way each.
Broken ==
  {Dir((<<"root">> :> Text(<<<<"b">>>>, <<Leaf("A")>>)) @@
       (<<"b">> :> Text(<<<<"gone">>>>, <<Leaf("B")>>))),
   Dir((<<"root">> :> Text(<<<<"b">>>>, <<Leaf("A")>>)) @@ (<<"b">> :> Blank)),
   Dir((<<"root">> :> Text(<<<<"b">>>>, <<Leaf("A")>>)) @@ (<<"b">> :> Text(<<>>, <<Leaf("A")>>))),
   Dir((<<"root">> :> Text(<<<<"b">>>>, <<StructOf("A", <<>>)>>)) @@
       (<<"b">> :> Text(<<>>, <<StructOf("B", <<"A">>)>>))),
   OneFile(<<Of("A", <<"B">>)>>),
   OneFile(<<StructOf("A", <<"A">>)>>),
   OneFile(<<Struct("A", <<Plain("me", ArrayType(TableType("A"), 2))>>)>>),
   OneFile(<<Leaf("A"), StructOf("B", <<"A">>)>>),
   OneFile(<<Struct("A", <<Deprecated(Plain("x", BoolType)), Plain("y", BoolType)>>)>>),
   OneFile(<<T("A", <<Plain("a", ArrayType(BoolType, 2))>>)>>),
   OneFile(<<Struct("A", <<Plain("v", VectorType(BoolType))>>)>>),
   OneFile(<<T("A", <<Plain("x", BoolType), Plain("x", BoolType)>>)>>),
   OneFile(<<T("A", <<Plain("x_length", BoolType), Plain("x", VectorType(BoolType))>>)>>),
   OneFile(<<T("A", <<Plain("b", TableType("x")), Plain("x", BoolType)>>), Leaf("x")>>)}

\* Accepted by the parser: the cycle goes through an array.
ArrayCycle == OneFile(<<Struct("A", <<Plain("x", BoolType), Plain("me", ArrayType(TableType("A"), 2))>>)>>)

MCPackages ==
  {OneFile(s) : s \in {r \in MCSources : \A k \in 1..Len(r) : ~r[k].generated}}
    \union {Split, Cycle, Diamond, [Diamond EXCEPT !.all = TRUE], Bare, Copies, Elsewhere, ArrayCycle}
    \union Broken

\* What the parser makes of those that it accepts.
Gen(tables, n) == [k \in 1..Len(tables) |-> [tables[k] EXCEPT !.generated = k <= n]]
DiamondTables ==
  <<StructOf("B", <<>>), Of("L", <<"B">>), StructOf("R", <<"B">>), Of("A", <<"L", "R">>)>>
PackageSources ==
  MCSources \union
  {<<>>,
   Gen(<<Of("C", <<"A">>), Of("B", <<"A">>), Leaf("A")>>, 2),
   Gen(DiamondTables, 3), DiamondTables, <<Leaf("A")>>,
   Gen(<<Leaf("U"), Of("T", <<"U">>), Of("A", <<"T">>)>>, 2),
   Gen(<<Leaf("U"), Leaf("T"), Of("A", <<"T", "U">>)>>, 2),
   <<Struct("A", <<Plain("x", BoolType), Plain("me", ArrayType(TableType("A"), 2))>>)>>}
=============================================================================
