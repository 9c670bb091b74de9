----------------------------- MODULE MCExchange -----------------------------
(***************************************************************************)
(* An instance of Exchange for TLC: a type for each kind of field, and     *)
(* values with empty and full lists.                                       *)
(***************************************************************************)
EXTENDS Exchange, SampleSchemas

U8 == UintType(1)
U16 == UintType(2)

\* A struct of fixed size, a table of variable size.
Pair == Struct("Pair", <<Plain("a", U8), Plain("b", BoolType)>>)
Note == T("Note", <<Plain("n", U8), Limited(Plain("s", StringType), <<4>>)>>)

FixedTable ==
  Struct("Fixed", <<Plain("flag", BoolType), Plain("n", U16), Plain("pair", TableType("Pair")),
                    Attr(Limited(Plain("bits", ArrayType(U8, 2)), <<9>>), "bitvector"),
                    Plain("root", ArrayType(U8, 2))>>)
FlatTable ==
  T("Flat", <<Attr(Limited(Plain("bits", VectorType(BoolType)), <<9>>), "bitlist"),
              Plain("ok", BoolType),
              Limited(Plain("nums", VectorType(U16)), <<4>>),
              Limited(Plain("pairs", VectorType(TableType("Pair"))), <<4>>)>>)
StringsTable ==
  T("Strings", <<Limited(Plain("names", VectorType(StringType)), <<4, 4>>),
                 Attr(Plain("flags", VectorType(BoolType)), "progressive_list")>>)
\* Arrays in structs: of booleans, and of structs.
FlagsTable ==
  Struct("Flags", <<Plain("n", U8), Plain("flags", ArrayType(BoolType, 2)), Plain("m", U8)>>)
PairsTable ==
  Struct("Pairs", <<Plain("n", U8), Plain("pairs", ArrayType(TableType("Pair"), 2))>>)

NestedTable ==
  T("Nested", <<Plain("note", TableType("Note")),
                Limited(Plain("notes", VectorType(TableType("Note"))), <<4>>)>>)

Package == <<Pair, Note, FixedTable, FlatTable, StringsTable, NestedTable,
             FlagsTable, PairsTable>>
TypeOf(name) == ContainerInfo(Analysis(Package)[name])

MCTypes == [Fixed |-> TypeOf("Fixed"), Flat |-> TypeOf("Flat"),
            Strings |-> TypeOf("Strings"), Nested |-> TypeOf("Nested"),
            Flags |-> TypeOf("Flags")]
StructArrays == [Pairs |-> TypeOf("Pairs")]

MCValues ==
  [Fixed |-> {<<TRUE, 11, <<3, FALSE>>, <<7, 1>>, <<0, 4>>>>},
   Flat |-> {<<<<1>>, TRUE, <<>>, <<<<7, TRUE>>>>>>,
             <<<<5, 3>>, FALSE, <<12, 1>>, <<<<1, TRUE>>, <<0, FALSE>>>>>>},
   Strings |-> {<<<<>>, <<>>>>, <<<<<<>>, <<5>>>>, <<TRUE, FALSE>>>>,
                <<<<<<0, 0>>>>, <<TRUE>>>>},
   Nested |-> {<<<<1, <<>>>>, <<>>>>, <<<<2, <<3>>>>, <<<<0, <<>>>>, <<1, <<4>>>>>>>>},
   Flags |-> {<<3, <<TRUE, FALSE>>, 1>>, <<0, <<FALSE, TRUE>>, 5>>},
   Pairs |-> {<<3, <<<<1, TRUE>>, <<2, FALSE>>>>>>}]
=============================================================================
