------------------------------ MODULE MCFlatc ------------------------------
(***************************************************************************)
(* Instances of Flatc for TLC: versions of a package of a table Outer and  *)
(* the type Inner of its fields, right and wrong.                          *)
(***************************************************************************)
EXTENDS Depths, SampleSchemas, TLC

Inner1 == Struct("Inner", <<Plain("a", UintType(2)), Plain("b", BoolType)>>)
Inner2 == Struct("Inner", <<Attr(Plain("bits", ArrayType(UintType(1), 3)), "bitvector"),
                            Attr(Limited(Plain("few", ArrayType(UintType(1), 2)), <<9>>), "bitvector"),
                            Plain("v", ArrayType(UintType(2), 2))>>)
Inner3 == T("Inner", <<Limited(Plain("s", StringType), <<8>>), Plain("n", UintType(8))>>)

InnerType == TableType("Inner")
BitsOfSize(n) == Attr(Limited(Plain("bits", ArrayType(UintType(1), 2)), <<n>>), "bitvector")

Sound ==
  {<<Inner1, T("Outer", <<Plain("x", UintType(1)), Plain("in", InnerType),
                          Limited(Plain("l", VectorType(InnerType)), <<4>>)>>)>>,
   <<T("Outer", <<F("in", InnerType, 1), F("y", UintType(4), 0)>>), Inner2>>,
   <<T("Outer", <<Plain("x", BoolType), Plain("x_length", BoolType), Deprecated(Plain("me", TableType("Outer")))>>)>>,
   <<Inner3, T("Outer", <<Plain("in", InnerType),
                          Deprecated(Plain("old", UintType(8))),
                          Limited(Plain("names", VectorType(StringType)), <<4, 8>>)>>)>>,
   <<Included(Inner1),
     Progressive("Outer", <<F("in", InnerType, 4), F("x", UintType(8), 1),
                            Deprecated(F("gone", UintType(8), 2))>>)>>,
   <<T("Outer", <<Attr(Limited(Plain("b", VectorType(BoolType)), <<9>>), "bitlist"),
                  Attr(Plain("p", VectorType(BoolType)), "progressive_bitlist"),
                  Attr(Plain("l", VectorType(InnerType)), "progressive_list")>>), Inner1>>}

\* Bounds below, at and above each width, for chunks of 8 bytes and words of
\* 10 bits, in fields named by their places.
ListsOf(elem, numbers) ==
  [k \in 1..Len(numbers) |-> Limited(Plain("l", VectorType(elem)), <<numbers[k]>>)]
Numbered(fields) ==
  [k \in 1..Len(fields) |-> [fields[k] EXCEPT !.name = ToString(k)]]
BitLists(numbers) ==
  [k \in 1..Len(numbers) |->
     Attr(Limited(Plain("b", VectorType(BoolType)), <<numbers[k]>>), "bitlist")]
Strings(numbers) ==
  [k \in 1..Len(numbers) |-> Limited(Plain("s", VectorType(StringType)), <<7, numbers[k]>>)]

\* Hash methods that compile with every runtime; with a literal that is no int
\* of Java; with a nested type; with integers of a size that neither
\* TypeScript nor Java takes.
Bounds ==
  {<<T("Outer", Numbered(
       ListsOf(UintType(1), <<1, 8, 9, 56, 1017, 1018>>)
         \o ListsOf(BoolType, <<8, 9, 56, 1017, 1018>>)
         \o ListsOf(UintType(8), <<1, 2, 7>>) \o BitLists(<<1, 7>>) \o Strings(<<3, 56>>)))>>,
   <<T("Outer", Numbered(
       ListsOf(UintType(1), <<57, 64, 65, 128, 129, 200>>)
         \o ListsOf(UintType(8), <<8, 9, 16, 17, 127, 128, 1023>>)
         \o BitLists(<<64, 65, 448, 449, 513, 960, 961>>) \o Strings(<<64, 65>>)))>>,
   <<T("Outer", Numbered(ListsOf(InnerType, <<1, 3, 8, 9, 12, 16, 17, 512, 513, 1023>>))),
     Struct("Inner", <<Plain("n", UintType(8))>>)>>,
   <<T("Outer", Numbered(ListsOf(UintType(2), <<4, 5, 28, 32, 33, 64, 65, 508, 509, 1021, 1022>>)))>>}

\* Sizes beyond 256: of an element, by a product; of the type, by a sum over
\* it; and a bit vector, as it is read and as it is rounded up.
Wide ==
  {<<Struct("Inner", <<Plain("v", ArrayType(UintType(8), 24)), BitsOfSize(248)>>),
     Struct("Outer", <<Plain("in", InnerType), Plain("more", ArrayType(InnerType, 3))>>)>>,
   <<Struct("Inner", <<Plain("v", ArrayType(UintType(8), 32))>>),
     T("Outer", <<Plain("in", InnerType), Plain("x", BoolType)>>)>>,
   <<Struct("Inner", <<BitsOfSize(249)>>),
     T("Outer", <<Plain("in", InnerType), Plain("wide", TableType("Wide"))>>),
     Struct("Wide", <<BitsOfSize(265), Plain("x", BoolType)>>)>>}

\* Accepted, with a field that no leaf holds.
SameId == <<Progressive("Outer", <<F("x", UintType(8), 3), F("y", UintType(8), 3)>>)>>
NoIds == <<Progressive("Outer", <<Plain("x", UintType(8)), Plain("y", BoolType)>>)>>

\* Stopped by the parser, by the analysis, or by its stack.
Refused ==
  {<<Inner2, T("Outer", <<F("in", InnerType, 0), F("x", UintType(1), 2)>>)>>,
   <<Inner2, Progressive("Outer", <<F("x", UintType(1), 256)>>)>>,
   <<Inner2, T("Outer", <<F("x", UintType(1), 0), Plain("y", UintType(1))>>)>>,
   <<Inner2, T("Outer", <<Plain("in", InnerType), Plain("f", FloatType)>>)>>,
   <<T("Outer", <<Plain("in", InnerType)>>), T("Inner", <<Plain("f", FloatType)>>)>>,
   <<Inner3, T("Outer", <<Plain("l", VectorType(InnerType))>>)>>,
   <<Inner1, T("Outer", <<Limited(Plain("l", VectorType(FloatType)), <<4>>)>>)>>,
   <<Inner1, T("Outer", <<Plain("in", InnerType),
                          Limited(Plain("more", VectorType(TableType("Outer"))), <<4>>)>>)>>}

MCSources == Sound \union Wide \union Bounds \union {SameId, NoIds} \union Refused
UniqueIds == {SameId}
=============================================================================
