--------------------------- MODULE SampleSchemas ---------------------------
(***************************************************************************)
(* Fields and tables for the instances that TLC checks.                    *)
(***************************************************************************)
EXTENDS SszSchema

F(name, type, id) ==
  [name |-> name, type |-> type, id |-> id, deprecated |-> FALSE, attr |-> "none", max |-> <<>>]
Plain(name, type) == F(name, type, NoId)
Limited(field, numbers) == [field EXCEPT !.max = numbers]
Attr(field, attr) == [field EXCEPT !.attr = attr]
Deprecated(field) == [field EXCEPT !.deprecated = TRUE]

T(name, fields) ==
  [name |-> name, progressive |-> FALSE, struct |-> FALSE, generated |-> FALSE, fields |-> fields]
Struct(name, fields) == [T(name, fields) EXCEPT !.struct = TRUE]
Progressive(name, fields) == [T(name, fields) EXCEPT !.progressive = TRUE]
Included(table) == [table EXCEPT !.generated = TRUE]
=============================================================================
