----------------------------- MODULE UncachedSSZ -----------------------------
(***************************************************************************)
(* An SSZ value without a cache (SizzLean, Cache/Uncached.lean): an update *)
(* changes the value at once and a root is computed from the value each    *)
(* time.  It is what the cached flavour promises to callers, who choose    *)
(* between the two by a constructor and cannot tell them apart.            *)
(***************************************************************************)
EXTENDS SszValue

CONSTANTS
  T,           (* The shape of the value.                                   *)
  Values,      (* Values it may be built from.                              *)
  Statements   (* Updates callers make: sequences of clauses.               *)

VARIABLES
  view,  (* The value.                                                      *)
  root   (* The root read since the last update, or NoRoot.                 *)

NoRoot == <<>>

Init == view \in Values /\ root = NoRoot

Update(clauses) == view' = Updated(view, clauses) /\ root' = NoRoot

ReadRoot == root' = HashTreeRoot(T, view) /\ UNCHANGED view

Next == (\E clauses \in Statements : Update(clauses)) \/ ReadRoot

Spec == Init /\ [][Next]_<<view, root>>
=============================================================================
