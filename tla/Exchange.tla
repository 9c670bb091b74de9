------------------------------ MODULE Exchange ------------------------------
(***************************************************************************)
(* Values of one type on their way from one program to another.  A program *)
(* written in some language encodes a value; the message may be damaged; a *)
(* program written in another decodes it.  A receiver in Go decodes into   *)
(* an object that it keeps from message to message, as UnmarshalSSZ        *)
(* allows; the others make a new one.                                      *)
(***************************************************************************)
EXTENDS SszCodec

CONSTANTS
  Types,      (* The analysis of each table that is exchanged, by name.     *)
  Values,     (* The values that are sent, by name of the table.            *)
  MaxSends    (* Bound on the messages.                                     *)

ASSUME SendsAssumption == MaxSends \in Nat

VARIABLES
  table,      (* The table that is exchanged.                               *)
  pc,         (* "idle" or "wire".                                          *)
  value,      (* The value that was sent last.                              *)
  message,    (* Its encoding, as it is on the wire.                        *)
  damaged,    (* Whether a message was ever altered.                        *)
  object,     (* The object of the receiver in Go.                          *)
  got,        (* How the last decoding ended, and what it gave.             *)
  before,     (* History: object before the last decoding.                  *)
  sends       (* The number of messages so far.                             *)

vars == <<table, pc, value, message, damaged, object, got, before, sends>>

type == Types[table]

Nothing == [rt |-> "none", st |-> "none"]

Init ==
  /\ table \in DOMAIN Types
  /\ pc = "idle" /\ message = <<>> /\ damaged = FALSE /\ sends = 0
  /\ object = Zero(type) /\ value = Zero(type) /\ before = Zero(type)
  /\ got = Nothing

\* MarshalSSZ, ssz_append, sszAppend: patched or precomputed offsets.
Send(encoding) ==
  /\ pc = "idle" /\ sends < MaxSends
  /\ \E v \in Values[table] :
       /\ value' = v
       /\ message' = IF encoding = "patched" THEN SszAppend(<<>>, type, v)
                     ELSE SszWrite(type, v)
  /\ pc' = "wire" /\ sends' = sends + 1
  /\ got' = Nothing /\ before' = object
  /\ UNCHANGED <<table, damaged, object>>

Damage(altered) ==
  /\ pc = "wire" /\ ~damaged
  /\ message' = altered /\ damaged' = TRUE
  /\ UNCHANGED <<table, pc, value, object, got, before, sends>>

Corrupt == \E k \in 1..Len(message), cell \in Cells :
             cell # message[k] /\ Damage([message EXCEPT ![k] = cell])
Truncate == \E n \in 0..(Len(message) - 1) : Damage(SubSeq(message, 1, n))
Extend == \E cell \in {0, 1} : Damage(Append(message, cell))

\* from_ssz_bytes and its like.
ReceiveNew(rt) ==
  /\ pc = "wire" /\ rt # "go"
  /\ LET r == DecodeNew(rt, type, message)
     IN  got' = IF r.st = "ok" THEN [rt |-> rt, st |-> "ok", value |-> r.value]
                ELSE [rt |-> rt, st |-> r.st]
  /\ pc' = "idle"
  /\ UNCHANGED <<table, value, message, damaged, object, before, sends>>

\* UnmarshalSSZ.  An error leaves what was written so far.
ReceiveGo ==
  /\ pc = "wire"
  /\ LET r == Decode("go", type, message, 0, Len(message), object)
     IN  /\ object' = r.value
         /\ got' = IF r.st = "ok" THEN [rt |-> "go", st |-> "ok", value |-> r.value]
                   ELSE [rt |-> "go", st |-> r.st]
  /\ pc' = "idle"
  /\ UNCHANGED <<table, value, message, damaged, before, sends>>

Next ==
  \/ \E encoding \in {"patched", "precomputed"} : Send(encoding)
  \/ Corrupt \/ Truncate \/ Extend
  \/ \E rt \in Receivers(type) : ReceiveNew(rt)
  \/ ReceiveGo

Spec == Init /\ [][Next]_vars

-----------------------------------------------------------------------------
(* Properties.                                                             *)

Sent == pc = "wire" /\ ~damaged

\* Objects have the form of their type, except for elements not set.
RECURSIVE HasForm(_, _)
HasForm(info, v) ==
  CASE info.ssz = "bool" -> v \in BOOLEAN
    [] info.ssz = "uint" -> v \in 0..(Base^info.size - 1)
    [] info.ssz = "bitvector" -> v \in [1..info.size -> Cells]
    [] info.ssz = "bitlist" -> \A k \in 1..Len(v) : v[k] \in Cells
    [] info.ssz = "container" ->
         /\ DOMAIN v = 1..Len(info.of.infos)
         /\ \A k \in DOMAIN v : HasForm(info.of.infos[k], v[k])
    [] OTHER ->
         /\ info.ssz = "vector" => Len(v) = info.limit
         /\ \A k \in 1..Len(v) : v[k] = Nil \/ HasForm(info.elem, v[k])

TypeOK ==
  /\ table \in DOMAIN Types /\ pc \in {"idle", "wire"}
  /\ \A k \in 1..Len(message) : message[k] \in Cells
  /\ HasForm(type, object)
  /\ damaged \in BOOLEAN /\ sends \in 0..MaxSends

\* The buffer that is allocated is as long as the encoding (GenSizeMethod
\* against GenMarshalMethod; Zig's offsets rely on it).
SizeRight == Sent => Len(message) = Size(type, value)

\* A value has one encoding, whichever way the offsets are found
\* (GenMarshalMethod of Rust and the others, GenOffsetIncrement of Zig).
EncodersAgree ==
  Sent => message = SszAppend(<<>>, type, value) /\ message = SszWrite(type, value)

\* What one language sends, every other that the type compiles in receives,
\* into a new object (GenUnmarshalMethod, UnmarshalSSZ).
RoundTrip ==
  Sent => \A rt \in Receivers(type) : DecodeNew(rt, type, message) = Ok(value)

\* Whatever happened to a message, two languages that accept it take it for
\* the same value, though they check different things.
AcceptorsAgree ==
  pc = "wire" =>
    LET results == {DecodeNew(rt, type, message) : rt \in Receivers(type)}
    IN  Cardinality({r \in results : r.st = "ok"}) <= 1

\* No accepted message is shorter than what its value needs, and the
\* languages that reject a bool above 1 accept one message of that length
\* only: the encoding.
AcceptedIsCanonical ==
  pc = "wire" =>
    \A rt \in Receivers(type) :
      LET r == DecodeNew(rt, type, message)
      IN  r.st = "ok" =>
            /\ Size(type, r.value) <= Len(message)
            /\ rt \in {"go", "ts", "csharp"} /\ Size(type, r.value) = Len(message)
                 => SszAppend(<<>>, type, r.value) = message

\* v is the new value, but for lists between offsets that the new value has
\* empty: these may be those of old.
RECURSIVE Replaces(_, _, _, _)
Replaces(info, old, new, v) ==
  CASE info.ssz = "container" ->
         \A k \in 1..Len(info.of.infos) : Replaces(info.of.infos[k], old[k], new[k], v[k])
    [] info.ssz \in {"list", "progressive_list"} /\ info.elem.dynamic /\ new = <<>> ->
         v \in {new, old}
    [] OTHER -> v = new

\* After UnmarshalSSZ succeeds, nothing of the object's earlier content is
\* left, also not of one that failed half way, except for lists of elements
\* between offsets when the new one is empty (GenUnmarshalDynField of Go).
ReuseExplained ==
  got.rt = "go" /\ got.st = "ok" =>
    Replaces(type, before, DecodeNew("go", type, message).value, got.value)

\* Whether a view of the type leaves parts of the message unchecked that
\* to_owned_type decodes: tables and lists that hold offsets of their own.
RECURSIVE LeavesUnchecked(_)
LeavesUnchecked(container) ==
  \E k \in 1..Len(container.infos) :
    LET info == container.infos[k]
    IN  \/ info.dynamic /\ info.ssz = "container"
        \/ info.dynamic /\ info.ssz \in {"list", "progressive_list"} /\ info.elem.dynamic

\* A message that passes the checks of a view converts to an owned value
\* without a panic, when the type has no offsets below its own; for a list
\* of tables the converse of the checks: no view is refused whose fields
\* decode to a value of this very encoding (GenViewImpl, to_owned_type).
ViewConverts ==
  pc = "wire" /\ "rust" \in Receivers(type) =>
    LET valid == ViewValid(type.of, message, 0, Len(message))
        owned == DecodeNew("rust", type, message)
    IN  /\ valid /\ ~LeavesUnchecked(type.of) => owned.st = "ok"
        /\ owned.st = "ok" /\ SszAppend(<<>>, type, owned.value) = message => valid

\* A view shows the owned value, wherever from_ssz_bytes of both accept, also
\* through the views of elements and nested tables that nothing checked: the
\* root that a view hashes from its cells is then the owned value's.  Without
\* offsets below its own no accessor of a valid view panics
\* (GenViewDynAccessor against GenUnmarshalDynExpr).
ViewShowsOwned ==
  pc = "wire" /\ "rust" \in Receivers(type) /\ ViewValid(type.of, message, 0, Len(message)) =>
    LET owned == DecodeNew("rust", type, message)
    IN  owned.st = "ok" \/ ~LeavesUnchecked(type.of)
          => ViewRead(type, message, 0, Len(message)) = owned.value
=============================================================================
