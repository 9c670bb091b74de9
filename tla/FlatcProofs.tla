---------------------------- MODULE FlatcProofs ----------------------------
(***************************************************************************)
(* Proofs about Flatc, for every set of schemas that the parser can hold,  *)
(* any stack and any number of runs: what a run that fails leaves behind,  *)
(* and which fields of a progressive table its generated root covers.      *)
(***************************************************************************)
EXTENDS Flatc, Integers, FiniteSetTheorems, SequenceTheorems, WellFoundedInduction, TLAPS

IsSeq(s) == s \in Seq(Range(s))

-----------------------------------------------------------------------------
(* Facts about sequences.                                                  *)

LEMMA SeqIs ==
  ASSUME NEW S, NEW s \in Seq(S)
  PROVE  IsSeq(s)
BY DEF IsSeq, Range

LEMMA SeqFacts ==
  ASSUME NEW s, IsSeq(s)
  PROVE  /\ Len(s) \in Nat
         /\ DOMAIN s = 1..Len(s)
         /\ s # <<>> <=> Len(s) \in Nat \ {0}
BY DEF IsSeq

LEMMA Appended ==
  ASSUME NEW s, IsSeq(s), NEW x
  PROVE  /\ IsSeq(Append(s, x))
         /\ Len(Append(s, x)) = Len(s) + 1
         /\ \A k \in 1..Len(s) : Append(s, x)[k] = s[k]
         /\ Append(s, x)[Len(s) + 1] = x
         /\ Append(s, x) # <<>>
<1> DEFINE S == Range(s) \union {x}
<1>1. s \in Seq(S)
  BY DEF IsSeq, Range
<1>2. x \in S
  OBVIOUS
<1> HIDE DEF S
<1>3. Append(s, x) \in Seq(S)
  BY <1>1, <1>2
<1>4. IsSeq(Append(s, x))
  BY <1>3, SeqIs
<1>5. /\ Len(s) \in Nat
      /\ Len(Append(s, x)) = Len(s) + 1
      /\ \A k \in 1..Len(s) : Append(s, x)[k] = s[k]
      /\ Append(s, x)[Len(s) + 1] = x
  BY <1>1, <1>2, AppendProperties
<1> QED BY <1>4, <1>5

LEMMA FrontIs ==
  ASSUME NEW s, IsSeq(s), s # <<>>
  PROVE  /\ Len(s) \in Nat \ {0}
         /\ IsSeq(SubSeq(s, 1, Len(s) - 1))
         /\ Len(SubSeq(s, 1, Len(s) - 1)) = Len(s) - 1
         /\ \A k \in 1..(Len(s) - 1) : SubSeq(s, 1, Len(s) - 1)[k] = s[k]
<1>1. Len(s) \in Nat /\ Len(s) # 0
  BY DEF IsSeq
<1> DEFINE S == Range(s)
<1>2. s \in Seq(S)
  BY DEF IsSeq
<1> HIDE DEF S
<1>3. /\ SubSeq(s, 1, Len(s) - 1) \in Seq(S)
      /\ Len(SubSeq(s, 1, Len(s) - 1)) = Len(s) - 1
      /\ \A k \in 1..(Len(s) - 1) : SubSeq(s, 1, Len(s) - 1)[k] = s[k]
  <2>1. \A k \in 1..(Len(s) - 1) : s[k] \in S
    BY <1>1, <1>2
  <2>2. Len(s) - 1 \in Int /\ 1 \in Int
    BY <1>1
  <2>3. /\ SubSeq(s, 1, Len(s) - 1) \in Seq(S)
        /\ Len(SubSeq(s, 1, Len(s) - 1)) = IF 1 <= Len(s) - 1 THEN Len(s) - 1 - 1 + 1 ELSE 0
        /\ \A k \in 1..(Len(s) - 1 - 1 + 1) : SubSeq(s, 1, Len(s) - 1)[k] = s[1 + k - 1]
    BY <2>1, <2>2, SubSeqProperties
  <2>4. \A k \in 1..(Len(s) - 1) : 1 + k - 1 = k
    BY <1>1
  <2>5. \A k \in 1..(Len(s) - 1) : s[1 + k - 1] = s[k]
    BY <2>4
  <2>6. Len(s) - 1 - 1 + 1 = Len(s) - 1 /\ (1 <= Len(s) - 1 \/ Len(s) - 1 = 0)
    BY <1>1
  <2>7. \A k \in 1..(Len(s) - 1) : SubSeq(s, 1, Len(s) - 1)[k] = s[k]
    BY <2>3, <2>5, <2>6
  <2>8. Len(SubSeq(s, 1, Len(s) - 1)) = Len(s) - 1
    BY <2>3, <2>6
  <2> QED BY <2>3, <2>7, <2>8
<1>4. IsSeq(SubSeq(s, 1, Len(s) - 1))
  BY <1>3, SeqIs
<1> QED BY <1>1, <1>3, <1>4

\* The last element of a sequence replaced.
LEMMA Replaced ==
  ASSUME NEW s, IsSeq(s), s # <<>>, NEW x
  PROVE  LET t == Append(SubSeq(s, 1, Len(s) - 1), x)
         IN  /\ IsSeq(t) /\ t # <<>> /\ Len(t) = Len(s)
             /\ \A k \in 1..(Len(s) - 1) : t[k] = s[k]
             /\ t[Len(s)] = x
<1> DEFINE front == SubSeq(s, 1, Len(s) - 1)
<1>1. /\ Len(s) \in Nat \ {0} /\ IsSeq(front) /\ Len(front) = Len(s) - 1
      /\ \A k \in 1..(Len(s) - 1) : front[k] = s[k]
  BY FrontIs
<1> HIDE DEF front
<1>2. /\ IsSeq(Append(front, x)) /\ Append(front, x) # <<>>
      /\ Len(Append(front, x)) = Len(front) + 1
      /\ \A k \in 1..Len(front) : Append(front, x)[k] = front[k]
      /\ Append(front, x)[Len(front) + 1] = x
  BY <1>1, Appended
<1> QED BY <1>1, <1>2 DEF front

-----------------------------------------------------------------------------
(* What the parser makes of a schema.                                      *)

AllFields == UNION {UNION {Range(s[k].fields) : k \in 1..Len(s)} : s \in Sources}

\* A table as the parser holds it.
ParsedTable(t) ==
  /\ DOMAIN t = {"name", "progressive", "struct", "generated", "fields"}
  /\ t.name \in AllNames
  /\ t.fields \in Seq(AllFields)

LEMMA SourceTable ==
  ASSUME NEW s \in Sources, NEW k \in 1..Len(s)
  PROVE  /\ Len(s) \in Nat
         /\ s[k] \in Range(s)
         /\ DOMAIN s[k] = {"name", "progressive", "struct", "generated", "fields"}
         /\ s[k].fields \in Seq(AllFields)
         /\ s[k].fields \in Seq(Range(s[k].fields))
         /\ s[k].name \in TableNames(s)
         /\ s[k].name \in AllNames
<1>1. Len(s) \in Nat /\ s[k] \in Range(s)
  BY SourcesAssumption DEF Range, IsSource, IsTable
<1>2. s[k] \in [name : STRING, progressive : BOOLEAN, struct : BOOLEAN,
                generated : BOOLEAN, fields : Seq(Range(s[k].fields))]
  BY SourcesAssumption DEF IsSource, IsTable
<1>3. s[k].fields \in Seq(Range(s[k].fields))
  BY <1>2
<1>4. Range(s[k].fields) \subseteq AllFields
  BY DEF AllFields
<1>5. s[k].fields \in Seq(AllFields)
  BY <1>3, <1>4, SeqMonotonic
<1>6. s[k].name \in TableNames(s) /\ s[k].name \in AllNames
  BY DEF TableNames, AllNames
<1> QED BY <1>1, <1>2, <1>3, <1>5, <1>6

LEMMA PermutationIs ==
  ASSUME NEW n \in Nat, NEW p \in Bijection(1..n, 1..n)
  PROVE  p \in [1..n -> 1..n]
BY DEF Bijection, Injection

LEMMA SortedTable ==
  ASSUME NEW s \in Sources, NEW k \in 1..Len(s), NEW t \in Sorted(s[k])
  PROVE  /\ ParsedTable(t)
         /\ t.name = s[k].name
         /\ Range(t.fields) \subseteq Range(s[k].fields)
<1> DEFINE f == s[k].fields
           n == Len(f)
<1>1. /\ DOMAIN s[k] = {"name", "progressive", "struct", "generated", "fields"}
      /\ f \in Seq(AllFields) /\ f \in Seq(Range(f)) /\ s[k].name \in AllNames
  BY SourceTable
<1>2. CASE t = s[k]
  BY <1>1, <1>2 DEF ParsedTable
<1>3. CASE \E p \in Bijection(1..n, 1..n) : t = [s[k] EXCEPT !.fields = [j \in 1..n |-> f[p[j]]]]
  <2>1. PICK p \in Bijection(1..n, 1..n) : t = [s[k] EXCEPT !.fields = [j \in 1..n |-> f[p[j]]]]
    BY <1>3
  <2>2. n \in Nat
    BY <1>1
  <2>3. p \in [1..n -> 1..n]
    BY <2>2, PermutationIs
  <2>4. t.fields = [j \in 1..n |-> f[p[j]]] /\ t.name = s[k].name /\ DOMAIN t = DOMAIN s[k]
    BY <1>1, <2>1
  <2>5. \A j \in 1..n : f[p[j]] \in Range(f) /\ f[p[j]] \in AllFields
    BY <1>1, <2>2, <2>3 DEF Range
  <2>6. t.fields \in Seq(AllFields)
    BY <2>2, <2>4, <2>5, IsASeq
  <2>7. Range(t.fields) \subseteq Range(f)
    BY <2>4, <2>5 DEF Range
  <2> QED BY <1>1, <2>4, <2>6, <2>7 DEF ParsedTable
<1>4. t = s[k] \/ \E p \in Bijection(1..n, 1..n) : t = [s[k] EXCEPT !.fields = [j \in 1..n |-> f[p[j]]]]
  <2>1. CASE s[k].struct \/ Ids(s[k]) = {}
    BY <2>1 DEF Sorted
  <2>2. CASE ~(s[k].struct \/ Ids(s[k]) = {})
    BY <2>2 DEF Sorted
  <2> QED BY <2>1, <2>2
<1> QED BY <1>2, <1>3, <1>4

-----------------------------------------------------------------------------
(* The invariant.                                                          *)

\* The parser holds the tables of the schema in order, up to the one it is
\* at, and no two of one name.
ParsedInv ==
  /\ IsSeq(parsed)
  /\ \A k \in 1..Len(parsed) : ParsedTable(parsed[k])
  /\ \A j, k \in 1..Len(parsed) : parsed[j].name = parsed[k].name => j = k
  /\ pc # "idle" => \A k \in 1..Len(parsed) : parsed[k] \in Sorted(schema[k])
  /\ pc = "parse" => Len(parsed) = next - 1 /\ next <= Len(schema) + 1
  /\ pc = "generate" => Len(parsed) = Len(schema)

\* A call of AnalyzeContainer.
FrameOK(f) ==
  /\ DOMAIN f = {"name", "pos", "container"}
  /\ f.name \in TableNames(schema)
  /\ f.pos \in Nat \ {0}
  /\ f.container.fields \in Seq(AllFields)

\* The outermost call is for the table that the loop is at; a call that
\* waits for another is at a field.
StackInv ==
  /\ IsSeq(stack)
  /\ stack # <<>> => /\ next <= Len(parsed)
                     /\ ~parsed[next].generated
                     /\ stack[1].name = parsed[next].name
  /\ \A k \in 1..Len(stack) : FrameOK(stack[k])
  /\ \A k \in 1..(Len(stack) - 1) :
       stack[k].pos <= Len(Named(parsed, stack[k].name).fields)

\* While a run lasts, it has written at most the Go files of the tables that
\* its loop has passed.
DirInv ==
  /\ DOMAIN disk = {"go", "rust"} /\ DOMAIN before = {"go", "rust"}
  /\ pc # "idle" => result = "none"
  /\ pc = "parse" => disk = before
  /\ pc = "generate" =>
       /\ disk.rust = before.rust
       /\ \A name \in AllNames \ {parsed[k].name : k \in Done} :
            disk.go[name] = before.go[name]

IInv == TypeOK /\ FailureLeaves /\ ParsedInv /\ StackInv /\ DirInv

\* The table of a name, while code is generated.
LEMMA NamedIs ==
  ASSUME TypeOK, ParsedInv, pc = "generate", NEW name \in TableNames(schema)
  PROVE  /\ Named(parsed, name).fields \in Seq(AllFields)
         /\ \A f \in Range(Named(parsed, name).fields) :
              Callee(f) \in TableNames(schema) \union {NoTable}
<1>1. schema \in Sources
  BY DEF TypeOK
<1>2. PICK k \in 1..Len(schema) : schema[k].name = name
  BY DEF TableNames
<1>3. Len(parsed) = Len(schema) /\ \A j \in 1..Len(parsed) : parsed[j] \in Sorted(schema[j])
  BY DEF ParsedInv
<1>4. parsed[k].name = name
  BY <1>1, <1>2, <1>3, SortedTable
<1>5. \E t \in Range(parsed) : t.name = name
  BY <1>2, <1>3, <1>4, SeqFacts DEF ParsedInv, Range
<1>6. Named(parsed, name) \in Range(parsed)
  BY <1>5 DEF Named
<1>7. PICK j \in 1..Len(parsed) : Named(parsed, name) = parsed[j]
  BY <1>6, SeqFacts DEF ParsedInv, Range
<1>8. ParsedTable(parsed[j]) /\ Range(parsed[j].fields) \subseteq Range(schema[j].fields)
  BY <1>1, <1>3, <1>7, SortedTable
<1>9. \A f \in Range(schema[j].fields) : Callee(f) \in TableNames(schema) \union {NoTable}
  BY <1>1, <1>3, <1>7, SourcesAssumption DEF IsSource, IsTable
<1> QED BY <1>7, <1>8, <1>9 DEF ParsedTable

\* The running call.
LEMMA TopIs ==
  ASSUME IInv, AtField \/ AtEnd
  PROVE  /\ pc = "generate" /\ stack # <<>> /\ Len(stack) \in Nat \ {0}
         /\ FrameOK(Top) /\ Top = stack[Len(stack)]
         /\ Len(Named(parsed, Top.name).fields) \in Nat
<1>1. pc = "generate" /\ stack # <<>>
  BY DEF AtField, AtEnd
<1>2. Len(stack) \in Nat \ {0}
  BY <1>1, SeqFacts DEF IInv, StackInv
<1>3. FrameOK(Top) /\ Top = stack[Len(stack)]
  BY <1>2 DEF IInv, StackInv, Top
<1>4. Named(parsed, Top.name).fields \in Seq(AllFields)
  BY <1>1, <1>3, NamedIs DEF IInv, FrameOK
<1> QED BY <1>1, <1>2, <1>3, <1>4

LEMMA FieldIs ==
  ASSUME IInv, AtField
  PROVE  /\ Field \in AllFields
         /\ Callee(Field) \in TableNames(schema) \union {NoTable}
<1>1. /\ pc = "generate" /\ FrameOK(Top)
      /\ Len(Named(parsed, Top.name).fields) \in Nat
  BY TopIs
<1>2. Top.pos \in 1..Len(Named(parsed, Top.name).fields)
  BY <1>1 DEF AtField, FrameOK
<1>3. /\ Named(parsed, Top.name).fields \in Seq(AllFields)
      /\ \A f \in Range(Named(parsed, Top.name).fields) :
           Callee(f) \in TableNames(schema) \union {NoTable}
  BY <1>1, NamedIs DEF IInv, FrameOK
<1>4. Field \in AllFields /\ Field \in Range(Named(parsed, Top.name).fields)
  BY <1>2, <1>3 DEF Field, Range
<1> QED BY <1>3, <1>4

\* Only the stack changes.
LEMMA StackStep ==
  ASSUME IInv, StackInv', Len(stack') <= MaxFrames, stack' # <<>> => pc = "generate",
         UNCHANGED <<schema, lang, pc, parsed, next, code, disk, result, before, runs>>
  PROVE  IInv'
<1>1. TypeOK'
  BY DEF IInv, TypeOK
<1>2. Tables' = Tables /\ Done' = Done
  BY DEF Tables, Done
<1>3. FailureLeaves'
  BY <1>2 DEF IInv, FailureLeaves
<1>4. ParsedInv'
  BY DEF IInv, ParsedInv
<1>5. DirInv'
  BY <1>2 DEF IInv, DirInv
<1> QED BY <1>1, <1>3, <1>4, <1>5 DEF IInv

\* The running call goes on to its next field.
LEMMA TopStep ==
  ASSUME IInv, AtField, NEW f, FrameOK(f), f.name = Top.name,
         stack' = Append(Callers, f),
         UNCHANGED <<schema, lang, pc, parsed, next, code, disk, result, before, runs>>
  PROVE  IInv'
<1>1. /\ pc = "generate" /\ stack # <<>> /\ Len(stack) \in Nat \ {0}
      /\ Top = stack[Len(stack)]
  BY TopIs
<1>2. /\ IsSeq(stack') /\ stack' # <<>> /\ Len(stack') = Len(stack)
      /\ \A k \in 1..(Len(stack) - 1) : stack'[k] = stack[k]
      /\ stack'[Len(stack)] = f
  BY <1>1, Replaced DEF Callers, IInv, StackInv
<1>3. stack'[1].name = stack[1].name
  BY <1>1, <1>2
<1>4. \A k \in 1..Len(stack') : FrameOK(stack'[k])
  BY <1>1, <1>2 DEF IInv, StackInv
<1>5. \A k \in 1..(Len(stack') - 1) :
        stack'[k].pos <= Len(Named(parsed, stack'[k].name).fields)
  BY <1>1, <1>2 DEF IInv, StackInv
<1>6. StackInv'
  BY <1>1, <1>2, <1>3, <1>4, <1>5 DEF IInv, StackInv, FrameOK
<1> QED BY <1>1, <1>2, <1>6, StackStep DEF IInv, TypeOK

-----------------------------------------------------------------------------
(* The actions.                                                            *)

LEMMA InitInvariant ==
  ASSUME Init
  PROVE  IInv
<1>1. /\ Len(parsed) = 0 /\ IsSeq(parsed) /\ Len(stack) = 0 /\ IsSeq(stack)
      /\ next = 1 /\ pc = "idle" /\ result = "none" /\ runs = 0 /\ stack = <<>>
      /\ schema \in Sources /\ lang = "go" /\ before = disk
      /\ disk = [go |-> [name \in AllNames |-> NoFile], rust |-> NoFile]
  BY SeqIs, EmptySeq DEF Init
<1>2. TypeOK
  BY <1>1, BoundsAssumption DEF TypeOK, NoFile
<1>3. FailureLeaves
  BY <1>1 DEF FailureLeaves
<1>4. ParsedInv /\ StackInv /\ DirInv
  BY <1>1 DEF ParsedInv, StackInv, DirInv
<1> QED BY <1>2, <1>3, <1>4 DEF IInv

LEMMA EditInvariant ==
  ASSUME IInv, Edit
  PROVE  IInv'
<1>1. /\ pc = "idle" /\ schema' \in Sources
      /\ UNCHANGED <<lang, pc, parsed, next, stack, code, disk, result, before, runs>>
  BY DEF Edit
<1>2. stack = <<>>
  BY <1>1 DEF IInv, TypeOK
<1>3. TypeOK'
  BY <1>1, <1>2 DEF IInv, TypeOK
<1>4. FailureLeaves'
  BY <1>1 DEF IInv, FailureLeaves, Done, Tables
<1>5. ParsedInv' /\ DirInv'
  BY <1>1 DEF IInv, ParsedInv, DirInv
<1>6. StackInv'
  BY <1>1, <1>2, SeqFacts DEF IInv, StackInv
<1> QED BY <1>3, <1>4, <1>5, <1>6 DEF IInv

LEMMA RunInvariant ==
  ASSUME IInv, NEW l \in {"go", "rust"}, Run(l)
  PROVE  IInv'
<1>1. /\ pc' = "parse" /\ parsed' = <<>> /\ stack' = <<>> /\ next' = 1
      /\ result' = "none" /\ before' = disk /\ lang' = l
      /\ disk' = disk /\ schema' = schema /\ runs' = runs + 1 /\ runs < MaxRuns
  BY DEF Run
<1>2. Len(parsed') = 0 /\ Len(stack') = 0 /\ IsSeq(parsed') /\ IsSeq(stack')
  BY <1>1, SeqIs, EmptySeq
<1>3. Len(schema) \in Nat
  BY SourcesAssumption DEF IInv, TypeOK, IsSource, IsTable
<1>4. TypeOK'
  BY <1>1, <1>2, <1>3, BoundsAssumption DEF IInv, TypeOK
<1>5. FailureLeaves'
  BY <1>1 DEF FailureLeaves
<1>6. ParsedInv' /\ StackInv'
  BY <1>1, <1>2, <1>3 DEF ParsedInv, StackInv
<1>7. DirInv'
  BY <1>1 DEF IInv, DirInv
<1> QED BY <1>4, <1>5, <1>6, <1>7 DEF IInv

LEMMA ParseTableInvariant ==
  ASSUME IInv, ParseTable
  PROVE  IInv'
<1>1. PICK t \in Sorted(schema[next]) : parsed' = Append(parsed, t)
  BY DEF ParseTable
<1>2. /\ pc = "parse" /\ next <= Len(schema) /\ next' = next + 1 /\ stack = <<>>
      /\ UNCHANGED <<schema, lang, pc, stack, code, disk, result, before, runs>>
  BY DEF ParseTable, IInv, TypeOK
<1>3. /\ schema \in Sources /\ Len(schema) \in Nat /\ Len(parsed) \in Nat
      /\ Len(parsed) = next - 1 /\ next \in Nat \ {0} /\ next \in 1..Len(schema)
  BY <1>2, SourcesAssumption, SeqFacts DEF IInv, TypeOK, ParsedInv, IsSource, IsTable
<1>4. ParsedTable(t) /\ t.name = schema[next].name
  BY <1>3, SortedTable
<1>5. /\ IsSeq(parsed') /\ Len(parsed') = Len(parsed) + 1
      /\ \A k \in 1..Len(parsed) : parsed'[k] = parsed[k]
      /\ parsed'[Len(parsed) + 1] = t
  BY <1>1, Appended DEF IInv, ParsedInv
<1>6. \A k \in 1..Len(parsed') : parsed'[k] \in Sorted(schema[k])
  BY <1>1, <1>2, <1>3, <1>5 DEF IInv, ParsedInv
<1>7. \A k \in 1..Len(parsed') : parsed'[k].name = schema[k].name
  BY <1>3, <1>5, <1>6, SortedTable
<1>8. \A j, k \in 1..Len(parsed') : parsed'[j].name = parsed'[k].name => j = k
  BY <1>3, <1>5, <1>7, SourcesAssumption DEF IsSource, IsTable
<1>9. \A k \in 1..Len(parsed') : ParsedTable(parsed'[k])
  BY <1>3, <1>4, <1>5 DEF IInv, ParsedInv
<1>10. ParsedInv'
  BY <1>2, <1>3, <1>5, <1>6, <1>8, <1>9 DEF ParsedInv
<1>11. TypeOK'
  BY <1>2, <1>3, <1>5 DEF IInv, TypeOK
<1>12. FailureLeaves'
  BY <1>2 DEF IInv, FailureLeaves, DirInv
<1>13. StackInv' /\ DirInv'
  BY <1>2, SeqFacts DEF IInv, StackInv, DirInv
<1> QED BY <1>10, <1>11, <1>12, <1>13 DEF IInv

LEMMA RejectTableInvariant ==
  ASSUME IInv, RejectTable
  PROVE  IInv'
<1>1. /\ pc = "parse" /\ pc' = "idle" /\ result' = "error" /\ stack = <<>>
      /\ parsed' = <<>> /\ next' = 1 /\ disk = before
      /\ UNCHANGED <<schema, lang, stack, code, disk, before, runs>>
  BY DEF RejectTable, Stop, IInv, TypeOK, DirInv
<1>2. Len(parsed') = 0 /\ IsSeq(parsed')
  BY <1>1, SeqIs, EmptySeq
<1>3. TypeOK'
  BY <1>1, <1>2 DEF IInv, TypeOK
<1>4. FailureLeaves'
  BY <1>1 DEF FailureLeaves
<1>5. ParsedInv' /\ StackInv'
  BY <1>1, <1>2, SeqFacts DEF ParsedInv, StackInv, IInv
<1>6. DirInv'
  BY <1>1 DEF IInv, DirInv
<1> QED BY <1>3, <1>4, <1>5, <1>6 DEF IInv

LEMMA ParsedInvariant ==
  ASSUME IInv, Parsed
  PROVE  IInv'
<1>1. /\ pc = "parse" /\ next > Len(schema) /\ pc' = "generate" /\ next' = 1
      /\ stack = <<>> /\ disk = before /\ result = "none"
      /\ UNCHANGED <<schema, lang, parsed, stack, code, disk, result, before, runs>>
  BY DEF Parsed, IInv, TypeOK, DirInv
<1>2. /\ Len(schema) \in Nat /\ Len(parsed) \in Nat
      /\ Len(parsed) = next - 1 /\ next \in Nat /\ next <= Len(schema) + 1
  BY <1>1, SourcesAssumption, SeqFacts DEF IInv, TypeOK, ParsedInv, IsSource, IsTable
<1>3. Len(parsed) = Len(schema)
  BY <1>1, <1>2
<1>4. TypeOK'
  BY <1>1, <1>2, <1>3 DEF IInv, TypeOK
<1>5. FailureLeaves'
  BY <1>1 DEF FailureLeaves
<1>6. ParsedInv'
  BY <1>1, <1>2, <1>3 DEF IInv, ParsedInv
<1>7. StackInv' /\ DirInv'
  BY <1>1, SeqFacts DEF IInv, StackInv, DirInv
<1> QED BY <1>4, <1>5, <1>6, <1>7 DEF IInv

\* A call that has taken a field into its container.
LEMMA ResolvedFrame ==
  ASSUME NEW f, FrameOK(f), NEW field \in AllFields, NEW nested
  PROVE  /\ FrameOK(Resolved(f, field, nested))
         /\ Resolved(f, field, nested).name = f.name
         /\ Resolved(f, field, nested).pos = f.pos + 1
<1> DEFINE c == AddField(f.container, field, ResolveSszFieldInfo(field, nested))
<1>1. c.fields = Append(f.container.fields, field)
  BY DEF AddField
<1>2. c.fields \in Seq(AllFields)
  BY <1>1, AppendProperties DEF FrameOK
<1> HIDE DEF c
<1>3. Resolved(f, field, nested) = [f EXCEPT !.pos = f.pos + 1, !.container = c]
  BY DEF Resolved, c
<1> QED BY <1>2, <1>3 DEF FrameOK

\* A call before its first field.
LEMMA NewFrame ==
  ASSUME NEW name \in TableNames(schema)
  PROVE  FrameOK(Frame(name)) /\ Frame(name).name = name
<1>1. /\ DOMAIN Frame(name) = {"name", "pos", "container"}
      /\ Frame(name).name = name /\ Frame(name).pos = 1
      /\ Frame(name).container = NoFields
  BY DEF Frame
<1>2. NoFields.fields = <<>>
  BY DEF NoFields
<1>3. <<>> \in Seq(AllFields)
  OBVIOUS
<1>4. Frame(name).container.fields \in Seq(AllFields)
  BY <1>1, <1>2, <1>3
<1> QED BY <1>1, <1>4 DEF FrameOK

LEMMA SkipGeneratedInvariant ==
  ASSUME IInv, SkipGenerated
  PROVE  IInv'
<1>1. /\ pc = "generate" /\ stack = <<>> /\ next <= Len(parsed) /\ next' = next + 1
      /\ parsed[next].generated
      /\ UNCHANGED <<schema, lang, pc, parsed, stack, code, disk, result, before, runs>>
  BY DEF SkipGenerated, Looping
<1>2. Len(parsed) \in Nat /\ next \in Nat \ {0}
  BY SeqFacts DEF IInv, ParsedInv, TypeOK
<1>3. TypeOK'
  BY <1>1, <1>2 DEF IInv, TypeOK
<1>4. Done' = Done
  BY <1>1, <1>2 DEF Done, Tables
<1>5. FailureLeaves'
  BY <1>1, <1>4 DEF IInv, FailureLeaves
<1>6. ParsedInv' /\ StackInv'
  BY <1>1, SeqFacts DEF IInv, ParsedInv, StackInv
<1>7. DirInv'
  BY <1>1, <1>4 DEF IInv, DirInv
<1> QED BY <1>3, <1>5, <1>6, <1>7 DEF IInv

LEMMA EnterTableInvariant ==
  ASSUME IInv, EnterTable
  PROVE  IInv'
<1>1. /\ pc = "generate" /\ stack = <<>> /\ next <= Len(parsed)
      /\ ~parsed[next].generated /\ stack' = <<Frame(parsed[next].name)>>
      /\ UNCHANGED <<schema, lang, pc, parsed, next, code, disk, result, before, runs>>
  BY DEF EnterTable, Looping
<1>2. /\ next \in 1..Len(schema) /\ next \in 1..Len(parsed) /\ schema \in Sources
      /\ parsed[next] \in Sorted(schema[next])
  BY <1>1 DEF IInv, TypeOK, ParsedInv
<1>3. parsed[next].name \in TableNames(schema)
  BY <1>2, SortedTable, SourceTable
<1>4. FrameOK(Frame(parsed[next].name)) /\ Frame(parsed[next].name).name = parsed[next].name
  BY <1>3, NewFrame
<1>5. /\ stack' # <<>> /\ Len(stack') = 1 /\ stack'[1] = Frame(parsed[next].name)
      /\ IsSeq(stack')
  <2>1. stack' \in Seq({Frame(parsed[next].name)})
    BY <1>1
  <2> QED BY <1>1, <2>1, SeqIs
<1>6. StackInv'
  BY <1>1, <1>4, <1>5 DEF StackInv, FrameOK
<1>7. Len(stack') <= MaxFrames
  BY <1>5, BoundsAssumption
<1> QED BY <1>1, <1>6, <1>7, StackStep

LEMMA SkipDeprecatedInvariant ==
  ASSUME IInv, SkipDeprecated
  PROVE  IInv'
<1>1. FrameOK(Top)
  BY TopIs DEF SkipDeprecated
<1>2. /\ FrameOK([Top EXCEPT !.pos = @ + 1])
      /\ [Top EXCEPT !.pos = @ + 1].name = Top.name
  BY <1>1 DEF FrameOK
<1> QED BY <1>2, TopStep DEF SkipDeprecated

LEMMA ResolveFieldInvariant ==
  ASSUME IInv, ResolveField
  PROVE  IInv'
<1>1. FrameOK(Top) /\ Field \in AllFields
  BY TopIs, FieldIs DEF ResolveField
<1>2. /\ FrameOK(Resolved(Top, Field, NoFields))
      /\ Resolved(Top, Field, NoFields).name = Top.name
  BY <1>1, ResolvedFrame
<1> QED BY <1>2, TopStep DEF ResolveField

\* The run ends while tables are analyzed.
LEMMA StopInvariant ==
  ASSUME IInv, pc = "generate", NEW outcome \in {"error", "overflow"}, Stop(outcome),
         stack' = <<>>, UNCHANGED <<schema, lang, parsed, next, code, before, runs>>,
         \/ disk' = disk
         \/ disk' = [disk EXCEPT !.rust = Torn]
         \/ \E name : disk' = [disk EXCEPT !.go[name] = Torn]
  PROVE  IInv'
<1>1. pc' = "idle" /\ result' = outcome
  BY DEF Stop
<1>2. Len(stack') = 0 /\ IsSeq(stack')
  BY SeqIs, EmptySeq
<1>3. Done' = Done
  BY <1>1 DEF Done, Tables
<1>4. DOMAIN disk = {"go", "rust"} /\ DOMAIN disk.go = AllNames
  BY DEF IInv, DirInv, TypeOK
<1>5. /\ DOMAIN disk' = {"go", "rust"} /\ DOMAIN disk'.go = AllNames
      /\ disk'.rust \in {disk.rust, Torn}
      /\ \A name \in AllNames : disk'.go[name] \in {disk.go[name], Torn}
  BY <1>4
<1>6. TypeOK'
  BY <1>1, <1>2, <1>5, BoundsAssumption DEF IInv, TypeOK, Torn
<1>7. FailureLeaves'
  BY <1>3, <1>5 DEF IInv, FailureLeaves, DirInv
<1>8. ParsedInv' /\ StackInv' /\ DirInv'
  BY <1>1, <1>2, <1>5 DEF IInv, ParsedInv, StackInv, DirInv
<1> QED BY <1>6, <1>7, <1>8 DEF IInv

LEMMA FailFieldInvariant ==
  ASSUME IInv, FailField
  PROVE  IInv'
<1>1. pc = "generate"
  BY DEF FailField, AtField
<1> QED BY <1>1, StopInvariant DEF FailField

LEMMA OverflowInvariant ==
  ASSUME IInv, Overflow
  PROVE  IInv'
<1>1. pc = "generate"
  BY DEF Overflow, AtField
<1> QED BY <1>1, StopInvariant DEF Overflow

LEMMA SaveFailsInvariant ==
  ASSUME IInv, SaveFails
  PROVE  IInv'
<1>1. pc = "generate"
  BY DEF SaveFails, AtEnd
<1> QED BY <1>1, StopInvariant DEF SaveFails

LEMMA FinalSaveFailsInvariant ==
  ASSUME IInv, FinalSaveFails
  PROVE  IInv'
<1>1. pc = "generate" /\ stack' = <<>>
  BY DEF FinalSaveFails, Finished
<1> QED BY <1>1, StopInvariant DEF FinalSaveFails

LEMMA CallNestedInvariant ==
  ASSUME IInv, CallNested
  PROVE  IInv'
<1>1. /\ AtField /\ Callee(Field) # NoTable /\ Len(stack) < MaxFrames
      /\ stack' = Append(stack, Frame(Callee(Field)))
      /\ UNCHANGED <<schema, lang, pc, parsed, next, code, disk, result, before, runs>>
  BY DEF CallNested
<1>2. /\ pc = "generate" /\ stack # <<>> /\ Len(stack) \in Nat \ {0}
      /\ FrameOK(Top) /\ Top = stack[Len(stack)]
  BY <1>1, TopIs
<1>3. Callee(Field) \in TableNames(schema)
  BY <1>1, FieldIs
<1>4. FrameOK(Frame(Callee(Field)))
  BY <1>3, NewFrame
<1>5. /\ IsSeq(stack') /\ Len(stack') = Len(stack) + 1 /\ stack' # <<>>
      /\ \A k \in 1..Len(stack) : stack'[k] = stack[k]
      /\ stack'[Len(stack) + 1] = Frame(Callee(Field))
  BY <1>1, Appended DEF IInv, StackInv
<1>6. stack'[1].name = stack[1].name
  BY <1>2, <1>5
<1>7. \A k \in 1..Len(stack') : FrameOK(stack'[k])
  BY <1>2, <1>4, <1>5 DEF IInv, StackInv
<1>8. \A k \in 1..(Len(stack') - 1) :
        stack'[k].pos <= Len(Named(parsed, stack'[k].name).fields)
  <2>1. Top.pos <= Len(Named(parsed, Top.name).fields)
    BY <1>1 DEF AtField
  <2> QED BY <1>2, <1>5, <2>1 DEF IInv, StackInv
<1>9. StackInv'
  BY <1>1, <1>2, <1>5, <1>6, <1>7, <1>8 DEF IInv, StackInv, FrameOK
<1>10. Len(stack') <= MaxFrames
  BY <1>1, <1>2, <1>5, BoundsAssumption
<1> QED BY <1>1, <1>2, <1>9, <1>10, StackStep

LEMMA ReturnNestedInvariant ==
  ASSUME IInv, ReturnNested
  PROVE  IInv'
<1> DEFINE n == Len(stack) - 1
           caller == stack[n]
           field == Named(parsed, caller.name).fields[caller.pos]
           f == Resolved(caller, field, Top.container)
<1>1. /\ AtEnd /\ Len(stack) > 1
      /\ UNCHANGED <<schema, lang, pc, parsed, next, code, disk, result, before, runs>>
  BY DEF ReturnNested
<1>2. stack' = [Callers EXCEPT ![Len(Callers)] = f]
  BY DEF ReturnNested
<1>3. /\ pc = "generate" /\ stack # <<>> /\ Len(stack) \in Nat \ {0} /\ n \in Nat \ {0}
      /\ n = Len(stack) - 1 /\ n \in 1..(Len(stack) - 1) /\ n \in 1..Len(stack)
  BY <1>1, TopIs
<1> HIDE DEF n
<1>4. /\ FrameOK(caller)
      /\ caller.pos \in 1..Len(Named(parsed, caller.name).fields)
  <2>1. FrameOK(caller) /\ caller.pos <= Len(Named(parsed, caller.name).fields)
    BY <1>3 DEF IInv, StackInv
  <2>2. Named(parsed, caller.name).fields \in Seq(AllFields)
    BY <1>3, <2>1, NamedIs DEF IInv, FrameOK
  <2>3. Len(Named(parsed, caller.name).fields) \in Nat
    BY <2>2
  <2> QED BY <2>1, <2>3 DEF FrameOK
<1>5. field \in AllFields
  BY <1>3, <1>4, NamedIs DEF IInv, FrameOK
<1>6. FrameOK(f) /\ f.name = caller.name
  BY <1>4, <1>5, ResolvedFrame
<1>7. /\ IsSeq(Callers) /\ Len(Callers) = n /\ n \in 1..Len(Callers)
      /\ \A k \in 1..n : Callers[k] = stack[k]
  BY <1>3, FrontIs DEF IInv, StackInv, Callers
<1> HIDE DEF f, caller
<1>8. /\ IsSeq(stack') /\ Len(stack') = n
      /\ \A k \in 1..n : stack'[k] = IF k = n THEN f ELSE Callers[k]
  <2>1. stack' = [Callers EXCEPT ![n] = f]
    BY <1>2, <1>7
  <2> DEFINE S == Range(Callers) \union {f}
             s == Callers
  <2>2. s \in Seq(S) /\ f \in S /\ n \in 1..Len(s) /\ Len(s) = n
    BY <1>7 DEF IsSeq, Range
  <2> HIDE DEF S, s
  <2>3. [s EXCEPT ![n] = f] \in Seq(S) /\ Len([s EXCEPT ![n] = f]) = Len(s)
    BY <2>2
  <2>4. \A k \in 1..n : [s EXCEPT ![n] = f][k] = IF k = n THEN f ELSE s[k]
    BY <2>2
  <2>5. stack' = [s EXCEPT ![n] = f]
    BY <2>1 DEF s
  <2>6. IsSeq(stack')
    BY <2>3, <2>5, SeqIs
  <2> QED BY <2>2, <2>3, <2>4, <2>5, <2>6 DEF s
<1>9. stack' # <<>>
  BY <1>3, <1>8, SeqFacts
<1>10. stack'[1].name = stack[1].name
  <2>1. CASE n = 1
    BY <1>6, <1>8, <2>1 DEF caller
  <2>2. CASE n # 1
    BY <1>3, <1>7, <1>8, <2>2
  <2> QED BY <2>1, <2>2
<1>11. \A k \in 1..Len(stack') : FrameOK(stack'[k])
  BY <1>3, <1>6, <1>7, <1>8 DEF IInv, StackInv
<1>12. \A k \in 1..(Len(stack') - 1) :
         stack'[k].pos <= Len(Named(parsed, stack'[k].name).fields)
  BY <1>3, <1>7, <1>8 DEF IInv, StackInv
<1>13. StackInv'
  BY <1>1, <1>3, <1>8, <1>9, <1>10, <1>11, <1>12 DEF IInv, StackInv, FrameOK
<1>14. Len(stack') <= MaxFrames
  BY <1>3, <1>8, BoundsAssumption DEF IInv, TypeOK
<1> QED BY <1>1, <1>3, <1>13, <1>14, StackStep

\* The table that the loop is at, when its analysis is complete.
LEMMA TableAtEnd ==
  ASSUME IInv, AtEnd, Len(stack) = 1
  PROVE  /\ pc = "generate" /\ next \in 1..Len(parsed) /\ ~parsed[next].generated
         /\ Top.name = parsed[next].name /\ Top.container.fields \in Seq(AllFields)
         /\ Top.name \in AllNames
<1>1. pc = "generate" /\ stack # <<>> /\ FrameOK(Top) /\ Top = stack[1]
  BY TopIs
<1>2. /\ next <= Len(parsed) /\ ~parsed[next].generated
      /\ Top.name = parsed[next].name
  BY <1>1 DEF IInv, StackInv
<1>3. next \in 1..Len(parsed)
  BY <1>2, SeqFacts DEF IInv, TypeOK, ParsedInv
<1> QED BY <1>1, <1>2, <1>3 DEF IInv, ParsedInv, ParsedTable, FrameOK

\* The loop goes on to the next table.
LEMMA DoneGrows ==
  ASSUME IInv, pc = "generate", pc' = "generate", parsed' = parsed, next' = next + 1,
         next \in 1..Len(parsed), ~parsed[next].generated
  PROVE  Done' = Done \union {next} /\ next \notin Done /\ Tables' = Tables
<1>1. next \in Nat /\ Len(parsed) \in Nat
  BY SeqFacts DEF IInv, ParsedInv, TypeOK
<1> QED BY <1>1 DEF Done, Tables

LEMMA FinishTableInvariant ==
  ASSUME IInv, FinishTable
  PROVE  IInv'
<1>1. /\ AtEnd /\ Len(stack) = 1 /\ next' = next + 1 /\ stack' = <<>>
      /\ UNCHANGED <<schema, lang, pc, parsed, result, before, runs>>
  BY DEF FinishTable
<1>2. disk' = disk \/ \E type : disk' = [disk EXCEPT !.go[Top.name] = File(type)]
  BY DEF FinishTable
<1>3. /\ pc = "generate" /\ next \in 1..Len(parsed) /\ ~parsed[next].generated
      /\ Top.name = parsed[next].name
  BY <1>1, TableAtEnd
<1>4. Done' = Done \union {next}
  BY <1>1, <1>3, DoneGrows
<1>5. DOMAIN disk = {"go", "rust"} /\ DOMAIN disk.go = AllNames
  BY DEF IInv, DirInv, TypeOK
<1>6. /\ DOMAIN disk' = {"go", "rust"} /\ DOMAIN disk'.go = AllNames
      /\ disk'.rust = disk.rust
      /\ \A name \in AllNames :
           \/ disk'.go[name] = disk.go[name]
           \/ name = parsed[next].name /\ disk'.go[name].status = "whole"
  <2>1. CASE disk' = disk
    BY <1>5, <2>1
  <2>2. ASSUME NEW type, disk' = [disk EXCEPT !.go[Top.name] = File(type)]
        PROVE  <1>6
    <3>1. File(type).status = "whole"
      BY DEF File
    <3> QED BY <1>3, <1>5, <2>2, <3>1
  <2> QED BY <1>2, <2>1, <2>2
<1>7. Len(stack') = 0 /\ IsSeq(stack') /\ Len(parsed) \in Nat
  BY <1>1, SeqIs, EmptySeq, SeqFacts DEF IInv, ParsedInv
<1>8. TypeOK'
  <2>1. next' \in 1..(Len(parsed) + 1)
    BY <1>1, <1>3, <1>7
  <2>2. Len(stack') <= MaxFrames
    BY <1>7, BoundsAssumption
  <2>3. \A name \in AllNames : disk'.go[name].status \in {"none", "torn", "whole"}
    BY <1>6 DEF IInv, TypeOK
  <2> QED BY <1>1, <1>3, <1>6, <2>1, <2>2, <2>3 DEF IInv, TypeOK
<1>9. \A name \in AllNames \ {parsed[k].name : k \in Done'} : disk'.go[name] = before.go[name]
  BY <1>3, <1>4, <1>6 DEF IInv, DirInv
<1>10. DirInv'
  BY <1>1, <1>3, <1>6, <1>9 DEF IInv, DirInv
<1>11. FailureLeaves'
  BY <1>1, <1>3, <1>6, <1>9 DEF IInv, DirInv, FailureLeaves
<1>12. ParsedInv' /\ StackInv'
  BY <1>1, <1>3, <1>7 DEF IInv, ParsedInv, StackInv
<1> QED BY <1>8, <1>10, <1>11, <1>12 DEF IInv

LEMMA FinishRunInvariant ==
  ASSUME IInv, FinishRun
  PROVE  IInv'
<1>1. /\ pc = "generate" /\ stack = <<>> /\ pc' = "idle" /\ result' = "ok"
      /\ disk' = IF lang = "rust" THEN [disk EXCEPT !.rust = File(code)] ELSE disk
      /\ UNCHANGED <<schema, lang, parsed, next, stack, code, before, runs>>
  BY DEF FinishRun, Finished, Stop
<1>2. DOMAIN disk = {"go", "rust"} /\ DOMAIN disk.go = AllNames
  BY DEF IInv, DirInv, TypeOK
<1>3. /\ DOMAIN disk' = {"go", "rust"} /\ disk'.go = disk.go
      /\ disk'.rust = disk.rust \/ disk'.rust.status = "whole"
  BY <1>1, <1>2 DEF File
<1>4. TypeOK'
  BY <1>1, <1>3 DEF IInv, TypeOK
<1>5. FailureLeaves'
  BY <1>1 DEF FailureLeaves
<1>6. ParsedInv' /\ StackInv' /\ DirInv'
  BY <1>1, <1>3, SeqFacts DEF IInv, ParsedInv, StackInv, DirInv
<1> QED BY <1>4, <1>5, <1>6 DEF IInv

\* Every step keeps the invariant.
LEMMA StepInvariant ==
  ASSUME IInv, [Next]_vars
  PROVE  IInv'
<1>1. CASE Edit
  BY <1>1, EditInvariant
<1>2. ASSUME NEW l \in {"go", "rust"}, Run(l) PROVE IInv'
  BY <1>2, RunInvariant
<1>3. CASE ParseTable \/ RejectTable \/ Parsed
  BY <1>3, ParseTableInvariant, RejectTableInvariant, ParsedInvariant
<1>4. CASE SkipGenerated \/ EnterTable
  BY <1>4, SkipGeneratedInvariant, EnterTableInvariant
<1>5. CASE SkipDeprecated \/ ResolveField \/ FailField \/ CallNested \/ Overflow \/ ReturnNested
  BY <1>5, SkipDeprecatedInvariant, ResolveFieldInvariant, FailFieldInvariant,
     CallNestedInvariant, OverflowInvariant, ReturnNestedInvariant
<1>6. CASE FinishTable \/ SaveFails \/ FinishRun \/ FinalSaveFails
  BY <1>6, FinishTableInvariant, SaveFailsInvariant, FinishRunInvariant, FinalSaveFailsInvariant
<1>7. CASE UNCHANGED vars
  <2>1. UNCHANGED <<schema, lang, pc, parsed, next, stack, code, disk, result, before, runs>>
    BY <1>7 DEF vars
  <2>2. Len(stack') <= MaxFrames /\ (stack' # <<>> => pc = "generate")
    BY <2>1 DEF IInv, TypeOK
  <2>3. StackInv'
    BY <2>1 DEF IInv, StackInv, FrameOK
  <2> QED BY <2>1, <2>2, <2>3, StackStep
<1> QED BY <1>1, <1>2, <1>3, <1>4, <1>5, <1>6, <1>7 DEF Next, Step

-----------------------------------------------------------------------------
(* What the generators write.                                              *)

\* A generated type: the leaves are a choice for the fields that were
\* collected.
Sound(table, g) ==
  /\ g.container.fields \in Seq(AllFields)
  /\ g.leaves \in LeafChoices(table, g.container)

\* The place of the k-th table in the Rust file.
PlaceOf(k) == Cardinality({j \in Tables : j <= k})

\* Everything written in this run is sound, at its own place.
OutputInv ==
  /\ IsSeq(code)
  /\ pc = "parse" => code = <<>>
  /\ lang = "rust" /\ result = "ok" => disk.rust.content = code
  /\ lang = "rust" =>
       /\ Len(code) = Cardinality(Done)
       /\ \A k \in Done : Sound(parsed[k], code[PlaceOf(k)])
  /\ lang = "go" => \A k \in Done : Sound(parsed[k], disk.go[parsed[k].name].content)

LEMMA GeneratedSound ==
  ASSUME OutputInv, IInv, NEW k \in Done
  PROVE  Sound(parsed[k], Generated(k))
<1>1. lang \in {"go", "rust"}
  BY DEF IInv, TypeOK
<1> QED BY <1>1 DEF OutputInv, Generated, PlaceOf

LEMMA TablesFinite ==
  ASSUME IInv
  PROVE  /\ Len(parsed) \in Nat /\ IsFiniteSet(Tables) /\ IsFiniteSet(Done)
         /\ Done \subseteq Tables /\ Tables \subseteq 1..Len(parsed)
         /\ \A k \in Tables : PlaceOf(k) \in Nat
<1>1. Len(parsed) \in Nat
  BY SeqFacts DEF IInv, ParsedInv
<1>2. Done \subseteq Tables /\ Tables \subseteq 1..Len(parsed)
  BY DEF Done, Tables
<1>3. IsFiniteSet(1..Len(parsed))
  BY <1>1, FS_Interval
<1>4. IsFiniteSet(Tables) /\ IsFiniteSet(Done)
  BY <1>2, <1>3, FS_Subset
<1>5. ASSUME NEW k \in Tables PROVE PlaceOf(k) \in Nat
  <2>1. {j \in Tables : j <= k} \subseteq Tables
    OBVIOUS
  <2> QED BY <1>4, <2>1, FS_Subset, FS_CardinalityType DEF PlaceOf
<1> QED BY <1>1, <1>2, <1>4, <1>5

\* The parts of the Rust file are in the order of the tables: the tables that
\* are done are before the next part, and the next table is at it.
LEMMA Places ==
  ASSUME IInv, pc = "generate", next \in Tables
  PROVE  /\ PlaceOf(next) = Cardinality(Done) + 1
         /\ \A k \in Done : PlaceOf(k) \in 1..Cardinality(Done)
<1>1. /\ Len(parsed) \in Nat /\ IsFiniteSet(Tables) /\ IsFiniteSet(Done)
      /\ Done \subseteq Tables /\ Tables \subseteq 1..Len(parsed)
      /\ \A k \in Tables : PlaceOf(k) \in Nat
  BY TablesFinite
<1>2. /\ Done = {k \in Tables : k < next} /\ next \in Nat
      /\ \A k \in Tables : k \in Nat
  BY <1>1 DEF Done
<1> HIDE DEF Done
<1>6. \A j \in Tables : /\ j <= next <=> j < next \/ j = next
                       /\ \A k \in Tables : j < next /\ k <= j => k < next
  BY <1>2
<1>5. {j \in Tables : j <= next} = Done \union {next} /\ next \notin Done
  <2>1. \A j : j \in {i \in Tables : i <= next} <=> j \in Done \union {next}
    BY <1>2, <1>6
  <2>2. next \notin Done
    BY <1>2
  <2> QED BY <2>1, <2>2
<1>3. PlaceOf(next) = Cardinality(Done) + 1
  BY <1>1, <1>5, FS_AddElement DEF PlaceOf
<1>4. ASSUME NEW k \in Done PROVE PlaceOf(k) \in 1..Cardinality(Done)
  <2> DEFINE S == {j \in Tables : j <= k}
  <2>1. k \in Tables /\ k < next /\ k <= k
    BY <1>2
  <2>2. \A j \in Tables : j <= k => j < next
    BY <1>6, <2>1
  <2>6. S \subseteq Done /\ k \in S
    BY <1>2, <2>1, <2>2
  <2>7. PlaceOf(k) = Cardinality(S)
    BY DEF PlaceOf
  <2> HIDE DEF S
  <2>3. IsFiniteSet(S) /\ Cardinality(S) <= Cardinality(Done)
    BY <1>1, <2>6, FS_Subset
  <2>4. Cardinality(S) # 0
    BY <2>3, <2>6, FS_EmptySet
  <2>5. Cardinality(S) \in Nat /\ Cardinality(Done) \in Nat
    BY <1>1, <2>3, FS_CardinalityType
  <2> QED BY <2>3, <2>4, <2>5, <2>7
<1> QED BY <1>3, <1>4

\* Nothing is done yet.
LEMMA OutputEmpty ==
  ASSUME Done' = {}, code' = <<>>, result' # "ok"
  PROVE  OutputInv'
<1>1. IsSeq(code') /\ Len(code') = 0
  BY SeqIs, EmptySeq
<1>2. Cardinality({}) = 0
  BY FS_EmptySet
<1> QED BY <1>1, <1>2 DEF OutputInv

\* No more is done, and what was done is as it was.
LEMMA OutputSame ==
  ASSUME OutputInv, Done' = Done, Tables' = Tables, pc' # "parse",
         lang = "rust" /\ result' = "ok" => disk'.rust.content = code,
         UNCHANGED <<lang, parsed, code>>,
         lang = "go" =>
           \A k \in Done : disk'.go[parsed[k].name].content = disk.go[parsed[k].name].content
  PROVE  OutputInv'
<1>1. /\ IsSeq(code') /\ (pc' = "parse" => code' = <<>>)
      /\ (lang' = "rust" /\ result' = "ok" => disk'.rust.content = code')
  BY DEF OutputInv
<1>2. ASSUME lang' = "rust"
      PROVE  /\ Len(code') = Cardinality(Done')
             /\ \A k \in Done' : Sound(parsed'[k], code'[PlaceOf(k)'])
  BY <1>2 DEF OutputInv, PlaceOf
<1>3. ASSUME lang' = "go"
      PROVE  \A k \in Done' : Sound(parsed'[k], disk'.go[parsed'[k].name].content)
  BY <1>3 DEF OutputInv
<1> QED BY <1>1, <1>2, <1>3 DEF OutputInv

LEMMA StackOnlyOutput ==
  ASSUME OutputInv, pc # "parse",
         UNCHANGED <<lang, pc, parsed, next, code, disk, result>>
  PROVE  OutputInv'
<1>1. Done' = Done /\ Tables' = Tables
  BY DEF Done, Tables
<1>2. lang = "rust" /\ result' = "ok" => disk'.rust.content = code
  BY DEF OutputInv
<1> QED BY <1>1, <1>2, OutputSame

LEMMA ParsingOutput ==
  ASSUME IInv, OutputInv, ParseTable \/ RejectTable \/ Parsed
  PROVE  OutputInv'
<1>1. pc = "parse" /\ code' = code /\ code = <<>> /\ Done = {} /\ result = "none"
  BY DEF ParseTable, RejectTable, Parsed, OutputInv, Done, IInv, DirInv
<1>2. result' # "ok"
  BY <1>1 DEF ParseTable, RejectTable, Parsed, Stop
<1>3. CASE ParseTable
  BY <1>1, <1>2, <1>3, OutputEmpty DEF ParseTable, Done
<1>4. CASE RejectTable \/ Parsed
  <2>1. next' = 1 /\ pc' # "parse"
    BY <1>4 DEF RejectTable, Parsed, Stop
  <2>2. \A k \in Tables' : ~(k < next')
    <3>1. Tables' \subseteq 1..Len(parsed')
      BY DEF Tables
    <3> QED BY <2>1, <3>1
  <2>3. Done' = {}
    BY <2>1, <2>2 DEF Done
  <2> QED BY <1>1, <1>2, <2>3, OutputEmpty
<1> QED BY <1>3, <1>4

LEMMA SkipGeneratedOutput ==
  ASSUME IInv, OutputInv, SkipGenerated
  PROVE  OutputInv'
<1>1. /\ pc = "generate" /\ next' = next + 1 /\ parsed[next].generated
      /\ UNCHANGED <<lang, pc, parsed, code, disk, result>>
  BY DEF SkipGenerated, Looping
<1>2. next \in Nat /\ Tables' = Tables
  BY <1>1 DEF Tables, IInv, TypeOK
<1>3. Tables \subseteq 1..Len(parsed) /\ next \notin Tables
  BY <1>1 DEF Tables
<1>4. \A k \in Tables : k < next + 1 <=> k < next
  BY <1>2, <1>3
<1>5. Done' = Done
  BY <1>1, <1>2, <1>4 DEF Done
<1>6. lang = "rust" /\ result' = "ok" => disk'.rust.content = code
  BY <1>1 DEF OutputInv
<1> QED BY <1>1, <1>2, <1>5, <1>6, OutputSame

LEMMA StopOutput ==
  ASSUME IInv, OutputInv, pc = "generate", NEW outcome \in {"error", "overflow"},
         Stop(outcome), UNCHANGED <<lang, parsed, next, code>>,
         lang = "go" =>
           \A k \in Done : disk'.go[parsed[k].name].content = disk.go[parsed[k].name].content
  PROVE  OutputInv'
<1>1. pc' = "idle" /\ result' = outcome
  BY DEF Stop
<1>2. Done' = Done /\ Tables' = Tables
  BY <1>1 DEF Done, Tables
<1> QED BY <1>1, <1>2, OutputSame

\* The table that is being written is not among those that are done.
LEMMA OtherName ==
  ASSUME IInv, AtEnd, Len(stack) = 1, NEW k \in Done
  PROVE  parsed[k].name # Top.name /\ parsed[k].name \in AllNames
<1>1. /\ pc = "generate" /\ next \in 1..Len(parsed) /\ Top.name = parsed[next].name
  BY TableAtEnd
<1>2. k \in 1..Len(parsed) /\ k < next
  BY <1>1 DEF Done, Tables
<1>3. next # k
  BY <1>1, <1>2 DEF IInv, TypeOK
<1> QED BY <1>1, <1>2, <1>3 DEF IInv, ParsedInv, ParsedTable

LEMMA SaveFailsOutput ==
  ASSUME IInv, OutputInv, SaveFails
  PROVE  OutputInv'
<1>1. /\ AtEnd /\ Len(stack) = 1 /\ pc = "generate" /\ lang = "go"
      /\ disk' = [disk EXCEPT !.go[Top.name] = Torn]
      /\ Stop("error") /\ UNCHANGED <<lang, parsed, next, code>>
  BY DEF SaveFails, AtEnd
<1>2. DOMAIN disk = {"go", "rust"} /\ DOMAIN disk.go = AllNames
  BY DEF IInv, DirInv, TypeOK
<1>3. \A k \in Done : disk'.go[parsed[k].name] = disk.go[parsed[k].name]
  BY <1>1, <1>2, OtherName
<1> QED BY <1>1, <1>3, StopOutput

LEMMA FinishTableOutput ==
  ASSUME IInv, OutputInv, FinishTable
  PROVE  OutputInv'
<1>1. /\ AtEnd /\ Len(stack) = 1 /\ next' = next + 1
      /\ UNCHANGED <<lang, pc, parsed, result>>
  BY DEF FinishTable
<1>2. PICK leaves \in LeafChoices(parsed[next], Top.container) :
        LET type == Code(parsed[next], Top.container, leaves)
        IN  IF lang = "go"
            THEN disk' = [disk EXCEPT !.go[Top.name] = File(type)] /\ UNCHANGED code
            ELSE code' = Append(code, type) /\ UNCHANGED disk
  BY DEF FinishTable
<1> DEFINE type == Code(parsed[next], Top.container, leaves)
<1>3. /\ pc = "generate" /\ next \in 1..Len(parsed) /\ ~parsed[next].generated
      /\ Top.name = parsed[next].name /\ Top.container.fields \in Seq(AllFields)
      /\ Top.name \in AllNames
  BY <1>1, TableAtEnd
<1>4. Done' = Done \union {next} /\ next \notin Done /\ Tables' = Tables
  BY <1>1, <1>3, DoneGrows
<1>5. type.container = Top.container /\ type.leaves = leaves
  BY DEF Code
<1>6. Sound(parsed[next], type)
  BY <1>2, <1>3, <1>5 DEF Sound
<1>7. IF lang = "go" THEN disk' = [disk EXCEPT !.go[Top.name] = File(type)] /\ code' = code
      ELSE code' = Append(code, type) /\ disk' = disk
  BY <1>2
<1> HIDE DEF type
<1>8. result = "none"
  BY <1>3 DEF IInv, DirInv
<1>9. CASE lang = "go"
  <2>1. DOMAIN disk = {"go", "rust"} /\ DOMAIN disk.go = AllNames
    BY DEF IInv, DirInv, TypeOK
  <2>2. disk' = [disk EXCEPT !.go[Top.name] = File(type)] /\ code' = code
    BY <1>7, <1>9
  <2>3. \A k \in Done : disk'.go[parsed[k].name] = disk.go[parsed[k].name]
    BY <1>1, <2>1, <2>2, OtherName
  <2>4. disk'.go[parsed[next].name].content = type
    <3>1. disk'.go[parsed[next].name] = File(type)
      BY <1>3, <2>1, <2>2
    <3> QED BY <3>1 DEF File
  <2>5. \A k \in Done' : Sound(parsed[k], disk'.go[parsed[k].name].content)
    BY <1>4, <1>6, <1>9, <2>3, <2>4 DEF OutputInv
  <2> QED BY <1>1, <1>3, <1>8, <1>9, <2>2, <2>5 DEF OutputInv
<1>10. CASE lang = "rust"
  <2>1. /\ IsSeq(code') /\ Len(code') = Len(code) + 1
        /\ \A j \in 1..Len(code) : code'[j] = code[j]
        /\ code'[Len(code) + 1] = type
    <3>1. code' = Append(code, type) /\ IsSeq(code)
      BY <1>7, <1>10 DEF OutputInv
    <3> QED BY <3>1, Appended
  <2>2. next \in Tables
    BY <1>3 DEF Tables
  <2>3. /\ PlaceOf(next) = Cardinality(Done) + 1
        /\ \A k \in Done : PlaceOf(k) \in 1..Cardinality(Done)
    BY <1>3, <2>2, Places
  <2>4. Len(code) = Cardinality(Done) /\ \A k \in Done : Sound(parsed[k], code[PlaceOf(k)])
    BY <1>10 DEF OutputInv
  <2>5. \A k \in Done' : Sound(parsed[k], code'[PlaceOf(k)])
    BY <1>4, <1>6, <2>1, <2>3, <2>4
  <2>6. Len(code') = Cardinality(Done')
    <3>1. IsFiniteSet(Done)
      BY TablesFinite
    <3>2. Cardinality(Done \union {next}) = Cardinality(Done) + 1
      BY <1>4, <3>1, FS_AddElement
    <3> QED BY <1>4, <2>1, <2>4, <3>2
  <2>7. \A k \in Done' : PlaceOf(k)' = PlaceOf(k)
    BY <1>4 DEF PlaceOf
  <2>8. \A k \in Done' : Sound(parsed'[k], code'[PlaceOf(k)'])
    BY <1>1, <2>5, <2>7
  <2> QED BY <1>1, <1>3, <1>8, <1>10, <2>1, <2>6, <2>8 DEF OutputInv
<1> QED BY <1>9, <1>10 DEF IInv, TypeOK

LEMMA FinishRunOutput ==
  ASSUME IInv, OutputInv, FinishRun
  PROVE  OutputInv'
<1>1. /\ pc = "generate" /\ pc' = "idle"
      /\ disk' = IF lang = "rust" THEN [disk EXCEPT !.rust = File(code)] ELSE disk
      /\ UNCHANGED <<lang, parsed, next, code>>
  BY DEF FinishRun, Finished, Stop
<1>2. DOMAIN disk = {"go", "rust"}
  BY DEF IInv, DirInv
<1>3. lang = "rust" => disk'.rust.content = code
  <2>1. File(code).content = code
    BY DEF File
  <2> QED BY <1>1, <1>2, <2>1
<1>4. Done' = Done /\ Tables' = Tables
  BY <1>1 DEF Done, Tables
<1>5. lang = "go" => disk' = disk
  BY <1>1
<1> QED BY <1>1, <1>3, <1>4, <1>5, OutputSame

LEMMA StepOutput ==
  ASSUME IInv, OutputInv, [Next]_vars
  PROVE  OutputInv'
<1>1. CASE Edit
  <2>1. pc # "parse" /\ UNCHANGED <<lang, pc, parsed, next, code, disk, result>>
    BY <1>1 DEF Edit
  <2> QED BY <2>1, StackOnlyOutput
<1>2. ASSUME NEW l \in {"go", "rust"}, Run(l) PROVE OutputInv'
  <2>1. Done' = {} /\ code' = <<>> /\ result' # "ok"
    BY <1>2 DEF Run, Done
  <2> QED BY <2>1, OutputEmpty
<1>3. CASE ParseTable \/ RejectTable \/ Parsed
  BY <1>3, ParsingOutput
<1>4. CASE SkipGenerated
  BY <1>4, SkipGeneratedOutput
<1>5. CASE EnterTable \/ SkipDeprecated \/ ResolveField \/ CallNested \/ ReturnNested
  <2>1. pc # "parse" /\ UNCHANGED <<lang, pc, parsed, next, code, disk, result>>
    BY <1>5 DEF EnterTable, Looping, SkipDeprecated, ResolveField, CallNested, ReturnNested,
                AtField, AtEnd
  <2> QED BY <2>1, StackOnlyOutput
<1>6. CASE FailField \/ Overflow
  <2>1. /\ pc = "generate" /\ UNCHANGED <<lang, parsed, next, code, disk>>
        /\ Stop("error") \/ Stop("overflow")
    BY <1>6 DEF FailField, Overflow, AtField
  <2> QED BY <2>1, StopOutput
<1>7. CASE FinishTable \/ SaveFails \/ FinishRun
  BY <1>7, FinishTableOutput, SaveFailsOutput, FinishRunOutput
<1>8. CASE FinalSaveFails
  <2>1. /\ pc = "generate" /\ lang = "rust" /\ UNCHANGED <<lang, parsed, next, code>>
        /\ Stop("error")
    BY <1>8 DEF FinalSaveFails, Finished
  <2> QED BY <2>1, StopOutput
<1>9. CASE UNCHANGED vars
  <2>1. UNCHANGED <<lang, pc, parsed, next, code, disk, result>>
    BY <1>9 DEF vars
  <2>2. Done' = Done /\ Tables' = Tables
    BY <2>1 DEF Done, Tables
  <2> QED BY <2>1, <2>2 DEF OutputInv, PlaceOf
<1> QED BY <1>1, <1>2, <1>3, <1>4, <1>5, <1>6, <1>7, <1>8, <1>9 DEF Next, Step

-----------------------------------------------------------------------------
(* What a sound type hashes.                                               *)

LEMMA IdsAre ==
  ASSUME NEW f \in AllFields
  PROVE  f.id \in Nat /\ f.id <= NoId
<1>1. PICK s \in Sources : \E k \in 1..Len(s) : f \in Range(s[k].fields)
  BY DEF AllFields
<1>2. f.id \in 0..NoId
  BY <1>1, SourcesAssumption DEF IsSource, IsTable, IsField
<1>3. NoId \in Nat
  BY DEF NoId
<1>4. ASSUME NEW n \in Nat
      PROVE  \A i \in 0..n : i \in Nat /\ i <= n
  OBVIOUS
<1> QED BY <1>2, <1>3, <1>4

\* Every non-empty set of naturals has a least element.
LEMMA LeastOf ==
  ASSUME NEW T \in SUBSET Nat, T # {}
  PROVE  \E x \in T : \A y \in T : x <= y
<1>1. PICK x \in T : \A y \in T : ~(<<y, x>> \in OpToRel(<, Nat))
  BY WFMin, NatLessThanWellFounded
<1>2. \A y \in T : <<y, x>> \in OpToRel(<, Nat) <=> y < x
  BY DEF OpToRel
<1>3. \A y \in T : ~(y < x)
  BY <1>1, <1>2, Zenon
<1> QED BY <1>3

LEMMA MaxIndexIs ==
  ASSUME NEW c, c.fields \in Seq(AllFields)
  PROVE  /\ MaxIndex(c) \in Nat
         /\ \A i \in Indices(c) : i \in Nat /\ i <= MaxIndex(c)
         /\ MaxIndex(c) \in Indices(c) \/ Indices(c) = {}
<1>1. \A i \in Indices(c) : i \in Nat /\ i <= NoId
  <2>1. \A k \in 1..Len(c.fields) : c.fields[k] \in AllFields
    OBVIOUS
  <2> QED BY <2>1, IdsAre DEF Indices
<1>2. CASE Indices(c) = {}
  BY <1>2 DEF MaxIndex
<1>3. CASE Indices(c) # {}
  <2> DEFINE S == {NoId - i : i \in Indices(c)}
  <2>1. S \subseteq Nat /\ S # {}
    BY <1>1, <1>3 DEF NoId
  <2>2. PICK m \in S : \A n \in S : m <= n
    BY <2>1, LeastOf
  <2>3. PICK i \in Indices(c) : m = NoId - i
    BY <2>2
  <2>4. \A j \in Indices(c) : NoId - i <= NoId - j
    BY <2>2, <2>3
  <2>5. \A j \in Indices(c) : j <= i
    BY <1>1, <2>4 DEF NoId
  <2>6. \E x \in Indices(c) : \A j \in Indices(c) : j <= x
    BY <2>5
  <2>7. MaxIndex(c) \in Indices(c) /\ \A j \in Indices(c) : j <= MaxIndex(c)
    BY <1>3, <2>6 DEF MaxIndex
  <2> QED BY <1>1, <2>7
<1> QED BY <1>2, <1>3

\* The leaves of a progressive container.
LEMMA LeavesAre ==
  ASSUME NEW table, NEW g, Sound(table, g), table.progressive
  PROVE  /\ MaxIndex(g.container) \in Nat /\ Len(g.container.fields) \in Nat
         /\ Len(g.leaves) = MaxIndex(g.container) + 1
         /\ \A i \in 1..(MaxIndex(g.container) + 1) :
              /\ g.leaves[i] \in 0..Len(g.container.fields)
              /\ g.leaves[i] # 0 => g.container.fields[g.leaves[i]].id = i - 1
              /\ g.leaves[i] = 0 =>
                   \A k \in 1..Len(g.container.fields) : g.container.fields[k].id # i - 1
<1> DEFINE fs == g.container.fields
           l == g.leaves
           M == MaxIndex(g.container)
           At(i) == {k \in 1..Len(fs) : fs[k].id = i}
<1>1. M \in Nat /\ Len(fs) \in Nat
  BY MaxIndexIs DEF Sound
<1>2. /\ l \in [1..(M + 1) -> 0..Len(fs)]
      /\ \A i \in 1..(M + 1) :
           IF At(i - 1) = {} THEN l[i] = Gap ELSE l[i] \in At(i - 1)
  BY DEF Sound, LeafChoices
<1>3. Len(l) = M + 1
  <2>1. M + 1 \in Nat
    BY <1>1
  <2> HIDE DEF M, l
  <2> QED BY <1>2, <2>1
<1>4. ASSUME NEW i \in 1..(M + 1)
      PROVE  /\ l[i] # 0 => fs[l[i]].id = i - 1
             /\ l[i] = 0 => \A k \in 1..Len(fs) : fs[k].id # i - 1
  <2>1. CASE At(i - 1) = {}
    BY <1>2, <2>1 DEF Gap
  <2>2. CASE At(i - 1) # {}
    <3>1. l[i] \in At(i - 1)
      BY <1>2, <2>2
    <3> QED BY <1>1, <3>1
  <2> QED BY <2>1, <2>2
<1> QED BY <1>1, <1>2, <1>3, <1>4

\* Every field has one leaf, unless it shares its id or has none.
LEMMA SoundHashes ==
  ASSUME NEW table, NEW g, Sound(table, g),
         NEW f \in 1..Len(g.container.fields),
         Cardinality({i \in 1..Len(g.leaves) : g.leaves[i] = f}) # 1
  PROVE  /\ table.progressive
         /\ \/ g.container.fields[f].id = NoId
            \/ \E e \in 1..Len(g.container.fields) :
                 e # f /\ g.container.fields[e].id = g.container.fields[f].id
<1> DEFINE fs == g.container.fields
           l == g.leaves
           M == MaxIndex(g.container)
           Of == {i \in 1..Len(l) : l[i] = f}
<1>1. fs \in Seq(AllFields) /\ Len(fs) \in Nat
  BY DEF Sound
<1>2. \A x : Of # {x}
  BY FS_Singleton
<1>3. ASSUME ~table.progressive PROVE FALSE
  <2>1. l = [k \in 1..Len(fs) |-> k]
    BY <1>3 DEF Sound, LeafChoices
  <2>2. Len(l) = Len(fs)
    BY <1>1, <2>1
  <2>3. Of = {f}
    BY <2>1, <2>2
  <2> QED BY <1>2, <2>3
<1>4. ASSUME table.progressive, fs[f].id # NoId,
             \A e \in 1..Len(fs) : fs[e].id = fs[f].id => e = f
      PROVE  FALSE
  <2> DEFINE i == fs[f].id + 1
  <2>1. fs[f] \in AllFields
    BY <1>1
  <2>2. fs[f].id \in Nat /\ fs[f].id \in Indices(g.container)
    BY <1>4, <2>1, IdsAre DEF Indices
  <2>3. M \in Nat /\ fs[f].id <= M
    BY <1>1, <2>2, MaxIndexIs
  <2>4. i \in 1..(M + 1) /\ i - 1 = fs[f].id
    BY <2>2, <2>3
  <2>5. /\ Len(l) = M + 1
        /\ \A j \in 1..(M + 1) :
             /\ l[j] \in 0..Len(fs)
             /\ l[j] # 0 => fs[l[j]].id = j - 1
             /\ l[j] = 0 => \A k \in 1..Len(fs) : fs[k].id # j - 1
    BY <1>4, LeavesAre
  <2>6. l[i] = f
    <3>1. l[i] # 0
      BY <2>4, <2>5
    <3>2. \A k \in 0..Len(fs) : k # 0 => k \in 1..Len(fs)
      BY <1>1
    <3>3. l[i] \in 0..Len(fs) /\ fs[l[i]].id = i - 1
      BY <2>4, <2>5, <3>1
    <3>4. l[i] \in 1..Len(fs) /\ fs[l[i]].id = fs[f].id
      BY <2>4, <3>1, <3>2, <3>3
    <3> QED BY <1>4, <3>4
  <2>7. ASSUME NEW j \in 1..(M + 1), l[j] = f PROVE j = i
    <3>1. f # 0 /\ fs[f].id = j - 1
      BY <2>5, <2>7
    <3> QED BY <2>3, <3>1
  <2>8. Of = {i}
    BY <2>4, <2>5, <2>6, <2>7
  <2> QED BY <1>2, <2>8
<1> QED BY <1>3, <1>4

\* The active bits are those of the leaves.
LEMMA SoundBits ==
  ASSUME NEW table, NEW g, Sound(table, g), table.progressive
  PROVE  LET bits == ActiveBits(g.container)
         IN  /\ Len(g.leaves) <= Cardinality(DOMAIN bits)
             /\ \A i \in DOMAIN bits :
                  bits[i] <=> i < Len(g.leaves) /\ g.leaves[i + 1] # Gap
<1> DEFINE c == g.container
           fs == c.fields
           M == MaxIndex(c)
           top == 8 * ((M + 8) \div 8) - 1
           bits == ActiveBits(c)
<1>1. fs \in Seq(AllFields) /\ Len(fs) \in Nat /\ M \in Nat
  BY MaxIndexIs DEF Sound
<1>2. top \in Nat /\ M <= top
  BY <1>1
<1>3. DOMAIN bits = 0..top /\ \A i \in 0..top : bits[i] <=> i \in Indices(c)
  BY DEF ActiveBits
<1>4. Cardinality(0..top) = top + 1
  BY <1>2, FS_Interval
<1>5. /\ Len(g.leaves) = M + 1
      /\ \A i \in 1..(M + 1) :
           /\ g.leaves[i] \in 0..Len(fs)
           /\ g.leaves[i] # 0 => fs[g.leaves[i]].id = i - 1
           /\ g.leaves[i] = 0 => \A k \in 1..Len(fs) : fs[k].id # i - 1
  BY LeavesAre
<1>6. Indices(c) = {fs[k].id : k \in 1..Len(fs)} \ {NoId}
  BY DEF Indices
<1> HIDE DEF top, bits, M
<1>7. ASSUME NEW i \in 0..top
      PROVE  bits[i] <=> i < Len(g.leaves) /\ g.leaves[i + 1] # Gap
  <2>1. CASE i \in Indices(c)
    <3>1. i <= M
      BY <1>1, <2>1, MaxIndexIs DEF M, Sound
    <3>2. i + 1 \in 1..(M + 1) /\ i + 1 - 1 = i
      BY <1>1, <1>2, <3>1
    <3>3. \E k \in 1..Len(fs) : fs[k].id = i
      BY <1>6, <2>1
    <3>4. g.leaves[i + 1] # 0
      BY <1>5, <3>2, <3>3
    <3> QED BY <1>1, <1>2, <1>3, <1>5, <2>1, <3>1, <3>4 DEF Gap
  <2>2. CASE i \notin Indices(c)
    <3>1. ASSUME i < Len(g.leaves), g.leaves[i + 1] # 0 PROVE FALSE
      <4>1. i + 1 \in 1..(M + 1) /\ i + 1 - 1 = i
        BY <1>1, <1>2, <1>5, <3>1
      <4>2. g.leaves[i + 1] \in 1..Len(fs) /\ fs[g.leaves[i + 1]].id = i
        BY <1>1, <1>5, <3>1, <4>1
      <4>3. i = NoId
        BY <1>6, <2>2, <4>2
      <4>4. NoId <= M
        BY <1>1, <4>1, <4>3 DEF NoId
      <4>5. M \in Indices(c) /\ M <= NoId
        <5>1. \A k \in 1..Len(fs) : fs[k].id \in Nat /\ fs[k].id <= NoId
          BY <1>1, IdsAre
        <5>2. M \in Indices(c)
          BY <1>1, <4>4, MaxIndexIs DEF M, Sound, MaxIndex, NoId
        <5> QED BY <1>6, <5>1, <5>2
      <4> QED BY <1>1, <1>6, <4>4, <4>5 DEF NoId
    <3> QED BY <1>3, <2>2, <3>1 DEF Gap
  <2> QED BY <2>1, <2>2
<1> QED BY <1>1, <1>2, <1>3, <1>4, <1>5, <1>7 DEF bits

-----------------------------------------------------------------------------
(* Theorems.                                                               *)

LEMMA InvariantKept == Init /\ [][Next]_vars => [](IInv /\ OutputInv)
<1>1. Init => IInv /\ OutputInv
  <2> SUFFICES ASSUME Init PROVE OutputInv
    BY InitInvariant
  <2>2. code = <<>> /\ Len(code) = 0 /\ IsSeq(code) /\ pc = "idle" /\ result = "none"
    <3>1. <<>> \in Seq({})
      OBVIOUS
    <3>2. IsSeq(<<>>) /\ Len(<<>>) = 0
      BY <3>1, SeqIs
    <3> QED BY <3>2 DEF Init
  <2>3. Done = {}
    <3>1. parsed = <<>> /\ Len(parsed) = 0
      BY DEF Init
    <3>2. Tables = {}
      BY <3>1 DEF Tables
    <3> QED BY <3>2 DEF Done
  <2> QED BY <2>2, <2>3, FS_EmptySet DEF OutputInv
<1>2. IInv /\ OutputInv /\ [Next]_vars => (IInv /\ OutputInv)'
  BY StepInvariant, StepOutput
<1> QED BY <1>1, <1>2, PTL

LEMMA InvariantExplains ==
  IInv /\ OutputInv => FailureLeaves /\ UnhashedExplained /\ ActiveBitsRight
<1>1. IInv => FailureLeaves
  BY DEF IInv
<1>2. IInv /\ OutputInv => UnhashedExplained
  BY GeneratedSound, SoundHashes DEF UnhashedExplained
<1>3. IInv /\ OutputInv => ActiveBitsRight
  BY GeneratedSound, SoundBits DEF ActiveBitsRight
<1> QED BY <1>1, <1>2, <1>3

\* What a run of flatc has parsed, analyzed and written, at every moment.
THEOREM FlatcInvariant == Spec => [](IInv /\ OutputInv)
BY InvariantKept, PTL DEF Spec

\* Types; the stack of AnalyzeContainer keeps to its bound, and nothing is on
\* it when no code is generated.
THEOREM FlatcTypeCorrect == Spec => []TypeOK
<1>1. IInv => TypeOK
  BY DEF IInv
<1> QED BY <1>1, FlatcInvariant, PTL

\* A run that has not ended well leaves the Rust file as it was or torn, and
\* the Go files from the table where it stopped as they were (SaveType in the
\* loop of the Go generator, SaveFile after that of the Rust one).
THEOREM FailureAlwaysLeaves == Spec => []FailureLeaves
BY InvariantExplains, FlatcInvariant, PTL

\* A field that has no leaf of its own is in a progressive table, without an
\* id or with the id of another (index_to_field in GenHashMethod).
THEOREM UnhashedAlwaysExplained == Spec => []UnhashedExplained
BY InvariantExplains, FlatcInvariant, PTL

\* The active bits and the leaves, which two loops of the generator count,
\* agree (AnalyzeContainer and GenHashMethod).
THEOREM ActiveBitsAlwaysRight == Spec => []ActiveBitsRight
BY InvariantExplains, FlatcInvariant, PTL
=============================================================================
