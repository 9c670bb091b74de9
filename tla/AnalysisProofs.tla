--------------------------- MODULE AnalysisProofs ---------------------------
(***************************************************************************)
(* Proofs about the recursive analysis in Flatc, for every set of schemas  *)
(* that the parser can hold: what the generators write of a table and of   *)
(* the tables nested in it agrees, is the layout that SSZ defines, and the *)
(* stack overflows just on tables that contain themselves.                 *)
(***************************************************************************)
EXTENDS FlatcProofs

-----------------------------------------------------------------------------
(* Where a relation between tables leads.                                  *)

LEMMA NamesFinite ==
  ASSUME NEW tables, IsSeq(tables)
  PROVE  /\ IsFiniteSet(TableNames(tables))
         /\ Cardinality(TableNames(tables)) <= Len(tables)
<1> DEFINE N == Len(tables)
           f == [k \in 1..N |-> tables[k].name]
<1>1. N \in Nat
  BY SeqFacts
<1>3. f \in Surjection(1..N, TableNames(tables))
  BY DEF Surjection, TableNames
<1> HIDE DEF N, f
<1>2. IsFiniteSet(1..N) /\ Cardinality(1..N) = N
  BY <1>1, FS_Interval
<1> QED BY <1>2, <1>3, FS_Surjection DEF N

\* The sets that lead to it, step by step.
Leads(of, from, W, n) ==
  /\ W[0] = from
  /\ \A k \in 1..n : W[k] = W[k - 1] \union UNION {of[m] : m \in W[k - 1]}

LEMMA LeadsExists ==
  ASSUME NEW of, NEW from, NEW n \in Nat
  PROVE  \E W : Leads(of, from, W, n)
<1> DEFINE Bad == {k \in Nat : ~\E W : Leads(of, from, W, k)}
<1> SUFFICES ASSUME Bad # {} PROVE FALSE
  OBVIOUS
<1>1. PICK k \in Bad : \A j \in Bad : k <= j
  BY LeastOf
<1>2. CASE k = 0
  <2>1. Leads(of, from, [j \in {0} |-> from], 0)
    BY DEF Leads
  <2> QED BY <1>1, <1>2, <2>1
<1>3. CASE k # 0
  <2>1. k - 1 \in Nat /\ ~(k <= k - 1) /\ k \in Nat
    BY <1>1, <1>3
  <2>2. PICK W : Leads(of, from, W, k - 1)
    BY <1>1, <2>1
  <2> DEFINE V == [j \in 0..k |-> IF j = k THEN W[k - 1] \union UNION {of[m] : m \in W[k - 1]}
                                           ELSE W[j]]
  <2>3. V[0] = from
    BY <1>3, <2>1, <2>2 DEF Leads
  <2>4. ASSUME NEW j \in 1..k PROVE V[j] = V[j - 1] \union UNION {of[m] : m \in V[j - 1]}
    <3>1. V[j - 1] = W[j - 1]
      BY <2>1
    <3>2. CASE j = k
      BY <2>1, <3>1, <3>2
    <3>3. CASE j # k
      <4>1. j \in 1..(k - 1) /\ j \in 0..k
        BY <2>1, <3>3
      <4>2. V[j] = W[j]
        BY <3>3, <4>1
      <4>3. W[j] = W[j - 1] \union UNION {of[m] : m \in W[j - 1]}
        BY <2>2, <4>1 DEF Leads
      <4> QED BY <3>1, <4>2, <4>3
    <3> QED BY <3>2, <3>3
  <2>5. Leads(of, from, V, k)
    BY <2>3, <2>4 DEF Leads
  <2> QED BY <1>1, <2>5
<1> QED BY <1>2, <1>3

LEMMA ClosureLeads ==
  ASSUME NEW tables, IsSeq(tables), NEW of, NEW from
  PROVE  \E W : Leads(of, from, W, Len(tables)) /\ Closure(tables, of, from) = W[Len(tables)]
<1> DEFINE N == Len(tables)
           Is(W) == W = [n \in 0..N |-> IF n = 0 THEN from
                                        ELSE W[n - 1] \union UNION {of[m] : m \in W[n - 1]}]
           Within == CHOOSE W : Is(W)
<1>1. N \in Nat
  BY SeqFacts
<1> HIDE DEF N
<1>2. \E W : Is(W)
  <2>1. PICK V : Leads(of, from, V, N)
    BY <1>1, LeadsExists
  <2> DEFINE W == [n \in 0..N |-> V[n]]
  <2>2. ASSUME NEW n \in 0..N
        PROVE  W[n] = IF n = 0 THEN from ELSE W[n - 1] \union UNION {of[m] : m \in W[n - 1]}
    <3>1. CASE n = 0
      BY <1>1, <2>1, <3>1 DEF Leads
    <3>2. CASE n # 0
      <4>1. n \in 1..N /\ n - 1 \in 0..N
        BY <1>1, <3>2
      <4>2. W[n - 1] = V[n - 1] /\ W[n] = V[n]
        BY <4>1
      <4> QED BY <2>1, <3>2, <4>1, <4>2 DEF Leads
    <3> QED BY <3>1, <3>2
  <2>3. W = [n \in 0..N |-> W[n]]
    OBVIOUS
  <2> HIDE DEF W
  <2>4. Is(W)
    BY <2>2, <2>3
  <2> QED BY <2>4
<1>3. Is(Within)
  BY <1>2
<1>4. Closure(tables, of, from) = Within[N]
  BY DEF Closure, N
<1> HIDE DEF Within
<1>5. Leads(of, from, Within, N)
  <2>1. Within[0] = from
    BY <1>1, <1>3
  <2>2. ASSUME NEW k \in 1..N
        PROVE  Within[k] = Within[k - 1] \union UNION {of[m] : m \in Within[k - 1]}
    <3>1. k \in 0..N /\ k # 0
      BY <1>1
    <3> QED BY <1>3, <3>1
  <2> QED BY <2>1, <2>2 DEF Leads
<1> QED BY <1>4, <1>5 DEF N

\* It is the least set of names that has the first ones and is closed.
LEMMA ClosureIs ==
  ASSUME NEW tables, IsSeq(tables),
         NEW of \in [TableNames(tables) -> SUBSET TableNames(tables)],
         NEW from \in SUBSET TableNames(tables)
  PROVE  LET C == Closure(tables, of, from)
         IN  /\ C \subseteq TableNames(tables)
             /\ from \subseteq C
             /\ \A m \in C : of[m] \subseteq C
             /\ \A X : from \subseteq X /\ (\A m \in X : of[m] \subseteq X) => C \subseteq X
<1> DEFINE N == Len(tables)
           T == TableNames(tables)
           C == Closure(tables, of, from)
<1>1. N \in Nat /\ IsFiniteSet(T) /\ Cardinality(T) <= N
  BY SeqFacts, NamesFinite
<1>2. PICK W : Leads(of, from, W, N) /\ C = W[N]
  BY ClosureLeads
<1>a. of \in [T -> SUBSET T] /\ from \in SUBSET T
  OBVIOUS
<1> HIDE DEF N, T, C
<1>3. ASSUME NEW X, from \subseteq X, \A m \in X : of[m] \subseteq X
      PROVE  \A k \in 0..N : W[k] \subseteq X
  <2> DEFINE Bad == {k \in 0..N : ~(W[k] \subseteq X)}
  <2> SUFFICES ASSUME Bad # {} PROVE FALSE
    OBVIOUS
  <2>1. Bad \subseteq Nat
    BY <1>1
  <2>2. PICK k \in Bad : \A j \in Bad : k <= j
    BY <2>1, LeastOf
  <2>3. k # 0
    BY <1>2, <1>3, <2>2 DEF Leads
  <2>4. k \in 1..N /\ k - 1 \in 0..N /\ ~(k <= k - 1)
    BY <1>1, <2>2, <2>3
  <2>5. W[k - 1] \subseteq X
    BY <2>2, <2>4
  <2>6. W[k] = W[k - 1] \union UNION {of[m] : m \in W[k - 1]}
    BY <1>2, <2>4 DEF Leads
  <2>7. W[k] \subseteq X
    BY <1>3, <2>5, <2>6
  <2> QED BY <2>2, <2>7
<1>4. ASSUME NEW X, from \subseteq X, \A m \in X : of[m] \subseteq X
      PROVE  C \subseteq X
  <2>1. \A k \in 0..N : W[k] \subseteq X
    BY <1>3, <1>4
  <2> QED BY <1>1, <1>2, <2>1
<1>5. \A k \in 0..N : W[k] \subseteq T
  <2>1. \A m \in T : of[m] \subseteq T
    BY <1>a
  <2> QED BY <1>3, <1>a, <2>1
<1>6. ASSUME NEW j \in 0..N PROVE \A k \in j..N : W[j] \subseteq W[k]
  <2> DEFINE Bad == {k \in j..N : ~(W[j] \subseteq W[k])}
  <2> SUFFICES ASSUME Bad # {} PROVE FALSE
    OBVIOUS
  <2>1. Bad \subseteq Nat
    BY <1>1
  <2>2. PICK k \in Bad : \A i \in Bad : k <= i
    BY <2>1, LeastOf
  <2>3. k # j
    BY <2>2
  <2>4. k \in 1..N /\ k - 1 \in j..N /\ ~(k <= k - 1)
    BY <1>1, <2>2, <2>3
  <2>5. W[j] \subseteq W[k - 1]
    BY <2>2, <2>4
  <2>6. W[k] = W[k - 1] \union UNION {of[m] : m \in W[k - 1]}
    BY <1>2, <2>4 DEF Leads
  <2> QED BY <2>2, <2>5, <2>6
<1>7. from \subseteq C
  BY <1>1, <1>2, <1>6 DEF Leads
<1>8. ASSUME NEW k \in 1..N, W[k] = W[k - 1]
      PROVE  \A m \in C : of[m] \subseteq C
  <2>1. k - 1 \in 0..N /\ k \in 0..N /\ N \in k..N /\ N \in 0..N
    BY <1>1
  <2>2. UNION {of[m] : m \in W[k - 1]} \subseteq W[k - 1]
    BY <1>2, <1>8 DEF Leads
  <2>3. \A m \in W[k - 1] : of[m] \subseteq W[k - 1]
    BY <2>2
  <2>4. from \subseteq W[k - 1]
    <3>1. 0 \in 0..N /\ k - 1 \in 0..N
      BY <1>1
    <3>2. W[0] \subseteq W[k - 1]
      BY <1>6, <3>1
    <3> QED BY <1>2, <3>2 DEF Leads
  <2>5. W[N] \subseteq W[k - 1]
    BY <1>3, <2>1, <2>3, <2>4
  <2>6. W[k] \subseteq W[N]
    BY <1>6, <2>1
  <2>7. C = W[k - 1]
    BY <1>2, <1>8, <2>5, <2>6
  <2> QED BY <2>3, <2>7
<1>9. ASSUME \A k \in 1..N : W[k] # W[k - 1], from # {}
      PROVE  FALSE
  <2> DEFINE Bad == {k \in 0..N : ~(IsFiniteSet(W[k]) /\ Cardinality(W[k]) >= k + 1)}
  <2>1. \A k \in 0..N : IsFiniteSet(W[k]) /\ Cardinality(W[k]) \in Nat
    <3>1. \A k \in 0..N : IsFiniteSet(W[k])
      BY <1>1, <1>5, FS_Subset
    <3> QED BY <3>1, FS_CardinalityType
  <2>2. Bad = {}
    <3> SUFFICES ASSUME Bad # {} PROVE FALSE
      OBVIOUS
    <3>1. Bad \subseteq Nat
      BY <1>1
    <3>2. PICK k \in Bad : \A i \in Bad : k <= i
      BY <3>1, LeastOf
    <3>3. k # 0
      <4>1. 0 \in 0..N
        BY <1>1
      <4>2. W[0] # {} /\ IsFiniteSet(W[0]) /\ Cardinality(W[0]) \in Nat
        BY <1>2, <1>9, <2>1, <4>1 DEF Leads
      <4>3. Cardinality(W[0]) # 0
        BY <4>2, FS_EmptySet
      <4>4. Cardinality(W[0]) >= 0 + 1
        BY <4>2, <4>3
      <4> QED BY <3>2, <4>2, <4>4
    <3>4. k \in 1..N /\ k - 1 \in 0..N /\ ~(k <= k - 1) /\ k \in 0..N /\ k \in (k - 1)..N
      BY <1>1, <3>2, <3>3
    <3>5. Cardinality(W[k - 1]) >= k - 1 + 1
      BY <3>2, <3>4
    <3>6. W[k - 1] \subseteq W[k] /\ W[k - 1] # W[k]
      BY <1>6, <1>9, <3>4
    <3>7. Cardinality(W[k - 1]) <= Cardinality(W[k]) /\ Cardinality(W[k - 1]) # Cardinality(W[k])
      BY <2>1, <3>4, <3>6, FS_Subset
    <3>8. Cardinality(W[k]) >= k + 1
      BY <2>1, <3>4, <3>5, <3>7
    <3> QED BY <2>1, <3>2, <3>4, <3>8
  <2>3. N \in 0..N
    BY <1>1
  <2>4. Cardinality(W[N]) >= N + 1
    BY <2>2, <2>3
  <2>5. Cardinality(W[N]) <= Cardinality(T)
    BY <1>1, <1>5, <2>3, FS_Subset
  <2>6. Cardinality(W[N]) \in Nat /\ Cardinality(T) \in Nat
    BY <1>1, <2>1, <2>3, FS_CardinalityType
  <2> QED BY <1>1, <2>4, <2>5, <2>6
<1>10. ASSUME from = {} PROVE \A m \in C : of[m] \subseteq C
  <2>1. C \subseteq {}
    BY <1>4, <1>10
  <2> QED BY <2>1
<1>11. \A m \in C : of[m] \subseteq C
  BY <1>8, <1>9, <1>10
<1>12. C \subseteq T
  BY <1>1, <1>2, <1>5
<1> QED BY <1>4, <1>7, <1>11, <1>12 DEF T, C

-----------------------------------------------------------------------------
(* Tables.                                                                 *)

LEMMA TableOf ==
  ASSUME NEW tables, IsSource(tables), NEW name \in TableNames(tables)
  PROVE  LET t == Named(tables, name)
         IN  /\ t.name = name /\ name # NoTable
             /\ \E k \in 1..Len(tables) : t = tables[k]
             /\ IsSeq(t.fields) /\ Len(t.fields) \in Nat
             /\ \A k \in 1..Len(t.fields) :
                  LET f == t.fields[k]
                  IN  /\ IsField(f)
                      /\ Callee(f) \in TableNames(tables) \union {NoTable}
                      /\ IF t.struct THEN FitsStruct(tables, t, f.type) ELSE FitsTable(f.type)
<1> DEFINE t == Named(tables, name)
<1>1. IsSeq(tables)
  BY DEF IsSource, IsSeq
<1>2. \E u \in Range(tables) : u.name = name
  BY <1>1, SeqFacts DEF TableNames, Range
<1>3. t \in Range(tables) /\ t.name = name
  BY <1>2 DEF Named
<1>4. PICK k \in 1..Len(tables) : t = tables[k]
  BY <1>1, <1>3, SeqFacts DEF Range
<1>5. IsTable(tables[k])
  BY DEF IsSource
<1> HIDE DEF t
<1>6. IsSeq(t.fields) /\ t.name # NoTable
  BY <1>4, <1>5 DEF IsTable, IsSeq
<1>7. Len(t.fields) \in Nat /\ \A j \in 1..Len(t.fields) : t.fields[j] \in Range(t.fields)
  BY <1>6, SeqFacts DEF Range
<1>8. \A f \in Range(t.fields) :
        /\ IsField(f)
        /\ Callee(f) \in TableNames(tables) \union {NoTable}
        /\ IF t.struct THEN FitsStruct(tables, t, f.type) ELSE FitsTable(f.type)
  BY <1>4, <1>5 DEF IsSource, IsTable
<1> QED BY <1>3, <1>4, <1>6, <1>7, <1>8 DEF t

\* The fields of the table of a name.
Fields(tables, name) == Named(tables, name).fields

LEMMA CallsAre ==
  ASSUME NEW tables, IsSource(tables)
  PROVE  /\ Calls(tables) \in [TableNames(tables) -> SUBSET TableNames(tables)]
         /\ Inline(tables) \in [TableNames(tables) -> SUBSET TableNames(tables)]
         /\ \A name \in TableNames(tables) :
              LET fs == Fields(tables, name)
              IN  /\ \A m : m \in Calls(tables)[name] <=>
                       /\ m # NoTable
                       /\ \E k \in 1..Len(fs) : ~fs[k].deprecated /\ Callee(fs[k]) = m
                  /\ \A m : m \in Inline(tables)[name] <=>
                       /\ m # NoTable
                       /\ \E k \in 1..Len(fs) : /\ ~fs[k].deprecated /\ Callee(fs[k]) = m
                                                /\ fs[k].type.base # "vector"
<1> DEFINE T == TableNames(tables)
<1>1. ASSUME NEW name \in T
      PROVE  LET fs == Fields(tables, name)
             IN  /\ \A m : m \in Calls(tables)[name] <=>
                      /\ m # NoTable
                      /\ \E k \in 1..Len(fs) : ~fs[k].deprecated /\ Callee(fs[k]) = m
                 /\ \A m : m \in Inline(tables)[name] <=>
                      /\ m # NoTable
                      /\ \E k \in 1..Len(fs) : /\ ~fs[k].deprecated /\ Callee(fs[k]) = m
                                               /\ fs[k].type.base # "vector"
  BY DEF Calls, Inline, LiveFields, Fields
<1>2. ASSUME NEW name \in T
      PROVE  \A k \in 1..Len(Fields(tables, name)) :
               Callee(Fields(tables, name)[k]) \in T \union {NoTable}
  BY TableOf DEF Fields
<1>3. ASSUME NEW name \in T
      PROVE  Calls(tables)[name] \subseteq T /\ Inline(tables)[name] \subseteq T
  BY <1>1, <1>2
<1>4. \A name \in T : Calls(tables)[name] \in SUBSET T /\ Inline(tables)[name] \in SUBSET T
  BY <1>3
<1>5. Calls(tables) = [name \in T |-> Calls(tables)[name]]
  BY DEF Calls
<1>6. Inline(tables) = [name \in T |-> Inline(tables)[name]]
  BY DEF Inline
<1>7. Calls(tables) \in [T -> SUBSET T] /\ Inline(tables) \in [T -> SUBSET T]
  BY <1>4, <1>5, <1>6
<1> QED BY <1>1, <1>7

-----------------------------------------------------------------------------
(* The container that the fields of a table are collected in.              *)

\* What is known of the table that a field needs.
NestedIn(a, field) == IF Callee(field) = NoTable THEN NoFields ELSE a[Callee(field)]

\* The containers c[0], c[1], ... after each of the first fields, when those of
\* the tables nested are a.
Grows(fields, a, last, c) ==
  /\ c[0] = NoFields
  /\ \A k \in 1..last :
       IF fields[k].deprecated THEN c[k] = c[k - 1]
       ELSE /\ Callee(fields[k]) \in DOMAIN a \union {NoTable}
            /\ Callee(fields[k]) = NoTable =>
                 ResolveSszFieldInfo(fields[k], NoFields) # Unsupported
            /\ c[k] = AddField(c[k - 1], fields[k],
                               ResolveSszFieldInfo(fields[k], NestedIn(a, fields[k])))

Collected(fields, a, pos, container) ==
  \E c : Grows(fields, a, pos - 1, c) /\ container = c[pos - 1]

LEMMA CollectNone ==
  ASSUME NEW fields, NEW a
  PROVE  Collected(fields, a, 1, NoFields)
<1> DEFINE c == [k \in {0} |-> NoFields]
<1>1. Grows(fields, a, 1 - 1, c) /\ NoFields = c[1 - 1]
  BY DEF Grows
<1> QED BY <1>1 DEF Collected

\* One field more.
LEMMA CollectMore ==
  ASSUME NEW fields, NEW a, NEW pos \in Nat \ {0}, NEW container,
         Collected(fields, a, pos, container), NEW more,
         IF fields[pos].deprecated THEN more = container
         ELSE /\ Callee(fields[pos]) \in DOMAIN a \union {NoTable}
              /\ Callee(fields[pos]) = NoTable =>
                   ResolveSszFieldInfo(fields[pos], NoFields) # Unsupported
              /\ more = AddField(container, fields[pos],
                                 ResolveSszFieldInfo(fields[pos], NestedIn(a, fields[pos])))
  PROVE  Collected(fields, a, pos + 1, more)
<1>1. PICK c : Grows(fields, a, pos - 1, c) /\ container = c[pos - 1]
  BY DEF Collected
<1> DEFINE d == [k \in 0..pos |-> IF k = pos THEN more ELSE c[k]]
<1>2. /\ d[pos] = more
      /\ \A k \in 0..(pos - 1) : d[k] = c[k]
      /\ 0 \in 0..(pos - 1) /\ pos - 1 \in 0..(pos - 1)
      /\ \A k \in 1..pos : k = pos \/ k \in 1..(pos - 1)
      /\ \A k \in 1..(pos - 1) : k \in 0..(pos - 1) /\ k - 1 \in 0..(pos - 1)
      /\ pos + 1 - 1 = pos
  OBVIOUS
<1> HIDE DEF d
<1>3. ASSUME NEW k \in 1..pos
      PROVE  IF fields[k].deprecated THEN d[k] = d[k - 1]
             ELSE /\ Callee(fields[k]) \in DOMAIN a \union {NoTable}
                  /\ Callee(fields[k]) = NoTable =>
                       ResolveSszFieldInfo(fields[k], NoFields) # Unsupported
                  /\ d[k] = AddField(d[k - 1], fields[k],
                                     ResolveSszFieldInfo(fields[k], NestedIn(a, fields[k])))
  <2>1. CASE k = pos
    <3>1. d[k - 1] = container /\ d[k] = more
      BY <1>1, <1>2, <2>1
    <3> QED BY <2>1, <3>1
  <2>2. CASE k \in 1..(pos - 1)
    <3>1. d[k - 1] = c[k - 1] /\ d[k] = c[k]
      BY <1>2, <2>2
    <3> QED BY <1>1, <2>2, <3>1 DEF Grows
  <2> QED BY <1>2, <2>1, <2>2
<1>4. Grows(fields, a, pos, d)
  BY <1>1, <1>2, <1>3 DEF Grows
<1> QED BY <1>2, <1>4 DEF Collected

\* More tables are known.
Extends(b, a) == DOMAIN a \subseteq DOMAIN b /\ \A m \in DOMAIN a : b[m] = a[m]

LEMMA CollectKnown ==
  ASSUME NEW fields, NEW a, NEW b, Extends(b, a), NEW pos, NEW container,
         Collected(fields, a, pos, container)
  PROVE  Collected(fields, b, pos, container)
<1>1. PICK c : Grows(fields, a, pos - 1, c) /\ container = c[pos - 1]
  BY DEF Collected
<1>2. ASSUME NEW k \in 1..(pos - 1), ~fields[k].deprecated
      PROVE  /\ Callee(fields[k]) \in DOMAIN b \union {NoTable}
             /\ NestedIn(b, fields[k]) = NestedIn(a, fields[k])
  <2>1. Callee(fields[k]) \in DOMAIN a \union {NoTable}
    BY <1>1, <1>2 DEF Grows
  <2> QED BY <2>1 DEF Extends, NestedIn
<1>3. Grows(fields, b, pos - 1, c)
  BY <1>1, <1>2 DEF Grows
<1> QED BY <1>1, <1>3 DEF Collected

\* The fields determine the container.
LEMMA CollectOnce ==
  ASSUME NEW fields, NEW a, NEW pos \in Nat \ {0},
         NEW x, Collected(fields, a, pos, x), NEW y, Collected(fields, a, pos, y)
  PROVE  x = y
<1>1. PICK c : Grows(fields, a, pos - 1, c) /\ x = c[pos - 1]
  BY DEF Collected
<1>2. PICK d : Grows(fields, a, pos - 1, d) /\ y = d[pos - 1]
  BY DEF Collected
<1> DEFINE Bad == {k \in 0..(pos - 1) : c[k] # d[k]}
<1>3. Bad = {}
  <2> SUFFICES ASSUME Bad # {} PROVE FALSE
    OBVIOUS
  <2>1. Bad \subseteq Nat
    OBVIOUS
  <2>2. PICK k \in Bad : \A j \in Bad : k <= j
    BY <2>1, LeastOf
  <2>3. k # 0
    BY <1>1, <1>2, <2>2 DEF Grows
  <2>4. k \in 1..(pos - 1) /\ k - 1 \in 0..(pos - 1) /\ ~(k <= k - 1)
    BY <2>2, <2>3
  <2>5. c[k - 1] = d[k - 1]
    BY <2>2, <2>4
  <2>6. c[k] = d[k]
    BY <1>1, <1>2, <2>4, <2>5 DEF Grows
  <2> QED BY <2>2, <2>6
<1>4. pos - 1 \in 0..(pos - 1)
  OBVIOUS
<1> QED BY <1>1, <1>2, <1>3, <1>4

-----------------------------------------------------------------------------
(* The tables whose analysis is known.                                     *)

\* Each of them, with the containers of those that it needs, which were known
\* before: their ranks are lower.
Analyses(tables, a, rank, n) ==
  /\ n \in Nat
  /\ DOMAIN a \subseteq TableNames(tables)
  /\ \A m \in DOMAIN a :
       /\ rank[m] \in Nat /\ rank[m] < n
       /\ Collected(Fields(tables, m), a, Len(Fields(tables, m)) + 1, a[m])
       /\ \A k \in Calls(tables)[m] : k \in DOMAIN a /\ rank[k] < rank[m]

LEMMA NothingKnown ==
  ASSUME NEW tables
  PROVE  \E a, rank : Analyses(tables, a, rank, 0) /\ DOMAIN a = {}
<1> DEFINE a == [m \in {} |-> NoFields]
<1>1. DOMAIN a = {}
  OBVIOUS
<1> HIDE DEF a
<1>2. Analyses(tables, a, a, 0)
  BY <1>1 DEF Analyses
<1> QED BY <1>1, <1>2

\* The calls of a table whose fields have been collected.
LEMMA CollectedCalls ==
  ASSUME NEW tables, IsSource(tables), NEW name \in TableNames(tables), NEW a, NEW container,
         Collected(Fields(tables, name), a, Len(Fields(tables, name)) + 1, container)
  PROVE  Calls(tables)[name] \subseteq DOMAIN a
<1> DEFINE fs == Fields(tables, name)
<1>1. Len(fs) \in Nat
  BY TableOf DEF Fields
<1> DEFINE n == Len(fs)
<1>2. n \in Nat /\ n + 1 - 1 = n
  BY <1>1
<1>3. PICK c : Grows(fs, a, n, c)
  BY <1>2 DEF Collected
<1> SUFFICES ASSUME NEW m \in Calls(tables)[name] PROVE m \in DOMAIN a
  OBVIOUS
<1>4. PICK k \in 1..n : ~fs[k].deprecated /\ Callee(fs[k]) = m /\ m # NoTable
  BY CallsAre
<1> QED BY <1>3, <1>4 DEF Grows

\* A table more.
LEMMA MoreKnown ==
  ASSUME NEW tables, IsSource(tables), NEW a, NEW rank, NEW n, Analyses(tables, a, rank, n),
         NEW name \in TableNames(tables), NEW container,
         Collected(Fields(tables, name), a, Len(Fields(tables, name)) + 1, container)
  PROVE  \E b, q, m : /\ Analyses(tables, b, q, m) /\ Extends(b, a)
                      /\ name \in DOMAIN b /\ b[name] = container
<1>1. CASE name \in DOMAIN a
  <2>1. Len(Fields(tables, name)) \in Nat
    BY TableOf DEF Fields
  <2>2. Len(Fields(tables, name)) + 1 \in Nat \ {0}
    BY <2>1
  <2>3. Collected(Fields(tables, name), a, Len(Fields(tables, name)) + 1, a[name])
    BY <1>1 DEF Analyses
  <2>4. a[name] = container
    BY <2>2, <2>3, CollectOnce
  <2> QED BY <1>1, <2>4 DEF Extends
<1>2. CASE name \notin DOMAIN a
  <2> DEFINE b == [k \in DOMAIN a \union {name} |-> IF k = name THEN container ELSE a[k]]
             q == [k \in DOMAIN a \union {name} |-> IF k = name THEN n ELSE rank[k]]
  <2>1. /\ DOMAIN b = DOMAIN a \union {name} /\ b[name] = container
        /\ \A k \in DOMAIN a : b[k] = a[k] /\ q[k] = rank[k]
        /\ q[name] = n
    BY <1>2
  <2> HIDE DEF b, q
  <2>2. Extends(b, a)
    BY <2>1 DEF Extends
  <2>3. n \in Nat /\ n + 1 \in Nat /\ n < n + 1
    BY DEF Analyses
  <2>4. Calls(tables)[name] \subseteq DOMAIN a
    BY CollectedCalls
  <2>5. ASSUME NEW m \in DOMAIN b
        PROVE  /\ q[m] \in Nat /\ q[m] < n + 1
               /\ Collected(Fields(tables, m), b, Len(Fields(tables, m)) + 1, b[m])
               /\ \A k \in Calls(tables)[m] : k \in DOMAIN b /\ q[k] < q[m]
    <3>1. CASE m = name
      <4>1. Collected(Fields(tables, m), b, Len(Fields(tables, m)) + 1, b[m])
        BY <2>1, <2>2, <3>1, CollectKnown
      <4>2. \A k \in Calls(tables)[m] : k \in DOMAIN b /\ q[k] < q[m]
        BY <2>1, <2>4, <3>1 DEF Analyses
      <4> QED BY <2>1, <2>3, <3>1, <4>1, <4>2
    <3>2. CASE m \in DOMAIN a
      <4>1. Collected(Fields(tables, m), b, Len(Fields(tables, m)) + 1, b[m])
        BY <2>1, <2>2, <3>2, CollectKnown DEF Analyses
      <4>2. \A k \in Calls(tables)[m] : k \in DOMAIN b /\ q[k] < q[m]
        BY <2>1, <3>2 DEF Analyses
      <4>3. q[m] \in Nat /\ q[m] < n + 1
        BY <2>1, <2>3, <3>2 DEF Analyses
      <4> QED BY <4>1, <4>2, <4>3
    <3> QED BY <2>1, <3>1, <3>2
  <2>6. Analyses(tables, b, q, n + 1)
    BY <2>1, <2>3, <2>5 DEF Analyses
  <2> QED BY <2>1, <2>2, <2>6
<1> QED BY <1>1, <1>2

-----------------------------------------------------------------------------
(* Tables that contain themselves.                                         *)

\* What an analysis reaches is the least set with what it calls for.
LEMMA ReachedIs ==
  ASSUME NEW tables, IsSource(tables), NEW name \in TableNames(tables)
  PROVE  LET R == Reached(tables, name)
         IN  /\ R \subseteq TableNames(tables)
             /\ Calls(tables)[name] \subseteq R
             /\ \A m \in R : Calls(tables)[m] \subseteq R
             /\ \A X : /\ Calls(tables)[name] \subseteq X
                       /\ \A m \in X : Calls(tables)[m] \subseteq X
                       => R \subseteq X
<1>1. IsSeq(tables)
  BY DEF IsSource, IsSeq
<1>2. /\ Calls(tables) \in [TableNames(tables) -> SUBSET TableNames(tables)]
      /\ Calls(tables)[name] \in SUBSET TableNames(tables)
  BY CallsAre
<1> QED BY <1>1, <1>2, ClosureIs DEF Reached

\* No table that is known contains itself.
LEMMA KnownNotCyclic ==
  ASSUME NEW tables, IsSource(tables), NEW a, NEW rank, NEW n, Analyses(tables, a, rank, n),
         NEW name \in DOMAIN a
  PROVE  ~Cyclic(tables, name)
<1>1. ASSUME NEW m \in DOMAIN a
      PROVE  Reached(tables, m) \subseteq {k \in DOMAIN a : rank[k] < rank[m]}
  <2> DEFINE X == {k \in DOMAIN a : rank[k] < rank[m]}
  <2>1. m \in TableNames(tables) /\ Calls(tables)[m] \subseteq X
    BY DEF Analyses
  <2>2. ASSUME NEW k \in X, NEW j \in Calls(tables)[k] PROVE j \in X
    <3>1. j \in DOMAIN a /\ rank[j] < rank[k] /\ rank[k] < rank[m]
      BY DEF Analyses
    <3>2. rank[j] \in Nat /\ rank[k] \in Nat /\ rank[m] \in Nat
      BY <3>1 DEF Analyses
    <3> QED BY <3>1, <3>2
  <2> QED BY <2>1, <2>2, ReachedIs
<1>2. ASSUME NEW m \in DOMAIN a, m \in Reached(tables, m) PROVE FALSE
  <2>1. rank[m] < rank[m] /\ rank[m] \in Nat
    BY <1>1, <1>2 DEF Analyses
  <2> QED BY <2>1
<1>3. Reached(tables, name) \subseteq DOMAIN a
  BY <1>1
<1> QED BY <1>2, <1>3 DEF Cyclic

\* A chain of calls that is longer than the tables comes back to one of them.
LEMMA LongChainCyclic ==
  ASSUME NEW tables, IsSource(tables), NEW n \in Nat, n > Len(tables), NEW names,
         \A k \in 1..n : names[k] \in TableNames(tables),
         \A k \in 1..(n - 1) : names[k + 1] \in Calls(tables)[names[k]]
  PROVE  Cyclic(tables, names[1])
<1> DEFINE T == TableNames(tables)
           N == Len(tables)
<1>1. N \in Nat /\ IsFiniteSet(T) /\ Cardinality(T) <= N /\ Cardinality(T) \in Nat
  BY SeqFacts, NamesFinite, FS_CardinalityType DEF IsSource, IsSeq
<1> HIDE DEF N
<1>2. ASSUME NEW i \in 1..n
      PROVE  \A k \in (i + 1)..n : names[k] \in Reached(tables, names[i])
  <2> DEFINE R == Reached(tables, names[i])
             Bad == {k \in (i + 1)..n : names[k] \notin R}
  <2> SUFFICES ASSUME Bad # {} PROVE FALSE
    OBVIOUS
  <2>1. Bad \subseteq Nat
    OBVIOUS
  <2>2. PICK k \in Bad : \A j \in Bad : k <= j
    BY <2>1, LeastOf
  <2>3. Calls(tables)[names[i]] \subseteq R /\ \A m \in R : Calls(tables)[m] \subseteq R
    BY ReachedIs
  <2> HIDE DEF R
  <2>4. CASE k = i + 1
    <3>1. i \in 1..(n - 1)
      BY <2>2, <2>4
    <3> QED BY <2>2, <2>3, <2>4, <3>1
  <2>5. CASE k # i + 1
    <3>1. k - 1 \in (i + 1)..n /\ k - 1 \in 1..(n - 1) /\ ~(k <= k - 1) /\ k - 1 + 1 = k
      BY <2>2, <2>5
    <3>2. names[k - 1] \in R
      BY <2>2, <3>1
    <3>3. names[k - 1 + 1] \in Calls(tables)[names[k - 1]]
      BY <3>1
    <3>4. names[k] \in Calls(tables)[names[k - 1]]
      BY <3>1, <3>3
    <3> QED BY <2>2, <2>3, <3>2, <3>4
  <2> QED BY <2>4, <2>5
<1>3. \E i, j \in 1..n : i # j /\ names[i] = names[j]
  <2> DEFINE f == [k \in 1..n |-> names[k]]
  <2>1. IsFiniteSet(1..n) /\ Cardinality(1..n) = n
    <3>1. n \in Nat /\ n > 0
      BY <1>1 DEF N
    <3>2. IsFiniteSet(1..n) /\ Cardinality(1..n) = IF 1 > n THEN 0 ELSE n - 1 + 1
      BY <3>1, FS_Interval
    <3> QED BY <3>1, <3>2
  <2>2. f \in [1..n -> T]
    OBVIOUS
  <2>3. Cardinality(T) < Cardinality(1..n)
    BY <1>1, <2>1 DEF N
  <2> HIDE DEF f
  <2>4. \E i, j \in 1..n : i # j /\ f[i] = f[j]
    BY <1>1, <2>1, <2>2, <2>3, FS_PigeonHole
  <2> QED BY <2>4 DEF f
<1>4. PICK i, j \in 1..n : i < j /\ names[i] = names[j]
  <2>1. PICK i, j \in 1..n : i # j /\ names[i] = names[j]
    BY <1>3
  <2>2. i < j \/ j < i
    BY <2>1
  <2> QED BY <2>1, <2>2
<1>5. names[i] \in Reached(tables, names[i])
  <2>1. j \in (i + 1)..n
    BY <1>4
  <2> QED BY <1>2, <1>4, <2>1
<1>6. names[i] \in Reached(tables, names[1]) \union {names[1]}
  <2>1. CASE i = 1
    BY <2>1
  <2>2. CASE i # 1
    <3>1. i \in 2..n /\ 1 \in 1..n /\ 1 + 1 = 2
      BY <2>2
    <3> QED BY <1>2, <3>1
  <2> QED BY <2>1, <2>2
<1> QED BY <1>5, <1>6 DEF Cyclic

-----------------------------------------------------------------------------
(* What the parser holds, when it has read all.                            *)

LEMMA SortedWhole ==
  ASSUME NEW s \in Sources, NEW k \in 1..Len(s), NEW t \in Sorted(s[k])
  PROVE  IsTable(t) /\ t.struct = s[k].struct /\ t.name = s[k].name
<1> DEFINE f == s[k].fields
           n == Len(f)
<1>1. /\ s[k] \in [name : STRING, progressive : BOOLEAN, struct : BOOLEAN, generated : BOOLEAN,
                   fields : Seq(Range(f))]
      /\ s[k].name # NoTable /\ \A g \in Range(f) : IsField(g)
  BY SourcesAssumption DEF IsSource, IsTable
<1>2. t.fields \in Seq(AllFields) /\ t.name = s[k].name /\ Range(t.fields) \subseteq Range(f)
  BY SortedTable DEF ParsedTable
<1>3. t.fields \in Seq(Range(t.fields))
  BY <1>2, SeqIs DEF IsSeq
<1>4. t = s[k] \/ \E p \in Bijection(1..n, 1..n) : t = [s[k] EXCEPT !.fields = [j \in 1..n |-> f[p[j]]]]
  <2>1. CASE s[k].struct \/ Ids(s[k]) = {}
    BY <2>1 DEF Sorted
  <2>2. CASE ~(s[k].struct \/ Ids(s[k]) = {})
    BY <2>2 DEF Sorted
  <2> QED BY <2>1, <2>2
<1>5. t = [s[k] EXCEPT !.fields = t.fields]
  <2>1. CASE t = s[k]
    <3>1. s[k] = [s[k] EXCEPT !.fields = s[k].fields]
      BY <1>1
    <3> QED BY <2>1, <3>1
  <2>2. CASE \E g : t = [s[k] EXCEPT !.fields = g]
    <3>1. PICK g : t = [s[k] EXCEPT !.fields = g]
      BY <2>2
    <3>2. t.fields = g
      BY <1>1, <3>1
    <3> QED BY <3>1, <3>2
  <2>3. (\E p \in Bijection(1..n, 1..n) : t = [s[k] EXCEPT !.fields = [j \in 1..n |-> f[p[j]]]])
          => \E g : t = [s[k] EXCEPT !.fields = g]
    OBVIOUS
  <2> QED BY <1>4, <2>1, <2>2, <2>3
<1> DEFINE h == t.fields
<1> HIDE DEF h
<1>6. /\ t \in [name : STRING, progressive : BOOLEAN, struct : BOOLEAN, generated : BOOLEAN,
                fields : Seq(Range(h))]
      /\ t.struct = s[k].struct
  <2>1. t = [s[k] EXCEPT !.fields = h] /\ h \in Seq(Range(h))
    BY <1>3, <1>5 DEF h
  <2> QED BY <1>1, <2>1
<1> QED BY <1>1, <1>2, <1>6 DEF IsTable, h

LEMMA SortedSource ==
  ASSUME NEW s \in Sources, NEW tables, IsSeq(tables), Len(tables) = Len(s),
         \A k \in 1..Len(tables) : tables[k] \in Sorted(s[k])
  PROVE  IsSource(tables) /\ TableNames(tables) = TableNames(s)
<1>1. \A k \in 1..Len(s) : /\ IsTable(tables[k]) /\ tables[k].name = s[k].name
                           /\ tables[k].struct = s[k].struct
                           /\ Range(tables[k].fields) \subseteq Range(s[k].fields)
  BY SortedWhole, SortedTable
<1>2. TableNames(tables) = TableNames(s) /\ StructsOf(tables) = StructsOf(s)
  BY <1>1 DEF TableNames, StructsOf
<1>3. IsSource(s)
  BY SourcesAssumption
<1>4. ASSUME NEW k \in 1..Len(tables), NEW f \in Range(tables[k].fields)
      PROVE  /\ Callee(f) \in TableNames(tables) \union {NoTable}
             /\ IF tables[k].struct THEN FitsStruct(tables, tables[k], f.type) ELSE FitsTable(f.type)
  <2>1. f \in Range(s[k].fields) /\ k \in 1..Len(s)
    BY <1>1
  <2>2. /\ Callee(f) \in TableNames(s) \union {NoTable}
        /\ IF s[k].struct THEN FitsStruct(s, s[k], f.type) ELSE FitsTable(f.type)
    BY <1>3, <2>1 DEF IsSource
  <2>3. FitsStruct(tables, tables[k], f.type) <=> FitsStruct(s, s[k], f.type)
    BY <1>1, <1>2, <2>1 DEF FitsStruct
  <2> QED BY <1>1, <1>2, <2>1, <2>2, <2>3
<1>5. \A j, k \in 1..Len(tables) : tables[j].name = tables[k].name => j = k
  BY <1>1, <1>3 DEF IsSource
<1> QED BY <1>1, <1>2, <1>4, <1>5 DEF IsSource, IsSeq

LEMMA NoTables == IsSource(<<>>)
<1>1. <<>> \in Seq(Range(<<>>)) /\ Len(<<>>) = 0
  OBVIOUS
<1> QED BY <1>1 DEF IsSource

-----------------------------------------------------------------------------
(* The invariant.                                                          *)

\* What the run has generated is what is known.
DoneKnown(a) ==
  \A k \in Done : /\ parsed[k].name \in DOMAIN a
                  /\ Generated(k).container = a[parsed[k].name]
                  /\ lang = "go" => disk.go[parsed[k].name].status = "whole"

\* So are the fields that a call is past.
StackKnown(a) ==
  \A k \in 1..Len(stack) :
    Collected(Fields(parsed, stack[k].name), a, stack[k].pos, stack[k].container)

AnalysisInv ==
  \E a, rank, n : Analyses(parsed, a, rank, n) /\ DoneKnown(a) /\ StackKnown(a)

\* Each call is for the table of the field that the call before it is at.
ChainInv ==
  /\ \A k \in 1..Len(stack) : stack[k].pos <= Len(Fields(parsed, stack[k].name)) + 1
  /\ \A k \in 1..(Len(stack) - 1) :
       LET field == Fields(parsed, stack[k].name)[stack[k].pos]
       IN  ~field.deprecated /\ Callee(field) = stack[k + 1].name

ParsedSource == pc # "parse" => IsSource(parsed)

OkInv == result = "ok" => pc = "idle" /\ next > Len(parsed)

\* The stack has room for a call for each table.
Room == \A s \in Sources : Len(s) <= MaxFrames

OverflowInv ==
  Room /\ result = "overflow" => \E k \in Tables : Cyclic(parsed, parsed[k].name)

AInv == AnalysisInv /\ ChainInv /\ ParsedSource /\ OkInv /\ OverflowInv

-----------------------------------------------------------------------------
(* Steps.                                                                  *)

LEMMA NothingDone ==
  ASSUME Done' = {}, Len(stack') = 0 PROVE AnalysisInv' /\ ChainInv'
<1>1. PICK a, rank : Analyses(parsed', a, rank, 0)
  BY NothingKnown
<1>2. DoneKnown(a)' /\ StackKnown(a)' /\ ChainInv'
  BY DEF DoneKnown, StackKnown, ChainInv
<1> QED BY <1>1, <1>2 DEF AnalysisInv

LEMMA DoneSame ==
  ASSUME NEW a, DoneKnown(a), NEW b, Extends(b, a),
         Done' = Done, Tables' = Tables, UNCHANGED <<lang, parsed, code>>,
         lang = "go" => \A k \in Done : disk'.go[parsed[k].name] = disk.go[parsed[k].name],
         lang # "go" => (IF result' = "ok" THEN disk'.rust.content ELSE code)
                          = (IF result = "ok" THEN disk.rust.content ELSE code)
  PROVE  DoneKnown(b)'
<1>1. ASSUME NEW k \in Done PROVE Generated(k)' = Generated(k)
  BY <1>1 DEF Generated
<1> QED BY <1>1 DEF DoneKnown, Extends

\* Only the stack changes.
LEMMA StackAnalysis ==
  ASSUME AInv, pc = "generate", UNCHANGED <<lang, pc, parsed, next, code, disk, result>>, ChainInv',
         NEW a, DoneKnown(a), NEW b, Extends(b, a),
         NEW rank, NEW n, Analyses(parsed, b, rank, n), StackKnown(b)'
  PROVE  AInv'
<1>1. Done' = Done /\ Tables' = Tables
  BY DEF Done, Tables
<1>2. DoneKnown(b)'
  BY <1>1, DoneSame
<1>3. AnalysisInv'
  BY <1>2 DEF AnalysisInv
<1> QED BY <1>1, <1>3 DEF AInv, ParsedSource, OkInv, OverflowInv

LEMMA StackNames ==
  ASSUME IInv, AInv, pc = "generate"
  PROVE  /\ IsSource(parsed)
         /\ \A k \in 1..Len(stack) : stack[k].name \in TableNames(parsed)
<1>1. TableNames(parsed) = TableNames(schema)
  BY SortedSource DEF IInv, ParsedInv, TypeOK
<1> QED BY <1>1 DEF IInv, StackInv, FrameOK, AInv, ParsedSource

LEMMA ExtendsItself == ASSUME NEW a PROVE Extends(a, a)
BY DEF Extends

\* The running call goes on to its next field.
LEMMA TopAnalysis ==
  ASSUME IInv, AInv, AtField, NEW f, f.name = Top.name, f.pos = Top.pos + 1,
         stack' = Append(Callers, f),
         UNCHANGED <<lang, pc, parsed, next, code, disk, result>>,
         NEW a, NEW rank, NEW n, Analyses(parsed, a, rank, n), DoneKnown(a), StackKnown(a),
         Collected(Fields(parsed, Top.name), a, f.pos, f.container)
  PROVE  AInv'
<1>1. /\ pc = "generate" /\ stack # <<>> /\ Len(stack) \in Nat \ {0}
      /\ Top = stack[Len(stack)] /\ Top.pos <= Len(Fields(parsed, Top.name))
  BY TopIs DEF AtField, Fields
<1>2. /\ Len(stack') = Len(stack)
      /\ \A k \in 1..(Len(stack) - 1) : stack'[k] = stack[k]
      /\ stack'[Len(stack)] = f
  BY <1>1, Replaced DEF Callers, IInv, StackInv
<1>3. \A k \in 1..Len(stack) : k = Len(stack) \/ k \in 1..(Len(stack) - 1)
  BY <1>1
<1>4. Top.pos + 1 <= Len(Fields(parsed, Top.name)) + 1
  <2>1. Len(Fields(parsed, Top.name)) \in Nat /\ Top.pos \in Nat
    BY TopIs DEF Fields, FrameOK
  <2> QED BY <1>1, <2>1
<1>5. ChainInv'
  <2>1. ASSUME NEW k \in 1..Len(stack)
        PROVE  stack'[k].pos <= Len(Fields(parsed, stack'[k].name)) + 1
    <3>1. CASE k = Len(stack)
      BY <1>2, <1>4, <3>1
    <3>2. CASE k \in 1..(Len(stack) - 1)
      BY <1>2, <3>2 DEF AInv, ChainInv
    <3> QED BY <1>3, <3>1, <3>2
  <2>2. ASSUME NEW k \in 1..(Len(stack) - 1)
        PROVE  LET field == Fields(parsed, stack'[k].name)[stack'[k].pos]
               IN  ~field.deprecated /\ Callee(field) = stack'[k + 1].name
    <3>1. k + 1 \in 1..Len(stack) /\ stack'[k] = stack[k]
      BY <1>1, <1>2
    <3>2. stack'[k + 1].name = stack[k + 1].name
      BY <1>1, <1>2, <1>3, <3>1
    <3> QED BY <3>1, <3>2 DEF AInv, ChainInv
  <2> QED BY <1>2, <2>1, <2>2 DEF ChainInv
<1>6. StackKnown(a)'
  <2>1. ASSUME NEW k \in 1..Len(stack)
        PROVE  Collected(Fields(parsed, stack'[k].name), a, stack'[k].pos, stack'[k].container)
    BY <1>1, <1>2, <1>3 DEF StackKnown
  <2> QED BY <1>2, <2>1 DEF StackKnown
<1> QED BY <1>1, <1>5, <1>6, StackAnalysis, ExtendsItself

\* Nothing of the analysis changes.
LEMMA SameAnalysis ==
  ASSUME AInv, pc # "parse", UNCHANGED <<lang, pc, parsed, next, stack, code, disk, result>>
  PROVE  AInv'
<1>1. Done' = Done /\ Tables' = Tables
  BY DEF Done, Tables
<1>2. PICK a, rank, n : Analyses(parsed, a, rank, n) /\ DoneKnown(a) /\ StackKnown(a)
  BY DEF AInv, AnalysisInv
<1>3. DoneKnown(a)' /\ StackKnown(a)'
  BY <1>1, <1>2, ExtendsItself, DoneSame DEF StackKnown
<1> QED BY <1>1, <1>2, <1>3 DEF AInv, AnalysisInv, ChainInv, ParsedSource, OkInv, OverflowInv

\* Nothing is analyzed yet, in the files that are parsed.
LEMMA Unanalyzed ==
  ASSUME Done' = {}, Len(stack') = 0, ParsedSource', result' \notin {"ok", "overflow"}
  PROVE  AInv'
BY NothingDone DEF AInv, OkInv, OverflowInv

LEMMA ParsingAnalysis ==
  ASSUME IInv, AInv, ParseTable \/ RejectTable \/ Parsed
  PROVE  AInv'
<1>1. pc = "parse" /\ result = "none" /\ stack = <<>> /\ stack' = stack /\ Len(stack') = 0
  <2>1. pc = "parse" /\ stack' = stack
    BY DEF ParseTable, RejectTable, Parsed
  <2>2. stack = <<>> /\ Len(<<>>) = 0
    BY <2>1 DEF IInv, TypeOK
  <2> QED BY <2>1, <2>2 DEF IInv, DirInv
<1>2. result' \notin {"ok", "overflow"}
  BY <1>1 DEF ParseTable, RejectTable, Parsed, Stop
<1>3. CASE ParseTable
  <2>1. pc' = "parse" /\ Done' = {}
    BY <1>1, <1>3 DEF ParseTable, Done
  <2>2. ParsedSource'
    BY <2>1 DEF ParsedSource
  <2> QED BY <1>1, <1>2, <2>1, <2>2, Unanalyzed
<1>4. CASE RejectTable \/ Parsed
  <2>1. next' = 1 /\ Tables' \subseteq 1..Len(parsed')
    BY <1>4 DEF RejectTable, Parsed, Tables
  <2>2. \A k \in Tables' : ~(k < next')
    BY <2>1
  <2>3. Done' = {}
    BY <2>2 DEF Done
  <2>4. ParsedSource'
    <3>1. CASE RejectTable
      BY <3>1, NoTables DEF RejectTable, ParsedSource
    <3>2. CASE Parsed
      <4>1. parsed' = parsed /\ next > Len(schema) /\ schema \in Sources
        BY <3>2 DEF Parsed, IInv, TypeOK
      <4>2. /\ IsSeq(parsed) /\ \A k \in 1..Len(parsed) : parsed[k] \in Sorted(schema[k])
            /\ Len(parsed) = next - 1 /\ next <= Len(schema) + 1
        BY <1>1 DEF IInv, ParsedInv
      <4>3. Len(schema) \in Nat /\ next \in Int
        <5>1. Len(parsed) \in Nat /\ IsSeq(schema)
          BY <4>1, <4>2, SeqFacts, SourcesAssumption DEF IsSource, IsSeq
        <5>2. next \in 1..(Len(parsed) + 1)
          BY DEF IInv, TypeOK
        <5> QED BY <5>1, <5>2, SeqFacts
      <4>4. Len(parsed) = Len(schema)
        BY <4>1, <4>2, <4>3
      <4> QED BY <4>1, <4>2, <4>4, SortedSource DEF ParsedSource
    <3> QED BY <1>4, <3>1, <3>2
  <2> QED BY <1>1, <1>2, <2>3, <2>4, Unanalyzed
<1> QED BY <1>3, <1>4

LEMMA RunAnalysis ==
  ASSUME NEW l, Run(l)
  PROVE  AInv'
<1>1. /\ pc' = "parse" /\ Done' = {} /\ stack' = <<>> /\ Len(stack') = 0
      /\ result' \notin {"ok", "overflow"}
  BY DEF Run, Done
<1>2. ParsedSource'
  BY <1>1 DEF ParsedSource
<1> QED BY <1>1, <1>2, Unanalyzed

LEMMA SkipGeneratedAnalysis ==
  ASSUME IInv, AInv, SkipGenerated
  PROVE  AInv'
<1>1. /\ pc = "generate" /\ next' = next + 1 /\ parsed[next].generated /\ result = "none"
      /\ UNCHANGED <<lang, pc, parsed, stack, code, disk, result>>
  BY DEF SkipGenerated, Looping, IInv, DirInv
<1>2. next \in Nat /\ Tables' = Tables
  BY <1>1 DEF Tables, IInv, TypeOK
<1>3. Tables \subseteq 1..Len(parsed) /\ next \notin Tables
  BY <1>1 DEF Tables
<1>4. \A k \in Tables : k < next + 1 <=> k < next
  BY <1>2, <1>3
<1>5. Done' = Done
  BY <1>1, <1>2, <1>4 DEF Done
<1>6. PICK a, rank, n : Analyses(parsed, a, rank, n) /\ DoneKnown(a) /\ StackKnown(a)
  BY DEF AInv, AnalysisInv
<1>7. DoneKnown(a)' /\ StackKnown(a)'
  BY <1>1, <1>2, <1>5, <1>6, ExtendsItself, DoneSame DEF StackKnown
<1> QED BY <1>1, <1>2, <1>6, <1>7 DEF AInv, AnalysisInv, ChainInv, ParsedSource, OkInv, OverflowInv

LEMMA EnterTableAnalysis ==
  ASSUME IInv, AInv, EnterTable
  PROVE  AInv'
<1>1. /\ pc = "generate" /\ stack' = <<Frame(parsed[next].name)>>
      /\ UNCHANGED <<lang, pc, parsed, next, code, disk, result>>
      /\ next \in 1..Len(parsed)
  <2>1. next <= Len(parsed)
    BY DEF EnterTable, Looping
  <2> QED BY <2>1, SeqFacts DEF EnterTable, Looping, IInv, TypeOK, ParsedInv
<1> DEFINE f == Frame(parsed[next].name)
<1>2. f.name = parsed[next].name /\ f.pos = 1 /\ f.container = NoFields
  BY DEF Frame
<1> HIDE DEF f
<1>3. Len(stack') = 1 /\ stack'[1] = f
  BY <1>1 DEF f
<1>4. \A k \in 1..Len(stack') : k = 1
  BY <1>3
<1>5. PICK a, rank, n : Analyses(parsed, a, rank, n) /\ DoneKnown(a)
  BY DEF AInv, AnalysisInv
<1>6. StackKnown(a)'
  <2>1. Collected(Fields(parsed, f.name), a, f.pos, f.container)
    BY <1>2, CollectNone
  <2> QED BY <1>1, <1>3, <1>4, <2>1 DEF StackKnown
<1>7. ChainInv'
  <2>1. Len(Fields(parsed, f.name)) \in Nat
    <3>1. f.name \in TableNames(parsed)
      BY <1>1, <1>2 DEF TableNames
    <3> QED BY <1>1, <3>1, TableOf DEF Fields, AInv, ParsedSource
  <2>2. f.pos <= Len(Fields(parsed, f.name)) + 1
    BY <1>2, <2>1
  <2>3. \A k \in 1..(Len(stack') - 1) : FALSE
    BY <1>3
  <2> QED BY <1>1, <1>3, <1>4, <2>2, <2>3 DEF ChainInv
<1> QED BY <1>1, <1>5, <1>6, <1>7, ExtendsItself, StackAnalysis

LEMMA SkipDeprecatedAnalysis ==
  ASSUME IInv, AInv, SkipDeprecated
  PROVE  AInv'
<1>1. /\ AtField /\ Field.deprecated /\ FrameOK(Top) /\ Top = stack[Len(stack)]
      /\ Len(stack) \in 1..Len(stack)
      /\ UNCHANGED <<lang, pc, parsed, next, code, disk, result>>
  BY TopIs DEF SkipDeprecated
<1> DEFINE f == [Top EXCEPT !.pos = @ + 1]
<1>2. f.name = Top.name /\ f.pos = Top.pos + 1 /\ f.container = Top.container
  BY <1>1 DEF FrameOK
<1>3. stack' = Append(Callers, f)
  BY DEF SkipDeprecated
<1> HIDE DEF f
<1>4. PICK a, rank, n : Analyses(parsed, a, rank, n) /\ DoneKnown(a) /\ StackKnown(a)
  BY DEF AInv, AnalysisInv
<1>5. Field = Fields(parsed, Top.name)[Top.pos] /\ Top.pos \in Nat \ {0}
  BY <1>1 DEF Field, Fields, FrameOK
<1>6. Collected(Fields(parsed, Top.name), a, Top.pos, Top.container)
  BY <1>1, <1>4 DEF StackKnown
<1>7. Collected(Fields(parsed, Top.name), a, f.pos, f.container)
  BY <1>1, <1>2, <1>5, <1>6, CollectMore
<1> QED BY <1>1, <1>2, <1>3, <1>4, <1>7, TopAnalysis

LEMMA ResolvedIs ==
  ASSUME NEW f, FrameOK(f), NEW field, NEW nested
  PROVE  /\ Resolved(f, field, nested).name = f.name
         /\ Resolved(f, field, nested).pos = f.pos + 1
         /\ Resolved(f, field, nested).container
              = AddField(f.container, field, ResolveSszFieldInfo(field, nested))
<1> DEFINE c == AddField(f.container, field, ResolveSszFieldInfo(field, nested))
<1> HIDE DEF c
<1>1. Resolved(f, field, nested) = [f EXCEPT !.pos = f.pos + 1, !.container = c]
  BY DEF Resolved, c
<1>2. /\ Resolved(f, field, nested).name = f.name
      /\ Resolved(f, field, nested).pos = f.pos + 1
      /\ Resolved(f, field, nested).container = c
  BY <1>1 DEF FrameOK
<1> QED BY <1>2 DEF c

LEMMA ResolveFieldAnalysis ==
  ASSUME IInv, AInv, ResolveField
  PROVE  AInv'
<1>1. /\ AtField /\ ~Field.deprecated /\ FrameOK(Top) /\ Top = stack[Len(stack)]
      /\ Callee(Field) = NoTable /\ ResolveSszFieldInfo(Field, NoFields) # Unsupported
      /\ Len(stack) \in 1..Len(stack)
      /\ UNCHANGED <<lang, pc, parsed, next, code, disk, result>>
  BY TopIs DEF ResolveField
<1> DEFINE f == Resolved(Top, Field, NoFields)
<1>2. /\ f.name = Top.name /\ f.pos = Top.pos + 1
      /\ f.container = AddField(Top.container, Field, ResolveSszFieldInfo(Field, NoFields))
  BY <1>1, ResolvedIs
<1>3. stack' = Append(Callers, f)
  BY DEF ResolveField
<1> HIDE DEF f
<1>4. PICK a, rank, n : Analyses(parsed, a, rank, n) /\ DoneKnown(a) /\ StackKnown(a)
  BY DEF AInv, AnalysisInv
<1>5. Field = Fields(parsed, Top.name)[Top.pos] /\ Top.pos \in Nat \ {0}
  BY <1>1 DEF Field, Fields, FrameOK
<1>6. Collected(Fields(parsed, Top.name), a, Top.pos, Top.container)
  BY <1>1, <1>4 DEF StackKnown
<1>7. NestedIn(a, Field) = NoFields
  BY <1>1 DEF NestedIn
<1>8. Collected(Fields(parsed, Top.name), a, f.pos, f.container)
  BY <1>1, <1>2, <1>5, <1>6, <1>7, CollectMore
<1> QED BY <1>1, <1>2, <1>3, <1>4, <1>8, TopAnalysis

LEMMA CallNestedAnalysis ==
  ASSUME IInv, AInv, CallNested
  PROVE  AInv'
<1>1. /\ AtField /\ ~Field.deprecated /\ Callee(Field) # NoTable
      /\ stack' = Append(stack, Frame(Callee(Field)))
      /\ UNCHANGED <<lang, pc, parsed, next, code, disk, result>>
  BY DEF CallNested
<1>2. /\ pc = "generate" /\ Len(stack) \in Nat \ {0} /\ FrameOK(Top) /\ Top = stack[Len(stack)]
  BY <1>1, TopIs
<1> DEFINE f == Frame(Callee(Field))
           n == Len(stack)
<1>3. f.name = Callee(Field) /\ f.pos = 1 /\ f.container = NoFields
  BY DEF Frame
<1> HIDE DEF f
<1>4. /\ Len(stack') = n + 1 /\ \A k \in 1..n : stack'[k] = stack[k]
      /\ stack'[n + 1] = f
  BY <1>1, Appended DEF IInv, StackInv, f
<1>5. n \in Nat \ {0} /\ n + 1 - 1 = n /\ \A k \in 1..(n + 1) : k = n + 1 \/ k \in 1..n
  BY <1>2
<1>6. \A k \in 1..n : k = n \/ (k \in 1..(n - 1) /\ k + 1 \in 1..n)
  BY <1>2
<1>7. PICK a, rank, m : Analyses(parsed, a, rank, m) /\ DoneKnown(a) /\ StackKnown(a)
  BY DEF AInv, AnalysisInv
<1>8. Field = Fields(parsed, Top.name)[Top.pos]
  BY DEF Field, Fields
<1> HIDE DEF n
<1>9. StackKnown(a)'
  <2>1. Collected(Fields(parsed, f.name), a, f.pos, f.container)
    BY <1>3, CollectNone
  <2>2. \A k \in 1..n :
          Collected(Fields(parsed, stack[k].name), a, stack[k].pos, stack[k].container)
    BY <1>7 DEF StackKnown, n
  <2>3. \A k \in 1..(n + 1) :
          Collected(Fields(parsed, stack'[k].name), a, stack'[k].pos, stack'[k].container)
    BY <1>4, <1>5, <2>1, <2>2
  <2> QED BY <1>1, <1>4, <2>3 DEF StackKnown
<1>10. ChainInv'
  <2>1. ASSUME NEW k \in 1..(n + 1)
        PROVE  stack'[k].pos <= Len(Fields(parsed, stack'[k].name)) + 1
    <3>1. CASE k = n + 1
      <4>1. f.name \in TableNames(parsed)
        <5>1. Callee(Field) \in TableNames(schema)
          BY <1>1, FieldIs
        <5>2. TableNames(parsed) = TableNames(schema)
          BY <1>2, SortedSource DEF IInv, ParsedInv, TypeOK
        <5> QED BY <1>3, <5>1, <5>2
      <4>2. Len(Fields(parsed, f.name)) \in Nat
        BY <1>2, <4>1, TableOf DEF Fields, AInv, ParsedSource
      <4> QED BY <1>3, <1>4, <3>1, <4>2
    <3>2. CASE k \in 1..n
      BY <1>4, <3>2 DEF AInv, ChainInv, n
    <3> QED BY <1>5, <3>1, <3>2
  <2>2. ASSUME NEW k \in 1..n
        PROVE  LET field == Fields(parsed, stack'[k].name)[stack'[k].pos]
               IN  ~field.deprecated /\ Callee(field) = stack'[k + 1].name
    <3>1. CASE k = n
      BY <1>1, <1>2, <1>3, <1>4, <1>8, <3>1 DEF n
    <3>2. CASE k \in 1..(n - 1) /\ k + 1 \in 1..n
      BY <1>4, <3>2 DEF AInv, ChainInv, n
    <3> QED BY <1>6, <3>1, <3>2
  <2>3. Len(stack') - 1 = n /\ Len(stack') = n + 1 /\ parsed' = parsed
    BY <1>1, <1>4, <1>5
  <2>4. \A k \in 1..Len(stack') :
          stack'[k].pos <= Len(Fields(parsed', stack'[k].name)) + 1
    BY <2>1, <2>3
  <2>5. \A k \in 1..(Len(stack') - 1) :
          LET field == Fields(parsed', stack'[k].name)[stack'[k].pos]
          IN  ~field.deprecated /\ Callee(field) = stack'[k + 1].name
    BY <2>2, <2>3
  <2> QED BY <2>4, <2>5 DEF ChainInv
<1> QED BY <1>1, <1>2, <1>7, <1>9, <1>10, ExtendsItself, StackAnalysis

LEMMA ReturnNestedAnalysis ==
  ASSUME IInv, AInv, ReturnNested
  PROVE  AInv'
<1> DEFINE n == Len(stack) - 1
           caller == stack[n]
           field == Fields(parsed, caller.name)[caller.pos]
           f == Resolved(caller, field, Top.container)
<1>1. /\ AtEnd /\ Len(stack) > 1
      /\ UNCHANGED <<lang, pc, parsed, next, code, disk, result>>
      /\ stack' = [Callers EXCEPT ![Len(Callers)] = f]
  BY DEF ReturnNested, Fields
<1>2. /\ pc = "generate" /\ stack # <<>> /\ Len(stack) \in Nat \ {0} /\ n \in Nat \ {0}
      /\ n \in 1..(Len(stack) - 1) /\ n \in 1..Len(stack) /\ n + 1 = Len(stack)
      /\ n + 1 \in 1..Len(stack) /\ FrameOK(Top) /\ Top = stack[n + 1] /\ n = Len(stack) - 1
      /\ \A k \in 1..n : k = n \/ (k \in 1..(n - 1) /\ k \in 1..(Len(stack) - 1))
      /\ \A k \in 1..n : k \in 1..Len(stack)
  BY <1>1, TopIs
<1> HIDE DEF n
<1>3. FrameOK(caller) /\ caller.pos \in Nat \ {0} /\ caller.pos <= Len(Fields(parsed, caller.name))
  BY <1>2 DEF IInv, StackInv, FrameOK, Fields
<1>4. /\ f.name = caller.name /\ f.pos = caller.pos + 1
      /\ f.container = AddField(caller.container, field, ResolveSszFieldInfo(field, Top.container))
  BY <1>3, ResolvedIs
<1>5. /\ IsSeq(Callers) /\ Len(Callers) = n /\ \A k \in 1..n : Callers[k] = stack[k]
  BY <1>2, FrontIs DEF IInv, StackInv, Callers
<1> HIDE DEF f
<1>6. Len(stack') = n /\ \A k \in 1..n : stack'[k] = IF k = n THEN f ELSE stack[k]
  <2> DEFINE S == Range(Callers) \union {f}
             s == Callers
  <2>1. stack' = [s EXCEPT ![n] = f]
    BY <1>1, <1>5
  <2>2. s \in Seq(S) /\ f \in S /\ n \in 1..Len(s) /\ Len(s) = n
    <3>1. IsSeq(s) /\ Len(s) = n /\ n \in 1..n
      BY <1>2, <1>5
    <3>2. s \in Seq(S)
      <4>1. s \in Seq(Range(s)) /\ Range(s) \subseteq S
        BY <3>1 DEF IsSeq
      <4> HIDE DEF S, s
      <4> QED BY <4>1, SeqMonotonic
    <3> QED BY <3>1, <3>2
  <2> HIDE DEF S, s
  <2>3. Len([s EXCEPT ![n] = f]) = Len(s)
    BY <2>2
  <2>4. \A k \in 1..n : [s EXCEPT ![n] = f][k] = IF k = n THEN f ELSE s[k]
    BY <2>2
  <2> QED BY <1>5, <2>1, <2>2, <2>3, <2>4 DEF s
<1>7. /\ IsSource(parsed) /\ Top.name \in TableNames(parsed) /\ caller.name \in TableNames(parsed)
  BY <1>2, StackNames
<1>8. Top.pos = Len(Fields(parsed, Top.name)) + 1
  <2>1. Top.pos <= Len(Fields(parsed, Top.name)) + 1
    BY <1>2 DEF AInv, ChainInv
  <2>2. Top.pos > Len(Fields(parsed, Top.name)) /\ Top.pos \in Nat
    BY <1>1, <1>2 DEF AtEnd, Fields, FrameOK
  <2>3. Len(Fields(parsed, Top.name)) \in Nat
    BY <1>7, TableOf DEF Fields
  <2> QED BY <2>1, <2>2, <2>3
<1>9. ~field.deprecated /\ Callee(field) = Top.name
  BY <1>2 DEF AInv, ChainInv
<1>10. PICK a, rank, m : Analyses(parsed, a, rank, m) /\ DoneKnown(a) /\ StackKnown(a)
  BY DEF AInv, AnalysisInv
<1>11. PICK b, q, i : /\ Analyses(parsed, b, q, i) /\ Extends(b, a)
                      /\ Top.name \in DOMAIN b /\ b[Top.name] = Top.container
  <2>1. Collected(Fields(parsed, Top.name), a, Top.pos, Top.container)
    BY <1>2, <1>10 DEF StackKnown
  <2> QED BY <1>7, <1>8, <1>10, <2>1, MoreKnown
<1>12. Collected(Fields(parsed, caller.name), b, f.pos, f.container)
  <2>1. Collected(Fields(parsed, caller.name), b, caller.pos, caller.container)
    BY <1>2, <1>10, <1>11, CollectKnown DEF StackKnown
  <2>2. NestedIn(b, field) = Top.container /\ Callee(field) # NoTable /\ Callee(field) \in DOMAIN b
    BY <1>7, <1>9, <1>11, TableOf DEF NestedIn
  <2> HIDE DEF caller
  <2> QED BY <1>3, <1>4, <1>9, <2>1, <2>2, CollectMore
<1>13. StackKnown(b)'
  <2>1. ASSUME NEW k \in 1..n
        PROVE  Collected(Fields(parsed, stack'[k].name), b, stack'[k].pos, stack'[k].container)
    <3>1. CASE k = n
      BY <1>4, <1>6, <1>12, <3>1
    <3>2. CASE k # n
      <4>1. Collected(Fields(parsed, stack[k].name), a, stack[k].pos, stack[k].container)
        BY <1>2, <1>10 DEF StackKnown
      <4>2. Collected(Fields(parsed, stack[k].name), b, stack[k].pos, stack[k].container)
        BY <1>11, <4>1, CollectKnown
      <4> QED BY <1>6, <3>2, <4>2
    <3> QED BY <3>1, <3>2
  <2> QED BY <1>1, <1>6, <2>1 DEF StackKnown
<1>14. ChainInv'
  <2>1. ASSUME NEW k \in 1..n
        PROVE  stack'[k].pos <= Len(Fields(parsed, stack'[k].name)) + 1
    <3>1. CASE k = n
      <4>1. Len(Fields(parsed, caller.name)) \in Nat
        BY <1>7, TableOf DEF Fields
      <4>2. f.pos <= Len(Fields(parsed, f.name)) + 1
        BY <1>3, <1>4, <4>1
      <4> QED BY <1>6, <3>1, <4>2
    <3>2. CASE k # n
      <4>1. stack[k].pos <= Len(Fields(parsed, stack[k].name)) + 1
        BY <1>2 DEF AInv, ChainInv
      <4> QED BY <1>6, <3>2, <4>1
    <3> QED BY <3>1, <3>2
  <2>2. ASSUME NEW k \in 1..(n - 1)
        PROVE  LET g == Fields(parsed, stack'[k].name)[stack'[k].pos]
               IN  ~g.deprecated /\ Callee(g) = stack'[k + 1].name
    <3>1. k \in 1..n /\ k + 1 \in 1..n /\ k # n /\ k \in 1..(Len(stack) - 1)
      <4>1. n \in Nat \ {0} /\ Len(stack) - 1 = n
        BY <1>2
      <4>2. k \in 1..n /\ k + 1 \in 1..n /\ k # n
        BY <4>1
      <4> QED BY <4>1, <4>2
    <3>2. LET g == Fields(parsed, stack[k].name)[stack[k].pos]
          IN  ~g.deprecated /\ Callee(g) = stack[k + 1].name
      BY <3>1 DEF AInv, ChainInv
    <3>3. stack'[k] = stack[k] /\ stack'[k + 1].name = stack[k + 1].name
      BY <1>4, <1>6, <3>1
    <3> QED BY <3>2, <3>3
  <2> QED BY <1>1, <1>6, <2>1, <2>2 DEF ChainInv
<1> QED BY <1>1, <1>2, <1>10, <1>11, <1>13, <1>14, StackAnalysis

\* The run ends with an error, or without room for another call.
LEMMA StopAnalysis ==
  ASSUME IInv, AInv, pc = "generate", NEW outcome \in {"error", "overflow"}, Stop(outcome),
         stack' = <<>>, UNCHANGED <<lang, parsed, next, code>>,
         lang = "go" => \A k \in Done : disk'.go[parsed[k].name] = disk.go[parsed[k].name],
         outcome = "overflow" /\ Room => \E k \in Tables : Cyclic(parsed, parsed[k].name)
  PROVE  AInv'
<1>1. pc' = "idle" /\ result' = outcome /\ result = "none" /\ Len(stack') = 0
  <2>1. Len(<<>>) = 0
    OBVIOUS
  <2> QED BY <2>1 DEF Stop, IInv, DirInv
<1>2. Done' = Done /\ Tables' = Tables
  BY <1>1 DEF Done, Tables
<1>3. PICK a, rank, n : Analyses(parsed, a, rank, n) /\ DoneKnown(a)
  BY DEF AInv, AnalysisInv
<1>4. DoneKnown(a)'
  BY <1>1, <1>2, <1>3, ExtendsItself, DoneSame
<1>5. \A k \in 1..Len(stack') : FALSE
  BY <1>1
<1>6. \A k \in 1..(Len(stack') - 1) : FALSE
  BY <1>1
<1>7. StackKnown(a)' /\ ChainInv'
  BY <1>5, <1>6 DEF StackKnown, ChainInv
<1>8. AnalysisInv'
  BY <1>3, <1>4, <1>7 DEF AnalysisInv
<1>9. ParsedSource' /\ OkInv' /\ OverflowInv'
  BY <1>1, <1>2 DEF AInv, ParsedSource, OkInv, OverflowInv, Room
<1> QED BY <1>7, <1>8, <1>9 DEF AInv

LEMMA FailFieldAnalysis ==
  ASSUME IInv, AInv, FailField
  PROVE  AInv'
<1>1. pc = "generate" /\ Stop("error") /\ stack' = <<>> /\ UNCHANGED <<lang, parsed, next, code, disk>>
  BY DEF FailField, AtField
<1> QED BY <1>1, StopAnalysis

\* The names of the tables that are being analyzed, and of the next.
LEMMA OverflowAnalysis ==
  ASSUME IInv, AInv, Overflow
  PROVE  AInv'
<1>1. /\ AtField /\ ~Field.deprecated /\ Callee(Field) # NoTable /\ Len(stack) = MaxFrames
      /\ Stop("overflow") /\ stack' = <<>>
      /\ UNCHANGED <<schema, lang, parsed, next, code, disk, before, runs>>
  BY DEF Overflow
<1>2. /\ pc = "generate" /\ stack # <<>> /\ Len(stack) \in Nat \ {0} /\ FrameOK(Top)
      /\ Top = stack[Len(stack)]
  BY <1>1, TopIs
<1> DEFINE n == Len(stack)
           names == [k \in 1..(n + 1) |-> IF k = n + 1 THEN Callee(Field) ELSE stack[k].name]
<1>3. ASSUME Room PROVE \E k \in Tables : Cyclic(parsed, parsed[k].name)
  <2>1. /\ IsSource(parsed) /\ IsSeq(parsed)
        /\ \A k \in 1..n : stack[k].name \in TableNames(parsed)
    BY <1>2, StackNames DEF IsSource, IsSeq
  <2>2. Len(parsed) = Len(schema) /\ schema \in Sources /\ Len(schema) <= n
        /\ TableNames(parsed) = TableNames(schema)
    BY <1>1, <1>2, <1>3, <2>1, SortedSource DEF IInv, ParsedInv, TypeOK, Room
  <2>3. n + 1 \in Nat /\ n + 1 > Len(parsed) /\ Len(parsed) \in Nat
    BY <1>2, <2>1, <2>2, SeqFacts
  <2>4. Callee(Field) \in TableNames(parsed)
    BY <1>1, <2>2, FieldIs
  <2>5. \A k \in 1..(n + 1) : k = n + 1 \/ (k # n + 1 /\ k \in 1..n)
    BY <1>2
  <2>6. \A k \in 1..(n + 1) : names[k] \in TableNames(parsed)
    BY <2>1, <2>4, <2>5
  <2>7. ASSUME NEW k \in 1..n
        PROVE  names[k + 1] \in Calls(parsed)[names[k]]
    <3> DEFINE fs == Fields(parsed, stack[k].name)
               p == stack[k].pos
    <3>1. names[k] = stack[k].name /\ k \in 1..(n + 1) /\ k + 1 \in 1..(n + 1)
      BY <1>2
    <3>2. p \in 1..Len(fs) /\ ~fs[p].deprecated /\ Callee(fs[p]) = names[k + 1]
      <4>1. Len(fs) \in Nat /\ p \in Nat \ {0}
        BY <2>1, TableOf DEF Fields, IInv, StackInv, FrameOK
      <4>2. CASE k = n
        <5>1. fs[p] = Field /\ p <= Len(fs) /\ names[k + 1] = Callee(Field)
          BY <1>1, <1>2, <3>1, <4>2 DEF Field, AtField, Fields
        <5> QED BY <1>1, <4>1, <5>1
      <4>3. CASE k # n
        <5>1. k \in 1..(n - 1) /\ k + 1 # n + 1
          BY <1>2, <4>3
        <5>2. names[k + 1] = stack[k + 1].name
          BY <3>1, <5>1
        <5>3. p <= Len(fs)
          BY <5>1 DEF IInv, StackInv, Fields
        <5>4. ~fs[p].deprecated /\ Callee(fs[p]) = stack[k + 1].name
          BY <5>1 DEF AInv, ChainInv
        <5> QED BY <4>1, <5>2, <5>3, <5>4
      <4> QED BY <4>2, <4>3
    <3>3. names[k + 1] # NoTable
      BY <2>1, <2>6, <3>1, TableOf
    <3> HIDE DEF names, p
    <3> QED BY <2>1, <3>1, <3>2, <3>3, CallsAre
  <2>8. names[1] = parsed[next].name /\ next \in Tables
    <3>1. /\ next <= Len(parsed) /\ ~parsed[next].generated
          /\ stack[1].name = parsed[next].name
      BY <1>2 DEF IInv, StackInv
    <3>2. next \in 1..Len(parsed)
      BY <2>3, <3>1 DEF IInv, TypeOK
    <3>3. names[1] = stack[1].name
      BY <1>2
    <3> QED BY <3>1, <3>2, <3>3 DEF Tables
  <2> HIDE DEF n, names
  <2>9. Cyclic(parsed, names[1])
    <3> DEFINE N == n + 1
    <3>1. N \in Nat /\ N > Len(parsed)
      BY <2>3
    <3>2. \A k \in 1..N : names[k] \in TableNames(parsed)
      BY <2>6
    <3>3. ASSUME NEW k \in 1..(N - 1) PROVE names[k + 1] \in Calls(parsed)[names[k]]
      <4>1. k \in 1..n
        BY <1>2 DEF n
      <4> QED BY <2>7, <4>1
    <3> HIDE DEF N
    <3> QED BY <2>1, <3>1, <3>2, <3>3, LongChainCyclic
  <2> QED BY <2>8, <2>9
<1> QED BY <1>1, <1>2, <1>3, StopAnalysis

LEMMA SaveFailsAnalysis ==
  ASSUME IInv, AInv, SaveFails
  PROVE  AInv'
<1>1. /\ AtEnd /\ Len(stack) = 1 /\ pc = "generate" /\ lang = "go" /\ stack' = <<>>
      /\ disk' = [disk EXCEPT !.go[Top.name] = Torn]
      /\ Stop("error") /\ UNCHANGED <<lang, parsed, next, code>>
  BY DEF SaveFails, AtEnd
<1>2. DOMAIN disk = {"go", "rust"} /\ DOMAIN disk.go = AllNames
  BY DEF IInv, DirInv, TypeOK
<1>3. \A k \in Done : disk'.go[parsed[k].name] = disk.go[parsed[k].name]
  BY <1>1, <1>2, OtherName
<1> QED BY <1>1, <1>3, StopAnalysis

LEMMA FinalSaveFailsAnalysis ==
  ASSUME IInv, AInv, FinalSaveFails
  PROVE  AInv'
<1>1. /\ pc = "generate" /\ lang = "rust" /\ Stop("error") /\ stack' = <<>>
      /\ UNCHANGED <<lang, parsed, next, code>>
  BY DEF FinalSaveFails, Finished
<1> QED BY <1>1, StopAnalysis

LEMMA FinishRunAnalysis ==
  ASSUME IInv, AInv, FinishRun
  PROVE  AInv'
<1>1. /\ pc = "generate" /\ pc' = "idle" /\ result' = "ok" /\ next > Len(parsed)
      /\ disk' = IF lang = "rust" THEN [disk EXCEPT !.rust = File(code)] ELSE disk
      /\ UNCHANGED <<lang, parsed, next, stack, code>>
  BY DEF FinishRun, Finished, Stop
<1>2. /\ DOMAIN disk = {"go", "rust"} /\ result = "none"
      /\ lang \in {"go", "rust"}
  BY <1>1 DEF IInv, DirInv, TypeOK
<1>3. lang # "go" => disk'.rust.content = code
  <2>1. File(code).content = code
    BY DEF File
  <2> QED BY <1>1, <1>2, <2>1
<1>4. Done' = Done /\ Tables' = Tables
  BY <1>1 DEF Done, Tables
<1>5. PICK a, rank, n : Analyses(parsed, a, rank, n) /\ DoneKnown(a) /\ StackKnown(a)
  BY DEF AInv, AnalysisInv
<1>6. lang = "go" => \A k \in Done : disk'.go[parsed[k].name] = disk.go[parsed[k].name]
  BY <1>1
<1>7. DoneKnown(a)'
  BY <1>1, <1>2, <1>3, <1>4, <1>5, <1>6, ExtendsItself, DoneSame
<1>8. StackKnown(a)' /\ ChainInv'
  BY <1>1, <1>5 DEF StackKnown, AInv, ChainInv
<1>9. AnalysisInv'
  BY <1>1, <1>5, <1>7, <1>8 DEF AnalysisInv
<1> QED BY <1>1, <1>8, <1>9 DEF AInv, ParsedSource, OkInv, OverflowInv

LEMMA FinishTableAnalysis ==
  ASSUME IInv, OutputInv, AInv, FinishTable
  PROVE  AInv'
<1>1. /\ AtEnd /\ Len(stack) = 1 /\ next' = next + 1 /\ stack' = <<>>
      /\ UNCHANGED <<lang, pc, parsed, result>>
  BY DEF FinishTable
<1>2. PICK leaves \in LeafChoices(parsed[next], Top.container) :
        LET type == Code(parsed[next], Top.container, leaves)
        IN  IF lang = "go"
            THEN disk' = [disk EXCEPT !.go[Top.name] = File(type)] /\ UNCHANGED code
            ELSE code' = Append(code, type) /\ UNCHANGED disk
  BY DEF FinishTable
<1> DEFINE type == Code(parsed[next], Top.container, leaves)
<1>3. /\ pc = "generate" /\ next \in 1..Len(parsed) /\ ~parsed[next].generated
      /\ Top.name = parsed[next].name /\ Top.name \in AllNames
  BY <1>1, TableAtEnd
<1>4. Done' = Done \union {next} /\ next \notin Done /\ Tables' = Tables
  BY <1>1, <1>3, DoneGrows
<1>5. type.container = Top.container
  BY DEF Code
<1>6. IF lang = "go" THEN disk' = [disk EXCEPT !.go[Top.name] = File(type)] /\ code' = code
      ELSE code' = Append(code, type) /\ disk' = disk
  BY <1>2
<1> HIDE DEF type
<1>7. result = "none" /\ result' = "none" /\ pc' = "generate" /\ lang \in {"go", "rust"}
  BY <1>1, <1>3 DEF IInv, DirInv, TypeOK
<1>8. /\ FrameOK(Top) /\ Top = stack[1] /\ 1 \in 1..Len(stack)
      /\ IsSource(parsed) /\ Top.name \in TableNames(parsed)
  BY <1>1, <1>3, TopIs, StackNames
<1>9. Top.pos = Len(Fields(parsed, Top.name)) + 1
  <2>1. Top.pos <= Len(Fields(parsed, Top.name)) + 1
    BY <1>8 DEF AInv, ChainInv
  <2>2. Top.pos > Len(Fields(parsed, Top.name)) /\ Top.pos \in Nat
    BY <1>1, <1>8 DEF AtEnd, Fields, FrameOK
  <2>3. Len(Fields(parsed, Top.name)) \in Nat
    BY <1>8, TableOf DEF Fields
  <2> QED BY <2>1, <2>2, <2>3
<1>10. PICK a, rank, m : Analyses(parsed, a, rank, m) /\ DoneKnown(a) /\ StackKnown(a)
  BY DEF AInv, AnalysisInv
<1>11. PICK b, q, i : /\ Analyses(parsed, b, q, i) /\ Extends(b, a)
                      /\ Top.name \in DOMAIN b /\ b[Top.name] = Top.container
  <2>1. Collected(Fields(parsed, Top.name), a, Top.pos, Top.container)
    BY <1>8, <1>10 DEF StackKnown
  <2> QED BY <1>8, <1>9, <1>10, <2>1, MoreKnown
<1>12. ASSUME NEW k \in Done
       PROVE  /\ Generated(k)' = Generated(k)
              /\ lang = "go" => disk'.go[parsed[k].name] = disk.go[parsed[k].name]
  <2>1. CASE lang = "go"
    <3>1. DOMAIN disk = {"go", "rust"} /\ DOMAIN disk.go = AllNames
      BY DEF IInv, DirInv, TypeOK
    <3>2. disk'.go[parsed[k].name] = disk.go[parsed[k].name]
      BY <1>1, <1>6, <2>1, <3>1, OtherName
    <3> QED BY <1>1, <2>1, <3>2 DEF Generated
  <2>2. CASE lang # "go"
    <3>1. next \in Tables
      BY <1>3 DEF Tables
    <3>2. PlaceOf(k) \in 1..Cardinality(Done) /\ Len(code) = Cardinality(Done) /\ IsSeq(code)
      BY <1>3, <1>7, <2>2, <3>1, Places DEF OutputInv
    <3>3. code'[PlaceOf(k)] = code[PlaceOf(k)]
      BY <1>6, <2>2, <3>2, Appended
    <3>4. PlaceOf(k)' = PlaceOf(k)
      BY <1>4 DEF PlaceOf
    <3>5. Generated(k) = code[PlaceOf(k)] /\ Generated(k)' = code'[PlaceOf(k)']
      BY <1>1, <1>7, <2>2 DEF Generated, PlaceOf
    <3> QED BY <2>2, <3>3, <3>4, <3>5
  <2> QED BY <2>1, <2>2
<1>t. PICK t : t = next
  OBVIOUS
<1>13. /\ Generated(t)' = type
       /\ lang = "go" => disk'.go[parsed[t].name].status = "whole"
  <2>1. CASE lang = "go"
    <3>1. DOMAIN disk = {"go", "rust"} /\ DOMAIN disk.go = AllNames
      BY DEF IInv, DirInv, TypeOK
    <3>2. disk'.go[parsed[t].name] = File(type)
      BY <1>t, <1>3, <1>6, <2>1, <3>1
    <3>3. File(type).content = type /\ File(type).status = "whole"
      BY DEF File
    <3> QED BY <1>1, <2>1, <3>2, <3>3 DEF Generated
  <2>2. CASE lang # "go"
    <3>1. t \in Tables
      BY <1>t, <1>3 DEF Tables
    <3>2. PlaceOf(t) = Len(code) + 1 /\ IsSeq(code)
      BY <1>t, <1>3, <1>7, <2>2, <3>1, Places DEF OutputInv
    <3>3. code'[PlaceOf(t)] = type
      BY <1>6, <2>2, <3>2, Appended
    <3> QED BY <1>1, <1>4, <1>7, <2>2, <3>3 DEF Generated, PlaceOf
  <2> QED BY <2>1, <2>2
<1>14. DoneKnown(b)'
  <2>1. ASSUME NEW k \in Done
        PROVE  /\ parsed[k].name \in DOMAIN b
               /\ Generated(k)'.container = b[parsed[k].name]
               /\ lang = "go" => disk'.go[parsed[k].name].status = "whole"
    <3>1. /\ parsed[k].name \in DOMAIN a /\ Generated(k).container = a[parsed[k].name]
          /\ lang = "go" => disk.go[parsed[k].name].status = "whole"
      BY <1>10 DEF DoneKnown
    <3> QED BY <1>11, <1>12, <3>1 DEF Extends
  <2> QED BY <1>1, <1>3, <1>4, <1>5, <1>11, <1>13, <1>t, <2>1 DEF DoneKnown
<1>15. Len(stack') = 0
  BY <1>1
<1>16. (\A k \in 1..Len(stack') : FALSE) /\ \A k \in 1..(Len(stack') - 1) : FALSE
  BY <1>15
<1>17. StackKnown(b)' /\ ChainInv'
  BY <1>16 DEF StackKnown, ChainInv
<1>18. AnalysisInv'
  BY <1>1, <1>11, <1>14, <1>17 DEF AnalysisInv
<1>19. ParsedSource' /\ OkInv' /\ OverflowInv'
  BY <1>1, <1>7 DEF AInv, ParsedSource, OkInv, OverflowInv
<1> QED BY <1>17, <1>18, <1>19 DEF AInv

LEMMA StepAnalysis ==
  ASSUME IInv, OutputInv, AInv, [Next]_vars
  PROVE  AInv'
<1>1. CASE Edit \/ UNCHANGED vars
  <2>1. UNCHANGED <<lang, pc, parsed, next, stack, code, disk, result>>
    BY <1>1 DEF Edit, vars
  <2>2. CASE pc # "parse"
    BY <2>1, <2>2, SameAnalysis
  <2>3. CASE pc = "parse"
    <3>1. stack = <<>> /\ result = "none" /\ Len(<<>>) = 0
      BY <2>3 DEF IInv, TypeOK, DirInv
    <3>2. Done' = {} /\ ParsedSource' /\ Len(stack') = 0 /\ result' \notin {"ok", "overflow"}
      BY <2>1, <2>3, <3>1 DEF Done, ParsedSource
    <3> QED BY <3>2, Unanalyzed
  <2> QED BY <2>2, <2>3
<1>2. ASSUME NEW l \in {"go", "rust"}, Run(l) PROVE AInv'
  BY <1>2, RunAnalysis
<1>3. CASE ParseTable \/ RejectTable \/ Parsed
  BY <1>3, ParsingAnalysis
<1>4. CASE SkipGenerated \/ EnterTable
  BY <1>4, SkipGeneratedAnalysis, EnterTableAnalysis
<1>5. CASE SkipDeprecated \/ ResolveField \/ FailField \/ CallNested \/ Overflow \/ ReturnNested
  BY <1>5, SkipDeprecatedAnalysis, ResolveFieldAnalysis, FailFieldAnalysis,
     CallNestedAnalysis, OverflowAnalysis, ReturnNestedAnalysis
<1>6. CASE FinishTable \/ SaveFails \/ FinishRun \/ FinalSaveFails
  BY <1>6, FinishTableAnalysis, SaveFailsAnalysis, FinishRunAnalysis, FinalSaveFailsAnalysis
<1> QED BY <1>1, <1>2, <1>3, <1>4, <1>5, <1>6 DEF Next, Step

LEMMA InitAnalysis == Init => AInv
<1> SUFFICES ASSUME Init PROVE AInv
  OBVIOUS
<1>1. pc = "idle" /\ result = "none" /\ parsed = <<>> /\ Len(parsed) = 0 /\ Len(stack) = 0
  BY DEF Init
<1>2. Done = {}
  <2>1. Tables = {}
    BY <1>1 DEF Tables
  <2> QED BY <2>1 DEF Done
<1>3. PICK a, rank : Analyses(parsed, a, rank, 0)
  BY NothingKnown
<1>4. (\A k \in 1..Len(stack) : FALSE) /\ \A k \in 1..(Len(stack) - 1) : FALSE
  BY <1>1
<1>5. DoneKnown(a) /\ StackKnown(a) /\ ChainInv
  BY <1>2, <1>4 DEF DoneKnown, StackKnown, ChainInv
<1>6. IsSource(parsed)
  BY <1>1, NoTables
<1> QED BY <1>1, <1>3, <1>5, <1>6 DEF AInv, AnalysisInv, ParsedSource, OkInv, OverflowInv

\* What a run has analyzed so far, at every moment.
LEMMA AnalysisKept == Init /\ [][Next]_vars => [](IInv /\ OutputInv /\ AInv)
<1>1. Init => AInv
  BY InitAnalysis
<1>2. IInv /\ OutputInv /\ AInv /\ [Next]_vars => AInv'
  BY StepAnalysis
<1> QED BY <1>1, <1>2, InvariantKept, PTL

THEOREM AnalysisInvariant == Spec => [](IInv /\ OutputInv /\ AInv)
BY AnalysisKept, PTL DEF Spec

-----------------------------------------------------------------------------
(* Recursion.                                                              *)

\* A run that has ended well has gone through all tables.
LEMMA OkDone ==
  ASSUME IInv, AInv, result = "ok"
  PROVE  /\ pc = "idle" /\ Done = Tables /\ IsSource(parsed)
<1>1. pc = "idle" /\ next > Len(parsed) /\ IsSource(parsed)
  BY DEF AInv, OkInv, ParsedSource
<1>2. Len(parsed) \in Nat /\ Tables \subseteq 1..Len(parsed)
  BY TablesFinite
<1>3. next \in Nat
  <2>1. next \in 1..(Len(parsed) + 1)
    BY DEF IInv, TypeOK
  <2> QED BY <1>2, <2>1
<1>4. \A k \in Tables : k < next
  BY <1>1, <1>2, <1>3
<1> QED BY <1>1, <1>4 DEF Done

LEMMA OkNotCyclic ==
  ASSUME IInv, AInv, result = "ok", NEW k \in Tables
  PROVE  ~Cyclic(parsed, parsed[k].name)
<1>1. k \in Done /\ IsSource(parsed)
  BY OkDone
<1>2. PICK a, rank, n : Analyses(parsed, a, rank, n) /\ DoneKnown(a)
  BY DEF AInv, AnalysisInv
<1>3. parsed[k].name \in DOMAIN a
  BY <1>1, <1>2 DEF DoneKnown
<1> QED BY <1>1, <1>2, <1>3, KnownNotCyclic

LEMMA OverflowExplained ==
  ASSUME Room PROVE IInv /\ OutputInv /\ AInv => OverflowIsCycle
BY OkNotCyclic DEF OverflowIsCycle, AInv, OverflowInv

\* With a place on the stack for each table, only tables that contain
\* themselves overflow it, and these are never generated: AnalyzeContainer
\* calls itself for each field without a check.
THEOREM OverflowAlwaysCycle == Room => (Spec => []OverflowIsCycle)
<1> SUFFICES ASSUME Room PROVE Spec => []OverflowIsCycle
  OBVIOUS
<1> QED BY OverflowExplained, AnalysisInvariant, PTL

-----------------------------------------------------------------------------
(* The fields of a container.                                              *)

\* Field j of a container is a live field of the table, with its analysis.
FieldIn(fields, a, last, f, info) ==
  \E k \in 1..last :
    /\ f = fields[k] /\ ~fields[k].deprecated
    /\ Callee(fields[k]) \in DOMAIN a \union {NoTable}
    /\ info = ResolveSszFieldInfo(fields[k], NestedIn(a, fields[k]))

LEMMA AddedField ==
  ASSUME NEW c, NEW field, NEW info
  PROVE  /\ AddField(c, field, info).fields = Append(c.fields, field)
         /\ AddField(c, field, info).infos = Append(c.infos, info)
BY DEF AddField

LEMMA CollectedFields ==
  ASSUME NEW fields, NEW a, NEW pos \in Nat \ {0}, NEW container,
         Collected(fields, a, pos, container)
  PROVE  \A j \in 1..Len(container.infos) :
           FieldIn(fields, a, pos - 1, container.fields[j], container.infos[j])
<1>1. PICK c : Grows(fields, a, pos - 1, c) /\ container = c[pos - 1]
  BY DEF Collected
<1> DEFINE Good(k) == /\ IsSeq(c[k].fields) /\ IsSeq(c[k].infos)
                      /\ Len(c[k].fields) = Len(c[k].infos)
                      /\ \A j \in 1..Len(c[k].infos) :
                           FieldIn(fields, a, k, c[k].fields[j], c[k].infos[j])
           Bad == {k \in 0..(pos - 1) : ~Good(k)}
<1>2. Bad = {}
  <2> SUFFICES ASSUME Bad # {} PROVE FALSE
    OBVIOUS
  <2>1. Bad \subseteq Nat
    OBVIOUS
  <2>2. PICK k \in Bad : \A j \in Bad : k <= j
    BY <2>1, LeastOf
  <2>3. k # 0
    <3>1. c[0].fields = <<>> /\ c[0].infos = <<>> /\ Len(<<>>) = 0
      BY <1>1 DEF Grows, NoFields
    <3>2. IsSeq(<<>>)
      BY SeqIs, EmptySeq
    <3>3. \A j \in 1..0 : FALSE
      OBVIOUS
    <3>4. Good(0)
      BY <3>1, <3>2, <3>3
    <3> QED BY <2>2, <3>4
  <2>4. k \in 1..(pos - 1) /\ k - 1 \in 0..(pos - 1) /\ ~(k <= k - 1) /\ k \in Nat /\ k - 1 \in Nat
    BY <2>2, <2>3
  <2>5. Good(k - 1)
    BY <2>2, <2>4
  <2>6. ASSUME NEW f, NEW info, FieldIn(fields, a, k - 1, f, info)
        PROVE  FieldIn(fields, a, k, f, info)
    <3>1. \A i \in 1..(k - 1) : i \in 1..k
      BY <2>4
    <3> QED BY <2>6, <3>1 DEF FieldIn
  <2>7. CASE fields[k].deprecated
    <3>1. c[k] = c[k - 1]
      BY <1>1, <2>4, <2>7 DEF Grows
    <3>2. Good(k)
      BY <2>5, <2>6, <3>1
    <3> QED BY <2>2, <3>2
  <2>8. CASE ~fields[k].deprecated
    <3> DEFINE info == ResolveSszFieldInfo(fields[k], NestedIn(a, fields[k]))
               n == Len(c[k - 1].infos)
    <3>1. /\ Callee(fields[k]) \in DOMAIN a \union {NoTable}
          /\ c[k] = AddField(c[k - 1], fields[k], info)
      BY <1>1, <2>4, <2>8 DEF Grows
    <3>2. FieldIn(fields, a, k, fields[k], info)
      BY <2>4, <2>8, <3>1 DEF FieldIn
    <3> HIDE DEF info
    <3>3. /\ c[k].fields = Append(c[k - 1].fields, fields[k])
          /\ c[k].infos = Append(c[k - 1].infos, info)
      <4> DEFINE old == c[k - 1]
                 new == c[k]
                 f == fields[k]
      <4>1. new = AddField(old, f, info)
        BY <3>1
      <4> HIDE DEF old, new, f
      <4>2. new.fields = Append(old.fields, f) /\ new.infos = Append(old.infos, info)
        BY <4>1, AddedField
      <4> QED BY <4>2 DEF old, new, f
    <3>4. n \in Nat /\ Len(c[k - 1].fields) = n
      BY <2>5, SeqFacts
    <3>5. /\ IsSeq(c[k].fields) /\ Len(c[k].fields) = n + 1
          /\ \A j \in 1..n : c[k].fields[j] = c[k - 1].fields[j]
          /\ c[k].fields[n + 1] = fields[k]
      <4> DEFINE old == c[k - 1].fields
                 m == n
      <4>1. IsSeq(old) /\ Len(old) = m /\ c[k].fields = Append(old, fields[k])
        BY <2>5, <3>3, <3>4
      <4> HIDE DEF old, m
      <4>2. /\ IsSeq(c[k].fields) /\ Len(c[k].fields) = m + 1
            /\ \A j \in 1..m : c[k].fields[j] = old[j]
            /\ c[k].fields[m + 1] = fields[k]
        BY <4>1, Appended
      <4> QED BY <4>2 DEF old, m
    <3>6. /\ IsSeq(c[k].infos) /\ Len(c[k].infos) = n + 1
          /\ \A j \in 1..n : c[k].infos[j] = c[k - 1].infos[j]
          /\ c[k].infos[n + 1] = info
      BY <2>5, <3>3, Appended
    <3>7. \A j \in 1..(n + 1) : j = n + 1 \/ j \in 1..n
      BY <3>4
    <3>8. ASSUME NEW j \in 1..(n + 1) PROVE FieldIn(fields, a, k, c[k].fields[j], c[k].infos[j])
      <4>1. CASE j = n + 1
        BY <3>2, <3>5, <3>6, <4>1
      <4>2. CASE j \in 1..n
        <5>1. FieldIn(fields, a, k - 1, c[k - 1].fields[j], c[k - 1].infos[j])
          BY <2>5, <4>2
        <5> QED BY <2>6, <3>5, <3>6, <4>2, <5>1
      <4> QED BY <3>7, <4>1, <4>2
    <3>9. Good(k)
      BY <3>5, <3>6, <3>8
    <3> QED BY <2>2, <3>9
  <2> QED BY <2>7, <2>8
<1>3. pos - 1 \in 0..(pos - 1)
  OBVIOUS
<1>4. Good(pos - 1)
  BY <1>2, <1>3
<1> QED BY <1>1, <1>4

\* Only a table makes a container of a field, with what is known of the table.
LEMMA ContainerField ==
  ASSUME NEW f, IsField(f), NEW nested, ResolveSszFieldInfo(f, nested).ssz = "container"
  PROVE  /\ f.type.base = "struct" /\ Callee(f) = f.type.name
         /\ ResolveSszFieldInfo(f, nested) = ContainerInfo(nested)
<1>1. Unsupported.ssz = "unsupported"
  BY DEF Info, Unsupported
<1>2. \A size, elem, limit : OfElem("vector", FALSE, size, elem, limit).ssz # "container"
  BY <1>1 DEF OfElem
<1>3. \A elem, limit : ListInfo("list", elem, limit).ssz # "container"
  BY <1>1 DEF ListInfo, OfElem
<1>4. \A elem, limit : ListInfo("progressive_list", elem, limit).ssz # "container"
  BY <1>1 DEF ListInfo, OfElem
<1>b. \A size : Info("bitlist", TRUE, size).ssz # "container"
  BY DEF Info
<1>5. CASE f.type.base = "vector"
  <2>1. ResolveVectorType(f, nested).ssz # "container"
    <3>1. CASE NeedsMax(f) /\ f.max = <<>>
      <4>1. f.attr # "progressive_bitlist" /\ f.attr # "progressive_list"
        BY <1>5, <3>1 DEF NeedsMax
      <4>2. ResolveVectorType(f, nested) = Unsupported
        BY <3>1, <4>1 DEF ResolveVectorType
      <4> QED BY <1>1, <4>2
    <3>2. CASE ~(NeedsMax(f) /\ f.max = <<>>)
      <4>1. \/ f.attr = "progressive_bitlist"
            \/ f.attr = "bitlist" /\ f.max # <<>>
            \/ f.attr = "progressive_list"
            \/ f.attr = "none" /\ f.max # <<>>
        BY <1>5, <3>2 DEF IsField, NeedsMax
      <4> QED BY <1>b, <1>3, <1>4, <3>2, <4>1 DEF ResolveVectorType
    <3> QED BY <3>1, <3>2
  <2> QED BY <1>5, <2>1 DEF ResolveSszFieldInfo
<1>6. CASE f.type.base = "array"
  <2>1. ResolveArrayType(f, nested).ssz # "container"
    BY <1>2 DEF ResolveArrayType, Info
  <2> QED BY <1>6, <2>1 DEF ResolveSszFieldInfo
<1>7. CASE f.type.base \in {"bool", "uint"}
  BY <1>7 DEF ResolveSszFieldInfo, Info
<1>8. CASE f.type.base = "string"
  BY <1>1, <1>3, <1>8 DEF ResolveSszFieldInfo
<1>9. CASE f.type.base = "struct"
  BY <1>9 DEF ResolveSszFieldInfo, Callee
<1>10. CASE f.type.base \notin {"bool", "uint", "string", "vector", "array", "struct"}
  BY <1>1, <1>10 DEF ResolveSszFieldInfo
<1> QED BY <1>5, <1>6, <1>7, <1>8, <1>9, <1>10

\* A container in a container that is known is that of the field's table.
LEMMA NestedKnown ==
  ASSUME NEW tables, IsSource(tables), NEW a, NEW rank, NEW n, Analyses(tables, a, rank, n),
         NEW name \in DOMAIN a, NEW j \in 1..Len(a[name].infos),
         a[name].infos[j].ssz = "container"
  PROVE  LET callee == Callee(a[name].fields[j])
         IN  callee \in DOMAIN a /\ a[name].infos[j].of = a[callee]
<1> DEFINE fs == Fields(tables, name)
           f == a[name].fields[j]
<1>1. /\ name \in TableNames(tables)
      /\ Collected(fs, a, Len(fs) + 1, a[name])
  BY DEF Analyses
<1>2. Len(fs) \in Nat /\ Len(fs) + 1 \in Nat \ {0} /\ Len(fs) + 1 - 1 = Len(fs)
  <2>1. Len(fs) \in Nat
    BY <1>1, TableOf DEF Fields
  <2> HIDE DEF fs
  <2> QED BY <2>1
<1>3. FieldIn(fs, a, Len(fs), f, a[name].infos[j])
  BY <1>1, <1>2, CollectedFields
<1>4. PICK k \in 1..Len(fs) :
        /\ f = fs[k] /\ Callee(fs[k]) \in DOMAIN a \union {NoTable}
        /\ a[name].infos[j] = ResolveSszFieldInfo(fs[k], NestedIn(a, fs[k]))
  BY <1>3 DEF FieldIn
<1>5. IsField(f) /\ Callee(f) \in TableNames(tables) \union {NoTable}
  BY <1>1, <1>4, TableOf DEF Fields
<1> HIDE DEF fs, f
<1>6. /\ f.type.base = "struct" /\ Callee(f) = f.type.name
      /\ a[name].infos[j] = ContainerInfo(NestedIn(a, f))
  BY <1>4, <1>5, ContainerField
<1>7. a[name].infos[j].of = NestedIn(a, f)
  BY <1>6 DEF ContainerInfo
<1>8. Callee(f) # NoTable
  BY <1>5, <1>6 DEF IsField
<1> QED BY <1>4, <1>5, <1>7, <1>8 DEF NestedIn, f

-----------------------------------------------------------------------------
(* What the files of a package say of each other.                          *)

LEMMA PackageExplained == IInv /\ OutputInv /\ AInv => PackageAgrees
<1>1. ASSUME IInv, AInv, result = "ok", NEW k \in Tables
      PROVE  /\ lang = "go" => disk.go[parsed[k].name].status = "whole"
             /\ LET c == Generated(k).container
                IN  \A j \in 1..Len(c.infos), m \in Tables :
                      c.infos[j].ssz = "container" /\ parsed[m].name = Callee(c.fields[j])
                        => c.infos[j].of = Generated(m).container
  <2>1. Done = Tables /\ IsSource(parsed)
    BY <1>1, OkDone
  <2>2. PICK a, rank, n : Analyses(parsed, a, rank, n) /\ DoneKnown(a)
    BY <1>1 DEF AInv, AnalysisInv
  <2>3. /\ parsed[k].name \in DOMAIN a /\ Generated(k).container = a[parsed[k].name]
        /\ lang = "go" => disk.go[parsed[k].name].status = "whole"
    BY <1>1, <2>1, <2>2 DEF DoneKnown
  <2> DEFINE c == a[parsed[k].name]
  <2>4. ASSUME NEW j \in 1..Len(c.infos), NEW m \in Tables,
               c.infos[j].ssz = "container", parsed[m].name = Callee(c.fields[j])
        PROVE  c.infos[j].of = Generated(m).container
    <3>1. c.infos[j].of = a[Callee(c.fields[j])]
      BY <2>1, <2>2, <2>3, <2>4, NestedKnown
    <3>2. Generated(m).container = a[parsed[m].name]
      BY <2>1, <2>2 DEF DoneKnown
    <3> QED BY <2>4, <3>1, <3>2
  <2> QED BY <2>3, <2>4
<1> QED BY <1>1 DEF PackageAgrees

\* After a run that ended well the size of a nested type in a file is that in
\* the nested type's own file (AnalyzeContainer for each of them).
THEOREM PackageAlwaysAgrees == Spec => []PackageAgrees
BY PackageExplained, AnalysisInvariant, PTL

-----------------------------------------------------------------------------
(* The layout of one field.                                                *)

\* Of structs it holds only structs, as fields or in arrays, and a table has
\* no array.
LEMMA StructIs ==
  ASSUME NEW tables, IsSource(tables), NEW name \in TableNames(tables),
         NEW type, LET t == Named(tables, name)
                   IN  IF t.struct THEN FitsStruct(tables, t, type) ELSE FitsTable(type)
  PROVE  LET t == Named(tables, name)
         IN  /\ type.base = "array" => t.struct
             /\ type.base = "array" => \/ type.elem.base \in Scalars
                                       \/ /\ type.elem.base = "struct"
                                          /\ type.elem.name \in TableNames(tables)
                                          /\ Named(tables, type.elem.name).struct
             /\ t.struct => \/ type.base \in Scalars \union {"array"}
                            \/ /\ type.base = "struct"
                               /\ type.name \in TableNames(tables)
                               /\ Named(tables, type.name).struct
<1> DEFINE t == Named(tables, name)
<1>1. ASSUME NEW m \in StructsOf(tables) PROVE m \in TableNames(tables) /\ Named(tables, m).struct
  <2>1. PICK j \in 1..Len(tables) : tables[j].struct /\ tables[j].name = m
    BY DEF StructsOf
  <2>2. m \in TableNames(tables)
    BY <2>1 DEF TableNames
  <2>3. PICK k \in 1..Len(tables) : Named(tables, m) = tables[k] /\ Named(tables, m).name = m
    BY <2>2, TableOf
  <2>4. j = k
    BY <2>1, <2>3 DEF IsSource
  <2> QED BY <2>1, <2>2, <2>3, <2>4
<1>2. t.name = name
  BY TableOf
<1>3. t.struct => \A m \in StructsOf(tables) \union {t.name} :
                    m \in TableNames(tables) /\ Named(tables, m).struct
  BY <1>1, <1>2
<1> HIDE DEF t
<1>4. IF t.struct THEN FitsStruct(tables, t, type) ELSE FitsTable(type)
  BY DEF t
<1>5. CASE ~t.struct
  BY <1>4, <1>5 DEF FitsTable, t
<1>6. CASE t.struct
  <2>1. \A m \in StructsOf(tables) \union {t.name} :
          m \in TableNames(tables) /\ Named(tables, m).struct
    BY <1>3, <1>6
  <2>2. CASE type.base = "array"
    BY <1>4, <1>6, <2>1, <2>2 DEF FitsStruct, t
  <2>3. CASE type.base # "array"
    BY <1>4, <1>6, <2>1, <2>3 DEF FitsStruct, t
  <2> QED BY <2>2, <2>3
<1> QED BY <1>5, <1>6

\* A vector is dynamic, if it is supported.
LEMMA VectorIs ==
  ASSUME NEW f, IsField(f), f.type.base = "vector", NEW nested
  PROVE  LET R == ResolveVectorType(f, nested)
         IN  /\ R # Unsupported => R.dynamic = TRUE
             /\ Callee(f) # NoTable => R # Unsupported
<1>1. Unsupported.ssz = "unsupported"
  BY DEF Info, Unsupported
<1>2. \A elem, limit : elem.ssz # "unsupported" =>
        /\ ListInfo("list", elem, limit).dynamic = TRUE
        /\ ListInfo("list", elem, limit).ssz = "list"
        /\ ListInfo("progressive_list", elem, limit).dynamic = TRUE
        /\ ListInfo("progressive_list", elem, limit).ssz = "progressive_list"
  BY DEF ListInfo, OfElem
<1>3. \A elem, limit : elem.ssz = "unsupported" =>
        /\ ListInfo("list", elem, limit) = Unsupported
        /\ ListInfo("progressive_list", elem, limit) = Unsupported
  BY DEF ListInfo, OfElem
<1>4. \A elem, limit : /\ \/ ListInfo("list", elem, limit) = Unsupported
                          \/ ListInfo("list", elem, limit).dynamic = TRUE
                       /\ \/ ListInfo("progressive_list", elem, limit) = Unsupported
                          \/ ListInfo("progressive_list", elem, limit).dynamic = TRUE
  BY <1>2, <1>3
<1>5. Info("bitlist", TRUE, 0).dynamic = TRUE
  BY DEF Info
<1>6. CASE NeedsMax(f) /\ f.max = <<>>
  <2>1. f.attr # "progressive_bitlist" /\ f.attr # "progressive_list"
    BY <1>6 DEF NeedsMax
  <2>2. ResolveVectorType(f, nested) = Unsupported
    BY <1>6, <2>1 DEF ResolveVectorType
  <2>3. Callee(f) = NoTable
    BY <1>6 DEF Callee
  <2> QED BY <2>2, <2>3
<1>7. CASE ~(NeedsMax(f) /\ f.max = <<>>)
  <2> DEFINE elem == ResolveElemType(f.type.elem, nested)
             last == WithInnerMax(elem, f.max)
  <2>1. \/ f.attr = "progressive_bitlist"
        \/ f.attr = "bitlist" /\ f.max # <<>>
        \/ f.attr = "progressive_list"
        \/ f.attr = "none" /\ f.max # <<>>
    BY <1>7 DEF IsField, NeedsMax
  <2>2. /\ f.attr = "progressive_bitlist" \/ f.attr = "bitlist" =>
             ResolveVectorType(f, nested) = Info("bitlist", TRUE, 0)
        /\ f.attr = "progressive_list" =>
             ResolveVectorType(f, nested) = ListInfo("progressive_list", elem, 0)
        /\ f.attr = "none" =>
             ResolveVectorType(f, nested) = ListInfo("list", last, f.max[1])
    BY <1>7, <2>1 DEF ResolveVectorType
  <2>3. ASSUME Callee(f) # NoTable
        PROVE  f.attr \in {"none", "progressive_list"} /\ elem = ContainerInfo(nested)
    <3>1. f.attr \in {"none", "progressive_list"} /\ f.type.elem.base = "struct"
      BY <2>3 DEF Callee
    <3> QED BY <3>1 DEF ResolveElemType
  <2>4. ContainerInfo(nested).ssz = "container"
    BY DEF ContainerInfo
  <2>5. Callee(f) # NoTable => /\ f.attr \in {"none", "progressive_list"}
                               /\ elem.ssz = "container" /\ last.ssz = "container"
    BY <2>3, <2>4 DEF WithInnerMax
  <2> HIDE DEF elem, last
  <2>6. Callee(f) # NoTable => ResolveVectorType(f, nested) # Unsupported
    BY <1>1, <1>2, <2>2, <2>5
  <2>7. ResolveVectorType(f, nested) # Unsupported =>
          ResolveVectorType(f, nested).dynamic = TRUE
    <3> DEFINE R == ResolveVectorType(f, nested)
               A == ListInfo("progressive_list", elem, 0)
               B == ListInfo("list", last, f.max[1])
               C == Info("bitlist", TRUE, 0)
    <3>1. (A = Unsupported \/ A.dynamic = TRUE) /\ (B = Unsupported \/ B.dynamic = TRUE)
      BY <1>4
    <3>2. C.dynamic = TRUE
      BY <1>5
    <3>3. R \in {A, B, C}
      BY <2>1, <2>2
    <3> HIDE DEF A, B, C, R
    <3>4. R # Unsupported => R.dynamic = TRUE
      BY <3>1, <3>2, <3>3
    <3> QED BY <3>4 DEF R
  <2> QED BY <2>6, <2>7
<1> QED BY <1>6, <1>7

\* Strings and vectors are dynamic, and tables that are not of fixed size.
LEMMA FieldDynamic ==
  ASSUME NEW f, IsField(f), NEW nested,
         Callee(f) = NoTable => /\ nested = NoFields
                                /\ ResolveSszFieldInfo(f, NoFields) # Unsupported
  PROVE  LET info == ResolveSszFieldInfo(f, nested)
         IN  /\ f.type.base \in {"string", "vector"} => info.dynamic = TRUE
             /\ f.type.base = "struct" => info = ContainerInfo(nested)
             /\ f.type.base \notin {"string", "vector", "struct"} => info.dynamic = FALSE
<1>1. Unsupported.dynamic = FALSE /\ Unsupported.ssz = "unsupported"
  BY DEF Info, Unsupported
<1>2. CASE f.type.base = "vector"
  <2>1. ResolveSszFieldInfo(f, nested) = ResolveVectorType(f, nested)
    BY <1>2 DEF ResolveSszFieldInfo
  <2>2. ResolveVectorType(f, nested) # Unsupported
    <3>1. CASE Callee(f) = NoTable
      BY <2>1, <3>1
    <3>2. CASE Callee(f) # NoTable
      BY <1>2, <3>2, VectorIs
    <3> QED BY <3>1, <3>2
  <2>3. ResolveVectorType(f, nested).dynamic = TRUE
    BY <1>2, <2>2, VectorIs
  <2> QED BY <1>2, <2>1, <2>3
<1>3. CASE f.type.base = "string"
  <2>1. Callee(f) = NoTable
    BY <1>3 DEF Callee
  <2>2. ResolveSszFieldInfo(f, nested) = IF f.max = <<>> THEN Unsupported
                                        ELSE ListInfo("list", Info("uint", FALSE, 1), f.max[1])
    BY <1>3 DEF ResolveSszFieldInfo
  <2>3. f.max # <<>>
    BY <2>1, <2>2
  <2>4. Info("uint", FALSE, 1).ssz # "unsupported"
    BY DEF Info
  <2>5. ListInfo("list", Info("uint", FALSE, 1), f.max[1]).dynamic = TRUE
    BY <2>4 DEF ListInfo, OfElem
  <2> QED BY <1>3, <2>2, <2>3, <2>5
<1>4. CASE f.type.base = "array"
  <2>1. ResolveSszFieldInfo(f, nested) = ResolveArrayType(f, nested)
    BY <1>4 DEF ResolveSszFieldInfo
  <2>2. \A size, elem, limit : OfElem("vector", FALSE, size, elem, limit).dynamic = FALSE
    BY <1>1 DEF OfElem
  <2>3. \A size : Info("bitvector", FALSE, size).dynamic = FALSE
    BY DEF Info
  <2>4. ResolveArrayType(f, nested).dynamic = FALSE
    BY <2>2, <2>3 DEF ResolveArrayType
  <2> QED BY <1>4, <2>1, <2>4
<1>5. CASE f.type.base = "struct"
  BY <1>5 DEF ResolveSszFieldInfo
<1>6. CASE f.type.base \notin {"string", "vector", "array", "struct"}
  <2>1. ResolveSszFieldInfo(f, nested) = Unsupported
          \/ ResolveSszFieldInfo(f, nested) = Info(f.type.base, FALSE, f.type.size)
    BY <1>6 DEF ResolveSszFieldInfo
  <2>2. Info(f.type.base, FALSE, f.type.size).dynamic = FALSE
    BY DEF Info
  <2> QED BY <1>1, <1>6, <2>1, <2>2
<1> QED BY <1>2, <1>3, <1>4, <1>5, <1>6

-----------------------------------------------------------------------------
(* Division and sizes of 32 bits.                                          *)

LEMMA DivMod ==
  ASSUME NEW n \in Nat, NEW d \in Nat \ {0}
  PROVE  /\ n \div d \in Nat /\ n % d \in Nat /\ n % d < d
         /\ n = (n \div d) * d + (n % d)
OBVIOUS

\* A quotient is determined by its remainder's range.
LEMMA DivIs ==
  ASSUME NEW d \in Nat \ {0}, NEW q \in Nat, NEW r \in Nat, r < d
  PROVE  (q * d + r) \div d = q /\ (q * d + r) % d = r
<1> DEFINE n == q * d + r
           p == n \div d
           m == n % d
<1>1. p \in Nat /\ m \in Nat /\ m < d /\ n = p * d + m /\ n \in Nat
  BY DivMod
<1> HIDE DEF p, m
<1>2. CASE p < q
  <2>1. (q - p) * d >= d
    BY <1>1, <1>2
  <2> QED BY <2>1, <1>1
<1>3. CASE p > q
  <2>1. (p - q) * d >= d
    BY <1>1, <1>3
  <2> QED BY <2>1, <1>1
<1>4. p = q
  BY <1>1, <1>2, <1>3
<1>5. m = r
  BY <1>1, <1>4
<1> QED BY <1>4, <1>5 DEF p, m

LEMMA SmallMod ==
  ASSUME NEW d \in Nat \ {0}, NEW n \in Nat, n < d PROVE n % d = n /\ n \div d = 0
<1>1. n = 0 * d + n
  OBVIOUS
<1> QED BY <1>1, DivIs

LEMMA ModMultiple ==
  ASSUME NEW d \in Nat \ {0}, NEW q \in Nat, NEW n \in Nat
  PROVE  (q * d + n) % d = n % d
<1> DEFINE p == n \div d
           r == n % d
<1>1. p \in Nat /\ r \in Nat /\ r < d /\ n = p * d + r
  BY DivMod
<1> HIDE DEF p, r
<1>2. q * d + n = (q + p) * d + r
  BY <1>1
<1>3. ((q + p) * d + r) % d = r
  BY <1>1, DivIs
<1>4. r % d = r
  BY <1>1, SmallMod
<1> QED BY <1>2, <1>3 DEF r

LEMMA SizesIs == Sizes \in Nat \ {0} /\ Sizes > 8
BY SizesAssumption

LEMMA Uint32Is ==
  ASSUME NEW n \in Nat PROVE Uint32(n) \in Nat /\ (n < Sizes => Uint32(n) = n)
<1>1. Sizes \in Nat \ {0}
  BY SizesIs
<1> QED BY <1>1, DivMod, SmallMod DEF Uint32

LEMMA Distributes ==
  ASSUME NEW p \in Nat, NEW q \in Nat, NEW n \in Nat
  PROVE  (p + q) * n = p * n + q * n
OBVIOUS

\* Wrapping a term first changes nothing, nor does wrapping a factor.
LEMMA Uint32Sum ==
  ASSUME NEW m \in Nat, NEW n \in Nat
  PROVE  Uint32(Uint32(m) + Uint32(n)) = Uint32(m + n)
<1> DEFINE S == Sizes
           p == m \div S
           q == n \div S
           u == m % S
           v == n % S
<1>1. S \in Nat \ {0}
  BY SizesIs
<1>2. /\ p \in Nat /\ u \in Nat /\ m = p * S + u
      /\ q \in Nat /\ v \in Nat /\ n = q * S + v
  BY <1>1, DivMod
<1>3. Uint32(m) = u /\ Uint32(n) = v
  BY DEF Uint32
<1> HIDE DEF S, p, q, u, v
<1>4. m + n = (p + q) * S + (u + v)
  <2> DEFINE x == p * S
             y == q * S
  <2>1. x \in Nat /\ y \in Nat /\ m = x + u /\ n = y + v
    BY <1>1, <1>2
  <2>2. (p + q) * S = x + y
    BY <1>1, <1>2, Distributes
  <2>3. u \in Nat /\ v \in Nat
    BY <1>2
  <2> DEFINE z == (p + q) * S
  <2>4. z = x + y
    BY <2>2
  <2> HIDE DEF x, y, z
  <2>5. m + n = z + (u + v)
    BY <2>1, <2>3, <2>4
  <2> QED BY <2>5 DEF z
<1>5. ((p + q) * S + (u + v)) % S = (u + v) % S
  <2>1. p + q \in Nat /\ u + v \in Nat
    BY <1>2
  <2> QED BY <1>1, <2>1, ModMultiple
<1>6. (m + n) % S = (u + v) % S
  BY <1>4, <1>5
<1> QED BY <1>3, <1>6 DEF Uint32, S

LEMMA Uint32Product ==
  ASSUME NEW m \in Nat, NEW n \in Nat
  PROVE  Uint32(m * Uint32(n)) = Uint32(m * n)
<1> DEFINE S == Sizes
           q == n \div S
           v == n % S
<1>1. S \in Nat \ {0}
  BY SizesIs
<1>2. q \in Nat /\ v \in Nat /\ n = q * S + v
  BY <1>1, DivMod
<1>3. Uint32(n) = v
  BY DEF Uint32
<1> HIDE DEF S, q, v
<1>4. m * n = (m * q) * S + m * v
  <2> DEFINE x == q * S
  <2>1. x \in Nat /\ n = x + v
    BY <1>1, <1>2
  <2>2. m * x = (m * q) * S
    BY <1>1, <1>2
  <2> HIDE DEF x
  <2>3. m * (x + v) = m * x + m * v
    BY <1>2, <2>1
  <2> QED BY <2>1, <2>2, <2>3
<1>5. m * q \in Nat /\ m * v \in Nat
  BY <1>2
<1>6. ((m * q) * S + m * v) % S = (m * v) % S
  BY <1>1, <1>5, ModMultiple
<1>7. (m * n) % S = (m * v) % S
  BY <1>4, <1>6
<1> QED BY <1>3, <1>7 DEF Uint32, S

\* The size that is known of a type is that of SSZ, in 32 bits.
Counts(a, size, name) == size[name] \in Nat /\ a[name].size = Uint32(size[name])

\* What the width of a field rests on: that of the table that it holds inline.
WidthsKnown(tables, f, a, size) ==
  /\ Callee(f) = NoTable => ResolveSszFieldInfo(f, NoFields) # Unsupported
  /\ f.type.base = "struct" =>
       IF IsVariable(tables, f.type.name) THEN a[f.type.name].fixed = FALSE
       ELSE a[f.type.name].fixed = TRUE /\ Counts(a, size, f.type.name)
  /\ f.type.base = "array" => f.type.elem.base \in Scalars \union {"struct"}
  /\ f.type.base = "array" /\ f.attr = "bitvector" => BitsOf(f) + 7 < Sizes
  /\ f.type.base = "array" /\ f.attr = "none" /\ f.type.elem.base = "struct" =>
       /\ f.type.elem.name # NoTable
       /\ ~IsVariable(tables, f.type.elem.name)
       /\ a[f.type.elem.name].fixed = TRUE
       /\ Counts(a, size, f.type.elem.name)

LEMMA BitsOfIs ==
  ASSUME NEW f, IsField(f), f.type.base = "array"
  PROVE  BitsOf(f) \in Nat /\ f.type.len \in Nat
<1>1. f.type.len \in Nat
  BY DEF IsField
<1>2. f.max \in Seq(Nat)
  BY DEF IsField
<1>3. f.max # <<>> => f.max[1] \in Nat
  BY <1>2
<1> QED BY <1>1, <1>3 DEF BitsOf

\* A width is that of SSZ in 32 bits.
Measures(width, of) == of \in Nat /\ width = Uint32(of)

LEMMA SmallMeasures ==
  ASSUME NEW n \in Nat, n <= 8 PROVE Measures(n, n)
BY SizesIs, Uint32Is DEF Measures

\* The bytes that the loop counts for a live field are those of the static
\* section, when this holds of the tables that are stored inline in it.
LEMMA FieldBytes ==
  ASSUME NEW tables, NEW f, IsField(f), NEW a, NEW size, WidthsKnown(tables, f, a, size)
  PROVE  LET info == ResolveSszFieldInfo(f, NestedIn(a, f))
         IN  Measures(IF info.dynamic THEN OffsetSize ELSE info.size, FieldWidth(tables, f, size))
<1> USE DEF WidthsKnown
<1> DEFINE nested == NestedIn(a, f)
           info == ResolveSszFieldInfo(f, nested)
           width == IF info.dynamic THEN OffsetSize ELSE info.size
<1>1. Unsupported.ssz = "unsupported"
  BY DEF Info, Unsupported
<1>2. Callee(f) = NoTable => nested = NoFields /\ info # Unsupported
  BY DEF NestedIn
<1>3. /\ f.type.base \in {"string", "vector"} => info.dynamic = TRUE
      /\ f.type.base = "struct" => info = ContainerInfo(nested)
      /\ f.type.base \notin {"string", "vector", "struct"} => info.dynamic = FALSE
  <2> HIDE DEF nested
  <2> QED BY <1>2, FieldDynamic DEF nested
<1>offset. Measures(OffsetSize, OffsetSize)
  BY SmallMeasures DEF OffsetSize
<1>4. CASE f.type.base \in {"string", "vector"}
  <2>1. FieldWidth(tables, f, size) = OffsetSize
    BY <1>4 DEF FieldWidth
  <2>2. info.dynamic = TRUE
    BY <1>3, <1>4
  <2> HIDE DEF info, nested
  <2>3. width = OffsetSize
    BY <2>2
  <2> QED BY <1>offset, <2>1, <2>3 DEF info, nested
<1>5. CASE f.type.base = "struct"
  <2>1. nested = a[f.type.name]
    BY <1>5 DEF NestedIn, Callee, IsField
  <2>2. FieldWidth(tables, f, size) =
          IF IsVariable(tables, f.type.name) THEN OffsetSize ELSE size[f.type.name]
    BY <1>5 DEF FieldWidth
  <2>3. info.dynamic = ~nested.fixed /\ (nested.fixed = TRUE => info.size = nested.size)
    BY <1>3, <1>5 DEF ContainerInfo
  <2> HIDE DEF info, nested
  <2>4. CASE IsVariable(tables, f.type.name)
    <3>1. nested.fixed = FALSE
      BY <1>5, <2>1, <2>4
    <3>2. info.dynamic = TRUE
      BY <2>3, <3>1
    <3>3. width = OffsetSize /\ FieldWidth(tables, f, size) = OffsetSize
      BY <2>2, <2>4, <3>2
    <3> QED BY <1>offset, <3>3 DEF info, nested
  <2>5. CASE ~IsVariable(tables, f.type.name)
    <3>1. nested.fixed = TRUE /\ Counts(a, size, f.type.name)
      BY <1>5, <2>1, <2>5
    <3>2. info.dynamic = FALSE /\ info.size = nested.size
      BY <2>3, <3>1
    <3>3. width = a[f.type.name].size /\ FieldWidth(tables, f, size) = size[f.type.name]
      BY <2>1, <2>2, <2>5, <3>2
    <3>4. Measures(width, FieldWidth(tables, f, size))
      BY <3>1, <3>3 DEF Measures, Counts
    <3> QED BY <3>4 DEF info, nested
  <2> QED BY <2>4, <2>5
<1>6. CASE f.type.base = "array"
  <2> DEFINE elem == ResolveElemType(f.type.elem, nested)
             bits == BitsOf(f)
  <2>1. info = ResolveArrayType(f, nested) /\ info.dynamic = FALSE
    BY <1>3, <1>6 DEF ResolveSszFieldInfo
  <2>len. bits \in Nat /\ f.type.len \in Nat
    BY <1>6, BitsOfIs
  <2>width. width = info.size
    <3> HIDE DEF info
    <3> QED BY <2>1
  <2>2. CASE f.attr = "bitvector"
    <3>1. info.size = Uint32(Uint32(bits) + 7) \div 8
      BY <2>1, <2>2 DEF ResolveArrayType, Info, BitsOf
    <3>2. FieldWidth(tables, f, size) = (bits + 7) \div 8
      BY <1>6, <2>2 DEF FieldWidth
    <3>3. bits + 7 < Sizes
      BY <1>6, <2>2
    <3> HIDE DEF bits, info, width, nested
    <3>4. Uint32(bits) = bits /\ Uint32(bits + 7) = bits + 7
      BY <2>len, <3>3, Uint32Is, SizesIs
    <3> DEFINE bytes == (bits + 7) \div 8
    <3>5. bytes \in Nat /\ bytes < Sizes
      BY <2>len, <3>3, SizesIs
    <3>6. Uint32(bytes) = bytes
      <4> HIDE DEF bytes
      <4> QED BY <3>5, Uint32Is
    <3>7. Measures(width, FieldWidth(tables, f, size))
      BY <2>width, <3>1, <3>2, <3>4, <3>5, <3>6 DEF Measures
    <3> QED BY <3>7 DEF width, info, nested
  <2>3. CASE f.attr = "none"
    <3>1. info = OfElem("vector", FALSE, Uint32(f.type.len * elem.size), elem, f.type.len)
      BY <2>1, <2>3 DEF ResolveArrayType
    <3>2. elem.ssz # "unsupported" => info.size = Uint32(f.type.len * elem.size)
      <4> HIDE DEF elem, info
      <4> QED BY <3>1 DEF OfElem
    <3>3. elem.ssz = "unsupported" => info = Unsupported
      BY <3>1 DEF OfElem
    <3>4. CASE f.type.elem.base \in {"bool", "uint"}
      <4>1. elem.ssz # "unsupported" /\ elem.size = f.type.elem.size
        BY <3>4 DEF ResolveElemType, Info
      <4>2. FieldWidth(tables, f, size) = f.type.len * f.type.elem.size
        BY <1>6, <2>3, <3>4 DEF FieldWidth
      <4>3. f.type.elem.size \in Nat
        BY <1>6, <3>4 DEF IsField, Sized
      <4> HIDE DEF elem, info, nested, width
      <4>4. f.type.len * f.type.elem.size \in Nat
        BY <2>len, <4>3
      <4>5. Measures(width, FieldWidth(tables, f, size))
        BY <2>width, <3>2, <4>1, <4>2, <4>4 DEF Measures
      <4> QED BY <4>5 DEF width, info, nested
    <3>5. CASE f.type.elem.base = "struct"
      <4>1. nested = a[f.type.elem.name]
        BY <1>6, <2>3, <3>5 DEF NestedIn, Callee, NeedsMax
      <4>2. elem = ContainerInfo(nested)
        BY <3>5 DEF ResolveElemType
      <4>3. elem.ssz = "container" /\ (nested.fixed = TRUE => elem.size = nested.size)
        BY <4>2 DEF ContainerInfo
      <4>4. FieldWidth(tables, f, size) = f.type.len * size[f.type.elem.name]
        BY <1>6, <2>3, <3>5 DEF FieldWidth
      <4> DEFINE n == f.type.len
                 of == size[f.type.elem.name]
      <4> HIDE DEF elem, info, nested, width
      <4>5. of \in Nat /\ elem.size = Uint32(of)
        BY <1>6, <2>3, <3>5, <4>1, <4>3 DEF Counts
      <4>6. info.size = Uint32(n * elem.size) /\ FieldWidth(tables, f, size) = n * of
        BY <3>2, <4>3, <4>4
      <4>7. n \in Nat
        BY <2>len
      <4> HIDE DEF n, of
      <4>8. n * of \in Nat /\ Uint32(n * Uint32(of)) = Uint32(n * of)
        BY <4>5, <4>7, Uint32Product
      <4>9. Measures(width, FieldWidth(tables, f, size))
        BY <2>width, <4>5, <4>6, <4>8 DEF Measures
      <4> QED BY <4>9 DEF width, info, nested
    <3>6. CASE f.type.elem.base \notin {"bool", "uint", "struct"}
      <4>1. Callee(f) = NoTable
        BY <1>6, <3>6 DEF Callee
      <4>2. f.type.elem.base # "string"
        BY <1>6, <3>6 DEF Scalars
      <4>3. elem = Unsupported
        BY <3>6, <4>2 DEF ResolveElemType
      <4> QED BY <1>1, <1>2, <3>3, <4>1, <4>3
    <3> QED BY <3>4, <3>5, <3>6
  <2> QED BY <1>6, <2>2, <2>3 DEF IsField
<1>7. CASE f.type.base \notin {"string", "vector", "array", "struct"}
  <2>1. Callee(f) = NoTable
    BY <1>7 DEF Callee
  <2>2. ResolveSszFieldInfo(f, nested) # Unsupported
    BY <1>2, <2>1
  <2>3. f.type.base \in {"bool", "uint"} /\ info = Info(f.type.base, FALSE, f.type.size)
    BY <1>7, <2>2 DEF ResolveSszFieldInfo
  <2>4. info.size = f.type.size /\ info.dynamic = FALSE
    BY <2>3 DEF Info
  <2>5. FieldWidth(tables, f, size) = f.type.size
    BY <1>7 DEF FieldWidth
  <2>6. f.type.size \in Nat /\ f.type.size <= 8
    BY <2>3 DEF IsField, Sized
  <2> HIDE DEF info, nested
  <2>7. width = f.type.size
    BY <2>4
  <2>8. Measures(width, FieldWidth(tables, f, size))
    BY <2>5, <2>6, <2>7, SmallMeasures
  <2> QED BY <2>8 DEF info, nested
<1> QED BY <1>4, <1>5, <1>6, <1>7

-----------------------------------------------------------------------------
(* Types of fixed size.                                                    *)

LEMMA AddedFixed ==
  ASSUME NEW c, NEW field, NEW info
  PROVE  /\ AddField(c, field, info).fixed = (c.fixed /\ ~info.dynamic)
         /\ AddField(c, field, info).size
              = Uint32(c.size + (IF info.dynamic THEN OffsetSize ELSE info.size))
BY DEF AddField

\* A container is of fixed size if its fields are.
LEMMA GrowsFixed ==
  ASSUME NEW fields, NEW a, NEW last \in Nat, NEW c, Grows(fields, a, last, c)
  PROVE  c[last].fixed = \A k \in 1..last :
           ~fields[k].deprecated => ~ResolveSszFieldInfo(fields[k], NestedIn(a, fields[k])).dynamic
<1> DEFINE Dyn(k) == ResolveSszFieldInfo(fields[k], NestedIn(a, fields[k])).dynamic
           All(k) == \A i \in 1..k : ~fields[i].deprecated => ~Dyn(i)
           Good(k) == c[k].fixed \in BOOLEAN /\ (c[k].fixed <=> All(k))
           Bad == {k \in 0..last : ~Good(k)}
<1>1. Bad = {}
  <2> SUFFICES ASSUME Bad # {} PROVE FALSE
    OBVIOUS
  <2>1. Bad \subseteq Nat
    OBVIOUS
  <2>2. PICK k \in Bad : \A j \in Bad : k <= j
    BY <2>1, LeastOf
  <2>3. k # 0
    <3>1. c[0].fixed = TRUE
      BY DEF Grows, NoFields
    <3>2. \A i \in 1..0 : FALSE
      OBVIOUS
    <3>3. Good(0)
      BY <3>1, <3>2
    <3> HIDE DEF Good
    <3> QED BY <2>2, <3>3
  <2>4. k \in 1..last /\ k - 1 \in 0..last /\ ~(k <= k - 1) /\ k \in Nat /\ k - 1 \in Nat
    BY <2>2, <2>3
  <2>5. Good(k - 1)
    BY <2>2, <2>4
  <2>6. All(k) <=> All(k - 1) /\ (~fields[k].deprecated => ~Dyn(k))
    <3> HIDE DEF Dyn
    <3>1. \A i \in 1..k : i = k \/ i \in 1..(k - 1)
      BY <2>4
    <3>2. k \in 1..k /\ \A i \in 1..(k - 1) : i \in 1..k
      BY <2>4
    <3> QED BY <3>1, <3>2
  <2>7. CASE fields[k].deprecated
    <3>1. c[k] = c[k - 1]
      BY <2>4, <2>7 DEF Grows
    <3> HIDE DEF Dyn, All
    <3>2. All(k) <=> All(k - 1)
      BY <2>6, <2>7
    <3>3. Good(k)
      BY <2>5, <3>1, <3>2
    <3> HIDE DEF Good
    <3> QED BY <2>2, <3>3
  <2>8. CASE ~fields[k].deprecated
    <3> DEFINE info == ResolveSszFieldInfo(fields[k], NestedIn(a, fields[k]))
               old == c[k - 1]
               f == fields[k]
    <3>1. c[k] = AddField(old, f, info)
      BY <2>4, <2>8 DEF Grows
    <3>2. Dyn(k) = info.dynamic
      OBVIOUS
    <3> HIDE DEF info, old, f, Dyn, All
    <3>3. c[k].fixed = (old.fixed /\ ~info.dynamic)
      BY <3>1, AddedFixed
    <3>4. old.fixed \in BOOLEAN /\ (old.fixed <=> All(k - 1))
      BY <2>5 DEF old
    <3>5. All(k) <=> All(k - 1) /\ ~Dyn(k)
      BY <2>6, <2>8
    <3>6. c[k].fixed \in BOOLEAN /\ (c[k].fixed <=> All(k))
      BY <3>2, <3>3, <3>4, <3>5
    <3>7. Good(k)
      BY <3>6
    <3> HIDE DEF Good
    <3> QED BY <2>2, <3>7
  <2> QED BY <2>7, <2>8
<1>2. last \in 0..last
  OBVIOUS
<1>3. Good(last)
  <2> HIDE DEF Good
  <2> QED BY <1>1, <1>2
<1> QED BY <1>3

\* The fields of a table that is known.
LEMMA KnownFields ==
  ASSUME NEW tables, IsSource(tables), NEW a, NEW rank, NEW n, Analyses(tables, a, rank, n),
         NEW name \in DOMAIN a, NEW k \in 1..Len(Fields(tables, name)),
         ~Fields(tables, name)[k].deprecated
  PROVE  LET f == Fields(tables, name)[k]
         IN  /\ IsField(f)
             /\ Callee(f) = NoTable => /\ NestedIn(a, f) = NoFields
                                       /\ ResolveSszFieldInfo(f, NoFields) # Unsupported
             /\ Callee(f) # NoTable => /\ NestedIn(a, f) = a[Callee(f)]
                                       /\ Callee(f) \in DOMAIN a
                                       /\ rank[Callee(f)] < rank[name]
                                       /\ Callee(f) \in Calls(tables)[name]
<1> DEFINE fs == Fields(tables, name)
<1>1. name \in TableNames(tables) /\ Collected(fs, a, Len(fs) + 1, a[name])
  BY DEF Analyses
<1>2. Len(fs) \in Nat /\ IsField(fs[k])
  BY <1>1, TableOf DEF Fields
<1> HIDE DEF fs
<1>3. Len(fs) + 1 - 1 = Len(fs)
  BY <1>2
<1>4. PICK c : Grows(fs, a, Len(fs), c)
  BY <1>1, <1>3 DEF Collected
<1>5. k \in 1..Len(fs) /\ ~fs[k].deprecated
  BY DEF fs
<1>6. Callee(fs[k]) = NoTable => ResolveSszFieldInfo(fs[k], NoFields) # Unsupported
  BY <1>4, <1>5 DEF Grows
<1>7. Callee(fs[k]) # NoTable => Callee(fs[k]) \in Calls(tables)[name]
  BY <1>1, CallsAre DEF fs
<1>8. Callee(fs[k]) # NoTable => Callee(fs[k]) \in DOMAIN a /\ rank[Callee(fs[k])] < rank[name]
  BY <1>7 DEF Analyses
<1> QED BY <1>2, <1>6, <1>7, <1>8 DEF NestedIn, fs

LEMMA KnownFixed ==
  ASSUME NEW tables, IsSource(tables), NEW a, NEW rank, NEW n, Analyses(tables, a, rank, n),
         NEW name \in DOMAIN a
  PROVE  LET fs == Fields(tables, name)
         IN  a[name].fixed = \A k \in 1..Len(fs) :
               ~fs[k].deprecated => ~ResolveSszFieldInfo(fs[k], NestedIn(a, fs[k])).dynamic
<1> DEFINE fs == Fields(tables, name)
<1>1. name \in TableNames(tables) /\ Collected(fs, a, Len(fs) + 1, a[name])
  BY DEF Analyses
<1>2. Len(fs) \in Nat
  BY <1>1, TableOf DEF Fields
<1> HIDE DEF fs
<1>3. Len(fs) + 1 - 1 = Len(fs)
  BY <1>2
<1>4. PICK c : Grows(fs, a, Len(fs), c) /\ a[name] = c[Len(fs)]
  BY <1>1, <1>3 DEF Collected
<1>5. a[name].fixed = \A k \in 1..Len(fs) :
        ~fs[k].deprecated => ~ResolveSszFieldInfo(fs[k], NestedIn(a, fs[k])).dynamic
  <2> DEFINE last == Len(fs)
  <2>1. last \in Nat /\ Grows(fs, a, last, c)
    BY <1>2, <1>4
  <2> HIDE DEF last
  <2>2. c[last].fixed = \A k \in 1..last :
          ~fs[k].deprecated => ~ResolveSszFieldInfo(fs[k], NestedIn(a, fs[k])).dynamic
    BY <2>1, GrowsFixed
  <2> QED BY <1>4, <2>2 DEF last
<1> QED BY <1>5 DEF fs

\* Structs are of fixed size.
LEMMA KnownStruct ==
  ASSUME NEW tables, IsSource(tables), NEW a, NEW rank, NEW n, Analyses(tables, a, rank, n),
         NEW name \in DOMAIN a, Named(tables, name).struct
  PROVE  a[name].fixed = TRUE
<1> DEFINE Bad == {m \in DOMAIN a : Named(tables, m).struct /\ a[m].fixed # TRUE}
           Ranks == {rank[m] : m \in Bad}
<1> SUFFICES ASSUME Bad # {} PROVE FALSE
  OBVIOUS
<1>1. Ranks \subseteq Nat /\ Ranks # {}
  BY DEF Analyses
<1>2. PICK r \in Ranks : \A i \in Ranks : r <= i
  BY <1>1, LeastOf
<1>3. PICK m \in Bad : rank[m] = r
  BY <1>2
<1>4. ASSUME NEW i \in DOMAIN a, Named(tables, i).struct, rank[i] < rank[m]
      PROVE  a[i].fixed = TRUE
  <2>1. rank[i] \in Nat /\ rank[m] \in Nat
    BY <1>3 DEF Analyses
  <2>2. i \notin Bad
    <3>1. i \in Bad => rank[m] <= rank[i]
      BY <1>2, <1>3
    <3> HIDE DEF Bad
    <3> QED BY <1>4, <2>1, <3>1
  <2> QED BY <1>4, <2>2
<1> DEFINE fs == Fields(tables, m)
<1>5. ASSUME NEW k \in 1..Len(fs), ~fs[k].deprecated
      PROVE  ResolveSszFieldInfo(fs[k], NestedIn(a, fs[k])).dynamic = FALSE
  <2> DEFINE f == fs[k]
             nested == NestedIn(a, f)
  <2>1. /\ IsField(f)
        /\ Callee(f) = NoTable => nested = NoFields /\ ResolveSszFieldInfo(f, NoFields) # Unsupported
        /\ Callee(f) # NoTable => /\ nested = a[Callee(f)]
                                  /\ Callee(f) \in DOMAIN a /\ rank[Callee(f)] < rank[m]
    BY <1>5, KnownFields
  <2>2. /\ m \in TableNames(tables) /\ Named(tables, m).struct
        /\ FitsStruct(tables, Named(tables, m), f.type)
    <3>1. m \in TableNames(tables) /\ Named(tables, m).struct
      BY <1>3 DEF Analyses
    <3> QED BY <3>1, TableOf DEF Fields
  <2> HIDE DEF f, nested
  <2>3. \/ f.type.base \in Scalars \union {"array"}
        \/ f.type.base = "struct" /\ Named(tables, f.type.name).struct
    BY <2>2, StructIs
  <2>4. /\ f.type.base = "struct" => ResolveSszFieldInfo(f, nested) = ContainerInfo(nested)
        /\ f.type.base \notin {"string", "vector", "struct"} =>
             ResolveSszFieldInfo(f, nested).dynamic = FALSE
    BY <2>1, FieldDynamic
  <2>5. CASE f.type.base \in Scalars \union {"array"}
    BY <2>4, <2>5 DEF Scalars, f, nested
  <2>6. CASE f.type.base = "struct" /\ Named(tables, f.type.name).struct
    <3>1. Callee(f) = f.type.name /\ Callee(f) # NoTable
      BY <2>1, <2>6 DEF Callee, IsField
    <3>2. nested.fixed = TRUE
      BY <1>4, <2>1, <2>6, <3>1
    <3>3. ContainerInfo(nested).dynamic = ~nested.fixed
      BY DEF ContainerInfo
    <3>4. ResolveSszFieldInfo(f, nested).dynamic = FALSE
      BY <2>4, <2>6, <3>2, <3>3
    <3> QED BY <3>4 DEF f, nested
  <2> QED BY <2>3, <2>5, <2>6
<1>6. a[m].fixed = \A k \in 1..Len(fs) :
        ~fs[k].deprecated => ~ResolveSszFieldInfo(fs[k], NestedIn(a, fs[k])).dynamic
  <2>1. m \in DOMAIN a
    BY <1>3
  <2> HIDE DEF Bad
  <2> QED BY <2>1, KnownFixed
<1> HIDE DEF fs
<1>7. a[m].fixed = TRUE
  BY <1>5, <1>6
<1> QED BY <1>3, <1>7

-----------------------------------------------------------------------------
(* Variable types.                                                         *)

LEMMA StoredIs ==
  ASSUME NEW tables, IsSource(tables), NEW name \in TableNames(tables)
  PROVE  LET S == Stored(tables, name)
         IN  /\ S \subseteq TableNames(tables)
             /\ name \in S
             /\ \A m \in S : Inline(tables)[m] \subseteq S
             /\ \A X : name \in X /\ (\A m \in X : Inline(tables)[m] \subseteq X) => S \subseteq X
<1>1. IsSeq(tables)
  BY DEF IsSource, IsSeq
<1>2. /\ Inline(tables) \in [TableNames(tables) -> SUBSET TableNames(tables)]
      /\ {name} \in SUBSET TableNames(tables)
  BY CallsAre
<1>3. LET S == Stored(tables, name)
      IN  /\ S \subseteq TableNames(tables)
          /\ {name} \subseteq S
          /\ \A m \in S : Inline(tables)[m] \subseteq S
          /\ \A X : {name} \subseteq X /\ (\A m \in X : Inline(tables)[m] \subseteq X) => S \subseteq X
  BY <1>1, <1>2, ClosureIs DEF Stored
<1> QED BY <1>3

HasList(fields) ==
  \E k \in 1..Len(fields) : ~fields[k].deprecated /\ fields[k].type.base \in {"string", "vector"}

\* A type is variable if it has a list or a type in it is.
LEMMA VariableIs ==
  ASSUME NEW tables, IsSource(tables), NEW name \in TableNames(tables)
  PROVE  IsVariable(tables, name) <=>
           \/ HasList(Fields(tables, name))
           \/ \E m \in Inline(tables)[name] : IsVariable(tables, m)
<1>1. \A m : IsVariable(tables, m) <=> \E i \in Stored(tables, m) : HasList(Fields(tables, i))
  BY DEF IsVariable, HasList, Fields, LiveFields
<1>2. /\ name \in Stored(tables, name)
      /\ \A m \in Stored(tables, name) : Inline(tables)[m] \subseteq Stored(tables, name)
  BY StoredIs
<1>3. Inline(tables)[name] \subseteq TableNames(tables)
  BY CallsAre
<1>4. ASSUME NEW m \in Inline(tables)[name]
      PROVE  Stored(tables, m) \subseteq Stored(tables, name)
  <2>1. m \in Stored(tables, name) /\ m \in TableNames(tables)
    BY <1>2, <1>3
  <2> QED BY <1>2, <2>1, StoredIs
<1>5. Stored(tables, name) \subseteq {name} \union UNION {Stored(tables, m) : m \in Inline(tables)[name]}
  <2> DEFINE X == {name} \union UNION {Stored(tables, m) : m \in Inline(tables)[name]}
  <2>1. \A m \in Inline(tables)[name] :
          /\ m \in Stored(tables, m)
          /\ \A i \in Stored(tables, m) : Inline(tables)[i] \subseteq Stored(tables, m)
    BY <1>3, StoredIs
  <2>2. \A i \in X : Inline(tables)[i] \subseteq X
    BY <2>1
  <2>3. name \in X
    OBVIOUS
  <2> HIDE DEF X
  <2>4. Stored(tables, name) \subseteq X
    BY <2>2, <2>3, StoredIs
  <2> QED BY <2>4 DEF X
<1>6. ASSUME IsVariable(tables, name)
      PROVE  \/ HasList(Fields(tables, name))
             \/ \E m \in Inline(tables)[name] : IsVariable(tables, m)
  <2>1. PICK i \in Stored(tables, name) : HasList(Fields(tables, i))
    BY <1>1, <1>6
  <2>2. CASE i = name
    BY <2>1, <2>2
  <2>3. CASE i # name
    <3>1. PICK m \in Inline(tables)[name] : i \in Stored(tables, m)
      BY <1>5, <2>1, <2>3
    <3>2. IsVariable(tables, m)
      BY <1>1, <2>1, <3>1
    <3> QED BY <3>1, <3>2
  <2> QED BY <2>2, <2>3
<1>7. ASSUME HasList(Fields(tables, name)) PROVE IsVariable(tables, name)
  BY <1>1, <1>2, <1>7
<1>8. ASSUME NEW m \in Inline(tables)[name], IsVariable(tables, m)
      PROVE  IsVariable(tables, name)
  <2>1. PICK i \in Stored(tables, m) : HasList(Fields(tables, i))
    BY <1>1, <1>8
  <2>2. i \in Stored(tables, name)
    BY <1>4, <2>1
  <2> QED BY <1>1, <2>1, <2>2
<1> QED BY <1>6, <1>7, <1>8

\* The analysis finds those that are.
LEMMA KnownVariable ==
  ASSUME NEW tables, IsSource(tables), NEW a, NEW rank, NEW n, Analyses(tables, a, rank, n),
         NEW name \in DOMAIN a
  PROVE  a[name].fixed = ~IsVariable(tables, name)
<1> DEFINE Good(m) == a[m].fixed = ~IsVariable(tables, m)
           Bad == {m \in DOMAIN a : ~Good(m)}
           Ranks == {rank[m] : m \in Bad}
<1> SUFFICES ASSUME Bad # {} PROVE FALSE
  OBVIOUS
<1>1. Ranks \subseteq Nat /\ Ranks # {}
  BY DEF Analyses
<1>2. PICK r \in Ranks : \A i \in Ranks : r <= i
  BY <1>1, LeastOf
<1>3. PICK m \in Bad : rank[m] = r
  BY <1>2
<1>4. m \in DOMAIN a /\ ~Good(m) /\ m \in TableNames(tables)
  BY <1>3 DEF Analyses
<1>5. ASSUME NEW i \in DOMAIN a, rank[i] < rank[m] PROVE Good(i)
  <2>1. rank[i] \in Nat /\ rank[m] \in Nat
    BY <1>4 DEF Analyses
  <2>2. i \in Bad => rank[m] <= rank[i]
    BY <1>2, <1>3
  <2>3. i \notin Bad
    <3> HIDE DEF Bad
    <3> QED BY <1>5, <2>1, <2>2
  <2> QED BY <2>3
<1> HIDE DEF Bad, Ranks
<1> DEFINE fs == Fields(tables, m)
           Dyn(k) == ResolveSszFieldInfo(fs[k], NestedIn(a, fs[k])).dynamic
<1>6. a[m].fixed = \A k \in 1..Len(fs) : ~fs[k].deprecated => ~Dyn(k)
  BY <1>4, KnownFixed
<1>7. /\ \A i : i \in Inline(tables)[m] <=>
           /\ i # NoTable
           /\ \E k \in 1..Len(fs) : /\ ~fs[k].deprecated /\ Callee(fs[k]) = i
                                    /\ fs[k].type.base # "vector"
      /\ IsVariable(tables, m) <=>
           HasList(fs) \/ \E i \in Inline(tables)[m] : IsVariable(tables, i)
  BY <1>4, CallsAre, VariableIs
<1>8. ASSUME NEW k \in 1..Len(fs), ~fs[k].deprecated
      PROVE  Dyn(k) <=> \/ fs[k].type.base \in {"string", "vector"}
                        \/ /\ fs[k].type.base # "vector" /\ Callee(fs[k]) # NoTable
                           /\ IsVariable(tables, Callee(fs[k]))
  <2> DEFINE f == fs[k]
             nested == NestedIn(a, f)
  <2>1. /\ IsField(f)
        /\ Callee(f) = NoTable => nested = NoFields /\ ResolveSszFieldInfo(f, NoFields) # Unsupported
        /\ Callee(f) # NoTable => /\ nested = a[Callee(f)]
                                  /\ Callee(f) \in DOMAIN a /\ rank[Callee(f)] < rank[m]
    BY <1>4, <1>8, KnownFields
  <2>2. Dyn(k) = ResolveSszFieldInfo(f, nested).dynamic
    OBVIOUS
  <2>3. LET t == Named(tables, m)
        IN  IF t.struct THEN FitsStruct(tables, t, f.type) ELSE FitsTable(f.type)
    BY <1>4, <1>8, TableOf DEF Fields
  <2>k. fs[k] = f
    OBVIOUS
  <2> HIDE DEF f, nested, Dyn, fs
  <2>4. /\ f.type.base \in {"string", "vector"} => ResolveSszFieldInfo(f, nested).dynamic = TRUE
        /\ f.type.base = "struct" => ResolveSszFieldInfo(f, nested) = ContainerInfo(nested)
        /\ f.type.base \notin {"string", "vector", "struct"} =>
             ResolveSszFieldInfo(f, nested).dynamic = FALSE
    BY <2>1, FieldDynamic
  <2>5. CASE f.type.base \in {"string", "vector"}
    BY <2>2, <2>4, <2>5, <2>k
  <2>6. CASE f.type.base = "struct"
    <3>1. Callee(f) = f.type.name /\ Callee(f) # NoTable
      BY <2>1, <2>6 DEF Callee, IsField
    <3>2. nested.fixed = ~IsVariable(tables, Callee(f))
      BY <1>5, <2>1, <3>1
    <3>3. ContainerInfo(nested).dynamic = ~nested.fixed
      BY DEF ContainerInfo
    <3>4. Dyn(k) = ~nested.fixed
      BY <2>2, <2>4, <2>6, <3>3
    <3>5. CASE IsVariable(tables, Callee(f))
      <4>1. nested.fixed = FALSE
        BY <3>2, <3>5
      <4>2. Dyn(k) = TRUE
        BY <3>4, <4>1
      <4> QED BY <2>6, <2>k, <3>1, <3>5, <4>2
    <3>6. CASE ~IsVariable(tables, Callee(f))
      <4>1. nested.fixed = TRUE
        BY <3>2, <3>6
      <4>2. Dyn(k) = FALSE
        BY <3>4, <4>1
      <4> QED BY <2>6, <2>k, <3>1, <3>6, <4>2
    <3> QED BY <3>5, <3>6
  <2>7. CASE f.type.base = "array"
    <3>1. Dyn(k) = FALSE
      BY <2>2, <2>4, <2>7
    <3>2. ASSUME Callee(f) # NoTable PROVE ~IsVariable(tables, Callee(f))
      <4>1. f.type.elem.base = "struct" /\ Callee(f) = f.type.elem.name
        BY <2>7, <3>2 DEF Callee
      <4>2. Named(tables, Callee(f)).struct
        BY <1>4, <2>3, <2>7, <4>1, StructIs DEF Scalars
      <4>3. a[Callee(f)].fixed = TRUE
        BY <2>1, <3>2, <4>2, KnownStruct
      <4>4. a[Callee(f)].fixed = ~IsVariable(tables, Callee(f))
        BY <1>5, <2>1, <3>2
      <4> QED BY <4>3, <4>4
    <3> QED BY <2>7, <2>k, <3>1, <3>2
  <2>8. CASE f.type.base \notin {"string", "vector", "array", "struct"}
    <3>1. Callee(f) = NoTable
      BY <2>8 DEF Callee
    <3> QED BY <2>2, <2>4, <2>8, <2>k, <3>1
  <2> QED BY <2>5, <2>6, <2>7, <2>8
<1> HIDE DEF fs, Dyn
<1>9. (\E k \in 1..Len(fs) : ~fs[k].deprecated /\ Dyn(k)) <=> IsVariable(tables, m)
  <2>1. ASSUME NEW k \in 1..Len(fs), ~fs[k].deprecated, Dyn(k)
        PROVE  IsVariable(tables, m)
    <3>1. CASE fs[k].type.base \in {"string", "vector"}
      BY <1>7, <2>1, <3>1 DEF HasList
    <3>2. CASE /\ fs[k].type.base # "vector" /\ Callee(fs[k]) # NoTable
               /\ IsVariable(tables, Callee(fs[k]))
      BY <1>7, <2>1, <3>2
    <3> QED BY <1>8, <2>1, <3>1, <3>2
  <2>2. ASSUME HasList(fs) PROVE \E k \in 1..Len(fs) : ~fs[k].deprecated /\ Dyn(k)
    BY <1>8, <2>2 DEF HasList
  <2>3. ASSUME NEW i \in Inline(tables)[m], IsVariable(tables, i)
        PROVE  \E k \in 1..Len(fs) : ~fs[k].deprecated /\ Dyn(k)
    <3>1. PICK k \in 1..Len(fs) : /\ ~fs[k].deprecated /\ Callee(fs[k]) = i
                                  /\ fs[k].type.base # "vector" /\ i # NoTable
      BY <1>7, <2>3
    <3> QED BY <1>8, <2>3, <3>1
  <2> QED BY <1>7, <2>1, <2>2, <2>3
<1>10. Good(m)
  <2>1. a[m].fixed = ~\E k \in 1..Len(fs) : ~fs[k].deprecated /\ Dyn(k)
    BY <1>6
  <2> QED BY <1>9, <2>1
<1> QED BY <1>4, <1>10

-----------------------------------------------------------------------------
(* The size of the static section.                                         *)

\* The sums of the widths of the first fields, in the places where they are.
Sums(tables, fields, size, W) ==
  /\ W[0] = 0
  /\ \A k \in 1..Len(fields) :
       W[k] = IF fields[k].deprecated THEN W[k - 1]
              ELSE W[k - 1] + FieldWidth(tables, fields[k], size)

LEMMA SectionSum ==
  ASSUME NEW tables, NEW fields, Len(fields) \in Nat, NEW size, NEW W, Sums(tables, fields, size, W)
  PROVE  SectionSize(tables, fields, size) = W[Len(fields)]
<1> DEFINE N == Len(fields)
           Width(k) == FieldWidth(tables, fields[k], size)
           Is(U) == U = [k \in 0..N |-> IF k = 0 THEN 0
                                        ELSE IF fields[k].deprecated THEN U[k - 1]
                                        ELSE U[k - 1] + Width(k)]
           Upto == CHOOSE U : Is(U)
<1>1. N \in Nat
  OBVIOUS
<1>2. SectionSize(tables, fields, size) = Upto[N]
  BY DEF SectionSize
<1>3. /\ W[0] = 0
      /\ \A k \in 1..N : W[k] = IF fields[k].deprecated THEN W[k - 1] ELSE W[k - 1] + Width(k)
  BY DEF Sums
<1> HIDE DEF N, Width
<1>4. \E U : Is(U)
  <2> DEFINE U == [k \in 0..N |-> W[k]]
  <2>1. ASSUME NEW k \in 0..N
        PROVE  U[k] = IF k = 0 THEN 0
                      ELSE IF fields[k].deprecated THEN U[k - 1] ELSE U[k - 1] + Width(k)
    <3>1. CASE k = 0
      BY <1>1, <1>3, <3>1
    <3>2. CASE k # 0
      <4>1. k \in 1..N /\ k - 1 \in 0..N
        BY <1>1, <3>2
      <4>2. U[k - 1] = W[k - 1] /\ U[k] = W[k]
        BY <4>1
      <4> HIDE DEF U
      <4> QED BY <1>3, <3>2, <4>1, <4>2
    <3> QED BY <3>1, <3>2
  <2>2. U = [k \in 0..N |-> U[k]]
    OBVIOUS
  <2> HIDE DEF U
  <2>3. Is(U)
    BY <2>1, <2>2
  <2> QED BY <2>3
<1>5. Is(Upto)
  BY <1>4
<1> HIDE DEF Upto
<1>6. /\ Upto[0] = 0
      /\ \A k \in 1..N : Upto[k] = IF fields[k].deprecated THEN Upto[k - 1]
                                   ELSE Upto[k - 1] + Width(k)
  <2>1. Upto[0] = 0
    BY <1>1, <1>5
  <2>2. ASSUME NEW k \in 1..N
        PROVE  Upto[k] = IF fields[k].deprecated THEN Upto[k - 1] ELSE Upto[k - 1] + Width(k)
    <3>1. k \in 0..N /\ k # 0
      BY <1>1
    <3> QED BY <1>5, <3>1
  <2> QED BY <2>1, <2>2
<1> HIDE DEF Is
<1>7. \A k \in 0..N : Upto[k] = W[k]
  <2> DEFINE Bad == {k \in 0..N : Upto[k] # W[k]}
  <2> SUFFICES ASSUME Bad # {} PROVE FALSE
    OBVIOUS
  <2>1. Bad \subseteq Nat
    BY <1>1
  <2>2. PICK k \in Bad : \A j \in Bad : k <= j
    BY <2>1, LeastOf
  <2>3. k # 0
    BY <1>3, <1>6, <2>2
  <2>4. k \in 1..N /\ k - 1 \in 0..N /\ ~(k <= k - 1)
    BY <1>1, <2>2, <2>3
  <2>5. Upto[k - 1] = W[k - 1]
    BY <2>2, <2>4
  <2>6. Upto[k] = W[k]
    BY <1>3, <1>6, <2>4, <2>5
  <2> QED BY <2>2, <2>6
<1> QED BY <1>1, <1>2, <1>7 DEF N

\* There are such sums.
LEMMA SumsExist ==
  ASSUME NEW tables, NEW fields, Len(fields) \in Nat, NEW size,
         \A k \in 1..Len(fields) : ~fields[k].deprecated => FieldWidth(tables, fields[k], size) \in Nat
  PROVE  \E W : Sums(tables, fields, size, W) /\ \A k \in 0..Len(fields) : W[k] \in Nat
<1> DEFINE N == Len(fields)
           Width(k) == FieldWidth(tables, fields[k], size)
           Upto(W, n) == /\ W[0] = 0
                         /\ \A k \in 1..n : W[k] = IF fields[k].deprecated THEN W[k - 1]
                                                   ELSE W[k - 1] + Width(k)
                         /\ \A k \in 0..n : W[k] \in Nat
           Bad == {n \in 0..N : ~\E W : Upto(W, n)}
<1>1. N \in Nat /\ \A k \in 1..N : ~fields[k].deprecated => Width(k) \in Nat
  OBVIOUS
<1> HIDE DEF N, Width
<1>2. Bad = {}
  <2> SUFFICES ASSUME Bad # {} PROVE FALSE
    OBVIOUS
  <2>1. Bad \subseteq Nat
    BY <1>1
  <2>2. PICK n \in Bad : \A j \in Bad : n <= j
    BY <2>1, LeastOf
  <2>3. CASE n = 0
    <3>1. Upto([k \in {0} |-> 0], 0)
      OBVIOUS
    <3> QED BY <2>2, <2>3, <3>1
  <2>4. CASE n # 0
    <3>1. n \in 1..N /\ n - 1 \in 0..N /\ ~(n <= n - 1)
      BY <1>1, <2>2, <2>4
    <3>2. PICK V : Upto(V, n - 1)
      BY <2>2, <3>1
    <3> DEFINE last == IF fields[n].deprecated THEN V[n - 1] ELSE V[n - 1] + Width(n)
               W == [k \in 0..n |-> IF k = n THEN last ELSE V[k]]
    <3>3. V[n - 1] \in Nat
      BY <3>1, <3>2
    <3>4. last \in Nat
      BY <1>1, <3>1, <3>3
    <3> HIDE DEF last
    <3>5. W[n] = last /\ \A k \in 0..(n - 1) : W[k] = V[k]
      BY <3>1
    <3> HIDE DEF W
    <3>6. W[0] = 0
      BY <3>1, <3>2, <3>5
    <3>7. ASSUME NEW k \in 1..n
          PROVE  W[k] = IF fields[k].deprecated THEN W[k - 1] ELSE W[k - 1] + Width(k)
      <4>1. CASE k = n
        <5>1. W[n - 1] = V[n - 1]
          BY <3>1, <3>5
        <5> QED BY <3>5, <4>1, <5>1 DEF last
      <4>2. CASE k # n
        <5>1. k \in 1..(n - 1) /\ k \in 0..(n - 1) /\ k - 1 \in 0..(n - 1)
          BY <3>1, <4>2
        <5>2. W[k] = V[k] /\ W[k - 1] = V[k - 1]
          BY <3>5, <5>1
        <5>3. V[k] = IF fields[k].deprecated THEN V[k - 1] ELSE V[k - 1] + Width(k)
          BY <3>2, <5>1
        <5> QED BY <5>2, <5>3
      <4> QED BY <4>1, <4>2
    <3>8. ASSUME NEW k \in 0..n PROVE W[k] \in Nat
      <4>1. CASE k = n
        BY <3>4, <3>5, <4>1
      <4>2. CASE k # n
        <5>1. k \in 0..(n - 1)
          BY <3>1, <4>2
        <5> QED BY <3>2, <3>5, <5>1
      <4> QED BY <4>1, <4>2
    <3>9. Upto(W, n)
      BY <3>6, <3>7, <3>8
    <3> QED BY <2>2, <3>9
  <2> QED BY <2>3, <2>4
<1>3. N \in 0..N
  BY <1>1
<1>4. PICK W : Upto(W, N)
  BY <1>2, <1>3
<1> QED BY <1>4 DEF N, Width, Sums

\* A container collects the sum of its fields' widths, in 32 bits.
LEMMA GrowsSize ==
  ASSUME NEW tables, NEW fields, Len(fields) \in Nat, NEW a, NEW c,
         Grows(fields, a, Len(fields), c), NEW size,
         \A k \in 1..Len(fields) : ~fields[k].deprecated =>
           LET info == ResolveSszFieldInfo(fields[k], NestedIn(a, fields[k]))
           IN  Measures(IF info.dynamic THEN OffsetSize ELSE info.size,
                        FieldWidth(tables, fields[k], size))
  PROVE  Measures(c[Len(fields)].size, SectionSize(tables, fields, size))
<1> DEFINE N == Len(fields)
<1>1. N \in Nat
  OBVIOUS
<1>2. PICK W : Sums(tables, fields, size, W) /\ \A k \in 0..N : W[k] \in Nat
  <2>1. \A k \in 1..N : ~fields[k].deprecated => FieldWidth(tables, fields[k], size) \in Nat
    BY DEF Measures
  <2> QED BY <2>1, SumsExist
<1>3. SectionSize(tables, fields, size) = W[N]
  BY <1>2, SectionSum
<1> DEFINE Bad == {k \in 0..N : c[k].size # Uint32(W[k])}
<1>4. c[0].size = Uint32(W[0])
  <2>1. c[0].size = 0 /\ W[0] = 0
    BY <1>2 DEF Grows, NoFields, Sums
  <2>2. Uint32(0) = 0
    BY SizesIs, Uint32Is
  <2> QED BY <2>1, <2>2
<1>5. ASSUME NEW k \in 1..N, c[k - 1].size = Uint32(W[k - 1])
      PROVE  c[k].size = Uint32(W[k])
  <2> DEFINE f == fields[k]
             info == ResolveSszFieldInfo(f, NestedIn(a, f))
             width == FieldWidth(tables, f, size)
             old == c[k - 1]
             new == IF info.dynamic THEN OffsetSize ELSE info.size
  <2>1. IF f.deprecated THEN c[k] = old ELSE c[k] = AddField(old, f, info)
    BY DEF Grows
  <2>2. ~f.deprecated => Measures(new, width)
    OBVIOUS
  <2>3. W[k] = IF f.deprecated THEN W[k - 1] ELSE W[k - 1] + width
    BY <1>2 DEF Sums
  <2>4. W[k - 1] \in Nat
    BY <1>1, <1>2
  <2> HIDE DEF info, old, width
  <2>5. CASE f.deprecated
    BY <1>5, <2>1, <2>3, <2>5 DEF old
  <2>6. CASE ~f.deprecated
    <3>1. c[k].size = Uint32(old.size + new)
      <4> DEFINE g == f
      <4> HIDE DEF g
      <4>1. c[k] = AddField(old, g, info)
        BY <2>1, <2>6 DEF g
      <4> QED BY <4>1, AddedFixed
    <3>2. width \in Nat /\ new = Uint32(width)
      BY <2>2, <2>6 DEF Measures
    <3>3. W[k] = W[k - 1] + width
      BY <2>3, <2>6
    <3>4. old.size = Uint32(W[k - 1])
      BY <1>5 DEF old
    <3> HIDE DEF new
    <3>5. Uint32(Uint32(W[k - 1]) + Uint32(width)) = Uint32(W[k - 1] + width)
      BY <2>4, <3>2, Uint32Sum
    <3> QED BY <3>1, <3>2, <3>3, <3>4, <3>5
  <2> QED BY <2>5, <2>6
<1> HIDE DEF N
<1>6. Bad = {}
  <2> SUFFICES ASSUME Bad # {} PROVE FALSE
    OBVIOUS
  <2>0. Bad \in SUBSET Nat
    BY <1>1
  <2>1. PICK k \in Bad : \A j \in Bad : k <= j
    <3> HIDE DEF Bad
    <3> QED BY <2>0, LeastOf
  <2>2. k # 0
    BY <1>4, <2>1
  <2>3. k \in 1..N /\ k - 1 \in 0..N /\ ~(k <= k - 1)
    BY <1>1, <2>1, <2>2
  <2>4. c[k - 1].size = Uint32(W[k - 1])
    BY <2>1, <2>3
  <2> QED BY <1>5, <2>1, <2>3, <2>4
<1>7. N \in 0..N
  BY <1>1
<1>8. c[N].size = Uint32(W[N]) /\ W[N] \in Nat
  BY <1>2, <1>6, <1>7
<1> QED BY <1>3, <1>8 DEF N, Measures

\* A table stored inline in a live field is one of those inline in its table.
LEMMA InlineIs ==
  ASSUME NEW tables, IsSource(tables), NEW name \in TableNames(tables),
         NEW k \in 1..Len(Fields(tables, name)), ~Fields(tables, name)[k].deprecated
  PROVE  LET f == Fields(tables, name)[k]
         IN  /\ f.type.base = "struct" => f.type.name \in Inline(tables)[name]
             /\ f.type.base = "array" => f.type.elem.base \in Scalars \union {"struct"}
             /\ f.type.base = "array" /\ f.attr = "none" /\ f.type.elem.base = "struct" =>
                  /\ f.type.elem.name \in TableNames(tables)
                  /\ Named(tables, f.type.elem.name).struct
                  /\ f.type.elem.name # NoTable
                  /\ f.type.elem.name \in Inline(tables)[name]
<1> DEFINE f == Fields(tables, name)[k]
<1>1. IsField(f)
  BY TableOf DEF Fields
<1>2. LET t == Named(tables, name)
      IN  IF t.struct THEN FitsStruct(tables, t, f.type) ELSE FitsTable(f.type)
  BY TableOf DEF Fields
<1>3. Callee(f) # NoTable /\ f.type.base # "vector" => Callee(f) \in Inline(tables)[name]
  BY CallsAre
<1> HIDE DEF f
<1>4. f.type.base = "struct" => f.type.name \in Inline(tables)[name]
  BY <1>1, <1>3 DEF Callee, IsField
<1>5. ASSUME f.type.base = "array"
      PROVE  \/ f.type.elem.base \in Scalars
             \/ /\ f.type.elem.base = "struct"
                /\ f.type.elem.name \in TableNames(tables)
                /\ Named(tables, f.type.elem.name).struct
  BY <1>2, <1>5, StructIs
<1>6. ASSUME f.type.base = "array", f.attr = "none", f.type.elem.base = "struct"
      PROVE  /\ f.type.elem.name \in TableNames(tables)
             /\ Named(tables, f.type.elem.name).struct
             /\ f.type.elem.name # NoTable
             /\ f.type.elem.name \in Inline(tables)[name]
  <2>1. f.type.elem.name \in TableNames(tables) /\ Named(tables, f.type.elem.name).struct
    BY <1>5, <1>6 DEF Scalars
  <2>2. f.type.elem.name # NoTable
    BY <2>1, TableOf
  <2>3. Callee(f) = f.type.elem.name
    BY <1>6 DEF Callee, NeedsMax
  <2> QED BY <1>3, <1>6, <2>1, <2>2, <2>3
<1>7. f.type.base = "array" => f.type.elem.base \in Scalars \union {"struct"}
  BY <1>5
<1> QED BY <1>4, <1>6, <1>7 DEF f

\* The bit vectors of a table are narrow enough.
FieldsFit(fields) ==
  \A k \in 1..Len(fields) :
    ~fields[k].deprecated /\ fields[k].type.base = "array" /\ fields[k].attr = "bitvector"
      => BitsOf(fields[k]) + 7 < Sizes

\* Each field of a table that is known has the width that SSZ gives it, if the
\* tables inline in it have their sizes.
LEMMA KnownWidth ==
  ASSUME NEW tables, IsSource(tables), NEW a, NEW rank, NEW n, Analyses(tables, a, rank, n),
         NEW name \in DOMAIN a, NEW size, \A i \in Inline(tables)[name] : Counts(a, size, i),
         FieldsFit(Fields(tables, name)),
         NEW k \in 1..Len(Fields(tables, name)), ~Fields(tables, name)[k].deprecated
  PROVE  LET f == Fields(tables, name)[k]
             info == ResolveSszFieldInfo(f, NestedIn(a, f))
         IN  Measures(IF info.dynamic THEN OffsetSize ELSE info.size, FieldWidth(tables, f, size))
<1> DEFINE f == Fields(tables, name)[k]
<1>1. name \in TableNames(tables)
  BY DEF Analyses
<1>2. /\ IsField(f) /\ ~f.deprecated
      /\ Callee(f) = NoTable => ResolveSszFieldInfo(f, NoFields) # Unsupported
      /\ Callee(f) # NoTable => Callee(f) \in DOMAIN a
  BY KnownFields
<1>3. /\ f.type.base = "struct" => f.type.name \in Inline(tables)[name]
      /\ f.type.base = "array" => f.type.elem.base \in Scalars \union {"struct"}
      /\ f.type.base = "array" /\ f.attr = "none" /\ f.type.elem.base = "struct" =>
           /\ f.type.elem.name \in TableNames(tables)
           /\ Named(tables, f.type.elem.name).struct
           /\ f.type.elem.name # NoTable
           /\ f.type.elem.name \in Inline(tables)[name]
  BY <1>1, InlineIs
<1>4. f.type.base = "array" /\ f.attr = "bitvector" => BitsOf(f) + 7 < Sizes
  BY DEF FieldsFit
<1> HIDE DEF f
<1>5. ASSUME f.type.base = "struct"
      PROVE  IF IsVariable(tables, f.type.name) THEN a[f.type.name].fixed = FALSE
             ELSE a[f.type.name].fixed = TRUE /\ Counts(a, size, f.type.name)
  <2>1. Callee(f) = f.type.name /\ Callee(f) # NoTable
    BY <1>2, <1>5 DEF Callee, IsField
  <2>2. f.type.name \in DOMAIN a /\ Counts(a, size, f.type.name)
    BY <1>2, <1>3, <1>5, <2>1
  <2>3. a[f.type.name].fixed = ~IsVariable(tables, f.type.name)
    BY <2>2, KnownVariable
  <2>4. CASE IsVariable(tables, f.type.name)
    BY <2>3, <2>4
  <2>5. CASE ~IsVariable(tables, f.type.name)
    BY <2>2, <2>3, <2>5
  <2> QED BY <2>4, <2>5
<1>6. ASSUME f.type.base = "array", f.attr = "none", f.type.elem.base = "struct"
      PROVE  /\ f.type.elem.name # NoTable
             /\ ~IsVariable(tables, f.type.elem.name)
             /\ a[f.type.elem.name].fixed = TRUE
             /\ Counts(a, size, f.type.elem.name)
  <2>1. Callee(f) = f.type.elem.name
    BY <1>6 DEF Callee, NeedsMax
  <2>2. f.type.elem.name \in DOMAIN a /\ Counts(a, size, f.type.elem.name)
    BY <1>2, <1>3, <1>6, <2>1
  <2>3. a[f.type.elem.name].fixed = TRUE
    BY <1>3, <1>6, <2>2, KnownStruct
  <2>4. a[f.type.elem.name].fixed = ~IsVariable(tables, f.type.elem.name)
    BY <2>2, KnownVariable
  <2> QED BY <1>3, <1>6, <2>2, <2>3, <2>4
<1>7. WidthsKnown(tables, f, a, size)
  BY <1>2, <1>3, <1>4, <1>5, <1>6 DEF WidthsKnown
<1>8. LET info == ResolveSszFieldInfo(f, NestedIn(a, f))
      IN  Measures(IF info.dynamic THEN OffsetSize ELSE info.size, FieldWidth(tables, f, size))
  BY <1>2, <1>7, FieldBytes
<1> QED BY <1>8 DEF f

LEMMA KnownSection ==
  ASSUME NEW tables, IsSource(tables), NEW a, NEW rank, NEW n, Analyses(tables, a, rank, n),
         NEW name \in DOMAIN a, NEW size, \A i \in Inline(tables)[name] : Counts(a, size, i),
         FieldsFit(Fields(tables, name))
  PROVE  Measures(a[name].size, SectionSize(tables, Fields(tables, name), size))
<1> DEFINE fs == Fields(tables, name)
           N == Len(fs)
<1>1. name \in TableNames(tables) /\ Collected(fs, a, N + 1, a[name])
  BY DEF Analyses
<1>2. N \in Nat
  BY <1>1, TableOf DEF Fields
<1>3. \A k \in 1..N : ~fs[k].deprecated =>
        LET info == ResolveSszFieldInfo(fs[k], NestedIn(a, fs[k]))
        IN  Measures(IF info.dynamic THEN OffsetSize ELSE info.size, FieldWidth(tables, fs[k], size))
  BY KnownWidth
<1> HIDE DEF fs
<1>4. N + 1 - 1 = N
  BY <1>2
<1>5. PICK c : Grows(fs, a, N, c) /\ a[name] = c[N]
  BY <1>1, <1>4 DEF Collected
<1>6. Measures(c[N].size, SectionSize(tables, fs, size))
  BY <1>2, <1>3, <1>5, GrowsSize
<1> QED BY <1>5, <1>6 DEF fs

\* The width of a field rests on the sizes of the tables inline in it.
LEMMA WidthLocal ==
  ASSUME NEW tables, IsSource(tables), NEW name \in TableNames(tables), NEW s, NEW u,
         \A i \in Inline(tables)[name] : s[i] = u[i],
         NEW k \in 1..Len(Fields(tables, name)), ~Fields(tables, name)[k].deprecated
  PROVE  FieldWidth(tables, Fields(tables, name)[k], s) = FieldWidth(tables, Fields(tables, name)[k], u)
<1> DEFINE f == Fields(tables, name)[k]
<1>1. /\ f.type.base = "struct" => f.type.name \in Inline(tables)[name]
      /\ f.type.base = "array" /\ f.attr = "none" /\ f.type.elem.base = "struct" =>
           f.type.elem.name \in Inline(tables)[name]
  BY InlineIs
<1>2. f.type.base = "array" => f.attr \in {"none", "bitvector"}
  BY TableOf DEF Fields, IsField
<1> HIDE DEF f
<1>3. FieldWidth(tables, f, s) = FieldWidth(tables, f, u)
  <2>1. CASE f.type.base \in {"string", "vector"}
    BY <2>1 DEF FieldWidth
  <2>2. CASE f.type.base = "struct"
    BY <1>1, <2>2 DEF FieldWidth
  <2>3. CASE f.type.base = "array" /\ f.attr = "bitvector"
    BY <2>3 DEF FieldWidth
  <2>4. CASE f.type.base = "array" /\ f.attr = "none"
    <3>1. CASE f.type.elem.base = "struct"
      BY <1>1, <2>4, <3>1 DEF FieldWidth
    <3>2. CASE f.type.elem.base # "struct"
      BY <2>4, <3>2 DEF FieldWidth
    <3> QED BY <3>1, <3>2
  <2>5. CASE f.type.base \notin {"string", "vector", "array", "struct"}
    BY <2>5 DEF FieldWidth
  <2> QED BY <1>2, <2>1, <2>2, <2>3, <2>4, <2>5
<1> QED BY <1>3 DEF f

LEMMA SectionLocal ==
  ASSUME NEW tables, IsSource(tables), NEW name \in TableNames(tables), NEW s, NEW u,
         \A i \in Inline(tables)[name] : s[i] = u[i]
  PROVE  SectionSize(tables, Fields(tables, name), s) = SectionSize(tables, Fields(tables, name), u)
<1> DEFINE fs == Fields(tables, name)
           N == Len(fs)
           V(k) == FieldWidth(tables, fs[k], s)
           W(k) == FieldWidth(tables, fs[k], u)
           Of(U, Width(_)) == [k \in 0..N |-> IF k = 0 THEN 0
                                              ELSE IF fs[k].deprecated THEN U[k - 1]
                                              ELSE U[k - 1] + Width(k)]
<1>1. SectionSize(tables, fs, s) = (CHOOSE U : U = Of(U, V))[N]
  BY DEF SectionSize
<1>2. SectionSize(tables, fs, u) = (CHOOSE U : U = Of(U, W))[N]
  BY DEF SectionSize
<1>3. N \in Nat
  BY TableOf DEF Fields
<1>4. \A k \in 1..N : ~fs[k].deprecated => V(k) = W(k)
  BY WidthLocal
<1> HIDE DEF fs, N, V, W
<1>5. ASSUME NEW U PROVE Of(U, V) = Of(U, W)
  <2>1. ASSUME NEW k \in 0..N
        PROVE  (IF k = 0 THEN 0 ELSE IF fs[k].deprecated THEN U[k - 1] ELSE U[k - 1] + V(k))
             = (IF k = 0 THEN 0 ELSE IF fs[k].deprecated THEN U[k - 1] ELSE U[k - 1] + W(k))
    <3>1. k # 0 => k \in 1..N
      BY <1>3
    <3> QED BY <1>4, <3>1
  <2> QED BY <2>1
<1>6. (CHOOSE U : U = Of(U, V)) = (CHOOSE U : U = Of(U, W))
  BY <1>5
<1> QED BY <1>1, <1>2, <1>6 DEF fs

\* The tables of D have sizes, each from those inline in it, if these are of
\* lower rank.
LEMMA SizesExist ==
  ASSUME NEW tables, IsSource(tables), NEW D, D \subseteq TableNames(tables), NEW rank, NEW n \in Nat,
         \A m \in D : /\ rank[m] \in Nat /\ rank[m] < n
                      /\ \A i \in Inline(tables)[m] : i \in D /\ rank[i] < rank[m]
  PROVE  \E S : S = [m \in D |-> SectionSize(tables, Fields(tables, m), S)]
<1> DEFINE Below(r) == {m \in D : rank[m] < r}
           Is(r, S) == S = [m \in Below(r) |-> SectionSize(tables, Fields(tables, m), S)]
           Bad == {r \in Nat : ~\E S : Is(r, S)}
<1>1. Bad = {}
  <2> SUFFICES ASSUME Bad # {} PROVE FALSE
    OBVIOUS
  <2>1. PICK r \in Bad : \A q \in Bad : r <= q
    BY LeastOf
  <2>2. CASE r = 0
    <3>1. Below(0) = {}
      OBVIOUS
    <3> DEFINE S == [m \in {} |-> 0]
    <3>2. S = [m \in {} |-> SectionSize(tables, Fields(tables, m), S)]
      OBVIOUS
    <3>3. Is(0, S)
      BY <3>1, <3>2
    <3> QED BY <2>1, <2>2, <3>3
  <2>3. CASE r # 0
    <3>1. r \in Nat /\ r - 1 \in Nat /\ ~(r <= r - 1)
      BY <2>1, <2>3
    <3>2. PICK U : Is(r - 1, U)
      BY <2>1, <3>1
    <3> DEFINE Size(m, T) == SectionSize(tables, Fields(tables, m), T)
               S == [m \in Below(r) |-> Size(m, U)]
    <3>3. \A m \in Below(r - 1) : U[m] = Size(m, U)
      BY <3>2
    <3>4. \A m \in Below(r) : S[m] = Size(m, U)
      OBVIOUS
    <3>5. S = [m \in Below(r) |-> S[m]]
      OBVIOUS
    <3>6. ASSUME NEW m \in Below(r) PROVE Size(m, S) = Size(m, U)
      <4>1. m \in D /\ m \in TableNames(tables) /\ rank[m] \in Nat /\ rank[m] < r
        OBVIOUS
      <4>2. ASSUME NEW i \in Inline(tables)[m] PROVE S[i] = U[i]
        <5>1. i \in D /\ rank[i] < rank[m] /\ rank[i] \in Nat
          BY <4>1
        <5>2. i \in Below(r) /\ i \in Below(r - 1)
          BY <3>1, <4>1, <5>1
        <5> HIDE DEF S, Size, Below
        <5> QED BY <3>3, <3>4, <5>2
      <4> HIDE DEF S
      <4> QED BY <4>1, <4>2, SectionLocal
    <3> HIDE DEF S
    <3>7. \A m \in Below(r) : S[m] = Size(m, S)
      <4> HIDE DEF Size, Below
      <4> QED BY <3>4, <3>6
    <3>8. Is(r, S)
      BY <3>5, <3>7
    <3> QED BY <2>1, <3>8
  <2> QED BY <2>2, <2>3
<1>2. Below(n) = D
  OBVIOUS
<1> HIDE DEF Below
<1>3. PICK S : Is(n, S)
  BY <1>1
<1> QED BY <1>2, <1>3

\* The analysis finds the sizes.
LEMMA KnownSize ==
  ASSUME NEW tables, IsSource(tables), NEW a, NEW rank, NEW n, Analyses(tables, a, rank, n),
         NEW name \in DOMAIN a, BitsFit(tables, name)
  PROVE  a[name].size = Uint32(StaticSize(tables, name))
<1> DEFINE D == Stored(tables, name)
           Is(S) == S = [m \in D |-> SectionSize(tables, Named(tables, m).fields, S)]
           Size == CHOOSE S : Is(S)
<1>1. StaticSize(tables, name) = Size[name]
  BY DEF StaticSize
<1>2. name \in TableNames(tables) /\ DOMAIN a \subseteq TableNames(tables) /\ n \in Nat
  BY DEF Analyses
<1>3. \A m \in DOMAIN a : \A i \in Inline(tables)[m] : i \in DOMAIN a /\ rank[i] < rank[m]
  <2>1. \A m \in DOMAIN a : Inline(tables)[m] \subseteq Calls(tables)[m]
    BY <1>2, CallsAre
  <2> QED BY <2>1 DEF Analyses
<1>4. /\ name \in D /\ D \subseteq DOMAIN a
      /\ \A m \in D : Inline(tables)[m] \subseteq D
  <2>1. \A m \in DOMAIN a : Inline(tables)[m] \subseteq DOMAIN a
    BY <1>3
  <2> QED BY <1>2, <2>1, StoredIs
<1>fit. \A m \in D : FieldsFit(Fields(tables, m))
  BY DEF BitsFit, FieldsFit, LiveFields, Fields
<1> HIDE DEF D
<1>5. \E S : Is(S)
  <2>1. \A m \in D : /\ rank[m] \in Nat /\ rank[m] < n
                     /\ \A i \in Inline(tables)[m] : i \in D /\ rank[i] < rank[m]
    BY <1>3, <1>4 DEF Analyses
  <2>2. D \subseteq TableNames(tables)
    BY <1>2, <1>4
  <2>3. \E S : S = [m \in D |-> SectionSize(tables, Fields(tables, m), S)]
    BY <1>2, <2>1, <2>2, SizesExist
  <2> QED BY <2>3 DEF Fields
<1>6. Is(Size)
  BY <1>5
<1> HIDE DEF Size
<1>7. \A m \in D : Size[m] = SectionSize(tables, Fields(tables, m), Size)
  BY <1>6 DEF Fields
<1> HIDE DEF Is
<1>8. ASSUME {m \in D : ~Counts(a, Size, m)} # {} PROVE FALSE
  <2> DEFINE Bad == {m \in D : ~Counts(a, Size, m)}
             Ranks == {rank[m] : m \in Bad}
  <2>1. Ranks \subseteq Nat /\ Ranks # {}
    BY <1>4, <1>8 DEF Analyses
  <2>2. PICK r \in Ranks : \A i \in Ranks : r <= i
    BY <2>1, LeastOf
  <2>3. PICK m \in Bad : rank[m] = r
    BY <2>2
  <2>4. m \in D /\ m \in DOMAIN a /\ ~Counts(a, Size, m)
    BY <1>4, <2>3
  <2>5. ASSUME NEW i \in Inline(tables)[m] PROVE Counts(a, Size, i)
    <3>1. i \in D /\ i \in DOMAIN a /\ rank[i] < rank[m]
      BY <1>3, <1>4, <2>4, <2>5
    <3>2. rank[i] \in Nat /\ rank[m] \in Nat
      BY <2>4, <3>1 DEF Analyses
    <3>3. i \in Bad => rank[m] <= rank[i]
      BY <2>2, <2>3
    <3>4. i \notin Bad
      <4> HIDE DEF Bad
      <4> QED BY <3>1, <3>2, <3>3
    <3> QED BY <3>1, <3>4
  <2> HIDE DEF Bad, Ranks
  <2>6. FieldsFit(Fields(tables, m))
    BY <1>fit, <2>4
  <2>7. Measures(a[m].size, SectionSize(tables, Fields(tables, m), Size))
    BY <2>4, <2>5, <2>6, KnownSection
  <2> QED BY <1>7, <2>4, <2>7 DEF Measures, Counts
<1>9. Counts(a, Size, name)
  BY <1>4, <1>8
<1> QED BY <1>1, <1>9 DEF Counts

LEMMA LayoutExplained == IInv /\ OutputInv /\ AInv => LayoutRight
<1> DEFINE Right(name, d) ==
             /\ d.fixed = ~IsVariable(parsed, name)
             /\ BitsFit(parsed, name) => d.size = Uint32(StaticSize(parsed, name))
<1>1. ASSUME IInv, AInv, NEW k \in Done
      PROVE  LET c == Generated(k).container
             IN  /\ Right(parsed[k].name, c)
                 /\ \A j \in 1..Len(c.infos) :
                      c.infos[j].ssz = "container" => Right(Callee(c.fields[j]), c.infos[j].of)
  <2>1. IsSource(parsed)
    BY <1>1 DEF AInv, ParsedSource, Done
  <2>2. PICK a, rank, n : Analyses(parsed, a, rank, n) /\ DoneKnown(a)
    BY <1>1 DEF AInv, AnalysisInv
  <2>3. parsed[k].name \in DOMAIN a /\ Generated(k).container = a[parsed[k].name]
    BY <1>1, <2>2 DEF DoneKnown
  <2>4. ASSUME NEW name \in DOMAIN a PROVE Right(name, a[name])
    BY <2>1, <2>2, <2>4, KnownVariable, KnownSize
  <2> DEFINE c == a[parsed[k].name]
  <2>5. ASSUME NEW j \in 1..Len(c.infos), c.infos[j].ssz = "container"
        PROVE  Right(Callee(c.fields[j]), c.infos[j].of)
    <3>1. Callee(c.fields[j]) \in DOMAIN a /\ c.infos[j].of = a[Callee(c.fields[j])]
      BY <2>1, <2>2, <2>3, <2>5, NestedKnown
    <3> HIDE DEF Right
    <3> QED BY <2>4, <3>1
  <2> HIDE DEF Right
  <2> QED BY <2>3, <2>4, <2>5
<1> QED BY <1>1 DEF LayoutRight

\* The recursive analysis finds whether a type is variable and the size of its
\* static section as SSZ defines them, for each generated type and for the
\* nested types whose sizes are baked into it: the size modulo the values of
\* a uint32_t, whatever their number, so that it is right as long as it is
\* among them and no bit vector wraps around before it is divided into bytes
\* (AnalyzeContainer).
THEOREM LayoutAlwaysRight == Spec => []LayoutRight
BY LayoutExplained, AnalysisInvariant, PTL
=============================================================================
