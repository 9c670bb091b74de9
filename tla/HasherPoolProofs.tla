-------------------------- MODULE HasherPoolProofs --------------------------
(***************************************************************************)
(* Proofs about HasherPool, for any number of threads and hashers, any     *)
(* capacity of the pool and each of the runtimes.                          *)
(***************************************************************************)
EXTENDS HasherPool, FiniteSetTheorems, TLAPS

Clean == {"put", "push", "count", "add"}
Holding == {"hash", "reset"} \union Clean

\* A thread has the lock exactly while it is in a critical section.
LockInv == \A t \in Threads : pc[t] \in {"pop", "push"} <=> lock = t

\* A thread has a hasher exactly from the end of get to the end of put.
HeldInv == \A t \in Threads : pc[t] \in Holding <=> held[t] # NoHasher

\* Idle hashers and hashers about to be put back are empty; the hasher of a
\* call at work contains what the call wrote.
ContentInv ==
  /\ \A i \in 1..Len(pool) : content[pool[i]] = <<>>
  /\ \A t \in Threads :
       /\ pc[t] \in Clean => content[held[t]] = <<>>
       /\ pc[t] = "hash" => content[held[t]] = [k \in 1..wrote[t] |-> t]

\* The history of a call is in order: nothing written before it has a
\* hasher, and no root before it has finished writing.
CallInv ==
  \A t \in Threads :
    /\ pc[t] \in {"get", "pop", "new"} => wrote[t] = 0
    /\ pc[t] \in {"get", "pop", "new", "hash"} => result[t] = <<>>

\* The threads that have a hasher or are about to make one.
Busy == {t \in Threads : pc[t] \in {"new"} \union Holding}

\* Each hasher in the pool leaves one thread idle.
BusyInv == Len(pool) + Cardinality(Busy) <= Cardinality(Threads)

PoolInv ==
  /\ TypeOK /\ LockInv /\ HeldInv /\ Exclusive /\ ContentInv /\ CallInv
  /\ RootIsOwn /\ LockedPoolBound /\ BusyInv

-----------------------------------------------------------------------------
(* Facts about the sequence operations on the pool.                        *)

LEMMA PrefixType ==
  ASSUME NEW S, NEW s \in Seq(S), NEW n \in 0..Len(s)
  PROVE  /\ SubSeq(s, 1, n) \in Seq(S)
         /\ Len(SubSeq(s, 1, n)) = n
         /\ \A i \in 1..n : SubSeq(s, 1, n)[i] = s[i]
OBVIOUS

LEMMA LastTaken ==
  ASSUME NEW S, NEW s \in Seq(S), s # <<>>
  PROVE  /\ Len(s) \in Nat \ {0}
         /\ s[Len(s)] \in S
         /\ SubSeq(s, 1, Len(s) - 1) \in Seq(S)
         /\ Len(SubSeq(s, 1, Len(s) - 1)) = Len(s) - 1
         /\ \A i \in 1..(Len(s) - 1) : SubSeq(s, 1, Len(s) - 1)[i] = s[i]
<1>1. Len(s) \in Nat /\ Len(s) # 0
  OBVIOUS
<1>2. Len(s) - 1 \in 0..Len(s)
  BY <1>1
<1>3. /\ SubSeq(s, 1, Len(s) - 1) \in Seq(S) /\ Len(SubSeq(s, 1, Len(s) - 1)) = Len(s) - 1
      /\ \A i \in 1..(Len(s) - 1) : SubSeq(s, 1, Len(s) - 1)[i] = s[i]
  BY <1>2, PrefixType
<1>4. s[Len(s)] \in S
  <2>1. Len(s) \in 1..Len(s)
    BY <1>1
  <2> QED BY <2>1
<1> QED
  BY <1>1, <1>3, <1>4

LEMMA WithoutType ==
  ASSUME NEW S, pool \in Seq(S), NEW i \in 1..Len(pool)
  PROVE  /\ Without(i) \in Seq(S)
         /\ Len(Without(i)) = Len(pool) - 1
         /\ \A k \in 1..(Len(pool) - 1) : Without(i)[k] = IF k < i THEN pool[k] ELSE pool[k + 1]
<1>1. Len(pool) \in Nat /\ Len(pool) - 1 \in Nat
  OBVIOUS
<1>2. ASSUME NEW k \in 1..(Len(pool) - 1)
      PROVE  (IF k < i THEN pool[k] ELSE pool[k + 1]) \in S
  BY <1>1
<1>3. Without(i) \in [1..(Len(pool) - 1) -> S]
  BY <1>2 DEF Without
<1>4. Without(i) \in Seq(S) /\ Len(Without(i)) = Len(pool) - 1
  BY <1>1, <1>3
<1>5. \A k \in 1..(Len(pool) - 1) : Without(i)[k] = IF k < i THEN pool[k] ELSE pool[k + 1]
  BY <1>1 DEF Without
<1> QED
  BY <1>4, <1>5

LEMMA PutLast ==
  ASSUME NEW S, NEW s \in Seq(S), NEW h \in S
  PROVE  /\ Append(s, h) \in Seq(S)
         /\ Len(Append(s, h)) = Len(s) + 1
         /\ Append(s, h)[Len(s) + 1] = h
         /\ \A i \in 1..Len(s) : Append(s, h)[i] = s[i]
OBVIOUS

-----------------------------------------------------------------------------
(* The type invariant: every program counter a runtime reaches belongs to  *)
(* its discipline, and every hasher in the pool is one that was held.      *)

LEMMA DisciplineSteps ==
  /\ "idle" \in Discipline /\ "get" \in Discipline /\ "new" \in Discipline
  /\ "hash" \in Discipline /\ "reset" \in Discipline
  /\ Locked => "pop" \in Discipline /\ "put" \in Discipline /\ "push" \in Discipline
  /\ ~Locked => "count" \in Discipline /\ "add" \in Discipline
BY DEF Discipline, Steps

LEMMA DisciplineOnly ==
  /\ "pop" \in Discipline => Locked
  /\ "put" \in Discipline => Locked
  /\ "push" \in Discipline => Locked
  /\ "count" \in Discipline => ~Locked
  /\ "add" \in Discipline => ~Locked
BY DEF Discipline, Steps

LEMMA InitType == Init => TypeOK
BY PoolAssumption, DisciplineSteps DEF Init, TypeOK

LEMMA RuntimeFixed == [Next]_vars => runtime' = runtime /\ Discipline' = Discipline
<1>1. [Next]_vars => runtime' = runtime
  BY DEF Next, vars, Begin, Fail, Progress, LockToPop, LockToPush, Acquire, Pop, TryTake, New,
         Write, ReadRoot, Reset, Push, CompareCount, Add
<1> QED
  BY <1>1 DEF Discipline, Locked

LEMMA NextType == TypeOK /\ HeldInv /\ [Next]_vars => TypeOK'
<1> SUFFICES ASSUME TypeOK, HeldInv, [Next]_vars PROVE TypeOK'
  OBVIOUS
<1>0. Discipline' = Discipline
  BY RuntimeFixed
<1> USE <1>0 DEF TypeOK
<1>1. CASE UNCHANGED vars
  BY <1>1 DEF vars
<1>2. ASSUME NEW t \in Threads, Begin(t) PROVE TypeOK'
  <2>1. calls' \in [Threads -> 0..MaxCalls]
    BY <1>2, PoolAssumption DEF Begin
  <2>2. wrote' \in [Threads -> 0..MaxWrites] /\ result' \in [Threads -> Seq(Threads)]
    BY <1>2, PoolAssumption DEF Begin
  <2> QED
    BY <1>2, <2>1, <2>2, DisciplineSteps DEF Begin, Goto
<1>3. ASSUME NEW t \in Threads, Fail(t) PROVE TypeOK'
  <2>1. held' \in [Threads -> Hashers \union {NoHasher}]
    BY <1>3 DEF Fail
  <2>2. pc' \in [Threads -> Discipline]
    BY <1>3, DisciplineSteps DEF Fail, Goto
  <2> QED
    BY <1>3, <2>1, <2>2 DEF Fail
<1>4. ASSUME NEW t \in Threads, Progress(t) PROVE TypeOK'
  <2>1. CASE LockToPop(t)
    BY <2>1, DisciplineSteps DEF LockToPop, Acquire, Goto
  <2>2. CASE Pop(t) /\ pool = <<>>
    <3>1. UNCHANGED <<runtime, pool, held, content, wrote, result, calls>>
      BY <2>2 DEF Pop
    <3>2. lock' = NoThread /\ pc' = [pc EXCEPT ![t] = "new"]
      BY <2>2 DEF Pop, Goto
    <3> QED
      BY <3>1, <3>2, DisciplineSteps
  <2>3. CASE Pop(t) /\ pool # <<>>
    <3>1. pool[Len(pool)] \in Hashers /\ SubSeq(pool, 1, Len(pool) - 1) \in Seq(Hashers)
      BY <2>3, LastTaken
    <3>2. /\ held' = [held EXCEPT ![t] = pool[Len(pool)]]
          /\ pool' = SubSeq(pool, 1, Len(pool) - 1)
          /\ pc' = [pc EXCEPT ![t] = "hash"]
          /\ lock' = NoThread
          /\ content' = content \/ content' = [content EXCEPT ![pool[Len(pool)]] = <<>>]
          /\ UNCHANGED <<runtime, wrote, result, calls>>
      BY <2>3 DEF Pop, Goto
    <3> HIDE <2>3
    <3>3. content' \in [Hashers -> Seq(Threads)]
      <4>1. <<>> \in Seq(Threads) OBVIOUS
      <4>2. CASE content' = content BY <4>2
      <4>3. CASE content' = [content EXCEPT ![pool[Len(pool)]] = <<>>] BY <4>1, <4>3
      <4> QED BY <3>2, <4>2, <4>3
    <3> QED
      BY <3>1, <3>2, <3>3, DisciplineSteps
  <2>4. CASE TryTake(t)
    <3>1. UNCHANGED <<runtime, lock, content, wrote, result, calls>>
      BY <2>4 DEF TryTake
    <3>2. CASE pool' = pool /\ held' = held /\ pc' = [pc EXCEPT ![t] = "new"]
      BY <3>1, <3>2, DisciplineSteps
    <3>3. ASSUME NEW i \in 1..Len(pool), held' = [held EXCEPT ![t] = pool[i]],
                 pool' = Without(i), pc' = [pc EXCEPT ![t] = "hash"]
          PROVE TypeOK'
      <4>1. pool' \in Seq(Hashers)
        BY <3>3, WithoutType
      <4>2. pool[i] \in Hashers
        OBVIOUS
      <4>3. held' \in [Threads -> Hashers \union {NoHasher}]
        BY <3>3, <4>2
      <4> QED
        BY <3>1, <3>3, <4>1, <4>3, DisciplineSteps
    <3> QED
      BY <2>4, <3>2, <3>3 DEF TryTake, Goto
  <2>5. CASE New(t)
    <3>1. PICK h \in Hashers : held' = [held EXCEPT ![t] = h] /\ content' = [content EXCEPT ![h] = <<>>]
      BY <2>5 DEF New
    <3>2. pc' = [pc EXCEPT ![t] = "hash"] /\ UNCHANGED <<runtime, pool, lock, wrote, result, calls>>
      BY <2>5 DEF New, Goto
    <3> QED
      BY <3>1, <3>2, DisciplineSteps
  <2>6. CASE Write(t)
    <3>1. held[t] \in Hashers
      BY <2>6 DEF Write, HeldInv, Holding, Clean
    <3>2. content' \in [Hashers -> Seq(Threads)]
      BY <2>6, <3>1 DEF Write
    <3>3. wrote' \in [Threads -> 0..MaxWrites]
      BY <2>6, PoolAssumption DEF Write
    <3> QED
      BY <2>6, <3>2, <3>3 DEF Write
  <2>7. CASE ReadRoot(t)
    <3>1. held[t] \in Hashers
      BY <2>7 DEF ReadRoot, HeldInv, Holding, Clean
    <3>2. result' \in [Threads -> Seq(Threads)]
      BY <2>7, <3>1 DEF ReadRoot
    <3> QED
      BY <2>7, <3>2, DisciplineSteps DEF ReadRoot, Goto
  <2>8. CASE Reset(t)
    <3>0. <<>> \in Seq(Threads)
      OBVIOUS
    <3>1. content' \in [Hashers -> Seq(Threads)]
      BY <2>8, <3>0 DEF Reset
    <3>2. pc' \in [Threads -> Discipline]
      BY <2>8, DisciplineSteps DEF Reset, Goto
    <3> QED
      BY <2>8, <3>1, <3>2 DEF Reset
  <2>9. CASE LockToPush(t)
    BY <2>9, DisciplineSteps DEF LockToPush, Acquire, Goto
  <2>10. CASE Push(t)
    <3>1. held[t] \in Hashers
      BY <2>10 DEF Push, HeldInv, Holding, Clean
    <3>2. pool' \in Seq(Hashers)
      BY <2>10, <3>1, PutLast DEF Push
    <3>3. held' \in [Threads -> Hashers \union {NoHasher}] /\ pc' \in [Threads -> Discipline]
      BY <2>10, DisciplineSteps DEF Push, Release, Goto
    <3> QED
      BY <2>10, <3>2, <3>3 DEF Push
  <2>11. CASE CompareCount(t)
    <3>1. ~Locked
      BY <2>11, DisciplineOnly DEF CompareCount
    <3>2. held' \in [Threads -> Hashers \union {NoHasher}]
      BY <2>11 DEF CompareCount, Release
    <3>3. pc' \in [Threads -> Discipline]
      BY <2>11, <3>1, DisciplineSteps DEF CompareCount, Goto
    <3> QED
      BY <2>11, <3>2, <3>3 DEF CompareCount
  <2>12. CASE Add(t)
    <3>1. held[t] \in Hashers
      BY <2>12 DEF Add, HeldInv, Holding, Clean
    <3>2. pool' \in Seq(Hashers)
      BY <2>12, <3>1, PutLast DEF Add
    <3>3. held' \in [Threads -> Hashers \union {NoHasher}] /\ pc' \in [Threads -> Discipline]
      BY <2>12, DisciplineSteps DEF Add, Release, Goto
    <3> QED
      BY <2>12, <3>2, <3>3 DEF Add
  <2> QED
    BY <1>4, <2>1, <2>2, <2>3, <2>4, <2>5, <2>6, <2>7, <2>8, <2>9, <2>10, <2>11, <2>12 DEF Progress
<1> QED
  BY <1>1, <1>2, <1>3, <1>4 DEF Next

-----------------------------------------------------------------------------
(* The lock: a thread enters a critical section only when no other thread  *)
(* is in one, and leaves it in the step that frees the lock.               *)

LEMMA NextLock == TypeOK /\ LockInv /\ [Next]_vars => LockInv'
<1> SUFFICES ASSUME TypeOK, LockInv, [Next]_vars PROVE LockInv'
  OBVIOUS
<1>0. pc \in [Threads -> Discipline] /\ NoThread \notin Threads
  BY PoolAssumption DEF TypeOK
<1> USE <1>0 DEF LockInv
<1>1. CASE UNCHANGED vars
  BY <1>1 DEF vars
<1>2. ASSUME NEW t \in Threads, NEW from \in {"idle", "get", "new", "hash", "reset", "count", "add"},
             NEW to \in {"idle", "get", "new", "hash", "reset", "put", "count", "add"},
             pc[t] = from, pc' = [pc EXCEPT ![t] = to], lock' = lock
      PROVE  LockInv'
  BY <1>2
<1>3. ASSUME NEW t \in Threads, NEW to \in {"pop", "push"},
             pc' = [pc EXCEPT ![t] = to], lock = NoThread, lock' = t
      PROVE  LockInv'
  BY <1>3
<1>4. ASSUME NEW t \in Threads, NEW from \in {"pop", "push"}, NEW to \in {"idle", "new", "hash"},
             pc[t] = from, pc' = [pc EXCEPT ![t] = to], lock' = NoThread
      PROVE  LockInv'
  BY <1>4
<1>5. ASSUME NEW t \in Threads, Begin(t) \/ Fail(t) PROVE LockInv'
  BY <1>5, <1>2 DEF Begin, Fail, Goto
<1>6. ASSUME NEW t \in Threads, Progress(t) PROVE LockInv'
  <2>1. CASE LockToPop(t) BY <2>1, <1>3 DEF LockToPop, Acquire, Goto
  <2>2. CASE LockToPush(t) BY <2>2, <1>3 DEF LockToPush, Acquire, Goto
  <2>3. CASE Pop(t) BY <2>3, <1>4 DEF Pop, Goto
  <2>4. CASE Push(t) BY <2>4, <1>4 DEF Push, Goto
  <2>5. CASE TryTake(t) BY <2>5, <1>2 DEF TryTake, Goto
  <2>6. CASE New(t) BY <2>6, <1>2 DEF New, Goto
  <2>7. CASE Write(t) BY <2>7 DEF Write
  <2>8. CASE ReadRoot(t) BY <2>8, <1>2 DEF ReadRoot, Goto
  <2>9. CASE Reset(t) BY <2>9, <1>2 DEF Reset, Goto
  <2>10. CASE CompareCount(t) BY <2>10, <1>2 DEF CompareCount, Goto
  <2>11. CASE Add(t) BY <2>11, <1>2 DEF Add, Goto
  <2> QED
    BY <1>6, <2>1, <2>2, <2>3, <2>4, <2>5, <2>6, <2>7, <2>8, <2>9, <2>10, <2>11 DEF Progress
<1> QED
  BY <1>1, <1>5, <1>6 DEF Next

-----------------------------------------------------------------------------
(* Who has which hasher.                                                   *)

LEMMA NextHeld == TypeOK /\ HeldInv /\ [Next]_vars => HeldInv'
<1> SUFFICES ASSUME TypeOK, HeldInv, [Next]_vars PROVE HeldInv'
  OBVIOUS
<1>0. /\ pc \in [Threads -> Discipline] /\ held \in [Threads -> Hashers \union {NoHasher}]
      /\ pool \in Seq(Hashers) /\ NoHasher \notin Hashers
  BY PoolAssumption DEF TypeOK
<1> USE <1>0 DEF HeldInv, Holding, Clean
<1>1. CASE UNCHANGED vars
  BY <1>1 DEF vars
\* The thread keeps what it has.
<1>2. ASSUME NEW t \in Threads, NEW to, pc[t] \in Holding <=> to \in Holding,
             pc' = [pc EXCEPT ![t] = to], held' = held
      PROVE  HeldInv'
  BY <1>2
\* The thread gets a hasher.
<1>3. ASSUME NEW t \in Threads, NEW h \in Hashers, pc' = [pc EXCEPT ![t] = "hash"],
             held' = [held EXCEPT ![t] = h]
      PROVE  HeldInv'
  BY <1>3
\* The thread gives its hasher away.
<1>4. ASSUME NEW t \in Threads, pc' = [pc EXCEPT ![t] = "idle"],
             held' = [held EXCEPT ![t] = NoHasher]
      PROVE  HeldInv'
  BY <1>4
<1>5. ASSUME NEW t \in Threads, Begin(t) \/ Fail(t) PROVE HeldInv'
  BY <1>5, <1>2, <1>4 DEF Begin, Fail, Goto
<1>6. ASSUME NEW t \in Threads, Progress(t) PROVE HeldInv'
  <2>1. CASE LockToPop(t) BY <2>1, <1>2 DEF LockToPop, Acquire, Goto
  <2>2. CASE LockToPush(t) BY <2>2, <1>2 DEF LockToPush, Acquire, Goto
  <2>3. CASE Pop(t)
    <3>1. CASE pool = <<>> BY <2>3, <3>1, <1>2 DEF Pop, Goto
    <3>2. CASE pool # <<>> BY <2>3, <3>2, <1>3, LastTaken DEF Pop, Goto
    <3> QED BY <3>1, <3>2
  <2>4. CASE Push(t) BY <2>4, <1>4 DEF Push, Release, Goto
  <2>5. CASE TryTake(t)
    <3>1. CASE pool' = pool /\ held' = held /\ pc' = [pc EXCEPT ![t] = "new"]
      BY <2>5, <3>1, <1>2 DEF TryTake
    <3>2. ASSUME NEW i \in 1..Len(pool), held' = [held EXCEPT ![t] = pool[i]],
                 pc' = [pc EXCEPT ![t] = "hash"]
          PROVE HeldInv'
      <4>1. pool[i] \in Hashers
        OBVIOUS
      <4> QED BY <4>1, <3>2, <1>3
    <3> QED BY <2>5, <3>1, <3>2 DEF TryTake, Goto
  <2>6. CASE New(t) BY <2>6, <1>3 DEF New, Goto
  <2>7. CASE Write(t) BY <2>7 DEF Write
  <2>8. CASE ReadRoot(t) BY <2>8, <1>2 DEF ReadRoot, Goto
  <2>9. CASE Reset(t) BY <2>9, <1>2 DEF Reset, Goto
  <2>10. CASE CompareCount(t) BY <2>10, <1>2, <1>4 DEF CompareCount, Release, Goto
  <2>11. CASE Add(t) BY <2>11, <1>4 DEF Add, Release, Goto
  <2> QED
    BY <1>6, <2>1, <2>2, <2>3, <2>4, <2>5, <2>6, <2>7, <2>8, <2>9, <2>10, <2>11 DEF Progress
<1> QED
  BY <1>1, <1>5, <1>6 DEF Next

\* What get does to the pool: the element at some position is taken out.
TakenAt(i) ==
  /\ pool' \in Seq(Hashers)
  /\ Len(pool') = Len(pool) - 1
  /\ \A k \in 1..(Len(pool) - 1) : pool'[k] = IF k < i THEN pool[k] ELSE pool[k + 1]

LEMMA PopTakes ==
  ASSUME TypeOK, NEW t \in Threads, Pop(t), pool # <<>>
  PROVE  /\ TakenAt(Len(pool)) /\ Len(pool) \in 1..Len(pool)
         /\ held' = [held EXCEPT ![t] = pool[Len(pool)]]
         /\ pc' = [pc EXCEPT ![t] = "hash"]
<1>1. /\ pool' = SubSeq(pool, 1, Len(pool) - 1)
      /\ held' = [held EXCEPT ![t] = pool[Len(pool)]]
      /\ pc' = [pc EXCEPT ![t] = "hash"]
  BY DEF Pop, Goto
<1>2. pool \in Seq(Hashers)
  BY DEF TypeOK
<1> QED
  BY <1>1, <1>2, LastTaken DEF TakenAt

LEMMA TryTakeTakes ==
  ASSUME TypeOK, NEW t \in Threads, TryTake(t)
  PROVE  \/ /\ pool = <<>> /\ UNCHANGED <<pool, held>>
            /\ pc' = [pc EXCEPT ![t] = "new"]
         \/ \E i \in 1..Len(pool) :
              /\ TakenAt(i)
              /\ held' = [held EXCEPT ![t] = pool[i]]
              /\ pc' = [pc EXCEPT ![t] = "hash"]
<1>1. pool \in Seq(Hashers)
  BY DEF TypeOK
<1>2. ASSUME NEW i \in 1..Len(pool), pool' = Without(i) PROVE TakenAt(i)
  BY <1>1, <1>2, WithoutType DEF TakenAt
<1> QED
  BY <1>2 DEF TryTake, Goto

LEMMA NextExclusive == TypeOK /\ HeldInv /\ Exclusive /\ [Next]_vars => Exclusive'
<1> SUFFICES ASSUME TypeOK, HeldInv, Exclusive, [Next]_vars PROVE Exclusive'
  OBVIOUS
<1>0. /\ held \in [Threads -> Hashers \union {NoHasher}]
      /\ pool \in Seq(Hashers) /\ NoHasher \notin Hashers
  BY PoolAssumption DEF TypeOK
<1> USE <1>0 DEF Exclusive, InPool
<1>1. CASE UNCHANGED <<pool, held>>
  BY <1>1
\* A hasher is taken from the pool.
<1>2. ASSUME NEW t \in Threads, held[t] = NoHasher, NEW i \in 1..Len(pool), TakenAt(i),
             held' = [held EXCEPT ![t] = pool[i]]
      PROVE  Exclusive'
  <2> DEFINE from(k) == IF k < i THEN k ELSE k + 1
  <2>0. /\ Len(pool) \in Nat /\ Len(pool') = Len(pool) - 1
        /\ \A k \in 1..(Len(pool) - 1) : pool'[k] = IF k < i THEN pool[k] ELSE pool[k + 1]
    BY <1>2 DEF TakenAt
  <2>1. \A k \in 1..Len(pool') : from(k) \in 1..Len(pool) /\ from(k) # i /\ pool'[k] = pool[from(k)]
    BY <2>0
  <2>2. \A k \in 1..Len(pool') : pool'[k] # pool[i]
    BY <2>1
  <2>3. \A u \in Threads \ {t} : held[u] # pool[i]
    OBVIOUS
  <2>4. \A u \in Threads : \A k \in 1..Len(pool') : pool'[k] # held'[u]
    BY <1>2, <2>1, <2>2
  <2>5. \A k, l \in 1..Len(pool') : pool'[k] = pool'[l] => k = l
    BY <2>0, <2>1
  <2>6. \A u, v \in Threads : held'[u] # NoHasher /\ held'[u] = held'[v] => u = v
    BY <1>2, <2>3
  <2> QED
    BY <2>4, <2>5, <2>6
\* A hasher is made.
<1>3. ASSUME NEW t \in Threads, NEW h \in Hashers, ~Live(h), pool' = pool,
             held' = [held EXCEPT ![t] = h]
      PROVE  Exclusive'
  BY <1>3 DEF Live
\* A hasher is dropped.
<1>4. ASSUME NEW t \in Threads, pool' = pool, held' = [held EXCEPT ![t] = NoHasher]
      PROVE  Exclusive'
  BY <1>4
\* A hasher is put back.
<1>5. ASSUME NEW t \in Threads, held[t] \in Hashers, pool' = Append(pool, held[t]),
             held' = [held EXCEPT ![t] = NoHasher]
      PROVE  Exclusive'
  <2>1. /\ Len(pool') = Len(pool) + 1 /\ Len(pool) \in Nat
        /\ pool'[Len(pool) + 1] = held[t]
        /\ \A i \in 1..Len(pool) : pool'[i] = pool[i]
    BY <1>5, PutLast
  <2>2. \A i, j \in 1..Len(pool') : pool'[i] = pool'[j] => i = j
    BY <2>1
  <2>3. \A u \in Threads : \A i \in 1..Len(pool') : pool'[i] # held'[u]
    BY <1>5, <2>1
  <2>4. \A u, v \in Threads : held'[u] # NoHasher /\ held'[u] = held'[v] => u = v
    BY <1>5
  <2> QED
    BY <2>2, <2>3, <2>4
<1>6. ASSUME NEW t \in Threads, Begin(t) \/ Fail(t) PROVE Exclusive'
  BY <1>6, <1>1, <1>4 DEF Begin, Fail
<1>7. ASSUME NEW t \in Threads, Progress(t) PROVE Exclusive'
  <2>1. CASE LockToPop(t) \/ LockToPush(t) \/ Write(t) \/ ReadRoot(t) \/ Reset(t)
    BY <2>1, <1>1 DEF LockToPop, LockToPush, Acquire, Write, ReadRoot, Reset
  <2>2. CASE Pop(t)
    <3>1. CASE pool = <<>> BY <2>2, <3>1, <1>1 DEF Pop
    <3>2. CASE pool # <<>>
      <4>1. held[t] = NoHasher
        BY <2>2 DEF Pop, HeldInv, Holding, Clean
      <4> QED BY <2>2, <3>2, <4>1, <1>2, PopTakes
    <3> QED BY <3>1, <3>2
  <2>3. CASE TryTake(t)
    <3>1. held[t] = NoHasher
      BY <2>3 DEF TryTake, HeldInv, Holding, Clean
    <3> QED BY <2>3, <3>1, <1>1, <1>2, TryTakeTakes
  <2>4. CASE New(t) BY <2>4, <1>3 DEF New
  <2>5. CASE Push(t)
    <3>1. held[t] \in Hashers
      BY <2>5 DEF Push, HeldInv, Holding, Clean
    <3> QED BY <2>5, <3>1, <1>4, <1>5 DEF Push, Release
  <2>6. CASE CompareCount(t) BY <2>6, <1>1, <1>4 DEF CompareCount, Release
  <2>7. CASE Add(t)
    <3>1. held[t] \in Hashers
      BY <2>7 DEF Add, HeldInv, Holding, Clean
    <3> QED BY <2>7, <3>1, <1>5 DEF Add, Release
  <2> QED
    BY <1>7, <2>1, <2>2, <2>3, <2>4, <2>5, <2>6, <2>7 DEF Progress
<1>8. CASE UNCHANGED vars
  BY <1>8, <1>1 DEF vars
<1> QED
  BY <1>6, <1>7, <1>8 DEF Next

-----------------------------------------------------------------------------
(* What the buffers contain.                                               *)

\* One more write by t makes the buffer one longer.
LEMMA OneMoreWrite ==
  ASSUME NEW t \in Threads, NEW n \in Nat
  PROVE  Append([k \in 1..n |-> t], t) = [k \in 1..(n + 1) |-> t]
<1> DEFINE s == [k \in 1..n |-> t]
<1>1. s \in Seq({t}) /\ Len(s) = n
  OBVIOUS
<1>2. Append(s, t) \in Seq({t}) /\ Len(Append(s, t)) = n + 1
  BY <1>1
<1>3. \A k \in 1..(n + 1) : Append(s, t)[k] = t
  BY <1>2
<1>4. Append(s, t) = [k \in 1..(n + 1) |-> Append(s, t)[k]]
  BY <1>2
<1> QED
  BY <1>3, <1>4

LEMMA NextCall == TypeOK /\ CallInv /\ [Next]_vars => CallInv'
<1> SUFFICES ASSUME TypeOK, CallInv, [Next]_vars PROVE CallInv'
  OBVIOUS
<1>0. /\ pc \in [Threads -> Discipline] /\ wrote \in [Threads -> 0..MaxWrites]
      /\ result \in [Threads -> Seq(Threads)]
  BY DEF TypeOK
<1> USE <1>0 DEF CallInv
\* The thread moves on and its history stays.
<1>1. ASSUME NEW t \in Threads, NEW to, pc' = [pc EXCEPT ![t] = to],
             UNCHANGED <<wrote, result>>,
             to \in {"get", "pop", "new"} => pc[t] \in {"get", "pop", "new"},
             to = "hash" => pc[t] \in {"get", "pop", "new", "hash"}
      PROVE  CallInv'
  BY <1>1
<1>2. ASSUME NEW t \in Threads, Begin(t) PROVE CallInv'
  <2>1. <<>> \in Seq(Threads)
    OBVIOUS
  <2> QED BY <1>2, <2>1 DEF Begin, Goto
<1>3. ASSUME NEW t \in Threads, Fail(t) PROVE CallInv'
  BY <1>3, <1>1 DEF Fail, Goto
<1>4. ASSUME NEW t \in Threads, Progress(t) PROVE CallInv'
  <2>1. CASE LockToPop(t) BY <2>1, <1>1 DEF LockToPop, Acquire, Goto
  <2>2. CASE LockToPush(t) BY <2>2, <1>1 DEF LockToPush, Acquire, Goto
  <2>3. CASE Pop(t) BY <2>3, <1>1 DEF Pop, Goto
  <2>4. CASE TryTake(t) BY <2>4, <1>1 DEF TryTake, Goto
  <2>5. CASE New(t) BY <2>5, <1>1 DEF New, Goto
  <2>6. CASE Write(t) BY <2>6 DEF Write
  <2>7. CASE ReadRoot(t)
    <3>1. pc' = [pc EXCEPT ![t] = "reset"] /\ wrote' = wrote
          /\ \A u \in Threads \ {t} : result'[u] = result[u]
      BY <2>7 DEF ReadRoot, Goto
    <3> QED BY <3>1
  <2>8. CASE Reset(t) BY <2>8, <1>1 DEF Reset, Goto
  <2>9. CASE Push(t) BY <2>9, <1>1 DEF Push, Goto
  <2>10. CASE CompareCount(t) BY <2>10, <1>1 DEF CompareCount, Goto
  <2>11. CASE Add(t) BY <2>11, <1>1 DEF Add, Goto
  <2> QED
    BY <1>4, <2>1, <2>2, <2>3, <2>4, <2>5, <2>6, <2>7, <2>8, <2>9, <2>10, <2>11 DEF Progress
<1>5. CASE UNCHANGED vars
  BY <1>5 DEF vars
<1> QED
  BY <1>2, <1>3, <1>4, <1>5 DEF Next

LEMMA NothingWritten == \A t : [k \in 1..0 |-> t] = <<>>
OBVIOUS

LEMMA NextContent ==
  TypeOK /\ HeldInv /\ Exclusive /\ ContentInv /\ CallInv /\ [Next]_vars => ContentInv'
<1> SUFFICES ASSUME TypeOK, HeldInv, Exclusive, ContentInv, CallInv, [Next]_vars
             PROVE  ContentInv'
  OBVIOUS
<1>0. /\ pc \in [Threads -> Discipline] /\ held \in [Threads -> Hashers \union {NoHasher}]
      /\ pool \in Seq(Hashers) /\ content \in [Hashers -> Seq(Threads)]
      /\ wrote \in [Threads -> 0..MaxWrites] /\ NoHasher \notin Hashers
  BY PoolAssumption DEF TypeOK
<1>a. \A t \in Threads : pc[t] \in Holding => held[t] \in Hashers
  BY <1>0 DEF HeldInv
<1>b. \A i \in 1..Len(pool) : pool[i] \in Hashers
  BY <1>0
<1>c. \A t, u \in Threads : held[t] # NoHasher /\ held[t] = held[u] => t = u
  BY DEF Exclusive
<1>d. \A t \in Threads : \A i \in 1..Len(pool) : pool[i] # held[t]
  BY DEF Exclusive, InPool
\* The thread moves on with what it has.
<1>1. ASSUME NEW t \in Threads, NEW to, pc' = [pc EXCEPT ![t] = to],
             UNCHANGED <<pool, held, content, wrote>>,
             to \in Clean => pc[t] \in Clean, to = "hash" => pc[t] = "hash"
      PROVE  ContentInv'
  BY <1>1, <1>0 DEF ContentInv, Clean
\* The thread drops its hasher.
<1>2. ASSUME NEW t \in Threads, pc' = [pc EXCEPT ![t] = "idle"],
             held' = [held EXCEPT ![t] = NoHasher], UNCHANGED <<pool, content, wrote>>
      PROVE  ContentInv'
  BY <1>2, <1>0 DEF ContentInv, Clean
\* The thread takes a hasher from the pool.
<1>3. ASSUME NEW t \in Threads, wrote[t] = 0, NEW i \in 1..Len(pool), TakenAt(i),
             held' = [held EXCEPT ![t] = pool[i]], pc' = [pc EXCEPT ![t] = "hash"],
             content' = content \/ content' = [content EXCEPT ![pool[i]] = <<>>],
             wrote' = wrote
      PROVE  ContentInv'
  <2>1. content[pool[i]] = <<>>
    BY DEF ContentInv
  <2>2. content' = content
    BY <1>3, <1>0, <2>1
  <2>3. \A k \in 1..Len(pool') : content'[pool'[k]] = <<>>
    <3>1. /\ Len(pool) \in Nat /\ Len(pool') = Len(pool) - 1
          /\ \A k \in 1..(Len(pool) - 1) : pool'[k] = IF k < i THEN pool[k] ELSE pool[k + 1]
      <4>1. Len(pool) \in Nat BY <1>0
      <4> QED BY <4>1, <1>3 DEF TakenAt
    <3>2. \A k \in 1..Len(pool) : content[pool[k]] = <<>>
      BY DEF ContentInv
    <3>3. ASSUME NEW k \in 1..Len(pool') PROVE content'[pool'[k]] = <<>>
      <4>1. CASE k < i BY <3>1, <3>2, <4>1, <2>2
      <4>2. CASE ~(k < i)
        <5>1. k + 1 \in 1..Len(pool) /\ pool'[k] = pool[k + 1] BY <3>1, <4>2
        <5> QED BY <3>2, <5>1, <2>2
      <4> QED BY <4>1, <4>2
    <3> QED BY <3>3
  <2>4. content'[held'[t]] = [k \in 1..wrote'[t] |-> t]
    BY <1>3, <1>0, <2>1, <2>2, NothingWritten
  <2>5. \A u \in Threads \ {t} : pc'[u] = pc[u] /\ held'[u] = held[u] /\ wrote'[u] = wrote[u]
    BY <1>3, <1>0
  <2>6. pc'[t] = "hash"
    BY <1>3, <1>0
  <2> QED
    BY <2>2, <2>3, <2>4, <2>5, <2>6 DEF ContentInv, Clean
\* The thread makes one.
<1>4. ASSUME NEW t \in Threads, wrote[t] = 0, NEW h \in Hashers, ~Live(h),
             held' = [held EXCEPT ![t] = h], pc' = [pc EXCEPT ![t] = "hash"],
             content' = [content EXCEPT ![h] = <<>>], UNCHANGED <<pool, wrote>>
      PROVE  ContentInv'
  <2>1. \A u \in Threads : held[u] # h
    BY <1>4 DEF Live
  <2>2. \A k \in 1..Len(pool) : pool[k] # h
    BY <1>4 DEF Live, InPool
  <2>3. content'[held'[t]] = [k \in 1..wrote'[t] |-> t] /\ pc'[t] = "hash"
    BY <1>4, <1>0, NothingWritten
  <2>4. \A u \in Threads \ {t} : /\ pc'[u] = pc[u] /\ held'[u] = held[u] /\ wrote'[u] = wrote[u]
                                 /\ pc[u] \in Holding => content'[held[u]] = content[held[u]]
    BY <1>4, <1>0, <1>a, <2>1
  <2>5. \A k \in 1..Len(pool') : content'[pool'[k]] = <<>>
    BY <1>4, <1>0, <1>b, <2>2 DEF ContentInv
  <2>6. \A u \in Threads \ {t} :
           /\ pc'[u] \in Clean => content'[held'[u]] = <<>>
           /\ pc'[u] = "hash" => content'[held'[u]] = [k \in 1..wrote'[u] |-> u]
    BY <2>4 DEF ContentInv, Holding, Clean
  <2> QED
    BY <2>3, <2>5, <2>6 DEF ContentInv, Clean
\* The thread changes the buffer of its hasher.
<1>5. ASSUME NEW t \in Threads, held[t] \in Hashers, NEW b,
             content' = [content EXCEPT ![held[t]] = b], UNCHANGED <<pool, held>>,
             \A u \in Threads \ {t} : pc'[u] = pc[u] /\ wrote'[u] = wrote[u],
             pc'[t] \in Clean => b = <<>>,
             pc'[t] = "hash" => b = [k \in 1..wrote'[t] |-> t]
      PROVE  ContentInv'
  <2>1. content'[held'[t]] = b
    BY <1>5, <1>0
  <2>2. \A u \in Threads \ {t} : pc[u] \in Holding => content'[held[u]] = content[held[u]]
    BY <1>5, <1>0, <1>a, <1>c
  <2>3. \A k \in 1..Len(pool') : content'[pool'[k]] = <<>>
    BY <1>5, <1>0, <1>b, <1>d DEF ContentInv
  <2>4. \A u \in Threads \ {t} :
           /\ pc'[u] \in Clean => content'[held'[u]] = <<>>
           /\ pc'[u] = "hash" => content'[held'[u]] = [k \in 1..wrote'[u] |-> u]
    BY <1>5, <2>2 DEF ContentInv, Clean, Holding
  <2>5. /\ pc'[t] \in Clean => content'[held'[t]] = <<>>
        /\ pc'[t] = "hash" => content'[held'[t]] = [k \in 1..wrote'[t] |-> t]
    BY <1>5, <2>1
  <2> QED
    BY <2>3, <2>4, <2>5 DEF ContentInv
\* The thread puts it back.
<1>6. ASSUME NEW t \in Threads, pc[t] \in Clean, pool' = Append(pool, held[t]),
             held' = [held EXCEPT ![t] = NoHasher], pc' = [pc EXCEPT ![t] = "idle"],
             UNCHANGED <<content, wrote>>
      PROVE  ContentInv'
  <2>1. held[t] \in Hashers /\ content[held[t]] = <<>>
    BY <1>6, <1>a DEF ContentInv, Clean, Holding
  <2>2. /\ Len(pool') = Len(pool) + 1 /\ Len(pool) \in Nat
        /\ pool'[Len(pool) + 1] = held[t]
        /\ \A k \in 1..Len(pool) : pool'[k] = pool[k]
    BY <1>0, <1>6, <2>1, PutLast
  <2>3. \A k \in 1..Len(pool') : content'[pool'[k]] = <<>>
    BY <1>6, <2>1, <2>2 DEF ContentInv
  <2> QED
    BY <1>6, <1>0, <2>3 DEF ContentInv, Clean
<1>7. ASSUME NEW t \in Threads, Begin(t) PROVE ContentInv'
  <2>1. pc'[t] = "get" /\ \A u \in Threads \ {t} : pc'[u] = pc[u] /\ wrote'[u] = wrote[u]
    BY <1>7, <1>0 DEF Begin, Goto
  <2>2. UNCHANGED <<pool, held, content>>
    BY <1>7 DEF Begin
  <2> QED
    BY <2>1, <2>2 DEF ContentInv, Clean
<1>8. ASSUME NEW t \in Threads, Fail(t) PROVE ContentInv'
  BY <1>8, <1>1, <1>2 DEF Fail, Goto, Clean
<1>9. ASSUME NEW t \in Threads, Progress(t) PROVE ContentInv'
  <2>1. CASE LockToPop(t)
    BY <2>1, <1>1 DEF LockToPop, Acquire, Goto, Clean
  <2>2. CASE Pop(t)
    <3>1. wrote[t] = 0
      BY <2>2 DEF Pop, CallInv
    <3>2. CASE pool = <<>>
      BY <2>2, <3>2, <1>1 DEF Pop, Goto, Clean
    <3>3. CASE pool # <<>>
      BY <2>2, <3>1, <3>3, <1>3, PopTakes DEF Pop
    <3> QED BY <3>2, <3>3
  <2>3. CASE TryTake(t)
    <3>1. wrote[t] = 0 /\ UNCHANGED <<content, wrote>>
      BY <2>3 DEF TryTake, CallInv
    <3>2. CASE UNCHANGED <<pool, held>> /\ pc' = [pc EXCEPT ![t] = "new"]
      BY <3>1, <3>2, <1>1 DEF Clean
    <3> QED BY <2>3, <3>1, <3>2, <1>3, TryTakeTakes
  <2>4. CASE New(t)
    <3>1. wrote[t] = 0
      BY <2>4 DEF New, CallInv
    <3> QED BY <2>4, <3>1, <1>4 DEF New, Goto
  <2>5. CASE Write(t)
    <3>1. held[t] \in Hashers /\ content[held[t]] = [k \in 1..wrote[t] |-> t] /\ wrote[t] \in Nat
      BY <2>5, <1>0, <1>a DEF Write, ContentInv, Holding
    <3>2. content' = [content EXCEPT ![held[t]] = [k \in 1..(wrote[t] + 1) |-> t]]
      BY <2>5, <3>1, <1>0, OneMoreWrite DEF Write
    <3>3. wrote' = [wrote EXCEPT ![t] = wrote[t] + 1] /\ pc[t] = "hash"
          /\ UNCHANGED <<pc, pool, held>>
      BY <2>5 DEF Write
    <3>4. wrote'[t] = wrote[t] + 1 /\ \A u \in Threads \ {t} : wrote'[u] = wrote[u]
      BY <3>3, <1>0
    <3> HIDE <2>5
    <3> QED BY <3>1, <3>2, <3>3, <3>4, <1>5 DEF Clean
  <2>6. CASE ReadRoot(t)
    BY <2>6, <1>1 DEF ReadRoot, Goto, Clean
  <2>7. CASE Reset(t)
    <3>1. held[t] \in Hashers
      BY <2>7, <1>a DEF Reset, Holding
    <3>2. /\ content' = [content EXCEPT ![held[t]] = <<>>]
          /\ UNCHANGED <<pool, held, wrote>>
      BY <2>7 DEF Reset
    <3>3. pc'[t] # "hash" /\ \A u \in Threads \ {t} : pc'[u] = pc[u]
      BY <2>7, <1>0 DEF Reset, Goto
    <3> HIDE <2>7
    <3> QED BY <3>1, <3>2, <3>3, <1>5
  <2>8. CASE LockToPush(t)
    BY <2>8, <1>1 DEF LockToPush, Acquire, Goto, Clean
  <2>9. CASE Push(t)
    BY <2>9, <1>2, <1>6 DEF Push, Release, Goto, Clean
  <2>10. CASE CompareCount(t)
    BY <2>10, <1>1, <1>2 DEF CompareCount, Release, Goto, Clean
  <2>11. CASE Add(t)
    BY <2>11, <1>6 DEF Add, Release, Goto, Clean
  <2> QED
    BY <1>9, <2>1, <2>2, <2>3, <2>4, <2>5, <2>6, <2>7, <2>8, <2>9, <2>10, <2>11 DEF Progress
<1>10. CASE UNCHANGED vars
  BY <1>10 DEF vars, ContentInv
<1> QED
  BY <1>7, <1>8, <1>9, <1>10 DEF Next

-----------------------------------------------------------------------------
(* The root of a call covers its own writes.                               *)

LEMMA NextRoot ==
  TypeOK /\ ContentInv /\ CallInv /\ RootIsOwn /\ [Next]_vars => RootIsOwn'
<1> SUFFICES ASSUME TypeOK, ContentInv, CallInv, RootIsOwn, [Next]_vars PROVE RootIsOwn'
  OBVIOUS
<1>0. wrote \in [Threads -> 0..MaxWrites] /\ result \in [Threads -> Seq(Threads)]
  BY DEF TypeOK
<1>1. CASE UNCHANGED <<wrote, result>>
  BY <1>1 DEF RootIsOwn
<1>2. ASSUME NEW t \in Threads, Begin(t) PROVE RootIsOwn'
  <2>1. result'[t] = <<>>
        /\ \A u \in Threads \ {t} : result'[u] = result[u] /\ wrote'[u] = wrote[u]
    BY <1>2, <1>0 DEF Begin
  <2> QED
    BY <2>1 DEF RootIsOwn
<1>3. ASSUME NEW t \in Threads, Write(t) PROVE RootIsOwn'
  <2>1. result' = result /\ result[t] = <<>> /\ \A u \in Threads \ {t} : wrote'[u] = wrote[u]
    BY <1>3, <1>0 DEF Write, CallInv
  <2> QED
    BY <2>1 DEF RootIsOwn
<1>4. ASSUME NEW t \in Threads, ReadRoot(t) PROVE RootIsOwn'
  <2>1. result'[t] = content[held[t]] /\ wrote' = wrote
        /\ \A u \in Threads \ {t} : result'[u] = result[u]
    BY <1>4, <1>0 DEF ReadRoot
  <2>2. content[held[t]] = [k \in 1..wrote[t] |-> t]
    BY <1>4 DEF ReadRoot, ContentInv
  <2> QED
    BY <2>1, <2>2 DEF RootIsOwn
<1> QED
  BY <1>1, <1>2, <1>3, <1>4
     DEF Next, vars, Fail, Progress, LockToPop, LockToPush, Acquire, Pop, TryTake, New, Reset,
         Push, CompareCount, Add

-----------------------------------------------------------------------------
(* The size of the pool.                                                   *)

LEMMA NextLockedBound == TypeOK /\ LockedPoolBound /\ [Next]_vars => LockedPoolBound'
<1> SUFFICES ASSUME TypeOK, LockedPoolBound, [Next]_vars, Locked PROVE PoolBound'
  BY RuntimeFixed DEF LockedPoolBound, Locked
<1>0. pool \in Seq(Hashers) /\ Len(pool) \in Nat /\ Len(pool) <= MaxPool
      /\ held \in [Threads -> Hashers \union {NoHasher}] /\ MaxPool \in Nat
  BY PoolAssumption DEF TypeOK, LockedPoolBound, PoolBound
<1>1. CASE pool' = pool
  BY <1>0, <1>1 DEF PoolBound
<1>2. ASSUME NEW t \in Threads, Pop(t) PROVE PoolBound'
  <2>1. CASE pool = <<>> BY <1>2, <2>1, <1>1 DEF Pop
  <2>2. CASE pool # <<>> BY <1>0, <1>2, <2>2, PopTakes DEF TakenAt, PoolBound
  <2> QED BY <2>1, <2>2
<1>3. ASSUME NEW t \in Threads, Push(t) PROVE PoolBound'
  <2>1. CASE Len(pool) < MaxPool
    <3>1. pool' = Append(pool, held[t]) /\ pool \in Seq(Hashers \union {NoHasher})
      BY <1>0, <1>3, <2>1 DEF Push
    <3>2. Len(pool') = Len(pool) + 1
      BY <1>0, <3>1, PutLast
    <3> QED BY <1>0, <2>1, <3>2 DEF PoolBound
  <2>2. CASE ~(Len(pool) < MaxPool) BY <1>3, <2>2, <1>1 DEF Push
  <2> QED BY <2>1, <2>2
\* A runtime with a lock never gets to add.
<1>4. ASSUME NEW t \in Threads, TryTake(t) \/ CompareCount(t) \/ Add(t) PROVE PoolBound'
  BY <1>4, <1>1, DisciplineOnly DEF TryTake, CompareCount, Add, TypeOK
<1> QED
  BY <1>1, <1>2, <1>3, <1>4
     DEF Next, vars, Begin, Fail, Progress, LockToPop, LockToPush, Acquire, New, Write,
         ReadRoot, Reset

LEMMA BusyFinite ==
  /\ Busy \subseteq Threads /\ IsFiniteSet(Busy)
  /\ Cardinality(Busy) \in Nat /\ Cardinality(Threads) \in Nat
  /\ Cardinality(Busy) <= Cardinality(Threads)
<1>1. IsFiniteSet(Threads) /\ Busy \subseteq Threads
  BY PoolAssumption DEF Busy
<1> QED
  BY <1>1, FS_Subset, FS_CardinalityType

LEMMA NextBusy == TypeOK /\ HeldInv /\ BusyInv /\ [Next]_vars => BusyInv'
<1> SUFFICES ASSUME TypeOK, HeldInv, BusyInv, [Next]_vars
             PROVE  Len(pool') + Cardinality(Busy') <= Cardinality(Threads)
  BY DEF BusyInv
<1>0. /\ pool \in Seq(Hashers) /\ Len(pool) \in Nat
      /\ held \in [Threads -> Hashers \union {NoHasher}] /\ pc \in [Threads -> Discipline]
  BY DEF TypeOK
<1>1. Len(pool) + Cardinality(Busy) <= Cardinality(Threads)
  BY DEF BusyInv
<1> DEFINE Works == {"new"} \union Holding
<1>2. CASE pool' = pool /\ Busy' = Busy
  BY <1>1, <1>2
\* The thread stays busy, or stays idle.
<1>3. ASSUME NEW t \in Threads, NEW to, pc[t] \in Works <=> to \in Works,
             pc' = [pc EXCEPT ![t] = to]
      PROVE  Busy' = Busy
  BY <1>3, <1>0 DEF Busy
\* The thread becomes busy.
<1>4. ASSUME NEW t \in Threads, NEW to, pc[t] \notin Works, to \in Works,
             pc' = [pc EXCEPT ![t] = to]
      PROVE  Cardinality(Busy') = Cardinality(Busy) + 1 /\ Cardinality(Busy') <= Cardinality(Threads)
  <2>1. Busy' = Busy \union {t} /\ t \notin Busy
    BY <1>4, <1>0 DEF Busy
  <2>2. Cardinality(Busy') = Cardinality(Busy) + 1
    BY <2>1, BusyFinite, FS_AddElement
  <2>3. Busy' \subseteq Threads
    BY DEF Busy
  <2> QED BY <2>2, <2>3, PoolAssumption, FS_Subset
\* The thread becomes idle.
<1>5. ASSUME NEW t \in Threads, pc[t] \in Works, pc' = [pc EXCEPT ![t] = "idle"]
      PROVE  Cardinality(Busy') = Cardinality(Busy) - 1
  <2>1. Busy' = Busy \ {t} /\ t \in Busy
    BY <1>5, <1>0 DEF Busy, Holding, Clean
  <2> QED BY <2>1, BusyFinite, FS_RemoveElement
<1>6. ASSUME NEW t \in Threads, NEW i \in 1..Len(pool), TakenAt(i), pc[t] \notin Works,
             pc' = [pc EXCEPT ![t] = "hash"]
      PROVE  Len(pool') + Cardinality(Busy') <= Cardinality(Threads)
  <2>1. Cardinality(Busy') = Cardinality(Busy) + 1
    BY <1>6, <1>4 DEF Holding
  <2>2. Len(pool') = Len(pool) - 1
    BY <1>6 DEF TakenAt
  <2> QED BY <1>0, <1>1, <2>1, <2>2, BusyFinite
\* The pool is empty, so all hashers are with busy threads.
<1>7. ASSUME NEW t \in Threads, pool = <<>>, pool' = pool, pc[t] \notin Works,
             pc' = [pc EXCEPT ![t] = "new"]
      PROVE  Len(pool') + Cardinality(Busy') <= Cardinality(Threads)
  <2>1. Cardinality(Busy') <= Cardinality(Threads) /\ Cardinality(Busy') = Cardinality(Busy) + 1
    BY <1>7, <1>4
  <2>2. Len(pool') = 0
    BY <1>7
  <2> QED BY <2>1, <2>2, BusyFinite
<1>8. ASSUME NEW t \in Threads, pc[t] \in Clean, pc' = [pc EXCEPT ![t] = "idle"],
             pool' = pool \/ pool' = Append(pool, held[t])
      PROVE  Len(pool') + Cardinality(Busy') <= Cardinality(Threads)
  <2>1. Cardinality(Busy') = Cardinality(Busy) - 1
    BY <1>8, <1>5 DEF Holding
  <2>2. held[t] \in Hashers
    BY <1>8, <1>0 DEF HeldInv, Holding
  <2>3. Len(pool') \in {Len(pool), Len(pool) + 1}
    BY <1>8, <1>0, <2>2, PutLast
  <2> QED BY <1>0, <1>1, <2>1, <2>3, BusyFinite
<1>9. ASSUME NEW t \in Threads, Begin(t) \/ Fail(t)
      PROVE  Len(pool') + Cardinality(Busy') <= Cardinality(Threads)
  <2>1. CASE Begin(t) BY <2>1, <1>2, <1>3 DEF Begin, Goto, Holding, Clean
  <2>2. CASE Fail(t) /\ Goto(t, "reset") BY <2>2, <1>2, <1>3 DEF Fail, Goto, Holding
  <2>3. CASE Fail(t) /\ Goto(t, "idle")
    <3>1. Cardinality(Busy') = Cardinality(Busy) - 1
      BY <2>3, <1>5 DEF Fail, Goto, Holding
    <3>2. pool' = pool
      BY <2>3 DEF Fail
    <3> QED BY <1>0, <1>1, <3>1, <3>2, BusyFinite
  <2> QED BY <1>9, <2>1, <2>2, <2>3 DEF Fail
<1>10. ASSUME NEW t \in Threads, Progress(t)
       PROVE  Len(pool') + Cardinality(Busy') <= Cardinality(Threads)
  <2>1. CASE LockToPop(t)
    BY <2>1, <1>2, <1>3 DEF LockToPop, Acquire, Goto, Holding, Clean
  <2>2. CASE Pop(t)
    <3>1. pc[t] \notin Works
      BY <2>2 DEF Pop, Holding, Clean
    <3>2. CASE pool = <<>> BY <2>2, <3>1, <3>2, <1>7 DEF Pop, Goto
    <3>3. CASE pool # <<>> BY <2>2, <3>1, <3>3, <1>6, PopTakes
    <3> QED BY <3>2, <3>3
  <2>3. CASE TryTake(t)
    <3>1. pc[t] \notin Works
      BY <2>3 DEF TryTake, Holding, Clean
    <3>2. CASE pool = <<>> /\ pool' = pool /\ pc' = [pc EXCEPT ![t] = "new"]
      BY <3>1, <3>2, <1>7
    <3> QED BY <2>3, <3>1, <3>2, <1>6, TryTakeTakes
  <2>4. CASE New(t) BY <2>4, <1>2, <1>3 DEF New, Goto, Holding
  <2>5. CASE Write(t) BY <2>5, <1>2 DEF Write, Busy
  <2>6. CASE ReadRoot(t) BY <2>6, <1>2, <1>3 DEF ReadRoot, Goto, Holding
  <2>7. CASE Reset(t) BY <2>7, <1>2, <1>3 DEF Reset, Goto, Holding, Clean
  <2>8. CASE LockToPush(t) BY <2>8, <1>2, <1>3 DEF LockToPush, Acquire, Goto, Holding, Clean
  <2>9. CASE Push(t) BY <2>9, <1>8 DEF Push, Goto, Clean
  <2>10. CASE CompareCount(t)
    <3>1. CASE Len(pool) < MaxPool BY <2>10, <3>1, <1>2, <1>3 DEF CompareCount, Goto, Holding, Clean
    <3>2. CASE ~(Len(pool) < MaxPool) BY <2>10, <3>2, <1>8 DEF CompareCount, Goto, Clean
    <3> QED BY <3>1, <3>2
  <2>11. CASE Add(t) BY <2>11, <1>8 DEF Add, Goto, Clean
  <2> QED
    BY <1>10, <2>1, <2>2, <2>3, <2>4, <2>5, <2>6, <2>7, <2>8, <2>9, <2>10, <2>11 DEF Progress
<1> QED
  <2>1. CASE UNCHANGED vars BY <2>1, <1>2 DEF vars, Busy
  <2> QED BY <2>1, <1>9, <1>10 DEF Next

-----------------------------------------------------------------------------
(* The invariant of the pool, and what follows from it.                    *)

LEMMA InitInv == Init => PoolInv
<1> SUFFICES ASSUME Init PROVE PoolInv
  OBVIOUS
<1>1. TypeOK
  BY InitType
<1>2. LockInv /\ HeldInv /\ CallInv
  BY PoolAssumption DEF Init, LockInv, HeldInv, CallInv, Holding, Clean
<1>3. Len(pool) = 0 /\ pool = <<>> /\ MaxPool \in Nat
  BY PoolAssumption DEF Init
<1>4. Exclusive
  BY <1>3 DEF Init, Exclusive, InPool
<1>5. ContentInv
  BY <1>3 DEF Init, ContentInv, Clean
<1>6. RootIsOwn
  BY DEF Init, RootIsOwn
<1>7. LockedPoolBound
  BY <1>3 DEF LockedPoolBound, PoolBound
<1>8. BusyInv
  <2>1. Busy = {}
    BY DEF Init, Busy, Holding, Clean
  <2>2. Cardinality(Busy) = 0 /\ Cardinality(Threads) \in Nat
    BY <2>1, FS_EmptySet, BusyFinite
  <2> QED BY <2>2, <1>3 DEF BusyInv
<1> QED
  BY <1>1, <1>2, <1>4, <1>5, <1>6, <1>7, <1>8 DEF PoolInv

LEMMA NextInv == PoolInv /\ [Next]_vars => PoolInv'
BY NextType, NextLock, NextHeld, NextExclusive, NextContent, NextCall, NextRoot,
   NextLockedBound, NextBusy
   DEF PoolInv

\* Every reachable state satisfies the inductive invariant.
THEOREM PoolInvariant == Spec => []PoolInv
<1>1. Init => PoolInv
  BY InitInv
<1>2. PoolInv /\ [Next]_vars => PoolInv'
  BY NextInv
<1> QED
  BY <1>1, <1>2, PTL DEF Spec

\* Types, and no runtime leaves its own get/put discipline.
THEOREM TypeCorrect == Spec => []TypeOK
<1>1. PoolInv => TypeOK
  BY DEF PoolInv
<1> QED
  BY <1>1, PoolInvariant, PTL

\* HasherPool.get never hands out a hasher that someone else has or that is
\* still in the pool: under the mutex of Rust, Java, Zig and Nim, and with
\* the atomic TryTake of C#.
THEOREM HashersExclusive == Spec => []Exclusive
<1>1. PoolInv => Exclusive
  BY DEF PoolInv
<1> QED
  BY <1>1, PoolInvariant, PTL

\* tree_hash_root returns the root of its own value, whatever other threads
\* do and however earlier calls with the same hasher ended.
THEOREM RootsAreOwn == Spec => []RootIsOwn
<1>1. PoolInv => RootIsOwn
  BY DEF PoolInv
<1> QED
  BY <1>1, PoolInvariant, PTL

\* A put that compares and pushes under the mutex never exceeds the maximum.
THEOREM LockedPoolBounded == Spec => []LockedPoolBound
<1>1. PoolInv => LockedPoolBound
  BY DEF PoolInv
<1> QED
  BY <1>1, PoolInvariant, PTL

\* There are at most as many hashers as threads, so the pool of C# cannot
\* grow beyond that either.
THEOREM HashersAreBounded == Spec => []HashersBounded
<1>1. PoolInv => HashersBounded
  <2> SUFFICES ASSUME PoolInv PROVE HashersBounded
    OBVIOUS
  <2> DEFINE H == {t \in Threads : held[t] # NoHasher}
  <2>1. H \subseteq Busy
    BY DEF PoolInv, HeldInv, Busy
  <2>2. Cardinality(H) \in Nat /\ Cardinality(H) <= Cardinality(Busy)
    BY <2>1, BusyFinite, FS_Subset, FS_CardinalityType
  <2>3. Len(pool) \in Nat /\ Len(pool) + Cardinality(Busy) <= Cardinality(Threads)
    BY DEF PoolInv, TypeOK, BusyInv
  <2> QED BY <2>2, <2>3, BusyFinite DEF HashersBounded
<1> QED
  BY <1>1, PoolInvariant, PTL
=============================================================================
