----------------------------- MODULE HasherPool -----------------------------
(***************************************************************************)
(* The pool of idle hashers that concurrent calls of tree_hash_root share. *)
(* A call takes a hasher from the pool, or makes one when the pool is      *)
(* empty, writes its value into it, reads the root, and gives the hasher   *)
(* back: reset, and dropped when the pool is full.                         *)
(*                                                                         *)
(* The runtimes differ in two ways.  Rust, Java, Zig and Nim guard a stack *)
(* with a mutex, and compare the size and push under it; C# uses a         *)
(* concurrent bag, whose operations are atomic one by one, and the         *)
(* comparison and the insertion are two of them.                           *)
(*                                                                         *)
(* What becomes of the hasher of a call that fails is up to the caller.  A *)
(* generated method of Rust unwinds and drops it; one of Nim puts it back  *)
(* from a defer clause, whatever it contains, and Nim resets what it takes *)
(* once more.  The generated methods of Java, C# and Zig make a hasher of  *)
(* their own: there the caller is any user of the public class, who may    *)
(* put the hasher back or lose it.                                         *)
(* TypeScript has one thread and puts back from a finally clause: its runs *)
(* are those of Nim in which no two calls overlap.                         *)
(***************************************************************************)
EXTENDS Naturals, Sequences, FiniteSets

CONSTANTS
  Threads,      (* The threads that hash.                                   *)
  Hashers,      (* The Hasher objects that memory can hold.                 *)
  NoThread,     (* The holder of a free lock.                               *)
  NoHasher,     (* What a thread outside a call holds.                      *)
  MaxPool,      (* Capacity of the pool; 16 in the code.                    *)
  Runtimes,     (* The runtimes considered.                                 *)
  MaxWrites,    (* Bound on the writes of one call.                         *)
  MaxCalls      (* Bound on the calls of one thread.                        *)

ASSUME PoolAssumption ==
  /\ IsFiniteSet(Threads) /\ NoThread \notin Threads
  /\ NoHasher \notin Hashers
  /\ MaxPool \in Nat /\ MaxWrites \in Nat /\ MaxCalls \in Nat
  /\ Runtimes \subseteq {"rust", "java", "zig", "nim", "csharp"}

VARIABLES
  runtime,  (* The runtime, fixed.                                          *)
  pool,     (* The idle hashers, in the order they were put back.           *)
  lock,     (* The thread that holds the mutex.                             *)
  pc,       (* Where each thread is in its call.                            *)
  held,     (* The hasher each thread has.                                  *)
  content,  (* The buffer of each hasher: who wrote it, write by write.     *)
  wrote,    (* History: the number of writes of each thread's last call.    *)
  result,   (* The root each thread's last call read, as what it covers.    *)
  calls     (* The calls each thread has begun.                             *)

vars == <<runtime, pool, lock, pc, held, content, wrote, result, calls>>

Locked == runtime # "csharp"          \* a mutex guards the pool
LosesOnFailure == runtime # "nim"     \* a failing call may lose its hasher
ReturnsOnFailure == runtime # "rust"  \* a failing call may still put it back

Steps == {"idle", "get", "pop", "new", "hash", "reset", "put", "push", "count", "add"}

\* The steps of the runtime's own discipline.
Discipline == IF Locked THEN Steps \ {"count", "add"} ELSE Steps \ {"pop", "put", "push"}

Goto(t, step) == pc' = [pc EXCEPT ![t] = step]

InPool(h) == \E i \in 1..Len(pool) : pool[i] = h
Live(h) == InPool(h) \/ \E t \in Threads : held[t] = h

Init ==
  /\ runtime \in Runtimes
  /\ pool = <<>>
  /\ lock = NoThread
  /\ pc = [t \in Threads |-> "idle"]
  /\ held = [t \in Threads |-> NoHasher]
  /\ content = [h \in Hashers |-> <<>>]
  /\ wrote = [t \in Threads |-> 0]
  /\ result = [t \in Threads |-> <<>>]
  /\ calls = [t \in Threads |-> 0]

-----------------------------------------------------------------------------
(* get()                                                                   *)

Begin(t) ==
  /\ pc[t] = "idle" /\ calls[t] < MaxCalls
  /\ Goto(t, "get")
  /\ calls' = [calls EXCEPT ![t] = @ + 1]
  /\ wrote' = [wrote EXCEPT ![t] = 0]
  /\ result' = [result EXCEPT ![t] = <<>>]
  /\ UNCHANGED <<runtime, pool, lock, held, content>>

Acquire(t, before, after) ==
  /\ pc[t] = before /\ Locked /\ lock = NoThread
  /\ lock' = t
  /\ Goto(t, after)
  /\ UNCHANGED <<runtime, pool, held, content, wrote, result, calls>>

LockToPop(t) == Acquire(t, "get", "pop")

\* Faulty: a new hasher while others are idle.
PopNothing(t) ==
  /\ pc[t] = "pop"
  /\ Goto(t, "new")
  /\ lock' = NoThread
  /\ UNCHANGED <<runtime, pool, held, content, wrote, result, calls>>

\* Faulty: the hasher stays in the pool.
Peek(t) ==
  /\ pc[t] = "pop"
  /\ IF pool = <<>>
     THEN Goto(t, "new") /\ UNCHANGED held
     ELSE Goto(t, "hash") /\ held' = [held EXCEPT ![t] = pool[Len(pool)]]
  /\ lock' = NoThread
  /\ UNCHANGED <<runtime, pool, content, wrote, result, calls>>

\* The hasher put back last is taken; the lock is released in either case.
\* Nim resets it after the release, when no one else can have it.
Pop(t) ==
  /\ pc[t] = "pop"
  /\ IF pool = <<>>
     THEN /\ Goto(t, "new")
          /\ UNCHANGED <<pool, held>>
     ELSE /\ held' = [held EXCEPT ![t] = pool[Len(pool)]]
          /\ pool' = SubSeq(pool, 1, Len(pool) - 1)
          /\ Goto(t, "hash")
  /\ lock' = NoThread
  /\ content' = IF runtime = "nim" /\ pool # <<>>
                THEN [content EXCEPT ![pool[Len(pool)]] = <<>>] ELSE content
  /\ UNCHANGED <<runtime, wrote, result, calls>>

\* A bag gives any of its elements.
Without(i) == [k \in 1..(Len(pool) - 1) |-> IF k < i THEN pool[k] ELSE pool[k + 1]]

TryTake(t) ==
  /\ pc[t] = "get" /\ ~Locked
  /\ \/ /\ pool = <<>>
        /\ Goto(t, "new")
        /\ UNCHANGED <<pool, held>>
     \/ \E i \in 1..Len(pool) :
          /\ held' = [held EXCEPT ![t] = pool[i]]
          /\ pool' = Without(i)
          /\ Goto(t, "hash")
  /\ UNCHANGED <<runtime, lock, content, wrote, result, calls>>

New(t) ==
  /\ pc[t] = "new"
  /\ \E h \in Hashers :
       /\ ~Live(h)
       /\ held' = [held EXCEPT ![t] = h]
       /\ content' = [content EXCEPT ![h] = <<>>]
  /\ Goto(t, "hash")
  /\ UNCHANGED <<runtime, pool, lock, wrote, result, calls>>

-----------------------------------------------------------------------------
(* The call's own work, with the hasher to itself.                         *)

Write(t) ==
  /\ pc[t] = "hash" /\ wrote[t] < MaxWrites
  /\ content' = [content EXCEPT ![held[t]] = Append(@, t)]
  /\ wrote' = [wrote EXCEPT ![t] = @ + 1]
  /\ UNCHANGED <<runtime, pool, lock, pc, held, result, calls>>

\* finish() reads the root.
ReadRoot(t) ==
  /\ pc[t] = "hash" /\ wrote[t] = MaxWrites
  /\ result' = [result EXCEPT ![t] = content[held[t]]]
  /\ Goto(t, "reset")
  /\ UNCHANGED <<runtime, pool, lock, held, content, wrote, calls>>

\* The value violates an assertion, or a slice is out of range.
Fail(t) ==
  /\ pc[t] = "hash"
  /\ \/ /\ ReturnsOnFailure
        /\ Goto(t, "reset")
        /\ UNCHANGED held
     \/ /\ LosesOnFailure
        /\ Goto(t, "idle")
        /\ held' = [held EXCEPT ![t] = NoHasher]
  /\ UNCHANGED <<runtime, pool, lock, content, wrote, result, calls>>

-----------------------------------------------------------------------------
(* put()                                                                   *)

\* Faulty: the buffer keeps its content.
ResetNothing(t) ==
  /\ pc[t] = "reset"
  /\ Goto(t, IF Locked THEN "put" ELSE "count")
  /\ UNCHANGED <<runtime, pool, lock, held, content, wrote, result, calls>>

\* Faulty: every runtime goes on to its mutex.
ResetToLock(t) ==
  /\ pc[t] = "reset"
  /\ content' = [content EXCEPT ![held[t]] = <<>>]
  /\ Goto(t, "put")
  /\ UNCHANGED <<runtime, pool, lock, held, wrote, result, calls>>

Reset(t) ==
  /\ pc[t] = "reset"
  /\ content' = [content EXCEPT ![held[t]] = <<>>]
  /\ Goto(t, IF Locked THEN "put" ELSE "count")
  /\ UNCHANGED <<runtime, pool, lock, held, wrote, result, calls>>

LockToPush(t) == Acquire(t, "put", "push")

Release(t) == held' = [held EXCEPT ![t] = NoHasher]

\* Faulty: pushes without comparing.
PushAlways(t) ==
  /\ pc[t] = "push"
  /\ pool' = Append(pool, held[t])
  /\ lock' = NoThread
  /\ Release(t)
  /\ Goto(t, "idle")
  /\ UNCHANGED <<runtime, content, wrote, result, calls>>

\* Faulty: does not unlock.
PushLocked(t) ==
  /\ pc[t] = "push"
  /\ pool' = IF Len(pool) < MaxPool THEN Append(pool, held[t]) ELSE pool
  /\ Release(t)
  /\ Goto(t, "idle")
  /\ UNCHANGED <<runtime, lock, content, wrote, result, calls>>

Push(t) ==
  /\ pc[t] = "push"
  /\ pool' = IF Len(pool) < MaxPool THEN Append(pool, held[t]) ELSE pool
  /\ lock' = NoThread
  /\ Release(t)
  /\ Goto(t, "idle")
  /\ UNCHANGED <<runtime, content, wrote, result, calls>>

CompareCount(t) ==
  /\ pc[t] = "count"
  /\ IF Len(pool) < MaxPool
     THEN Goto(t, "add") /\ UNCHANGED held
     ELSE Goto(t, "idle") /\ Release(t)
  /\ UNCHANGED <<runtime, pool, lock, content, wrote, result, calls>>

Add(t) ==
  /\ pc[t] = "add"
  /\ pool' = Append(pool, held[t])
  /\ Release(t)
  /\ Goto(t, "idle")
  /\ UNCHANGED <<runtime, lock, content, wrote, result, calls>>

-----------------------------------------------------------------------------
Progress(t) ==
  \/ LockToPop(t) \/ Pop(t) \/ TryTake(t) \/ New(t)
  \/ Write(t) \/ ReadRoot(t)
  \/ Reset(t) \/ LockToPush(t) \/ Push(t) \/ CompareCount(t) \/ Add(t)

Next == \E t \in Threads : Begin(t) \/ Progress(t) \/ Fail(t)

\* Scheduling: a thread inside a call keeps being scheduled.  Threads may
\* stop calling, and no call has to fail.
Fairness == \A t \in Threads : WF_vars(Progress(t))

Spec == Init /\ [][Next]_vars
FairSpec == Spec /\ Fairness

-----------------------------------------------------------------------------
(* Properties.                                                             *)

\* Types, and the value of the program counter that each discipline allows.
TypeOK ==
  /\ runtime \in Runtimes
  /\ pool \in Seq(Hashers)
  /\ lock \in Threads \union {NoThread}
  /\ pc \in [Threads -> Discipline]
  /\ held \in [Threads -> Hashers \union {NoHasher}]
  /\ content \in [Hashers -> Seq(Threads)]
  /\ wrote \in [Threads -> 0..MaxWrites]
  /\ result \in [Threads -> Seq(Threads)]
  /\ calls \in [Threads -> 0..MaxCalls]

\* No hasher is in two hands: not held by two threads, not held while it is
\* idle in the pool, not in the pool twice.
Exclusive ==
  /\ \A t, u \in Threads : held[t] # NoHasher /\ held[t] = held[u] => t = u
  /\ \A t \in Threads : ~InPool(held[t])
  /\ \A i, j \in 1..Len(pool) : pool[i] = pool[j] => i = j

\* The root a call reads covers exactly what that call wrote: nothing of
\* another thread's value, and nothing left over from an earlier or failed
\* call that used the same hasher.
RootIsOwn ==
  \A t \in Threads : result[t] # <<>> => result[t] = [k \in 1..wrote[t] |-> t]

\* The pool never holds more hashers than its declared maximum.
PoolBound == Len(pool) <= MaxPool
LockedPoolBound == Locked => PoolBound

\* There are never more hashers than threads: one is made only when the pool
\* was empty, that is, when every other hasher was in the hands of another
\* thread.  It bounds the memory of all runtimes, and the pool of C#, which
\* does not keep to its maximum.
HashersBounded ==
  Len(pool) + Cardinality({t \in Threads : held[t] # NoHasher}) <= Cardinality(Threads)

\* Every call returns: no thread waits for the lock for ever, and no call
\* is left without a hasher.
CallsReturn == \A t \in Threads : pc[t] # "idle" ~> pc[t] = "idle"
=============================================================================
