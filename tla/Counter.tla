------------------------------ MODULE Counter ------------------------------
(***************************************************************************)
(* p2/exp1/counter.c: the threads of thread_func add to the_counter under  *)
(* a pthread mutex (--sync m), a pthread spinlock (--sync s), a            *)
(* compare-and-swap loop (--sync c) or nothing at all.  A load and a store *)
(* of the_counter are separate steps, as they are in add().                *)
(***************************************************************************)
EXTENDS Integers, FiniteSets

CONSTANTS Threads, Iterations, NoThread

ASSUME CounterAssumption == IsFiniteSet(Threads) /\ Iterations \in Nat

ASSUME NoThreadAssumption == NoThread \notin Threads

VARIABLES sync,         \* the synchronization chosen on the command line
          the_counter,
          holder,       \* who holds the mutex or the spinlock
          pc,           \* thread -> where it is in add_iterate
          i,            \* thread -> loop iterations completed, of both loops
          local,        \* thread -> sum of add(), or oldVal of the CAS loop
          joined        \* main is past its pthread_join loop

vars == <<sync, the_counter, holder, pc, i, local, joined>>

Additions == 2 * Iterations

Locks == {"m", "s"}

\* The val a thread is adding: 1 in its first loop, -1 in its second.
Val(t) == IF i[t] < Iterations THEN 1 ELSE -1

\* the start of thread_func, for a thread that main has created or will create
Init ==
  /\ sync \in {"m", "s", "c", "none"}
  /\ the_counter = 0
  /\ holder = NoThread
  /\ pc = [t \in Threads |-> "loop"]
  /\ i = [t \in Threads |-> 0]
  /\ local = [t \in Threads |-> 0]
  /\ joined = FALSE

Goto(t, from, to) == pc[t] = from /\ pc' = [pc EXCEPT ![t] = to]

\* Mutant: the loops run one iteration too many.
Looping_over(t) == i[t] <= Additions

Looping(t) == i[t] < Additions

\* Mutant: the lock is taken though another thread holds it.
Lock_busy(t) ==
  /\ sync \in Locks
  /\ Looping(t)
  /\ Goto(t, "loop", "locked")
  /\ holder' = t
  /\ UNCHANGED <<sync, the_counter, i, local, joined>>

\* pthread_mutex_lock or pthread_spin_lock
Lock(t) ==
  /\ sync \in Locks
  /\ Looping(t)
  /\ holder = NoThread
  /\ Goto(t, "loop", "locked")
  /\ holder' = t
  /\ UNCHANGED <<sync, the_counter, i, local, joined>>

\* Mutant: one thread adds twice the value.
Load_twice(t) ==
  /\ IF sync \in Locks
     THEN Goto(t, "locked", "store")
     ELSE sync = "none" /\ Looping(t) /\ Goto(t, "loop", "store")
  /\ local' = [local EXCEPT ![t] = the_counter + 2 * Val(t)]
  /\ UNCHANGED <<sync, the_counter, holder, i, joined>>

\* long long sum = *pointer + value
Load(t) ==
  /\ IF sync \in Locks
     THEN Goto(t, "locked", "store")
     ELSE sync = "none" /\ Looping(t) /\ Goto(t, "loop", "store")
  /\ local' = [local EXCEPT ![t] = the_counter + Val(t)]
  /\ UNCHANGED <<sync, the_counter, holder, i, joined>>

\* *pointer = sum
Store(t) ==
  /\ the_counter' = local[t]
  /\ IF sync \in Locks
     THEN Goto(t, "store", "unlock") /\ UNCHANGED i
     ELSE Goto(t, "store", "loop") /\ i' = [i EXCEPT ![t] = @ + 1]
  /\ UNCHANGED <<sync, holder, local, joined>>

\* Mutant: the path out of the critical section that forgets the unlock.
Unlock_kept(t) ==
  /\ Goto(t, "unlock", "loop")
  /\ i' = [i EXCEPT ![t] = @ + 1]
  /\ UNCHANGED <<sync, the_counter, holder, local, joined>>

\* pthread_mutex_unlock or pthread_spin_unlock, and i++
Unlock(t) ==
  /\ Goto(t, "unlock", "loop")
  /\ holder' = NoThread
  /\ i' = [i EXCEPT ![t] = @ + 1]
  /\ UNCHANGED <<sync, the_counter, local, joined>>

\* Mutant: oldVal is not read anew for each addition.
ReadOld_once(t) ==
  /\ sync = "c"
  /\ Looping(t)
  /\ Goto(t, "loop", "cas")
  /\ UNCHANGED <<sync, the_counter, holder, i, local, joined>>

\* __atomic_store_n(&oldVal, the_counter, ...): the read of the_counter
ReadOld(t) ==
  /\ sync = "c"
  /\ Looping(t)
  /\ Goto(t, "loop", "cas")
  /\ local' = [local EXCEPT ![t] = the_counter]
  /\ UNCHANGED <<sync, the_counter, holder, i, joined>>

\* Mutant: the_counter = newVal without the comparison, the code that counter.c
\* carries commented out.
CasSwap_blind(t) ==
  /\ Goto(t, "cas", "loop")
  /\ the_counter' = local[t] + Val(t)
  /\ i' = [i EXCEPT ![t] = @ + 1]
  /\ UNCHANGED <<sync, holder, local, joined>>

\* __atomic_compare_exchange_n succeeds, and the while loop ends
CasSwap(t) ==
  /\ the_counter = local[t]
  /\ Goto(t, "cas", "loop")
  /\ the_counter' = local[t] + Val(t)
  /\ i' = [i EXCEPT ![t] = @ + 1]
  /\ UNCHANGED <<sync, holder, local, joined>>

\* ... or fails, which leaves the value it found in oldVal
CasRetry(t) ==
  /\ pc[t] = "cas"
  /\ the_counter # local[t]
  /\ local' = [local EXCEPT ![t] = the_counter]
  /\ UNCHANGED <<sync, the_counter, holder, pc, i, joined>>

Return(t) ==
  /\ ~Looping(t)
  /\ Goto(t, "loop", "done")
  /\ UNCHANGED <<sync, the_counter, holder, i, local, joined>>

\* Mutant: main joins only the threads that left their first loop.
Join_early ==
  /\ ~joined
  /\ \A t \in Threads : i[t] >= Iterations
  /\ joined' = TRUE
  /\ UNCHANGED <<sync, the_counter, holder, pc, i, local>>

\* main: pthread_join of every thread
Join ==
  /\ ~joined
  /\ \A t \in Threads : pc[t] = "done"
  /\ joined' = TRUE
  /\ UNCHANGED <<sync, the_counter, holder, pc, i, local>>

Thread(t) == \/ Lock(t) \/ Load(t) \/ Store(t) \/ Unlock(t)
             \/ ReadOld(t) \/ CasSwap(t) \/ CasRetry(t)
             \/ Return(t)

\* main has printed the result: nothing more happens.
Exited == joined /\ UNCHANGED vars

Next == (\E t \in Threads : Thread(t)) \/ Join \/ Exited

Spec == Init /\ [][Next]_vars

\* The threads are preemptively scheduled, and each is given CPU time.
FairSpec == Spec /\ (\A t \in Threads : WF_vars(Thread(t))) /\ WF_vars(Join)

-----------------------------------------------------------------------------
TypeOK ==
  /\ sync \in {"m", "s", "c", "none"}
  /\ the_counter \in Int
  /\ holder \in Threads \cup {NoThread}
  /\ pc \in [Threads -> {"loop", "locked", "store", "unlock", "cas", "done"}]
  /\ i \in [Threads -> 0 .. Additions]
  /\ local \in [Threads -> Int]
  /\ joined \in BOOLEAN

\* An addition takes effect at the store or at the swap that publishes it,
\* before the loop counter moves on.
finished == [t \in Threads |-> IF pc[t] = "unlock" THEN i[t] + 1 ELSE i[t]]

Atomic == INSTANCE AtomicCounter

Synchronized == sync # "none"

\* Under each of the three kinds of synchronization the additions of
\* add_iterate take effect one at a time, none lost and none repeated.
ImplementsAtomic ==
  Atomic!Init /\ [][Synchronized => [Atomic!Next]_(Atomic!vars)]_vars

\* The counter is what the additions that took effect sum to.
Summed == the_counter = Cardinality(Atomic!Ups) - Cardinality(Atomic!Downs)

\* No addition is lost and none counts twice, at every step of a synchronized
\* run.
Exact == Synchronized => Summed

\* The counter that main prints after the joins of a synchronized run is 0.
ZeroAtJoin == Synchronized /\ joined => the_counter = 0

\* Without synchronization updates are lost, but never beyond the work done:
\* each stored value is a chain of additions that really happened, so
\* the_counter stays within the number of +1s and of -1s of all threads.
DriftBound == LET most == Cardinality(Threads) * Iterations
              IN  the_counter \in -most .. most

\* The counter is no longer what t has read for its swap.
Stale(t) == pc[t] = "cas" /\ local[t] # the_counter

Overtaken ==
  \A t \in Threads : ~ Stale(t) /\ Stale(t)' =>
    \E u \in Threads : u # t /\ i'[u] = i[u] + 1

\* The CAS loop goes round again only when another thread's addition has gone
\* through since the read: a swap never fails for nothing.
RetriesPaid == [][Overtaken]_vars

\* Every thread gets through its additions, whatever the others do, so that
\* main returns from its joins: the CAS loop retries only when another
\* thread's addition went through, and the lock is always given back.
Joins == <>joined
=============================================================================
