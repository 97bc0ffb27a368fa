--------------------------- MODULE Counter_proofs ---------------------------
(***************************************************************************)
(* Proofs about Counter: the synchronized program implements AtomicCounter *)
(* for every number of threads and iterations, and ends with the counter   *)
(* at 0; nobody waits for ever for a lock, and the CAS loop is lock-free.  *)
(***************************************************************************)
EXTENDS Counter, FiniteSetTheorems, FunctionTheorems, TLAPS

InSection == {"locked", "store", "unlock"}

\* The lock is held by the one thread inside the critical section.
LockInv == \A t \in Threads :
             /\ sync \in Locks => (pc[t] \in InSection <=> holder = t)
             /\ sync = "c" => pc[t] \notin InSection
             /\ sync = "none" => pc[t] \notin {"locked", "unlock"}
             /\ pc[t] = "cas" => sync = "c"

\* What a thread has loaded inside the critical section is still current.
LoadInv == \A t \in Threads :
             Synchronized /\ pc[t] = "store" => local[t] = the_counter + Val(t)

\* A thread that is in the middle of an addition has one to make.
WorkInv == \A t \in Threads :
             /\ pc[t] \in InSection \cup {"cas"} => i[t] < Additions
             /\ pc[t] = "done" => i[t] = Additions

JoinInv == joined => \A t \in Threads : pc[t] = "done"

\* The strengthening that makes Exact inductive.
IInv == TypeOK /\ LockInv /\ LoadInv /\ WorkInv /\ JoinInv

-----------------------------------------------------------------------------
LEMMA AdditionsNat == Additions \in Nat /\ Iterations \in Nat
BY CounterAssumption DEF Additions, CounterAssumption

LEMMA InvInit == Init => IInv
<1> SUFFICES ASSUME Init
             PROVE  IInv
  OBVIOUS
<1> USE DEF Init
<1>1. TypeOK
  <2>1. 0 \in 0 .. Additions
    BY AdditionsNat
  <2>2. sync \in {"m", "s", "c", "none"} /\ joined \in BOOLEAN
    OBVIOUS
  <2>3. holder \in Threads \cup {NoThread} /\ the_counter \in Int
    OBVIOUS
  <2>4. /\ pc \in [Threads -> {"loop", "locked", "store", "unlock", "cas", "done"}]
        /\ i \in [Threads -> 0 .. Additions]
        /\ local \in [Threads -> Int]
    BY <2>1
  <2> QED
    BY <2>2, <2>3, <2>4 DEF TypeOK
<1>2. LockInv
  BY NoThreadAssumption DEF LockInv, Locks, InSection, NoThreadAssumption
<1>3. LoadInv /\ WorkInv /\ JoinInv
  BY DEF LoadInv, WorkInv, JoinInv, InSection
<1> QED
  BY <1>1, <1>2, <1>3 DEF IInv

\* A step of a thread keeps the invariant: one step per action.
LEMMA ThreadInv ==
  ASSUME IInv, NEW t \in Threads, Thread(t)
  PROVE  IInv'
<1> USE AdditionsNat, NoThreadAssumption
    DEF IInv, TypeOK, LockInv, LoadInv, WorkInv, JoinInv, Goto, Locks,
        InSection, Synchronized, Val, Looping,
        NoThreadAssumption
<1>1. CASE Lock(t)
  BY <1>1 DEF Lock
<1>2. CASE Load(t)
  BY <1>2 DEF Load
<1>3. CASE Store(t)
  BY <1>3 DEF Store
<1>4. CASE Unlock(t)
  BY <1>4 DEF Unlock
<1>5. CASE ReadOld(t)
  BY <1>5 DEF ReadOld
<1>6. CASE CasSwap(t)
  BY <1>6 DEF CasSwap
<1>7. CASE CasRetry(t)
  BY <1>7 DEF CasRetry
<1>8. CASE Return(t)
  BY <1>8 DEF Return
<1> QED
  BY <1>1, <1>2, <1>3, <1>4, <1>5, <1>6, <1>7, <1>8 DEF Thread

LEMMA InvNext == IInv /\ [Next]_vars => IInv'
<1> SUFFICES ASSUME IInv, [Next]_vars
             PROVE  IInv'
  OBVIOUS
<1>1. CASE \E t \in Threads : Thread(t)
  BY <1>1, ThreadInv
<1>2. CASE Join
  BY <1>2 DEF Join, IInv, TypeOK, LockInv, LoadInv, WorkInv, JoinInv,
              Synchronized, Val
<1>3. CASE Exited \/ UNCHANGED vars
  BY <1>3 DEF Exited, vars, IInv, TypeOK, LockInv, LoadInv, WorkInv, JoinInv,
              Synchronized, Val
<1> QED
  BY <1>1, <1>2, <1>3 DEF Next

\* Where each thread is in relation to the lock, and what it carries: the
\* invariant the refinement rests on.
THEOREM Invariant == Spec => []IInv
BY InvInit, InvNext, PTL DEF Spec

THEOREM TypeCorrect == Spec => []TypeOK
BY Invariant, PTL DEF IInv

-----------------------------------------------------------------------------
(***************************************************************************)
(* The refinement: the store of add() and the successful swap are the      *)
(* additions of AtomicCounter, every other step stutters.                  *)
(***************************************************************************)
LEMMA AtomicInit == Init => Atomic!Init
BY DEF Init, Atomic!Init, finished

LEMMA ThreadAtomic ==
  ASSUME IInv, Synchronized, NEW t \in Threads, Thread(t)
  PROVE  Atomic!Add(t) \/ UNCHANGED Atomic!vars
<1> USE AdditionsNat
    DEF IInv, TypeOK, Goto, Synchronized, finished, Atomic!vars
<1>1. CASE Lock(t) \/ Load(t) \/ ReadOld(t) \/ CasRetry(t) \/ Return(t)
  BY <1>1 DEF Lock, Load, ReadOld, CasRetry, Return, Locks, LockInv, InSection
<1>2. CASE Store(t)
  <2>1. /\ sync \in Locks
        /\ i[t] < Additions
        /\ the_counter' = the_counter + Val(t)
    BY <1>2 DEF Store, Locks, LockInv, LoadInv, WorkInv, InSection
  <2>2. /\ finished[t] = i[t]
        /\ finished' = [finished EXCEPT ![t] = @ + 1]
    BY <1>2, <2>1 DEF Store
  <2> QED
    BY <2>1, <2>2 DEF Atomic!Add, Atomic!Additions, Atomic!Value, Additions, Val
<1>3. CASE Unlock(t)
  BY <1>3 DEF Unlock
<1>4. CASE CasSwap(t)
  <2>1. /\ i[t] < Additions
        /\ the_counter' = the_counter + Val(t)
    BY <1>4 DEF CasSwap, WorkInv
  <2>2. /\ finished[t] = i[t]
        /\ finished' = [finished EXCEPT ![t] = @ + 1]
    BY <1>4, <2>1 DEF CasSwap
  <2> QED
    BY <2>1, <2>2 DEF Atomic!Add, Atomic!Additions, Atomic!Value, Additions, Val
<1> QED
  BY <1>1, <1>2, <1>3, <1>4 DEF Thread

LEMMA AtomicNext ==
  IInv /\ [Next]_vars => (Synchronized => [Atomic!Next]_(Atomic!vars))
<1> SUFFICES ASSUME IInv, [Next]_vars, Synchronized
             PROVE  Atomic!Next \/ UNCHANGED Atomic!vars
  OBVIOUS
<1>1. CASE \E t \in Threads : Thread(t)
  BY <1>1, ThreadAtomic DEF Atomic!Next
<1>2. CASE Join \/ Exited \/ UNCHANGED vars
  BY <1>2 DEF Join, Exited, vars, finished, Atomic!vars
<1> QED
  BY <1>1, <1>2 DEF Next

\* The synchronized program implements the counter whose additions are atomic,
\* with a mutex, a spinlock or compare-and-swap alike.
THEOREM Refinement == Spec => ImplementsAtomic
<1>1. IInv /\ [Next]_vars
        => [Synchronized => [Atomic!Next]_(Atomic!vars)]_vars
  BY AtomicNext
<1> QED
  BY <1>1, Invariant, AtomicInit, PTL DEF Spec, ImplementsAtomic

-----------------------------------------------------------------------------
(***************************************************************************)
(* Exact: an addition puts one new pair into Ups or into Downs.            *)
(***************************************************************************)
Counted == finished \in [Threads -> 0 .. Additions]

LEMMA CountedInv == IInv => Counted
BY AdditionsNat DEF IInv, TypeOK, WorkInv, InSection, Counted, finished

LEMMA FinitePairs == /\ IsFiniteSet(Atomic!Ups)
                     /\ IsFiniteSet(Atomic!Downs)
<1>1. /\ IsFiniteSet(0 .. Iterations - 1)
      /\ IsFiniteSet(Iterations .. Additions - 1)
  BY AdditionsNat, FS_Interval
<1>2. /\ IsFiniteSet(Threads \X (0 .. Iterations - 1))
      /\ IsFiniteSet(Threads \X (Iterations .. Additions - 1))
  BY <1>1, FS_Product, CounterAssumption DEF CounterAssumption
<1>3. /\ Atomic!Ups \in SUBSET (Threads \X (0 .. Iterations - 1))
      /\ Atomic!Downs \in SUBSET (Threads \X (Iterations .. Additions - 1))
  BY DEF Atomic!Ups, Atomic!Downs, Atomic!Additions, Additions
<1> QED
  BY <1>2, <1>3, FS_Subset

\* One more addition of t is one more pair, on the side its value says.
LEMMA OnePair ==
  ASSUME Counted, NEW t \in Threads, finished[t] < Additions,
         finished' = [finished EXCEPT ![t] = @ + 1]
  PROVE  LET pair == <<t, finished[t]>>
         IN  IF finished[t] < Iterations
             THEN /\ pair \notin Atomic!Ups
                  /\ Atomic!Ups' = Atomic!Ups \cup {pair}
                  /\ Atomic!Downs' = Atomic!Downs
             ELSE /\ pair \notin Atomic!Downs
                  /\ Atomic!Downs' = Atomic!Downs \cup {pair}
                  /\ Atomic!Ups' = Atomic!Ups
<1> DEFINE f == finished
           g == finished'
           n == finished[t]
<1>1. /\ f \in [Threads -> 0 .. Additions]
      /\ n \in Nat /\ n < Additions
      /\ g = [f EXCEPT ![t] = n + 1]
      /\ Additions = 2 * Iterations
      /\ Iterations \in Nat
  BY AdditionsNat DEF Counted, Additions
<1>2. /\ Atomic!Ups = {a \in Threads \X (0 .. Iterations - 1) : a[2] < f[a[1]]}
      /\ Atomic!Ups' = {a \in Threads \X (0 .. Iterations - 1) : a[2] < g[a[1]]}
      /\ Atomic!Downs =
           {a \in Threads \X (Iterations .. Additions - 1) : a[2] < f[a[1]]}
      /\ Atomic!Downs' =
           {a \in Threads \X (Iterations .. Additions - 1) : a[2] < g[a[1]]}
  BY DEF Atomic!Ups, Atomic!Downs, Atomic!Additions, Additions
<1> HIDE DEF f, g, n
<1>3. \A a \in Threads \X Int : a[2] < g[a[1]] <=> a[2] < f[a[1]] \/ a = <<t, n>>
  <2> SUFFICES ASSUME NEW u \in Threads, NEW k \in Int
               PROVE  k < g[u] <=> k < f[u] \/ <<u, k>> = <<t, n>>
    OBVIOUS
  <2>1. f[t] = n
    BY DEF f, n
  <2>2. CASE u = t
    BY <1>1, <2>1, <2>2
  <2>3. CASE u # t
    BY <1>1, <2>3
  <2> QED
    BY <2>2, <2>3
<1>4. f[t] = n
  BY DEF f, n
<1>5. CASE n < Iterations
  <2>1. <<t, n>> \in Threads \X (0 .. Iterations - 1)
    BY <1>1, <1>5
  <2>2. <<t, n>> \notin Threads \X (Iterations .. Additions - 1)
    BY <1>1, <1>5
  <2> QED
    BY <1>1, <1>2, <1>3, <1>4, <1>5, <2>1, <2>2 DEF n
<1>6. CASE ~(n < Iterations)
  <2>1. <<t, n>> \in Threads \X (Iterations .. Additions - 1)
    BY <1>1, <1>6
  <2>2. <<t, n>> \notin Threads \X (0 .. Iterations - 1)
    BY <1>1, <1>6
  <2> QED
    BY <1>1, <1>2, <1>3, <1>4, <1>6, <2>1, <2>2 DEF n
<1> QED
  BY <1>5, <1>6 DEF n

LEMMA SummedInit == Init => Summed
<1> SUFFICES ASSUME Init
             PROVE  Summed
  OBVIOUS
<1>1. finished = [t \in Threads |-> 0] /\ the_counter = 0
  BY DEF Init, finished
<1>2. Atomic!Ups = {} /\ Atomic!Downs = {}
  BY <1>1, AdditionsNat DEF Atomic!Ups, Atomic!Downs, Atomic!Additions
<1> QED
  BY <1>1, <1>2, FS_EmptySet DEF Summed

LEMMA SummedNext ==
  ASSUME Counted, the_counter \in Int, Summed, [Atomic!Next]_(Atomic!vars)
  PROVE  Summed'
<1> USE DEF Summed
<1>1. CASE UNCHANGED Atomic!vars
  BY <1>1 DEF Atomic!vars, Atomic!Ups, Atomic!Downs
<1>2. ASSUME NEW t \in Threads, Atomic!Add(t)
      PROVE  Summed'
  <2> DEFINE pair == <<t, finished[t]>>
  <2>1. /\ Cardinality(Atomic!Ups) \in Nat
        /\ Cardinality(Atomic!Downs) \in Nat
    BY FinitePairs, FS_CardinalityType
  <2>2. /\ Cardinality(Atomic!Ups \cup {pair}) =
             IF pair \in Atomic!Ups THEN Cardinality(Atomic!Ups)
                                    ELSE Cardinality(Atomic!Ups) + 1
        /\ Cardinality(Atomic!Downs \cup {pair}) =
             IF pair \in Atomic!Downs THEN Cardinality(Atomic!Downs)
                                      ELSE Cardinality(Atomic!Downs) + 1
    BY FinitePairs, FS_AddElement
  <2>3. /\ the_counter' = the_counter + Atomic!Value(finished[t])
        /\ finished[t] < Additions /\ finished' = [finished EXCEPT ![t] = @ + 1]
    BY <1>2 DEF Atomic!Add, Atomic!Additions, Additions
  <2>4. CASE finished[t] < Iterations
    <3>1. the_counter' = the_counter + 1
      BY <2>3, <2>4 DEF Atomic!Value
    <3>2. /\ Cardinality(Atomic!Ups') = Cardinality(Atomic!Ups) + 1
          /\ Cardinality(Atomic!Downs') = Cardinality(Atomic!Downs)
      BY <2>2, <2>3, <2>4, OnePair
    <3> QED
      BY <2>1, <3>1, <3>2
  <2>5. CASE ~(finished[t] < Iterations)
    <3>1. the_counter' = the_counter - 1
      BY <2>3, <2>5 DEF Atomic!Value
    <3>2. /\ Cardinality(Atomic!Ups') = Cardinality(Atomic!Ups)
          /\ Cardinality(Atomic!Downs') = Cardinality(Atomic!Downs) + 1
      BY <2>2, <2>3, <2>5, OnePair
    <3> QED
      BY <2>1, <3>1, <3>2
  <2> QED
    BY <2>4, <2>5
<1> QED
  BY <1>1, <1>2 DEF Atomic!Next

\* The command line is read once.
LEMMA SyncFixed == [Next]_vars => sync' = sync
BY DEF Next, Thread, Lock, Load, Store, Unlock, ReadOld, CasSwap, CasRetry,
       Return, Join, Exited, vars

\* No addition is lost and none counts twice, at any moment of any run of the
\* synchronized program.
THEOREM ExactCount == Spec => []Exact
<1>1. Init => Exact
  BY SummedInit DEF Exact
<1>2. IInv /\ Exact /\ [Next]_vars => Exact'
  <2> SUFFICES ASSUME IInv, Exact, [Next]_vars, Synchronized'
               PROVE  Summed'
    BY DEF Exact
  <2>1. Synchronized
    BY SyncFixed DEF Synchronized
  <2>2. Counted /\ the_counter \in Int
    BY CountedInv DEF IInv, TypeOK
  <2> QED
    BY <2>1, <2>2, AtomicNext, SummedNext DEF Exact
<1> QED
  BY <1>1, <1>2, Invariant, PTL DEF Spec

-----------------------------------------------------------------------------
\* When every thread has made its additions there are as many +1s as -1s.
LEMMA AllMade ==
  ASSUME finished = [t \in Threads |-> Additions], Summed
  PROVE  the_counter = 0
<1> DEFINE U == Threads \X (0 .. Iterations - 1)
           D == Threads \X (Iterations .. Additions - 1)
<1>1. Atomic!Ups = U /\ Atomic!Downs = D
  BY AdditionsNat
     DEF Atomic!Ups, Atomic!Downs, Atomic!Additions, Additions
<1>2. /\ IsFiniteSet(0 .. Iterations - 1)
      /\ IsFiniteSet(Iterations .. Additions - 1)
      /\ Cardinality(0 .. Iterations - 1) = Iterations
      /\ Cardinality(Iterations .. Additions - 1) = Iterations
  BY AdditionsNat, FS_Interval DEF Additions
<1>3. /\ Cardinality(U) = Cardinality(Threads) * Cardinality(0 .. Iterations - 1)
      /\ Cardinality(D) =
           Cardinality(Threads) * Cardinality(Iterations .. Additions - 1)
  BY <1>2, FS_Product, CounterAssumption DEF CounterAssumption
<1>4. Cardinality(U) = Cardinality(D) /\ Cardinality(U) \in Nat
  <2>1. IsFiniteSet(U)
    BY <1>2, FS_Product, CounterAssumption DEF CounterAssumption
  <2> QED
    BY <1>2, <1>3, <2>1, FS_CardinalityType
<1> QED
  BY <1>1, <1>4 DEF Summed

\* The count printed after the joins is 0: no synchronized run of any number
\* of threads loses an update.
THEOREM FinalCount == Spec => []ZeroAtJoin
<1>1. IInv /\ Exact => ZeroAtJoin
  <2> SUFFICES ASSUME IInv, Summed, joined
               PROVE  the_counter = 0
    BY DEF ZeroAtJoin, Exact
  <2>1. finished = [t \in Threads |-> Additions]
    BY DEF finished, IInv, JoinInv, WorkInv
  <2> QED
    BY <2>1, AllMade
<1> QED
  BY <1>1, Invariant, ExactCount, PTL

-----------------------------------------------------------------------------
(***************************************************************************)
(* DriftBound: a thread stores what it read, plus or minus one, while the  *)
(* additions made can only have become more.                               *)
(***************************************************************************)
Raised  == Cardinality(Atomic!Ups)
Lowered == Cardinality(Atomic!Downs)

Drift == -Lowered .. Raised

DriftInv == /\ the_counter \in Drift
            /\ \A t \in Threads : pc[t] = "store" => local[t] - Val(t) \in Drift

LEMMA CountsNat == Raised \in Nat /\ Lowered \in Nat
BY FinitePairs, FS_CardinalityType DEF Raised, Lowered

\* One more addition of t.
LEMMA OneCount ==
  ASSUME Counted, NEW t \in Threads, finished[t] < Additions,
         finished' = [finished EXCEPT ![t] = @ + 1]
  PROVE  IF finished[t] < Iterations THEN Raised' = Raised + 1 /\ Lowered' = Lowered
                                     ELSE Raised' = Raised /\ Lowered' = Lowered + 1
<1> DEFINE pair == <<t, finished[t]>>
<1>1. /\ pair \notin Atomic!Ups => Cardinality(Atomic!Ups \cup {pair}) = Raised + 1
      /\ pair \notin Atomic!Downs => Cardinality(Atomic!Downs \cup {pair}) = Lowered + 1
  BY FinitePairs, FS_AddElement DEF Raised, Lowered
<1>2. CASE finished[t] < Iterations
  BY <1>1, <1>2, OnePair DEF Raised, Lowered
<1>3. CASE ~(finished[t] < Iterations)
  BY <1>1, <1>3, OnePair DEF Raised, Lowered
<1> QED
  BY <1>2, <1>3

LEMMA SameCount ==
  ASSUME UNCHANGED finished
  PROVE  Drift' = Drift
BY DEF Drift, Raised, Lowered, Atomic!Ups, Atomic!Downs

LEMMA DriftInit == Init => DriftInv
<1> SUFFICES ASSUME Init
             PROVE  DriftInv
  OBVIOUS
<1>1. 0 \in Drift
  BY CountsNat DEF Drift
<1> QED
  BY <1>1 DEF Init, DriftInv

\* A store or a swap publishes v, the thread's addition to a value in range.
LEMMA PublishKeeps ==
  ASSUME IInv, DriftInv, NEW t \in Threads, i[t] < Additions, pc[t] \in {"store", "cas"},
         finished' = [finished EXCEPT ![t] = @ + 1],
         the_counter' - Val(t) \in Drift, the_counter' \in Int,
         \A u \in Threads : pc'[u] = "store" =>
           u # t /\ pc[u] = "store" /\ local'[u] = local[u] /\ i'[u] = i[u]
  PROVE  DriftInv'
<1>1. finished[t] = i[t] /\ finished[t] < Additions /\ Counted
  BY CountedInv DEF finished
<1>2. IF Val(t) = 1 THEN Raised' = Raised + 1 /\ Lowered' = Lowered
                    ELSE Raised' = Raised /\ Lowered' = Lowered + 1
  <2>1. IF finished[t] < Iterations THEN Raised' = Raised + 1 /\ Lowered' = Lowered
                                    ELSE Raised' = Raised /\ Lowered' = Lowered + 1
    BY <1>1, OneCount
  <2> QED
    BY <1>1, <2>1 DEF Val
<1>3. Val(t) = 1 \/ Val(t) = -1
  BY DEF Val
<1>4. the_counter' \in Drift'
  BY <1>2, <1>3, CountsNat DEF Drift
<1>5. \A n \in Int : n \in Drift => n \in Drift'
  BY <1>2, <1>3, CountsNat DEF Drift
<1>6. ASSUME NEW u \in Threads, pc'[u] = "store"
      PROVE  (local[u] - Val(u))' \in Drift'
  <2>1. local[u] - Val(u) \in Drift /\ local[u] - Val(u) \in Int
    BY <1>6 DEF DriftInv, IInv, TypeOK, Val
  <2>2. (local[u] - Val(u))' = local[u] - Val(u)
    BY <1>6 DEF Val
  <2> QED
    BY <1>5, <2>1, <2>2
<1> QED
  BY <1>4, <1>6 DEF DriftInv

LEMMA DriftThread ==
  ASSUME IInv, DriftInv, NEW t \in Threads, Thread(t)
  PROVE  DriftInv'
<1> USE AdditionsNat DEF IInv, TypeOK, Goto
<1>1. CASE Load(t)
  <2>1. UNCHANGED finished /\ the_counter' = the_counter
    BY <1>1 DEF Load, finished
  <2>2. local'[t] - Val(t)' = the_counter
    BY <1>1 DEF Load, Val
  <2>3. \A u \in Threads : u # t /\ pc'[u] = "store" =>
          pc[u] = "store" /\ local'[u] - Val(u)' = local[u] - Val(u)
    BY <1>1 DEF Load, Val
  <2> QED
    BY <2>1, <2>2, <2>3, SameCount DEF DriftInv
<1>2. CASE Lock(t) \/ ReadOld(t) \/ CasRetry(t) \/ Return(t)
  <2>1. UNCHANGED finished /\ the_counter' = the_counter
    BY <1>2 DEF Lock, ReadOld, CasRetry, Return, finished
  <2>2. \A u \in Threads : pc'[u] = "store" =>
          pc[u] = "store" /\ local'[u] - Val(u)' = local[u] - Val(u)
    BY <1>2 DEF Lock, ReadOld, CasRetry, Return, Val
  <2> QED
    BY <2>1, <2>2, SameCount DEF DriftInv
<1>3. CASE Unlock(t)
  <2>1. UNCHANGED finished /\ the_counter' = the_counter
    BY <1>3 DEF Unlock, finished
  <2>2. \A u \in Threads : pc'[u] = "store" =>
          pc[u] = "store" /\ local'[u] - Val(u)' = local[u] - Val(u)
    BY <1>3 DEF Unlock, Val
  <2> QED
    BY <2>1, <2>2, SameCount DEF DriftInv
<1>4. CASE Store(t)
  <2>1. finished' = [finished EXCEPT ![t] = @ + 1]
    BY <1>4 DEF Store, finished
  <2>2. /\ i[t] < Additions /\ pc[t] = "store" /\ the_counter' \in Int
        /\ the_counter' - Val(t) \in Drift
    BY <1>4 DEF Store, WorkInv, InSection, DriftInv
  <2>3. \A u \in Threads : pc'[u] = "store" =>
          u # t /\ pc[u] = "store" /\ local'[u] = local[u] /\ i'[u] = i[u]
    BY <1>4 DEF Store
  <2> QED
    BY <2>1, <2>2, <2>3, PublishKeeps
<1>5. CASE CasSwap(t)
  <2>1. finished' = [finished EXCEPT ![t] = @ + 1]
    BY <1>5 DEF CasSwap, finished
  <2>2. /\ i[t] < Additions /\ pc[t] = "cas" /\ the_counter' \in Int
        /\ the_counter' - Val(t) \in Drift
    BY <1>5 DEF CasSwap, WorkInv, DriftInv, Val
  <2>3. \A u \in Threads : pc'[u] = "store" =>
          u # t /\ pc[u] = "store" /\ local'[u] = local[u] /\ i'[u] = i[u]
    BY <1>5 DEF CasSwap
  <2> QED
    BY <2>1, <2>2, <2>3, PublishKeeps
<1> QED
  BY <1>1, <1>2, <1>3, <1>4, <1>5 DEF Thread

LEMMA DriftNext == IInv /\ DriftInv /\ [Next]_vars => DriftInv'
<1> SUFFICES ASSUME IInv, DriftInv, [Next]_vars
             PROVE  DriftInv'
  OBVIOUS
<1>1. CASE \E t \in Threads : Thread(t)
  BY <1>1, DriftThread
<1>2. CASE Join \/ Exited \/ UNCHANGED vars
  <2>1. UNCHANGED <<finished, the_counter, pc, local, i>>
    BY <1>2 DEF Join, Exited, vars, finished
  <2> QED
    BY <2>1, SameCount DEF DriftInv, Val
<1> QED
  BY <1>1, <1>2 DEF Next

\* No more +1s and no more -1s than all threads make together
LEMMA CountBound ==
  /\ Raised <= Cardinality(Threads) * Iterations
  /\ Lowered <= Cardinality(Threads) * Iterations
<1> DEFINE U == Threads \X (0 .. Iterations - 1)
           D == Threads \X (Iterations .. Additions - 1)
<1>1. /\ IsFiniteSet(0 .. Iterations - 1)
      /\ IsFiniteSet(Iterations .. Additions - 1)
      /\ Cardinality(0 .. Iterations - 1) = Iterations
      /\ Cardinality(Iterations .. Additions - 1) = Iterations
  BY AdditionsNat, FS_Interval DEF Additions
<1>2. /\ IsFiniteSet(U) /\ Cardinality(U) = Cardinality(Threads) * Iterations
      /\ IsFiniteSet(D) /\ Cardinality(D) = Cardinality(Threads) * Iterations
  BY <1>1, FS_Product, CounterAssumption DEF CounterAssumption
<1>3. Atomic!Ups \in SUBSET U /\ Atomic!Downs \in SUBSET D
  BY DEF Atomic!Ups, Atomic!Downs, Atomic!Additions, Additions
<1> QED
  BY <1>2, <1>3, FS_Subset DEF Raised, Lowered

\* The unsynchronized threads of counter.c lose additions to one another, but
\* the counter stays within what all of them add and all of them subtract.
THEOREM BoundedDrift == Spec => []DriftBound
<1>1. DriftInv => DriftBound
  <2> SUFFICES ASSUME DriftInv
               PROVE  DriftBound
    OBVIOUS
  <2> DEFINE most == Cardinality(Threads) * Iterations
  <2>1. most \in Nat
    BY AdditionsNat, FS_CardinalityType, CounterAssumption DEF CounterAssumption
  <2> HIDE DEF most
  <2>2. the_counter \in -most .. most
    BY <2>1, CountBound, CountsNat DEF DriftInv, Drift, most
  <2> QED
    BY <2>2 DEF DriftBound, most
<1> QED
  BY <1>1, DriftInit, DriftNext, Invariant, PTL DEF Spec


-----------------------------------------------------------------------------
\* Main returns from its joins if the threads are scheduled fairly (Joins).
\* What follows is the part of that which needs no fairness: at any time
\* somebody can go on, and nobody goes on for ever.

\* The next statement of t does not wait.
CanStep(t) ==
  /\ pc[t] # "done"
  /\ sync \in Locks /\ pc[t] = "loop" /\ Looping(t) => holder = NoThread

NeverStuck == (\A t \in Threads : pc[t] = "done") \/ (\E t \in Threads : CanStep(t))

\* The threads of counter.c never all wait: whoever holds the lock is inside
\* its critical section, and goes on to give it back.
THEOREM NoDeadlock == Spec => []NeverStuck
<1>1. IInv => NeverStuck
  <2> SUFFICES ASSUME IInv, NEW t \in Threads, pc[t] # "done"
               PROVE  \E u \in Threads : CanStep(u)
    BY DEF NeverStuck
  <2>1. CASE sync \in Locks /\ holder # NoThread
    <3>1. holder \in Threads /\ pc[holder] \in InSection
      BY <2>1 DEF IInv, TypeOK, LockInv
    <3> QED
      BY <3>1 DEF CanStep, InSection
  <2>2. CASE ~(sync \in Locks /\ holder # NoThread)
    BY <2>2 DEF CanStep
  <2> QED
    BY <2>1, <2>2
<1> QED
  BY <1>1, Invariant, PTL

\* How far a thread has come
Behind(t) == 4 * i[t] + CASE pc[t] = "locked" -> 1 [] pc[t] = "store" -> 2
                          [] pc[t] = "unlock" -> 3 [] pc[t] = "cas"   -> 1
                          [] pc[t] = "done"   -> 1 [] OTHER           -> 0

InReach == \A t \in Threads : Behind(t) \in 0 .. 4 * Additions + 1

\* one thread goes on, the others stay where they are
OneGoesOn ==
  \E t \in Threads : /\ Behind(t)' > Behind(t)
                     /\ \A u \in Threads : u # t => Behind(u)' = Behind(u)

\* one thread whose read was stale reads again
OneReloads ==
  /\ \E t \in Threads : Stale(t) /\ ~ Stale(t)'
  /\ \A u \in Threads : Behind(u)' = Behind(u)

LEMMA ThreadGoesOn ==
  ASSUME IInv, NEW t \in Threads, Thread(t)
  PROVE  (OneGoesOn \/ OneReloads) /\ Overtaken
<1>1. /\ \A u \in Threads : i[u] \in Int /\ local[u] \in Int
      /\ i \in [Threads -> 0 .. Additions] /\ local \in [Threads -> Int]
      /\ pc \in [Threads -> {"loop", "locked", "store", "unlock", "cas", "done"}]
      /\ Additions \in Nat /\ the_counter \in Int
  BY AdditionsNat DEF IInv, TypeOK
<1>2. \A u \in Threads : u # t => pc'[u] = pc[u] /\ i'[u] = i[u] /\ local'[u] = local[u]
  BY <1>1 DEF Thread, Lock, Load, Store, Unlock, ReadOld, CasSwap, CasRetry, Return, Goto
<1>3. \A u \in Threads : u # t => Behind(u)' = Behind(u)
  BY <1>2 DEF Behind
<1>4. CASE ~ CasRetry(t)
  <2>1. Behind(t)' > Behind(t)
    <3>1. CASE Lock(t) \/ Load(t) \/ ReadOld(t) \/ Return(t)
      <4>1. i' = i
        BY <3>1 DEF Lock, Load, ReadOld, Return
      <4>2. \/ pc[t] = "loop" /\ pc'[t] \in {"locked", "store", "cas", "done"}
            \/ pc[t] = "locked" /\ pc'[t] = "store"
        BY <1>1, <3>1 DEF Lock, Load, ReadOld, Return, Goto
      <4> QED
        BY <1>1, <4>1, <4>2 DEF Behind
    <3>2. CASE Store(t) \/ Unlock(t) \/ CasSwap(t)
      <4>1. \/ pc[t] = "store" /\ pc'[t] = "unlock" /\ i'[t] = i[t]
            \/ pc'[t] = "loop" /\ i'[t] = i[t] + 1 /\ pc[t] \in {"store", "unlock", "cas"}
        BY <1>1, <3>2 DEF Store, Unlock, CasSwap, Goto
      <4> QED
        BY <1>1, <4>1 DEF Behind
    <3> QED
      BY <1>4, <3>1, <3>2 DEF Thread
  <2>2. ASSUME NEW u \in Threads, ~ Stale(u), Stale(u)'
        PROVE  u # t /\ i'[t] = i[t] + 1
    <3>1. pc'[u] = "cas" /\ local'[u] # the_counter'
      BY <2>2 DEF Stale
    <3>2. CASE ReadOld(t)
      <4>1. u # t
        BY <1>1, <3>1, <3>2 DEF ReadOld
      <4>2. pc[u] = "cas" /\ local[u] # the_counter
        BY <1>2, <3>1, <3>2, <4>1 DEF ReadOld
      <4> QED
        BY <2>2, <4>2 DEF Stale
    <3>3. CASE ~ ReadOld(t)
      <4>1. u # t
        BY <1>1, <1>4, <3>1, <3>3
           DEF Thread, Lock, Load, Store, Unlock, CasSwap, Return, Goto
      <4>2. pc[u] = "cas" /\ local'[u] = local[u]
        BY <1>2, <3>1, <4>1
      <4>3. sync = "c"
        BY <4>2 DEF IInv, LockInv
      <4>4. pc[t] \notin InSection
        BY <4>3 DEF IInv, LockInv
      <4>5. the_counter' # the_counter
        BY <2>2, <3>1, <4>2 DEF Stale
      <4>6. CasSwap(t)
        BY <1>4, <3>3, <4>4, <4>5
           DEF Thread, Lock, Load, Store, Unlock, Return, Goto, InSection
      <4> QED
        BY <1>1, <4>1, <4>6 DEF CasSwap
    <3> QED
      BY <3>2, <3>3
  <2> QED
    BY <1>3, <2>1, <2>2 DEF OneGoesOn, Overtaken
<1>5. CASE CasRetry(t)
  <2>1. /\ pc' = pc /\ i' = i /\ the_counter' = the_counter /\ pc[t] = "cas"
        /\ local[t] # the_counter /\ local'[t] = the_counter
    BY <1>1, <1>5 DEF CasRetry
  <2>2. Stale(t) /\ ~ Stale(t)'
    BY <2>1 DEF Stale
  <2>3. \A u \in Threads : Behind(u)' = Behind(u)
    BY <2>1 DEF Behind
  <2>4. \A u \in Threads : Stale(u)' => Stale(u)
    BY <1>2, <2>1, <2>2 DEF Stale
  <2> QED
    BY <2>2, <2>3, <2>4 DEF OneReloads, Overtaken
<1> QED
  BY <1>4, <1>5

\* No thread of counter.c takes more than 4 * Additions + 1 statements, but for
\* the retries of the CAS loop; a thread retries only when what it has read is
\* stale, and it gets stale only by an addition of another thread that went
\* through: the loop is lock-free.
THEOREM LockFree ==
  Spec => /\ []InReach
          /\ [][Join \/ OneGoesOn \/ OneReloads]_vars
          /\ RetriesPaid
<1>1. IInv => InReach
  <2> SUFFICES ASSUME IInv, NEW t \in Threads
               PROVE  Behind(t) \in 0 .. 4 * Additions + 1
    BY DEF InReach
  <2>1. /\ i[t] \in Nat /\ Additions \in Nat /\ i[t] <= Additions
        /\ pc[t] \in {"loop", "locked", "store", "unlock", "cas", "done"}
    BY AdditionsNat DEF IInv, TypeOK
  <2>2. pc[t] \in InSection \cup {"cas"} => i[t] < Additions
    BY DEF IInv, WorkInv
  <2> QED
    BY <2>1, <2>2 DEF Behind, InSection
<1>2. IInv /\ [Next]_vars => [Join \/ OneGoesOn \/ OneReloads]_vars
  BY ThreadGoesOn DEF Next, Exited
<1>3. IInv /\ [Next]_vars => [Overtaken]_vars
  <2> SUFFICES ASSUME IInv, Join PROVE Overtaken
    BY ThreadGoesOn DEF Next, Exited
  <2> QED
    BY DEF Join, Overtaken, Stale
<1> QED
  BY <1>1, <1>2, <1>3, Invariant, PTL DEF Spec, RetriesPaid

=============================================================================
