------------------------- MODULE HashWorkers_proofs -------------------------
(***************************************************************************)
(* For any number of workers, iterations and tables, and any keys: no      *)
(* insertion of hash.c is lost, and main finds every key where it looks.   *)
(***************************************************************************)
EXTENDS HashWorkers, FiniteSetTheorems, TLAPS

TypeOK ==
  /\ keys \in [KeyIds -> KeyValues]
  /\ tables \in [Tables -> SUBSET KeyIds]
  /\ mutexes \in [Tables -> Threads \cup {None}]
  /\ pc \in [Threads -> {"loop", "read", "write", "unlock", "done"}]
  /\ i \in [Threads -> 0 .. iterations]
  /\ view \in [Threads -> SUBSET KeyIds]
  /\ verified \in {None, "Identical", "Failed"}

InSection == {"read", "write", "unlock"}

\* A thread inserts under the mutex of the table that its key selects.
Locked == \A t \in Threads : pc[t] \in InSection =>
            i[t] < iterations /\ mutexes[which_table(t)] = t

\* Under the mutex, what the insertion has read is still the table, and what
\* it has written is still there.
Kept == \A t \in Threads :
          /\ pc[t] = "write" => view[t] = tables[which_table(t)]
          /\ pc[t] = "unlock" => key_id(t) \in tables[which_table(t)]

TableOf(k) == keys[k] % num_hashtables

\* No key is in a table that its value does not select, ...
RightTable == \A h \in Tables : \A k \in tables[h] : h = TableOf(k)

\* ... and those that a thread has done with are in theirs.
DoneWith == \A t \in Threads : \A n \in 0 .. iterations - 1 :
              n < i[t] => LET k == t + n * numThreads IN k \in tables[TableOf(k)]

\* A thread returns after its last key.
Finished == \A t \in Threads : pc[t] = "done" => i[t] = iterations

IInv == TypeOK /\ Locked /\ Kept /\ RightTable /\ DoneWith /\ Finished

-----------------------------------------------------------------------------
\* The keys of a thread are among the_n_elements.
LEMMA KeyIdIn ==
  ASSUME NEW t \in Threads, NEW n \in 0 .. iterations - 1
  PROVE  t + n * numThreads \in KeyIds
<1>1. numThreads \in Nat \ {0} /\ iterations \in Nat /\ n \in Nat /\ n + 1 <= iterations
      /\ t \in Nat /\ t < numThreads
  BY HashAssumption DEF Threads
<1>2. (n + 1) * numThreads <= iterations * numThreads
  BY <1>1
<1>3. t + n * numThreads \in Nat /\ t + n * numThreads < numThreads * iterations
  BY <1>1, <1>2
<1> QED
  BY <1>1, <1>3 DEF KeyIds, the_n_elements

LEMMA TableOfIn ==
  ASSUME TypeOK, NEW k \in KeyIds
  PROVE  TableOf(k) \in Tables
<1>1. keys[k] \in Nat /\ num_hashtables \in Nat \ {0}
  BY HashAssumption DEF TypeOK
<1> QED
  BY <1>1 DEF TableOf, Tables

\* What a thread in its loop works on
LEMMA Selected ==
  ASSUME TypeOK, NEW t \in Threads, i[t] < iterations
  PROVE  /\ key_id(t) \in KeyIds /\ which_table(t) = TableOf(key_id(t))
         /\ which_table(t) \in Tables
<1>1. i[t] \in 0 .. iterations - 1
  BY HashAssumption DEF TypeOK
<1>2. key_id(t) \in KeyIds
  BY <1>1, KeyIdIn DEF key_id
<1> QED
  BY <1>2, TableOfIn DEF which_table, TableOf

LEMMA InitInv == Init => IInv
<1> SUFFICES ASSUME Init
             PROVE  IInv
  OBVIOUS
<1>1. iterations \in Nat
  BY HashAssumption
<1>2. TypeOK
  BY <1>1 DEF Init, TypeOK
<1> QED
  BY <1>1, <1>2 DEF Init, IInv, Locked, Kept, RightTable, DoneWith, Finished, InSection

\* What a step of t leaves alone of the other threads
LEMMA OthersStay ==
  ASSUME TypeOK, NEW t \in Threads, Thread(t), NEW u \in Threads, u # t
  PROVE  /\ pc'[u] = pc[u] /\ i'[u] = i[u] /\ view'[u] = view[u]
         /\ key_id(u)' = key_id(u) /\ which_table(u)' = which_table(u)
<1>1. pc'[u] = pc[u] /\ i'[u] = i[u] /\ view'[u] = view[u] /\ keys' = keys
  BY DEF TypeOK, Thread, Lock, ReadTable, WriteTable, Unlock, Return, Goto
<1> QED
  BY <1>1 DEF key_id, which_table

LEMMA LockInv ==
  ASSUME IInv, NEW t \in Threads, Lock(t)
  PROVE  IInv'
<1> USE DEF IInv
<1>1. /\ pc[t] = "loop" /\ i[t] < iterations /\ mutexes[which_table(t)] = None
      /\ pc' = [pc EXCEPT ![t] = "read"]
      /\ mutexes' = [mutexes EXCEPT ![which_table(t)] = t]
      /\ UNCHANGED <<keys, tables, i, view, verified>>
  BY DEF Lock, Goto
<1>2. \A u \in Threads : key_id(u)' = key_id(u) /\ which_table(u)' = which_table(u)
  BY <1>1 DEF key_id, which_table
<1>3. which_table(t) \in Tables /\ None \notin Threads
  BY <1>1, Selected, HashAssumption DEF Threads
<1>4. TypeOK'
  BY <1>1 DEF TypeOK
<1>5. Locked'
  <2>1. ASSUME NEW u \in Threads, pc'[u] \in InSection
        PROVE  i'[u] < iterations /\ mutexes'[which_table(u)] = u
    <3>1. CASE u = t
      BY <1>1, <1>3, <3>1 DEF TypeOK
    <3>2. CASE u # t
      <4>1. i[u] < iterations /\ mutexes[which_table(u)] = u
        BY <1>1, <2>1, <3>2 DEF TypeOK, Locked
      <4>2. which_table(u) # which_table(t)
        BY <1>1, <1>3, <4>1
      <4> QED
        BY <1>1, <4>1, <4>2 DEF TypeOK
    <3> QED
      BY <3>1, <3>2
  <2> QED
    BY <1>2, <2>1 DEF Locked
<1>6. Kept'
  BY <1>1, <1>2 DEF Kept, TypeOK
<1>7. RightTable' /\ DoneWith' /\ Finished'
  BY <1>1 DEF RightTable, DoneWith, TableOf, Finished, TypeOK
<1> QED
  BY <1>4, <1>5, <1>6, <1>7

LEMMA ReadInv ==
  ASSUME IInv, NEW t \in Threads, ReadTable(t)
  PROVE  IInv'
<1> USE DEF IInv
<1>1. /\ pc[t] = "read" /\ pc' = [pc EXCEPT ![t] = "write"]
      /\ view' = [view EXCEPT ![t] = tables[which_table(t)]]
      /\ UNCHANGED <<keys, tables, mutexes, i, verified>>
  BY DEF ReadTable, Goto
<1>2. \A u \in Threads : key_id(u)' = key_id(u) /\ which_table(u)' = which_table(u)
  BY <1>1 DEF key_id, which_table
<1>3. which_table(t) \in Tables
  BY <1>1, Selected DEF Locked, InSection
<1>4. TypeOK'
  BY <1>1, <1>3 DEF TypeOK
<1>5. Locked'
  BY <1>1, <1>2 DEF Locked, InSection, TypeOK
<1>6. Kept'
  BY <1>1, <1>2 DEF Kept, TypeOK
<1>7. RightTable' /\ DoneWith' /\ Finished'
  BY <1>1 DEF RightTable, DoneWith, TableOf, Finished, TypeOK
<1> QED
  BY <1>4, <1>5, <1>6, <1>7

\* The tables only grow: what the thread writes is what it has read under the
\* mutex, which is still the table, and its key.
LEMMA WriteInv ==
  ASSUME IInv, NEW t \in Threads, WriteTable(t)
  PROVE  IInv'
<1> USE DEF IInv
<1> DEFINE h == which_table(t)
<1>1. /\ pc[t] = "write" /\ pc' = [pc EXCEPT ![t] = "unlock"]
      /\ tables' = [tables EXCEPT ![h] = tables[h] \cup {key_id(t)}]
      /\ UNCHANGED <<keys, mutexes, i, view, verified>>
  BY DEF WriteTable, Goto, Kept
<1>2. \A u \in Threads : key_id(u)' = key_id(u) /\ which_table(u)' = which_table(u)
  BY <1>1 DEF key_id, which_table
<1>3. /\ i[t] < iterations /\ mutexes[h] = t /\ h \in Tables /\ key_id(t) \in KeyIds
      /\ h = TableOf(key_id(t))
  BY <1>1, Selected DEF Locked, InSection
<1>4. TypeOK'
  BY <1>1, <1>3 DEF TypeOK
<1>5. Locked'
  BY <1>1, <1>2 DEF Locked, InSection, TypeOK
<1>6. \A g \in Tables : /\ g # h => tables'[g] = tables[g]
                        /\ g = h => tables'[g] = tables[g] \cup {key_id(t)}
  BY <1>1, <1>3 DEF TypeOK
<1>7. Kept'
  <2>1. ASSUME NEW u \in Threads
        PROVE  /\ pc'[u] = "write" => view'[u] = tables'[which_table(u)]
               /\ pc'[u] = "unlock" => key_id(u) \in tables'[which_table(u)]
    <3>1. CASE u = t
      BY <1>1, <1>3, <1>6, <3>1 DEF TypeOK
    <3>2. CASE u # t /\ pc[u] \in {"write", "unlock"}
      <4>1. mutexes[which_table(u)] = u /\ which_table(u) \in Tables
        BY <3>2, Selected DEF Locked, InSection
      <4>2. which_table(u) # h
        BY <1>3, <3>2, <4>1
      <4> QED
        BY <1>1, <1>6, <3>2, <4>1, <4>2 DEF TypeOK, Kept
    <3>3. CASE u # t /\ pc[u] \notin {"write", "unlock"}
      BY <1>1, <3>3 DEF TypeOK
    <3> QED
      BY <3>1, <3>2, <3>3
  <2> QED
    BY <1>1, <1>2, <2>1 DEF Kept
<1>8. RightTable'
  <2>1. ASSUME NEW g \in Tables, NEW k \in tables'[g]
        PROVE  g = TableOf(k)
    BY <1>3, <1>6, <2>1 DEF RightTable
  <2>2. \A k : TableOf(k)' = TableOf(k)
    BY <1>1 DEF TableOf
  <2> QED
    BY <2>1, <2>2 DEF RightTable
<1>9. DoneWith'
  <2>1. ASSUME NEW u \in Threads, NEW n \in 0 .. iterations - 1, n < i[u],
               NEW k, k = u + n * numThreads
        PROVE  k \in tables'[TableOf(k)]
    <3>1. k \in tables[TableOf(k)] /\ TableOf(k) \in Tables
      BY <2>1, KeyIdIn, TableOfIn DEF DoneWith
    <3> QED
      BY <1>6, <3>1
  <2> QED
    BY <1>1, <2>1 DEF DoneWith, TableOf
<1>10. Finished'
  BY <1>1 DEF Finished, TypeOK
<1> QED
  BY <1>4, <1>5, <1>7, <1>8, <1>9, <1>10

LEMMA UnlockInv ==
  ASSUME IInv, NEW t \in Threads, Unlock(t)
  PROVE  IInv'
<1> USE DEF IInv
<1> DEFINE h == which_table(t)
<1>1. /\ pc[t] = "unlock" /\ pc' = [pc EXCEPT ![t] = "loop"]
      /\ mutexes' = [mutexes EXCEPT ![h] = None]
      /\ i' = [i EXCEPT ![t] = i[t] + 1]
      /\ UNCHANGED <<keys, tables, view, verified>>
  BY DEF Unlock, Goto
<1>2. \A u \in Threads : u # t =>
        /\ pc'[u] = pc[u] /\ i'[u] = i[u]
        /\ key_id(u)' = key_id(u) /\ which_table(u)' = which_table(u)
  BY OthersStay DEF Thread
<1>3. /\ i[t] < iterations /\ mutexes[h] = t /\ h \in Tables
      /\ key_id(t) \in tables[h] /\ h = TableOf(key_id(t))
  BY <1>1, Selected DEF Locked, InSection, Kept
<1>4. i[t] \in Nat /\ iterations \in Nat
  BY HashAssumption DEF TypeOK
<1>5. TypeOK'
  BY <1>1, <1>3, <1>4 DEF TypeOK
<1>6. Locked'
  <2>1. ASSUME NEW u \in Threads, pc'[u] \in InSection
        PROVE  (i[u] < iterations /\ mutexes[which_table(u)] = u)'
    <3>1. u # t
      BY <1>1, <2>1 DEF TypeOK, InSection
    <3>2. i[u] < iterations /\ mutexes[which_table(u)] = u /\ which_table(u) \in Tables
      BY <1>2, <2>1, <3>1, Selected DEF Locked
    <3>3. which_table(u) # h
      BY <1>3, <3>1, <3>2
    <3> QED
      BY <1>1, <1>2, <3>1, <3>2, <3>3 DEF TypeOK
  <2> QED
    BY <2>1 DEF Locked
<1>7. Kept'
  <2>1. ASSUME NEW u \in Threads, pc'[u] \in {"write", "unlock"}
        PROVE  u # t /\ pc[u] = pc'[u]
    BY <1>1, <2>1 DEF TypeOK
  <2> QED
    BY <1>1, <1>2, <2>1 DEF Kept
<1>8. RightTable'
  BY <1>1 DEF RightTable, TableOf
<1>9. DoneWith'
  <2>1. ASSUME NEW u \in Threads, NEW n \in 0 .. iterations - 1, n < i'[u],
               NEW k, k = u + n * numThreads
        PROVE  k \in tables[TableOf(k)]
    <3>1. CASE n < i[u]
      BY <2>1, <3>1 DEF DoneWith
    <3>2. CASE ~(n < i[u])
      <4>1. u = t /\ n = i[t]
        BY <1>1, <1>4, <2>1, <3>2 DEF TypeOK
      <4> QED
        BY <1>3, <2>1, <4>1 DEF key_id
    <3> QED
      BY <3>1, <3>2
  <2> QED
    BY <1>1, <2>1 DEF DoneWith, TableOf
<1>10. Finished'
  BY <1>1 DEF Finished, TypeOK
<1> QED
  BY <1>5, <1>6, <1>7, <1>8, <1>9, <1>10

LEMMA ReturnInv ==
  ASSUME IInv, NEW t \in Threads, Return(t)
  PROVE  IInv'
<1> USE DEF IInv
<1>1. /\ pc[t] = "loop" /\ i[t] >= iterations /\ pc' = [pc EXCEPT ![t] = "done"]
      /\ UNCHANGED <<keys, tables, mutexes, i, view, verified>>
  BY DEF Return, Goto
<1>2. \A u \in Threads : key_id(u)' = key_id(u) /\ which_table(u)' = which_table(u)
  BY <1>1 DEF key_id, which_table
<1>3. i[t] = iterations
  BY <1>1, HashAssumption DEF TypeOK
<1>4. TypeOK'
  BY <1>1 DEF TypeOK
<1>5. Locked' /\ Kept'
  BY <1>1, <1>2 DEF Locked, Kept, InSection, TypeOK
<1>6. RightTable' /\ DoneWith'
  BY <1>1 DEF RightTable, DoneWith, TableOf
<1>7. Finished'
  BY <1>1, <1>3 DEF Finished, TypeOK
<1> QED
  BY <1>4, <1>5, <1>6, <1>7

LEMMA StepInv == IInv /\ [Next]_vars => IInv'
<1> SUFFICES ASSUME IInv, [Next]_vars
             PROVE  IInv'
  OBVIOUS
<1>1. ASSUME NEW t \in Threads, Thread(t)
      PROVE  IInv'
  BY <1>1, LockInv, ReadInv, WriteInv, UnlockInv, ReturnInv DEF Thread
<1>2. CASE FinalCheck \/ Exited \/ UNCHANGED vars
  <2>1. /\ UNCHANGED <<keys, tables, mutexes, pc, i, view>>
        /\ verified' \in {verified, "Identical", "Failed"}
    BY <1>2 DEF FinalCheck, Exited, vars
  <2> QED
    BY <2>1 DEF IInv, TypeOK, Locked, Kept, RightTable, DoneWith, Finished, InSection,
                key_id, which_table, TableOf
<1> QED
  BY <1>1, <1>2 DEF Next

(* What makes the verification of hash.c sound: a thread holds the mutex   *)
(* of its table from the read of an insertion to its write.                *)
THEOREM Invariant == Spec => []IInv
BY InitInv, StepInv, PTL DEF Spec

(* A key once inserted stays in the table that its value selects, and is   *)
(* in no other: the insertions of hash.c's threads do not undo each other. *)
THEOREM KeysSaved == Spec => []KeysStay
<1>1. IInv => KeysStay
  <2> SUFFICES ASSUME IInv, NEW t \in Threads, NEW n \in 0 .. iterations - 1, n < i[t],
                      NEW h \in Tables, NEW k, k = t + n * numThreads
               PROVE  k \in tables[h] <=> h = keys[k] % num_hashtables
    BY DEF KeysStay
  <2>1. k \in tables[TableOf(k)]
    BY DEF IInv, DoneWith
  <2>2. k \in tables[h] => h = TableOf(k)
    BY DEF IInv, RightTable
  <2> QED
    BY <2>1, <2>2 DEF TableOf
<1> QED
  BY <1>1, Invariant, PTL

-----------------------------------------------------------------------------
(***************************************************************************)
(* final_check: every key_id is some thread's, so that after the joins     *)
(* each is found once and the verification succeeds.                       *)
(***************************************************************************)
LEMMA SomeThreads ==
  ASSUME NEW k \in KeyIds
  PROVE  \E t \in Threads, n \in 0 .. iterations - 1 : k = t + n * numThreads
<1>1. numThreads \in Nat \ {0} /\ iterations \in Nat /\ k \in Nat
      /\ k < numThreads * iterations
  BY HashAssumption DEF KeyIds, the_n_elements
<1> DEFINE n == k \div numThreads
           t == k % numThreads
<1>2. n \in Nat /\ t \in Nat /\ t < numThreads /\ k = t + n * numThreads
  BY <1>1
<1> HIDE DEF n, t
<1>3. n < iterations
  <2> SUFFICES ASSUME n >= iterations
               PROVE  FALSE
    BY <1>1, <1>2
  <2>1. n * numThreads >= iterations * numThreads
    BY <1>1, <1>2
  <2> QED
    BY <1>1, <1>2, <2>1
<1>4. t \in Threads /\ n \in 0 .. iterations - 1
  BY <1>1, <1>2, <1>3 DEF Threads
<1> QED
  BY <1>2, <1>4

LEMMA AllFound ==
  ASSUME IInv, \A t \in Threads : pc[t] = "done", NEW k \in KeyIds
  PROVE  check_array(k) = 1
<1>1. PICK t \in Threads, n \in 0 .. iterations - 1 : k = t + n * numThreads
  BY SomeThreads
<1>2. n < i[t]
  BY HashAssumption DEF IInv, Finished
<1>3. k \in tables[TableOf(k)] /\ TableOf(k) \in Tables
  BY <1>1, <1>2, TableOfIn DEF IInv, DoneWith
<1>4. {h \in Tables : k \in tables[h]} = {TableOf(k)}
  BY <1>3 DEF IInv, RightTable
<1> QED
  BY <1>4, FS_Singleton DEF check_array

NothingMissing == verified # "Failed"

(* main never prints that the key verification failed.                     *)
THEOREM NeverFails == Spec => []NothingMissing
<1>1. Init => NothingMissing
  BY HashAssumption DEF Init, NothingMissing
<1>2. IInv /\ NothingMissing /\ [Next]_vars => NothingMissing'
  <2> SUFFICES ASSUME IInv, NothingMissing, [Next]_vars
               PROVE  NothingMissing'
    OBVIOUS
  <2>1. CASE FinalCheck
    <3>1. {k \in KeyIds : check_array(k) = 1} = KeyIds
      BY <2>1, AllFound DEF FinalCheck
    <3>2. the_n_elements \in Nat
      BY HashAssumption DEF the_n_elements
    <3>3. Cardinality(KeyIds) = the_n_elements
      BY <3>2, FS_Interval DEF KeyIds
    <3> QED
      BY <2>1, <3>1, <3>3 DEF FinalCheck, NothingMissing
  <2>2. CASE ~FinalCheck
    <3>1. verified' = verified
      BY <2>2 DEF Next, Thread, Lock, ReadTable, WriteTable, Unlock, Return, Exited, vars
    <3> QED
      BY <3>1 DEF NothingMissing
  <2> QED
    BY <2>1, <2>2
<1> QED
  BY <1>1, <1>2, Invariant, PTL DEF Spec


-----------------------------------------------------------------------------
(* Main gets to its verification if the threads are scheduled fairly.      *)
(* What follows is the part of that which needs no fairness: at any time   *)
(* somebody can go on, and nobody goes on for ever.                        *)

\* A mutex that is taken is held by a thread inside an insertion into its table.
HeldInside ==
  \A h \in Tables : mutexes[h] # None =>
    \E t \in Threads : /\ mutexes[h] = t /\ which_table(t) = h
                       /\ pc[t] \in InSection

\* The next statement of t does not wait.
CanStep(t) ==
  /\ pc[t] # "done"
  /\ pc[t] = "loop" /\ i[t] < iterations => mutexes[which_table(t)] = None

NeverStuck == (\A t \in Threads : pc[t] = "done") \/ (\E t \in Threads : CanStep(t))

LEMMA HeldInsideStep ==
  ASSUME IInv, HeldInside, [Next]_vars
  PROVE  HeldInside'
<1>1. ASSUME NEW t \in Threads, Lock(t) \/ ReadTable(t) \/ WriteTable(t)
      PROVE  HeldInside'
  <2>1. /\ \A u \in Threads : which_table(u)' = which_table(u)
        /\ \A u \in Threads : u # t => pc'[u] = pc[u]
        /\ pc'[t] \in InSection
    BY <1>1 DEF IInv, TypeOK, Lock, ReadTable, WriteTable, Goto, InSection,
                which_table, key_id
  <2>2. CASE Lock(t)
    <3>1. /\ i[t] < iterations /\ mutexes' = [mutexes EXCEPT ![which_table(t)] = t]
          /\ which_table(t) \in Tables /\ mutexes[which_table(t)] = None
      BY <2>2, Selected DEF Lock, IInv
    <3>2. SUFFICES ASSUME NEW h \in Tables, mutexes'[h] # None
                   PROVE  \E u \in Threads : /\ mutexes'[h] = u /\ which_table(u)' = h
                                             /\ pc'[u] \in InSection
      BY DEF HeldInside
    <3>3. CASE h = which_table(t)
      BY <2>1, <3>1, <3>3 DEF IInv, TypeOK
    <3>4. CASE h # which_table(t)
      <4>1. mutexes'[h] = mutexes[h]
        BY <3>1, <3>4 DEF IInv, TypeOK
      <4>2. PICK u \in Threads : mutexes[h] = u /\ which_table(u) = h /\ pc[u] \in InSection
        BY <3>2, <4>1 DEF HeldInside
      <4> QED
        BY <2>1, <4>1, <4>2
    <3> QED
      BY <3>3, <3>4
  <2>3. CASE ReadTable(t) \/ WriteTable(t)
    <3>1. mutexes' = mutexes
      BY <2>3 DEF ReadTable, WriteTable
    <3> QED
      BY <2>1, <3>1 DEF HeldInside
  <2> QED
    BY <1>1, <2>2, <2>3
<1>2. ASSUME NEW t \in Threads, Unlock(t)
      PROVE  HeldInside'
  <2>1. /\ \A u \in Threads : u # t => which_table(u)' = which_table(u) /\ pc'[u] = pc[u]
        /\ mutexes' = [mutexes EXCEPT ![which_table(t)] = None]
    BY <1>2, OthersStay DEF IInv, Unlock, Thread
  <2>2. SUFFICES ASSUME NEW h \in Tables, mutexes'[h] # None
                 PROVE  \E u \in Threads : /\ mutexes'[h] = u /\ which_table(u)' = h
                                           /\ pc'[u] \in InSection
    BY DEF HeldInside
  <2>3. h # which_table(t) /\ mutexes'[h] = mutexes[h]
    BY <2>1, <2>2 DEF IInv, TypeOK
  <2>4. PICK u \in Threads : mutexes[h] = u /\ which_table(u) = h /\ pc[u] \in InSection
    BY <2>2, <2>3 DEF HeldInside
  <2> QED
    BY <2>1, <2>3, <2>4
<1>3. ASSUME NEW t \in Threads, Return(t)
      PROVE  HeldInside'
  <2>1. /\ \A u \in Threads : which_table(u)' = which_table(u)
        /\ \A u \in Threads : u # t => pc'[u] = pc[u]
        /\ pc[t] \notin InSection /\ mutexes' = mutexes
    BY <1>3 DEF IInv, TypeOK, Return, Goto, InSection, which_table, key_id
  <2> QED
    BY <2>1 DEF HeldInside
<1>4. CASE FinalCheck \/ Exited \/ UNCHANGED vars
  BY <1>4 DEF FinalCheck, Exited, vars, HeldInside, which_table, key_id
<1> QED
  BY <1>1, <1>2, <1>3, <1>4 DEF Next, Thread

\* The threads of hash.c never all wait: whoever holds the mutex that another
\* thread wants is in the middle of an insertion, and goes on to give it back.
THEOREM NoDeadlock == Spec => []NeverStuck
<1>1. Init => HeldInside
  BY DEF Init, HeldInside
<1>2. IInv /\ HeldInside => NeverStuck
  <2> SUFFICES ASSUME IInv, HeldInside, NEW t \in Threads, pc[t] # "done"
               PROVE  \E u \in Threads : CanStep(u)
    BY DEF NeverStuck
  <2>1. CASE pc[t] = "loop" /\ i[t] < iterations /\ mutexes[which_table(t)] # None
    <3>1. which_table(t) \in Tables
      BY <2>1, Selected DEF IInv
    <3>2. PICK u \in Threads : pc[u] \in InSection
      BY <2>1, <3>1 DEF HeldInside
    <3> QED
      BY <3>2 DEF CanStep, InSection
  <2>2. CASE ~(pc[t] = "loop" /\ i[t] < iterations /\ mutexes[which_table(t)] # None)
    BY <2>2 DEF CanStep
  <2> QED
    BY <2>1, <2>2
<1> QED
  BY <1>1, <1>2, Invariant, HeldInsideStep, PTL DEF Spec

\* How many statements a thread has behind it
Behind(t) == 4 * i[t] + CASE pc[t] = "read"   -> 1 [] pc[t] = "write" -> 2
                          [] pc[t] = "unlock" -> 3 [] pc[t] = "done"  -> 1
                          [] OTHER            -> 0

InReach == \A t \in Threads : Behind(t) \in 0 .. 4 * iterations + 1

\* one thread goes on, the others stay where they are
OneGoesOn ==
  \E t \in Threads : /\ Behind(t)' = Behind(t) + 1
                     /\ \A u \in Threads : u # t => Behind(u)' = Behind(u)

\* Every thread of hash.c returns after 4 * iterations + 1 statements at most:
\* no loop of it repeats a statement without getting nearer to the end.
THEOREM GoesOn == Spec => []InReach /\ [][FinalCheck \/ OneGoesOn]_vars
<1>1. IInv => InReach
  <2> SUFFICES ASSUME IInv, NEW t \in Threads
               PROVE  Behind(t) \in 0 .. 4 * iterations + 1
    BY DEF InReach
  <2>1. /\ i[t] \in Nat /\ iterations \in Nat /\ i[t] <= iterations
        /\ pc[t] \in {"loop", "read", "write", "unlock", "done"}
    BY HashAssumption DEF IInv, TypeOK
  <2>2. pc[t] \in InSection => i[t] < iterations
    BY DEF IInv, Locked
  <2> QED
    BY <2>1, <2>2 DEF Behind, InSection
<1>2. IInv /\ [Next]_vars => [FinalCheck \/ OneGoesOn]_vars
  <2> SUFFICES ASSUME IInv, NEW t \in Threads, Thread(t)
               PROVE  OneGoesOn
    BY DEF Next, Exited, vars
  <2>1. ASSUME NEW u \in Threads, u # t PROVE Behind(u)' = Behind(u)
    <3>1. pc'[u] = pc[u] /\ i'[u] = i[u]
      BY <2>1, OthersStay DEF IInv
    <3> QED
      BY <3>1 DEF Behind
  <2>2. Behind(t)' = Behind(t) + 1
    <3>1. i[t] \in Nat /\ pc \in [Threads -> {"loop", "read", "write", "unlock", "done"}]
      BY HashAssumption DEF IInv, TypeOK
    <3>2. CASE Lock(t) \/ ReadTable(t) \/ WriteTable(t) \/ Return(t)
      BY <3>1, <3>2 DEF Lock, ReadTable, WriteTable, Return, Goto, Behind
    <3>3. CASE Unlock(t)
      <4>1. i'[t] = i[t] + 1 /\ pc[t] = "unlock" /\ pc'[t] = "loop"
        BY <3>1, <3>3 DEF Unlock, Goto, IInv, TypeOK
      <4> QED
        BY <3>1, <4>1 DEF Behind
    <3> QED
      BY <3>2, <3>3 DEF Thread
  <2> QED
    BY <2>1, <2>2 DEF OneGoesOn
<1> QED
  BY <1>1, <1>2, Invariant, PTL DEF Spec

=============================================================================
