----------------------------- MODULE HashWorkers -----------------------------
(***************************************************************************)
(* p2/exp2/hash.c: numThreads workers insert the_n_elements keys into      *)
(* num_hashtables GLib hash tables, under one mutex per table, and main    *)
(* verifies after the joins that every key is found.  GLib is outside the  *)
(* repository: an insertion into its table reads the table and then        *)
(* replaces it.                                                            *)
(***************************************************************************)
EXTENDS Integers, FiniteSets

CONSTANTS numThreads, iterations, num_hashtables,
          KeyValues,    \* the values rand() yields
          None

ASSUME HashAssumption ==
  /\ numThreads \in Nat \ {0} /\ iterations \in Nat
  /\ num_hashtables \in Nat \ {0} /\ KeyValues \subseteq Nat
  /\ None \notin 0 .. numThreads - 1 /\ None # "Failed"

VARIABLES keys,         \* key_id -> key
          tables,       \* hTable: table -> the key_ids it holds
          mutexes,      \* table -> the thread that holds its mutex, or None
          pc, i,        \* of each thread
          view,         \* what a thread's insertion has read of the table
          verified      \* None, "Identical" or "Failed": what main printed

vars == <<keys, tables, mutexes, pc, i, view, verified>>

Threads == 0 .. numThreads - 1
Tables  == 0 .. num_hashtables - 1
the_n_elements == numThreads * iterations
KeyIds  == 0 .. the_n_elements - 1

Init == /\ keys \in [KeyIds -> KeyValues]
        /\ tables = [h \in Tables |-> {}]
        /\ mutexes = [h \in Tables |-> None]
        /\ pc = [t \in Threads |-> "loop"]
        /\ i = [t \in Threads |-> 0]
        /\ view = [t \in Threads |-> {}]
        /\ verified = None

\* Mutant: the threads' strides overlap.
key_id_overlap(t) == t + i[t]

\* The i-th key of thread t: the threads interleave with stride numThreads.
key_id(t) == t + i[t] * numThreads

which_table(t) == keys[key_id(t)] % num_hashtables

Goto(t, from, to) == pc[t] = from /\ pc' = [pc EXCEPT ![t] = to]

\* Mutant: all tables are guarded by one another's mutex.
Lock_shared(t) ==
  /\ i[t] < iterations
  /\ Goto(t, "loop", "read")
  /\ LET h == t % num_hashtables
     IN  mutexes[h] = None /\ mutexes' = [mutexes EXCEPT ![h] = t]
  /\ UNCHANGED <<keys, tables, i, view, verified>>

Lock(t) ==
  /\ i[t] < iterations
  /\ Goto(t, "loop", "read")
  /\ mutexes[which_table(t)] = None
  /\ mutexes' = [mutexes EXCEPT ![which_table(t)] = t]
  /\ UNCHANGED <<keys, tables, i, view, verified>>

\* g_hash_table_insert
ReadTable(t) ==
  /\ Goto(t, "read", "write")
  /\ view' = [view EXCEPT ![t] = tables[which_table(t)]]
  /\ UNCHANGED <<keys, tables, mutexes, i, verified>>

WriteTable(t) ==
  /\ Goto(t, "write", "unlock")
  /\ tables' = [tables EXCEPT ![which_table(t)] = view[t] \cup {key_id(t)}]
  /\ UNCHANGED <<keys, mutexes, i, view, verified>>

Unlock(t) ==
  /\ Goto(t, "unlock", "loop")
  /\ mutexes' = [mutexes EXCEPT ![which_table(t)] = None]
  /\ i' = [i EXCEPT ![t] = @ + 1]
  /\ UNCHANGED <<keys, tables, view, verified>>

Return(t) ==
  /\ i[t] >= iterations
  /\ Goto(t, "loop", "done")
  /\ UNCHANGED <<keys, tables, mutexes, i, view, verified>>

\* How often check_key counts a key_id over all tables: once per table that
\* holds it.
check_array(k) == Cardinality({h \in Tables : k \in tables[h]})

\* main, past the joins: final_check counts the keys found exactly once
FinalCheck ==
  /\ verified = None
  /\ \A t \in Threads : pc[t] = "done"
  /\ verified' = IF Cardinality({k \in KeyIds : check_array(k) = 1}) = the_n_elements
                 THEN "Identical" ELSE "Failed"
  /\ UNCHANGED <<keys, tables, mutexes, pc, i, view>>

Exited == verified # None /\ UNCHANGED vars

Thread(t) == Lock(t) \/ ReadTable(t) \/ WriteTable(t) \/ Unlock(t) \/ Return(t)

Next == (\E t \in Threads : Thread(t)) \/ FinalCheck \/ Exited

\* The threads are preemptively scheduled, and each is given CPU time.
Spec == /\ Init /\ [][Next]_vars
        /\ \A t \in Threads : WF_vars(Thread(t))
        /\ WF_vars(FinalCheck)

-----------------------------------------------------------------------------
\* A key once inserted stays in the table that its value selects: no insertion
\* by another thread undoes it.
KeysStay ==
  \A t \in Threads : \A n \in 0 .. iterations - 1 :
    n < i[t] => LET k == t + n * numThreads
                IN  \A h \in Tables : k \in tables[h] <=> h = keys[k] % num_hashtables

\* The program always prints "key verification: Identical".
Verifies == <>(verified = "Identical")
=============================================================================
