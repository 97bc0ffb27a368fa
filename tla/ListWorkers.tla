----------------------------- MODULE ListWorkers -----------------------------
(***************************************************************************)
(* p2/exp2/list.c: numThreads workers insert the numThreads * iterations   *)
(* elements into lists.  The program has three builds: one list under one  *)
(* mutex (biglock), a list per thread (multilists), and a list per thread  *)
(* with parts of the elements claimed by test-and-set (lb).  Each store of *)
(* an insertion is a step of its own.                                      *)
(***************************************************************************)
EXTENDS ListHeap, SequencesExt

CONSTANTS NumThreads, Iterations,
          PartCounts,   \* the --parts given on the command line
          Builds,       \* the builds under consideration
          None

VARIABLES build, numParts,      \* the program that runs, and its --parts
          pointers,             \* [next, prev] of the list nodes
          mutex,                \* the thread that holds mutexes[0], or None
          spinLocks,            \* part -> 1 when some thread has claimed it
          pc, part, at, curr,   \* of each thread: its place in thread_func, its
                                \* part, and its i and curr
          joined,               \* main is past its pthread_join loop
          killed                \* SIGSEGV has ended the process

workersVars ==
  <<build, numParts, pointers, mutex, spinLocks, pc, part, at, curr, joined, killed>>

Threads  == 0 .. NumThreads - 1
Elem(n)  == <<"element", n>>

\* The elements of the program are those below the_n_elements.  Threads that
\* have no part of their own go beyond them, and make themselves an element for
\* each key that they find there.
the_n_elements == NumThreads * Iterations
Items    == {Elem(n) : n \in {m \in 0 .. NumThreads * the_n_elements - 1 :
              \/ m < the_n_elements
              \/ \E p \in PartCounts : m < (the_n_elements \div p) * NumThreads}}
ListOf(id) == <<"list", IF build = "biglock" THEN 0 ELSE id>>
Heads    == {<<"list", id>> : id \in Threads}

ASSUME WorkersAssumption ==
  /\ NumThreads \in Nat \ {0} /\ Iterations \in Nat
  /\ PartCounts \subseteq Nat \ {0}
  /\ Builds \subseteq {"biglock", "multilists", "lb"}
  /\ None \notin Threads /\ Uninit \notin Heads \cup Items

per_part == the_n_elements \div numParts

\* What the threads work on: all the parts in the lb build, in the others the
\* parts of the threads' own numbers, be there fewer parts than that.
Worked == IF build = "lb" THEN numParts ELSE NumThreads
Parts  == 0 .. Worked - 1

PartBegin(p) == per_part * p
PartEnd(p)   == per_part * (p + 1)

\* parse_config insists on one part per thread in the multilists build only.
LegalParts(b, p) == b = "multilists" => p = NumThreads

WorkersInit ==
  /\ build \in Builds
  /\ numParts \in {p \in PartCounts : LegalParts(build, p)}
  /\ pointers = Fresh(Heads, Items)
  /\ mutex = None
  /\ spinLocks = [p \in Parts |-> 0]
  /\ pc = [t \in Threads |-> "start"]
  /\ part = [t \in Threads |-> 0]
  /\ at = [t \in Threads |-> 0]
  /\ curr = [t \in Threads |-> None]
  /\ joined = FALSE /\ killed = FALSE

Goto(t, from, to) == pc[t] = from /\ pc' = [pc EXCEPT ![t] = to]

config == <<build, numParts, joined, killed>>

\* thread_func begins: a thread of the lb build tries the parts from the first
\* on, the others work on the part of their own number.
Start(t) ==
  /\ IF build = "lb"
     THEN Goto(t, "start", "claim") /\ UNCHANGED <<part, at>>
     ELSE /\ Goto(t, "start", "loop")
          /\ part' = [part EXCEPT ![t] = t]
          /\ at' = [at EXCEPT ![t] = PartBegin(t)]
  /\ UNCHANGED <<config, pointers, mutex, spinLocks, curr>>

\* Mutant: the claim is not tested.
Claim_blind(t) ==
  /\ part[t] \in Parts
  /\ spinLocks' = [spinLocks EXCEPT ![part[t]] = 1]
  /\ Goto(t, "claim", "loop")
  /\ at' = [at EXCEPT ![t] = PartBegin(part[t])]
  /\ UNCHANGED <<config, pointers, mutex, part, curr>>

\* __sync_lock_test_and_set(&spinLocks[part], 1)
Claim(t) ==
  /\ part[t] \in Parts
  /\ spinLocks' = [spinLocks EXCEPT ![part[t]] = 1]
  /\ IF spinLocks[part[t]] = 0
     THEN /\ Goto(t, "claim", "loop")
          /\ at' = [at EXCEPT ![t] = PartBegin(part[t])]
          /\ UNCHANGED part
     ELSE /\ pc[t] = "claim"
          /\ part' = [part EXCEPT ![t] = @ + 1]
          /\ UNCHANGED <<pc, at>>
  /\ UNCHANGED <<config, pointers, mutex, curr>>

NoMoreParts(t) ==
  /\ part[t] \notin Parts
  /\ Goto(t, "claim", "done")
  /\ UNCHANGED <<config, pointers, mutex, spinLocks, part, at, curr>>

\* keys[i] beyond the keys may lie outside of the process: the handler of
\* SIGSEGV calls exit.
Segfault(t) ==
  /\ pc[t] = "loop" /\ at[t] < PartEnd(part[t])
  /\ at[t] >= the_n_elements
  /\ killed' = TRUE
  /\ UNCHANGED <<build, numParts, pointers, mutex, spinLocks, pc, part, at, curr, joined>>

\* Mutant: insertion without the big lock.
Take_unlocked(t) ==
  /\ at[t] < PartEnd(part[t])
  /\ Goto(t, "loop", "find")
  /\ UNCHANGED <<config, pointers, mutex, spinLocks, part, at, curr>>

\* get_element(i), and pthread_mutex_lock in the biglock build
Take(t) ==
  /\ at[t] < PartEnd(part[t])
  /\ Goto(t, "loop", "find")
  /\ IF build = "biglock" THEN mutex = None /\ mutex' = t ELSE UNCHANGED mutex
  /\ UNCHANGED <<config, pointers, spinLocks, part, at, curr>>

\* curr = list->next
Find(t) ==
  /\ Goto(t, "find", "point")
  /\ curr' = [curr EXCEPT ![t] = pointers.next[ListOf(t)]]
  /\ UNCHANGED <<config, pointers, mutex, spinLocks, part, at>>

\* element->prev = curr->prev; element->next = curr
Point(t) ==
  /\ Goto(t, "point", "link")
  /\ pointers' = [pointers EXCEPT !.prev[Elem(at[t])] = pointers.prev[curr[t]],
                          !.next[Elem(at[t])] = curr[t]]
  /\ UNCHANGED <<config, mutex, spinLocks, part, at, curr>>

\* curr->prev->next = element
Link(t) ==
  /\ Goto(t, "link", "back")
  /\ pointers' = [pointers EXCEPT !.next[pointers.prev[curr[t]]] = Elem(at[t])]
  /\ UNCHANGED <<config, mutex, spinLocks, part, at, curr>>

\* Mutant: the mutex is not given back.
Back_locked(t) ==
  /\ Goto(t, "back", "loop")
  /\ pointers' = [pointers EXCEPT !.prev[curr[t]] = Elem(at[t])]
  /\ at' = [at EXCEPT ![t] = @ + 1]
  /\ UNCHANGED <<config, mutex, spinLocks, part, curr>>

\* curr->prev = element, pthread_mutex_unlock, i++
Back(t) ==
  /\ Goto(t, "back", "loop")
  /\ pointers' = [pointers EXCEPT !.prev[curr[t]] = Elem(at[t])]
  /\ mutex' = IF build = "biglock" THEN None ELSE mutex
  /\ at' = [at EXCEPT ![t] = @ + 1]
  /\ UNCHANGED <<config, spinLocks, part, curr>>

\* The loop over the part ends: the lb build tries the next part.
PartDone(t) ==
  /\ at[t] >= PartEnd(part[t])
  /\ IF build = "lb"
     THEN Goto(t, "loop", "claim") /\ part' = [part EXCEPT ![t] = @ + 1]
     ELSE Goto(t, "loop", "done") /\ UNCHANGED part
  /\ UNCHANGED <<config, pointers, mutex, spinLocks, at, curr>>

\* main: pthread_join of every thread
Join ==
  /\ ~joined /\ ~killed
  /\ \A t \in Threads : pc[t] = "done"
  /\ joined' = TRUE
  /\ UNCHANGED <<build, numParts, pointers, mutex, spinLocks, pc, part, at, curr, killed>>

Exited == (joined \/ killed) /\ UNCHANGED workersVars

Thread(t) == /\ ~killed
             /\ \/ Start(t) \/ Claim(t) \/ NoMoreParts(t) \/ Take(t) \/ Segfault(t)
                \/ Find(t) \/ Point(t) \/ Link(t) \/ Back(t) \/ PartDone(t)

WorkersNext == (\E t \in Threads : Thread(t)) \/ Join \/ Exited

\* The threads are preemptively scheduled, and each is given CPU time.
WorkersSpec == /\ WorkersInit /\ [][WorkersNext]_workersVars
               /\ \A t \in Threads : WF_workersVars(Thread(t))
               /\ WF_workersVars(Join)

-----------------------------------------------------------------------------
\* The elements of the parts that the threads work on.  What is left over when
\* the parts do not divide the elements is never inserted.
Covered == {Elem(n) : n \in 0 .. per_part * Worked - 1}

\* No element ever gets onto the lists twice.  After the joins main finds
\* every list intact, and the elements of the parts on them; elements that the
\* program does not have only if it is the biglock build with fewer parts than
\* threads.
AllOnce ==
  /\ \A l \in Heads : IsInjective(Contents(pointers, l))
  /\ \A l, m \in Heads : l # m => ToSet(Contents(pointers, l)) \cap ToSet(Contents(pointers, m)) = {}
  /\ joined => /\ \A l \in Heads : Length(pointers, l) = Len(Contents(pointers, l))
               /\ UNION {ToSet(Contents(pointers, l)) : l \in Heads} = Covered
               /\ (build = "biglock" => numParts >= NumThreads) =>
                    Covered \subseteq {Elem(n) : n \in 0 .. the_n_elements - 1}

Store == INSTANCE ElementLists
         WITH Lists <- Heads, Elements <- Items,
              lists <- [l \in Heads |-> Contents(pointers, l)]

\* However the stores of several threads interleave, the lists change by one
\* whole insertion at a time: the store to curr->prev->next is where an
\* element becomes a member.
WholeInsertions == Store!Spec

\* All threads finish their parts and main gets past its joins, unless a thread
\* has left the keys and the process with it.
Joins == <>(joined \/ killed)
=============================================================================
