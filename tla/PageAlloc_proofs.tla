-------------------------- MODULE PageAlloc_proofs --------------------------
(***************************************************************************)
(* For any memory, any number of tasks and any of them allocating: what    *)
(* the allocator of p1-5-2 and its callers keep, though get_free_page can  *)
(* be preempted between its test of mem_map and its mark.                  *)
(***************************************************************************)
EXTENDS PageAlloc, FiniteSetTheorems, TLAPS

Values == 0 .. Failed

TypeOK ==
  /\ mem_map \in [Pages -> {0, 1}]
  /\ pc \in [Tasks -> {"none", "kernel", "user", "cloning", "scan", "mark", "stopped",
                       "zombie"}]
  /\ purpose \in [Tasks -> {"none", "first", "malloc", "clone"}]
  /\ i \in [Tasks -> Nat]
  /\ page \in [Tasks -> Values] /\ stack \in [Tasks -> Values]
  /\ got \in [Tasks -> Values]
  /\ lost \subseteq Pages

Searches(t) == pc[t] \in {"scan", "mark"}

\* What a task has asked for has a place to go, and a page that malloc returned
\* is on its way to a clone.
Asked ==
  \A t \in Tasks :
    /\ Searches(t) => purpose[t] # "none"
    /\ pc[t] = "kernel" => t = root
    /\ pc[t] = "kernel" \/ (Searches(t) /\ purpose[t] = "first") => stack[t] = NoPage
    /\ got[t] # NoPage => pc[t] = "cloning" \/ (Searches(t) /\ purpose[t] = "clone")
    /\ pc[t] = "none" => page[t] = NoPage /\ stack[t] = NoPage
    /\ pc[t] = "mark" => i[t] \in Pages

\* copy_process has the CPU for itself, so that what it has seen free is free.
Exclusive ==
  \A t \in Tasks : Searches(t) /\ purpose[t] = "clone" =>
                     cpu = t /\ (pc[t] = "mark" => mem_map[i[t]] = 0)

\* The same holds of a process that allocates alone: exits only free pages.
Alone ==
  callers = {root} =>
    /\ doubled = {}
    /\ \A t \in Tasks : pc[t] \in {"kernel", "cloning", "scan", "mark"} => t = root
    /\ pc[root] = "mark" => mem_map[i[root]] = 0

\* The stack page that an exit of t would give back
StackPage(t) == IF pc[t] = "zombie" THEN NoPage ELSE stack[t]

Held(p) == \/ \E t \in Tasks : page[t] = p
           \/ \E t \in Tasks : StackPage(t) = p
           \/ \E t \in Tasks : got[t] = p

OneHolder(p) ==
  /\ \A t, u \in Tasks : page[t] = p /\ page[u] = p => t = u
  /\ \A t, u \in Tasks : StackPage(t) = p /\ StackPage(u) = p => t = u
  /\ \A t, u \in Tasks : got[t] = p /\ got[u] = p => t = u
  /\ \A t, u \in Tasks : ~(page[t] = p /\ StackPage(u) = p)
  /\ \A t, u \in Tasks : ~(page[t] = p /\ got[u] = p)
  /\ \A t, u \in Tasks : ~(StackPage(t) = p /\ got[u] = p)

Account(p) == /\ OneHolder(p)
              /\ p \in lost => ~Held(p)
              /\ mem_map[p] = 1 <=> Held(p) \/ p \in lost

Accounted == \A p \in Pages \ doubled : Account(p)

IInv == TypeOK /\ Asked /\ Exclusive /\ Alone /\ Accounted
-----------------------------------------------------------------------------
LEMMA Numbers ==
  /\ PAGING_PAGES \in Nat /\ root \in Tasks /\ NoPage \in Values /\ Failed \in Values
  /\ NoPage \notin Pages /\ Failed \notin Pages /\ Pages \subseteq Values /\ Pages \subseteq Nat
  /\ 0 \in Pages /\ Nobody \notin Tasks
  BY PageAssumption DEF NoPage, Failed, Values, Pages

LEMMA InitInv == Init => IInv
<1> USE Numbers
<1> SUFFICES ASSUME Init
             PROVE  IInv
  OBVIOUS
<1>1. TypeOK
  BY DEF Init, TypeOK
<1>2. Asked /\ Exclusive /\ Alone
  BY DEF Init, Asked, Exclusive, Alone, Searches
<1>3. Accounted
  BY DEF Init, Accounted, Account, OneHolder, Held, StackPage
<1> QED
  BY <1>1, <1>2, <1>3 DEF IInv

\* A step that moves no page
LEMMA NothingMoves ==
  ASSUME Accounted, UNCHANGED <<mem_map, page, stack, got, lost, doubled>>,
         \A t \in Tasks : pc'[t] = "zombie" <=> pc[t] = "zombie"
  PROVE  Accounted'
<1>1. \A t \in Tasks : StackPage(t)' = StackPage(t)
  BY DEF StackPage
<1> QED
  BY <1>1 DEF Accounted, Account, OneHolder, Held

\* While t runs no other task is in copy_process.
LEMMA OthersWait ==
  ASSUME Exclusive, NEW t \in Tasks, Runs(t)
  PROVE  \A u \in Tasks : Searches(u) /\ purpose[u] = "clone" => u = t
  BY Numbers DEF Exclusive, Runs

LEMMA ScanInv ==
  ASSUME IInv, NEW t \in Tasks, MoveToUserMode(t) \/ Malloc(t) \/ Clone(t)
  PROVE  IInv'
<1> USE Numbers DEF IInv
<1>1. /\ pc[t] \in {"kernel", "user", "cloning"} /\ Runs(t)
      /\ pc' = [pc EXCEPT ![t] = "scan"] /\ i' = [i EXCEPT ![t] = 0]
      /\ UNCHANGED <<mem_map, page, stack, got, callers, lost, doubled>>
      /\ \/ pc[t] = "kernel" /\ purpose' = [purpose EXCEPT ![t] = "first"]
         \/ pc[t] = "user" /\ purpose' = [purpose EXCEPT ![t] = "malloc"] /\ t \in callers
         \/ pc[t] = "cloning" /\ purpose' = [purpose EXCEPT ![t] = "clone"] /\ cpu' = t
  BY DEF MoveToUserMode, Malloc, Clone, Scan
<1>2. /\ pc'[t] = "scan" /\ \A u \in Tasks : u # t => /\ pc'[u] = pc[u] /\ i'[u] = i[u]
                                                       /\ purpose'[u] = purpose[u]
      /\ \/ pc[t] = "kernel" /\ purpose'[t] = "first"
         \/ pc[t] = "user" /\ purpose'[t] = "malloc" /\ t \in callers
         \/ pc[t] = "cloning" /\ purpose'[t] = "clone" /\ cpu' = t
  BY <1>1 DEF TypeOK
<1>3. TypeOK'
  BY <1>1 DEF TypeOK
<1>4. Asked'
  BY <1>1, <1>2 DEF Asked, Searches
<1>5. Exclusive'
  BY <1>1, <1>2, OthersWait DEF Exclusive, Searches
<1>6. Alone'
  BY <1>1, <1>2 DEF Alone
<1>7. Accounted'
  BY <1>1, <1>2, NothingMoves
<1> QED
  BY <1>3, <1>4, <1>5, <1>6, <1>7

LEMMA SearchInv ==
  ASSUME IInv, NEW t \in Tasks, NextPage(t) \/ FreePage(t)
  PROVE  IInv'
<1> USE Numbers DEF IInv
<1>1. /\ pc[t] = "scan" /\ i[t] \in Pages
      /\ UNCHANGED <<mem_map, purpose, cpu, page, stack, got, callers, lost, doubled>>
      /\ \/ pc' = pc /\ i' = [i EXCEPT ![t] = @ + 1]
         \/ pc' = [pc EXCEPT ![t] = "mark"] /\ i' = i /\ mem_map[i[t]] = 0
  BY DEF NextPage, FreePage, TypeOK
<1>2. /\ Searches(t) /\ Searches(t)'
      /\ pc'[t] = "scan" \/ (pc'[t] = "mark" /\ i'[t] \in Pages /\ mem_map[i'[t]] = 0)
      /\ \A u \in Tasks : u # t => pc'[u] = pc[u] /\ i'[u] = i[u]
  BY <1>1 DEF TypeOK, Searches
<1>3. TypeOK'
  BY <1>1 DEF TypeOK
<1>4. Asked'
  BY <1>1, <1>2 DEF Asked, Searches
<1>5. Exclusive'
  BY <1>1, <1>2 DEF Exclusive, Searches
<1>6. Alone'
  BY <1>1, <1>2 DEF Alone
<1>7. Accounted'
  BY <1>1, <1>2, NothingMoves
<1> QED
  BY <1>3, <1>4, <1>5, <1>6, <1>7

\* A page that was still free when it was marked had no holder; the task, or
\* the process, that has asked for it becomes its only one.
LEMMA AllocatedInv ==
  ASSUME IInv, NEW t \in Tasks, Allocated(t)
  PROVE  IInv'
<1> USE Numbers DEF IInv
<1> DEFINE q == i[t]
<1>1. /\ pc[t] = "mark" /\ Searches(t) /\ Runs(t) /\ q \in Pages /\ purpose[t] # "none"
      /\ UNCHANGED <<purpose, i, callers, lost>>
      /\ mem_map' = [mem_map EXCEPT ![q] = 1]
      /\ doubled' = IF mem_map[q] = 0 THEN doubled ELSE doubled \union {q}
  BY DEF Allocated, Mark, Asked, Searches
<1>2. /\ mem_map' \in [Pages -> {0, 1}]
      /\ \A p \in Pages : mem_map'[p] = IF p = q THEN 1 ELSE mem_map[p]
  BY <1>1 DEF TypeOK
<1>3. \A p \in Pages \ doubled' : Account(p) /\ (p = q => ~Held(p) /\ p \notin lost)
  BY <1>1 DEF Accounted, Account, TypeOK
<1>4. \A u \in Tasks : Searches(u) /\ purpose[u] = "clone" => u = t
  BY <1>1, OthersWait
<1>5. callers = {root} => t = root /\ doubled' = {}
  BY <1>1 DEF Alone
<1>6. CASE UserStack(t)
  <2>1. /\ purpose[t] = "first" /\ page' = page /\ got' = got /\ stack[t] = NoPage
        /\ stack' = [stack EXCEPT ![t] = q] /\ pc' = [pc EXCEPT ![t] = "user"]
    BY <1>1, <1>6 DEF UserStack, Asked
  <2>2. TypeOK'
    BY <1>1, <1>2, <2>1 DEF TypeOK
  <2>3. /\ pc'[t] = "user" /\ stack'[t] = q
        /\ \A u \in Tasks : u # t => pc'[u] = pc[u] /\ stack'[u] = stack[u]
    BY <2>1 DEF TypeOK
  <2>4. Asked'
    BY <1>1, <2>1, <2>3 DEF Asked, Searches
  <2>5. Exclusive' /\ Alone'
    BY <1>1, <1>4, <1>5, <2>1, <2>3 DEF Exclusive, Alone, Searches
  <2>6. /\ StackPage(t) = NoPage /\ StackPage(t)' = q
        /\ \A u \in Tasks : u # t => StackPage(u)' = StackPage(u)
    BY <1>1, <2>1, <2>3 DEF StackPage
  <2>7. ASSUME NEW p \in Pages \ doubled'
        PROVE  Account(p)'
    BY <1>1, <1>2, <1>3, <2>1, <2>6 DEF Account, OneHolder, Held
  <2>8. Accounted'
    BY <1>1, <2>7 DEF Accounted
  <2> QED
    BY <2>2, <2>4, <2>5, <2>8
<1>7. CASE Malloced(t)
  <2>1. /\ purpose[t] = "malloc" /\ page' = page /\ stack' = stack /\ got[t] = NoPage
        /\ got' = [got EXCEPT ![t] = q] /\ pc' = [pc EXCEPT ![t] = "cloning"]
    BY <1>1, <1>7 DEF Malloced, Asked
  <2>2. TypeOK'
    BY <1>1, <1>2, <2>1 DEF TypeOK
  <2>3. /\ pc'[t] = "cloning" /\ got'[t] = q
        /\ \A u \in Tasks : u # t => pc'[u] = pc[u] /\ got'[u] = got[u]
    BY <2>1 DEF TypeOK
  <2>4. Asked'
    BY <1>1, <2>1, <2>3 DEF Asked, Searches
  <2>5. Exclusive' /\ Alone'
    BY <1>1, <1>4, <1>5, <2>1, <2>3 DEF Exclusive, Alone, Searches
  <2>6. \A u \in Tasks : StackPage(u)' = StackPage(u)
    BY <1>1, <2>1, <2>3 DEF StackPage
  <2>7. ASSUME NEW p \in Pages \ doubled'
        PROVE  Account(p)'
    BY <1>1, <1>2, <1>3, <2>1, <2>3, <2>6 DEF Account, OneHolder, Held
  <2>8. Accounted'
    BY <1>1, <2>7 DEF Accounted
  <2> QED
    BY <2>2, <2>4, <2>5, <2>8
<1>8. CASE Cloned(t)
  <2>1. /\ purpose[t] = "clone" /\ got' = [got EXCEPT ![t] = NoPage]
        /\ mem_map[q] = 0
    BY <1>1, <1>8 DEF Cloned, Exclusive
  <2>2. PICK k \in Tasks :
          /\ pc[k] = "none"
          /\ page' = [page EXCEPT ![k] = q] /\ stack' = [stack EXCEPT ![k] = got[t]]
          /\ pc' = [pc EXCEPT ![t] = "user", ![k] = "user"]
    BY <1>8 DEF Cloned
  <2>3. /\ page[k] = NoPage /\ stack[k] = NoPage /\ got[k] = NoPage /\ k # t
        /\ pc[k] = "none"
    BY <1>1, <2>2 DEF Asked, Searches
  <2>4. TypeOK'
    BY <1>1, <1>2, <2>1, <2>2 DEF TypeOK
  <2>5. /\ pc'[t] = "user" /\ pc'[k] = "user" /\ page'[k] = q /\ stack'[k] = got[t]
        /\ got'[t] = NoPage
        /\ \A u \in Tasks : u # k => page'[u] = page[u] /\ stack'[u] = stack[u]
        /\ \A u \in Tasks : u # t => got'[u] = got[u]
        /\ \A u \in Tasks : u # k /\ u # t => pc'[u] = pc[u]
    BY <2>1, <2>2, <2>3 DEF TypeOK
  <2>6. Asked'
    BY <1>1, <2>1, <2>3, <2>5 DEF Asked, Searches
  <2>7. Exclusive' /\ Alone'
    BY <1>1, <1>4, <1>5, <2>1, <2>3, <2>5 DEF Exclusive, Alone, Searches
  <2>8. /\ StackPage(k) = NoPage /\ StackPage(k)' = got[t]
        /\ \A u \in Tasks : u # k => StackPage(u)' = StackPage(u)
    BY <1>1, <2>3, <2>5 DEF StackPage
  <2>9. ASSUME NEW p \in Pages \ doubled'
        PROVE  Account(p)'
    <3>1. Account(p) /\ (p = q => ~Held(p) /\ p \notin lost)
      BY <1>3
    <3>2. OneHolder(p)'
      BY <1>1, <2>3, <2>5, <2>8, <3>1 DEF OneHolder, Held, Account
    <3>3. Held(p)' <=> p = q \/ Held(p)
      BY <1>1, <2>3, <2>5, <2>8, <3>1 DEF Held
    <3> QED
      BY <1>1, <1>2, <3>1, <3>2, <3>3 DEF Account
  <2>10. Accounted'
    BY <1>1, <2>9 DEF Accounted
  <2> QED
    BY <2>4, <2>6, <2>7, <2>10
<1> QED
  BY <1>6, <1>7, <1>8 DEF Allocated

LEMMA MallocFailsInv ==
  ASSUME IInv, NEW t \in Tasks, MallocFails(t)
  PROVE  IInv'
<1> USE Numbers DEF IInv
<1>1. /\ pc[t] = "scan" /\ Searches(t) /\ purpose[t] = "malloc" /\ got[t] = NoPage
      /\ UNCHANGED <<mem_map, purpose, i, cpu, page, stack, callers, lost, doubled>>
      /\ pc' = [pc EXCEPT ![t] = "cloning"] /\ got' = [got EXCEPT ![t] = Failed]
  BY DEF MallocFails, NoneLeft, Asked, Searches
<1>2. /\ pc'[t] = "cloning" /\ got'[t] = Failed
      /\ \A u \in Tasks : u # t => pc'[u] = pc[u] /\ got'[u] = got[u]
  BY <1>1 DEF TypeOK
<1>3. TypeOK'
  BY <1>1 DEF TypeOK
<1>4. Asked' /\ Exclusive' /\ Alone'
  BY <1>1, <1>2 DEF Asked, Exclusive, Alone, Searches
<1>5. \A u \in Tasks : StackPage(u)' = StackPage(u)
  BY <1>1, <1>2 DEF StackPage
<1>6. Accounted'
  BY <1>1, <1>2, <1>5 DEF Accounted, Account, OneHolder, Held
<1> QED
  BY <1>3, <1>4, <1>6

\* The page of the malloc goes from its holder to the lost ones.
LEMMA CloneFailsInv ==
  ASSUME IInv, NEW t \in Tasks, CloneFails(t)
  PROVE  IInv'
<1> USE Numbers DEF IInv
<1>1. /\ pc[t] = "scan" /\ Searches(t) /\ Runs(t) /\ purpose[t] = "clone"
      /\ UNCHANGED <<mem_map, purpose, i, page, stack, callers, doubled>>
      /\ pc' = [pc EXCEPT ![t] = IF t = root THEN "stopped" ELSE "user"]
      /\ got' = [got EXCEPT ![t] = NoPage]
      /\ lost' = lost \union ({got[t]} \intersect Pages)
  BY DEF CloneFails, NoneLeft, Searches
<1>2. /\ pc'[t] \in {"stopped", "user"} /\ got'[t] = NoPage
      /\ \A u \in Tasks : u # t => pc'[u] = pc[u] /\ got'[u] = got[u]
  BY <1>1 DEF TypeOK
<1>3. TypeOK'
  BY <1>1 DEF TypeOK
<1>4. \A u \in Tasks : Searches(u) /\ purpose[u] = "clone" => u = t
  BY <1>1, OthersWait
<1>5. Asked' /\ Exclusive' /\ Alone'
  BY <1>1, <1>2, <1>4 DEF Asked, Exclusive, Alone, Searches
<1>6. \A u \in Tasks : StackPage(u)' = StackPage(u)
  BY <1>1, <1>2 DEF StackPage
<1>7. ASSUME NEW p \in Pages \ doubled'
      PROVE  Account(p)'
  <2>1. Account(p)
    BY <1>1 DEF Accounted
  <2>2. OneHolder(p)'
    BY <1>1, <1>2, <1>6, <2>1 DEF Account, OneHolder
  <2>3. Held(p)' <=> Held(p) /\ p # got[t]
    BY <1>1, <1>2, <1>6, <2>1 DEF Account, OneHolder, Held
  <2>4. p = got[t] => Held(p)
    BY DEF Held
  <2> QED
    BY <1>1, <2>1, <2>2, <2>3, <2>4 DEF Account
<1>8. Accounted'
  BY <1>1, <1>7 DEF Accounted
<1> QED
  BY <1>3, <1>5, <1>8

LEMMA ExitInv ==
  ASSUME IInv, NEW t \in Tasks, Exit(t)
  PROVE  IInv'
<1> USE Numbers DEF IInv
<1>1. /\ pc[t] = "user" /\ Runs(t) /\ UNCHANGED <<purpose, i, page, stack, got, callers, lost, doubled>>
  BY DEF Exit
<1>2. \A u \in Tasks : Searches(u) /\ purpose[u] = "clone" => FALSE
  BY <1>1, OthersWait DEF Searches
<1>3. CASE stack[t] = Failed
  <2>1. mem_map' = mem_map /\ pc' = [pc EXCEPT ![t] = "stopped"]
    BY <1>3 DEF Exit
  <2>2. pc'[t] = "stopped" /\ \A u \in Tasks : u # t => pc'[u] = pc[u]
    BY <2>1 DEF TypeOK
  <2>3. TypeOK'
    BY <1>1, <2>1 DEF TypeOK
  <2>4. Asked' /\ Exclusive' /\ Alone'
    BY <1>1, <1>2, <2>1, <2>2 DEF Asked, Exclusive, Alone, Searches
  <2>5. Accounted'
    BY <1>1, <2>1, <2>2, NothingMoves
  <2> QED
    BY <2>3, <2>4, <2>5
<1>4. CASE stack[t] # Failed
  <2>1. /\ pc' = [pc EXCEPT ![t] = "zombie"]
        /\ mem_map' = [p \in Pages |-> IF p = stack[t] THEN 0 ELSE mem_map[p]]
    BY <1>4 DEF Exit
  <2>2. pc'[t] = "zombie" /\ \A u \in Tasks : u # t => pc'[u] = pc[u]
    BY <2>1 DEF TypeOK
  <2>3. \A p \in Pages : mem_map'[p] = IF p = stack[t] THEN 0 ELSE mem_map[p]
    BY <2>1
  <2>4. TypeOK'
    BY <1>1, <2>1 DEF TypeOK
  <2>5. Asked' /\ Exclusive'
    BY <1>1, <1>2, <2>2 DEF Asked, Exclusive, Searches
  <2>6. Alone'
    BY <1>1, <2>2, <2>3 DEF Alone, Asked
  <2>7. /\ StackPage(t) = stack[t] /\ StackPage(t)' = NoPage
        /\ \A u \in Tasks : u # t => StackPage(u)' = StackPage(u)
    BY <1>1, <2>2 DEF StackPage
  <2>8. ASSUME NEW p \in Pages \ doubled'
        PROVE  Account(p)'
    <3>1. Account(p)
      BY <1>1 DEF Accounted
    <3>2. OneHolder(p)'
      BY <1>1, <2>7, <3>1 DEF Account, OneHolder
    <3>3. /\ Held(p)' <=> p # stack[t] /\ Held(p)
          /\ p = stack[t] => Held(p)
      BY <1>1, <2>7, <3>1 DEF Held, Account, OneHolder
    <3> QED
      BY <1>1, <2>3, <3>1, <3>2, <3>3 DEF Account
  <2>9. Accounted'
    BY <1>1, <2>8 DEF Accounted
  <2> QED
    BY <2>4, <2>5, <2>6, <2>9
<1> QED
  BY <1>3, <1>4

LEMMA SleepInv ==
  ASSUME IInv, NEW t \in Tasks, Sleep(t)
  PROVE  IInv'
<1> USE Numbers DEF IInv
<1>1. /\ pc[t] = "user" /\ Runs(t)
      /\ UNCHANGED <<mem_map, pc, purpose, i, page, stack, got, callers, lost, doubled>>
  BY DEF Sleep, Runs
<1>2. \A u \in Tasks : Searches(u) /\ purpose[u] = "clone" => FALSE
  BY <1>1, OthersWait DEF Searches
<1>3. TypeOK' /\ Asked' /\ Exclusive' /\ Alone'
  BY <1>1, <1>2 DEF TypeOK, Asked, Exclusive, Alone, Searches
<1>4. Accounted'
  BY <1>1, NothingMoves
<1> QED
  BY <1>3, <1>4

LEMMA StepInv == IInv /\ [Next]_vars => IInv'
<1> SUFFICES ASSUME IInv, [Next]_vars
             PROVE  IInv'
  OBVIOUS
<1>1. CASE UNCHANGED vars
  <2>1. UNCHANGED <<mem_map, pc, purpose, i, cpu, page, stack, got, callers, lost, doubled>>
    BY <1>1 DEF vars
  <2>2. Accounted'
    BY <2>1, NothingMoves DEF IInv
  <2> QED
    BY <2>1, <2>2 DEF IInv, TypeOK, Asked, Exclusive, Alone, Searches
<1> QED
  BY <1>1, ScanInv, SearchInv, AllocatedInv, MallocFailsInv, CloneFailsInv, ExitInv, SleepInv
  DEF Next

(* What makes get_free_page safe without a lock of its own: copy_process   *)
(* has preemption off, and with a single process that allocates an exit    *)
(* only frees what nobody else holds.  With more of them, the pages that   *)
(* two scans have marked are the only ones out of account.                 *)
THEOREM Invariant == Spec => []IInv
BY InitInv, StepInv, PTL DEF Spec

-----------------------------------------------------------------------------
LEMMA HoldersCounted ==
  ASSUME IInv, NEW p \in Pages \ doubled
  PROVE  Cardinality(Holders(p)) = IF Held(p) THEN 1 ELSE 0
<1>1. OneHolder(p) /\ p # NoPage
  BY Numbers DEF IInv, Accounted, Account
<1>2. \A t \in Tasks : StackPage(t) = p <=> stack[t] = p /\ pc[t] # "zombie"
  BY <1>1 DEF StackPage
<1>3. CASE \E t \in Tasks : page[t] = p
  <2>1. PICK t \in Tasks : page[t] = p
    BY <1>3
  <2>2. Holders(p) = {<<"task", t>>}
    BY <1>1, <1>2, <2>1 DEF Holders, OneHolder
  <2> QED
    BY <2>1, <2>2, FS_Singleton DEF Held
<1>4. CASE \E t \in Tasks : StackPage(t) = p
  <2>1. PICK t \in Tasks : StackPage(t) = p
    BY <1>4
  <2>2. Holders(p) = {<<"stack", t>>}
    BY <1>1, <1>2, <2>1 DEF Holders, OneHolder
  <2> QED
    BY <2>1, <2>2, FS_Singleton DEF Held
<1>5. CASE \E t \in Tasks : got[t] = p
  <2>1. PICK t \in Tasks : got[t] = p
    BY <1>5
  <2>2. Holders(p) = {<<"malloc", t>>}
    BY <1>1, <1>2, <2>1 DEF Holders, OneHolder
  <2> QED
    BY <2>1, <2>2, FS_Singleton DEF Held
<1>6. CASE ~Held(p)
  <2>1. Holders(p) = {}
    BY <1>2, <1>6 DEF Holders, Held
  <2> QED
    BY <1>6, <2>1, FS_EmptySet
<1> QED
  BY <1>3, <1>4, <1>5, <1>6 DEF Held

(* While the first process alone allocates no page is handed out twice;    *)
(* copy_process never takes a page that is taken; and a page that was not  *)
(* handed out twice is marked as often as it has a holder or is lost to a  *)
(* failed clone, which is once at most.                                    *)
THEOREM NoPageTwice == Spec => []PagesAccounted
<1>1. IInv => PagesAccounted
  <2> SUFFICES ASSUME IInv
               PROVE  PagesAccounted
    OBVIOUS
  <2>1. callers = {root} => doubled = {}
    BY DEF IInv, Alone
  <2>2. \A t \in Tasks : pc[t] = "mark" /\ purpose[t] = "clone" => mem_map[i[t]] = 0
    BY DEF IInv, Exclusive, Searches
  <2>3. ASSUME NEW p \in Pages \ doubled
        PROVE  mem_map[p] = Cardinality(Holders(p)) + Times(p \in lost)
    <3>1. mem_map[p] \in {0, 1} /\ Account(p)
      BY DEF IInv, TypeOK, Accounted
    <3>2. Cardinality(Holders(p)) = IF Held(p) THEN 1 ELSE 0
      BY HoldersCounted
    <3> QED
      BY <3>1, <3>2 DEF Account, Times
  <2> QED
    BY <2>1, <2>2, <2>3 DEF PagesAccounted
<1> QED
  BY <1>1, Invariant, PTL
=============================================================================
