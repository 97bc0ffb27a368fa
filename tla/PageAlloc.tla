------------------------------ MODULE PageAlloc ------------------------------
(***************************************************************************)
(* p1-5-2/src/mm.c and its callers: the page allocator of the kernel, as   *)
(* user_process uses it.  A process asks for a stack page with the malloc  *)
(* system call, clones a task onto it, and so on; it exits in the end.     *)
(* In the program of kernel.c only the first process allocates; callers    *)
(* says which tasks do, so that the allocator is seen with several as      *)
(* well.  get_free_page scans mem_map with preemption on when malloc or    *)
(* move_to_user_mode calls it, with preemption off when copy_process does. *)
(***************************************************************************)
EXTENDS Integers, FiniteSets

CONSTANTS PAGING_PAGES, \* pages of the allocator
          Tasks,        \* the tasks
          root          \* the first one, which runs user_process

Nobody == "nobody"            \* no task

ASSUME PageAssumption ==
  PAGING_PAGES \in Nat \ {0, 1} /\ root \in Tasks /\ Nobody \notin Tasks

VARIABLES mem_map,      \* page -> 0 or 1
          pc,           \* task -> what it is doing, "none" before its clone
          purpose, i,   \* task -> what it allocates for, the index of its scan
          cpu,          \* the task that runs with preemption off, or Nobody
          pinned,       \* tasks whose preempt_count stays above 0 for ever
          page, stack,  \* task -> the page of its task_struct, its user stack
          got,          \* task -> what its last malloc returned
          callers,      \* the tasks whose program allocates
          lost,         \* history: pages whose address nobody has any more
          doubled       \* history: pages marked though they were marked

vars == <<mem_map, pc, purpose, i, cpu, pinned, page, stack, got, callers, lost, doubled>>

Pages  == 0 .. PAGING_PAGES - 1
NoPage == PAGING_PAGES          \* no page at all: p->stack = 0
Failed == PAGING_PAGES + 1      \* the (unsigned long) -1 that sys_malloc returns

\* kernel_process is about to call move_to_user_mode, in a task whose page
\* copy_process has allocated.
Init ==
  /\ mem_map = [p \in Pages |-> IF p = 0 THEN 1 ELSE 0]
  /\ pc = [t \in Tasks |-> IF t = root THEN "kernel" ELSE "none"]
  /\ purpose = [t \in Tasks |-> "none"] /\ i = [t \in Tasks |-> 0]
  /\ cpu = Nobody /\ pinned = {}
  /\ page = [t \in Tasks |-> IF t = root THEN 0 ELSE NoPage]
  /\ stack = [t \in Tasks |-> NoPage]
  /\ got = [t \in Tasks |-> NoPage]
  /\ callers \in {C \in SUBSET Tasks : root \in C}
  /\ lost = {} /\ doubled = {}

Runs(t) == cpu \in {t, Nobody}

\* Who may not be preempted once t is out of copy_process
Unbound(t) == IF t \in pinned THEN t ELSE Nobody

\* t calls get_free_page
Scan(t, from, for, holder) ==
  /\ Runs(t) /\ pc[t] = from
  /\ pc' = [pc EXCEPT ![t] = "scan"]
  /\ purpose' = [purpose EXCEPT ![t] = for]
  /\ i' = [i EXCEPT ![t] = 0]
  /\ cpu' = holder
  /\ UNCHANGED <<mem_map, pinned, page, stack, got, callers, lost, doubled>>

MoveToUserMode(t) == Scan(t, "kernel", "first", Unbound(t))

Malloc(t) == t \in callers /\ Scan(t, "user", "malloc", Unbound(t))

\* Mutant: copy_process leaves preemption on.
Clone_preemptible(t) == Scan(t, "cloning", "clone", Unbound(t))

\* call_sys_clone: copy_process disables preemption before it allocates.  The
\* process tests the stack with `stack < 0`, which no unsigned value is.
Clone(t) == Scan(t, "cloning", "clone", t)

\* mem_map[i] != 0: the scan goes on
NextPage(t) ==
  /\ Runs(t) /\ pc[t] = "scan"
  /\ i[t] \in Pages /\ mem_map[i[t]] # 0
  /\ i' = [i EXCEPT ![t] = @ + 1]
  /\ UNCHANGED <<mem_map, pc, purpose, cpu, pinned, page, stack, got, callers, lost, doubled>>

\* mem_map[i] == 0: seen free, to be marked in the next step
FreePage(t) ==
  /\ Runs(t) /\ pc[t] = "scan"
  /\ i[t] \in Pages /\ mem_map[i[t]] = 0
  /\ pc' = [pc EXCEPT ![t] = "mark"]
  /\ UNCHANGED <<mem_map, purpose, i, cpu, pinned, page, stack, got, callers, lost, doubled>>

\* Mutant: the page is handed out without mem_map[i] = 1.
Mark_skipped(p) == UNCHANGED <<mem_map, doubled>>

Mark(p) == /\ mem_map' = [mem_map EXCEPT ![p] = 1]
           /\ doubled' = IF mem_map[p] = 0 THEN doubled ELSE doubled \union {p}

\* move_to_user_mode has the stack of the first process ...
UserStack(t) ==
  /\ purpose[t] = "first"
  /\ stack' = [stack EXCEPT ![t] = i[t]]
  /\ pc' = [pc EXCEPT ![t] = "user"]
  /\ UNCHANGED <<page, got>>

\* ... sys_malloc returns to user mode, ...
Malloced(t) ==
  /\ purpose[t] = "malloc"
  /\ got' = [got EXCEPT ![t] = i[t]]
  /\ pc' = [pc EXCEPT ![t] = "cloning"]
  /\ UNCHANGED <<page, stack>>

\* ... and copy_process makes a task of the page, on the stack it was given.
Cloned(t) ==
  /\ purpose[t] = "clone"
  /\ \E u \in Tasks : /\ pc[u] = "none"
                      /\ page' = [page EXCEPT ![u] = i[t]]
                      /\ stack' = [stack EXCEPT ![u] = got[t]]
                      /\ pc' = [pc EXCEPT ![t] = "user", ![u] = "user"]
  /\ got' = [got EXCEPT ![t] = NoPage]

\* get_free_page marks the page and returns it, and its caller goes on.
Allocated(t) ==
  /\ Runs(t) /\ pc[t] = "mark"
  /\ Mark(i[t])
  /\ UserStack(t) \/ Malloced(t) \/ Cloned(t)
  /\ cpu' = Unbound(t)
  /\ UNCHANGED <<purpose, i, pinned, callers, lost>>

\* get_free_page returns 0, and its caller goes on to `to'.  The scan of
\* move_to_user_mode finds a page: when it runs, only page 0 is taken.
NoneLeft(t, for, to) ==
  /\ Runs(t) /\ pc[t] = "scan" /\ i[t] \notin Pages
  /\ purpose[t] = for
  /\ pc' = [pc EXCEPT ![t] = to]
  /\ UNCHANGED <<mem_map, purpose, i, page, stack, callers, doubled>>

\* sys_malloc turns the 0 into -1.
MallocFails(t) ==
  /\ NoneLeft(t, "malloc", "cloning")
  /\ got' = [got EXCEPT ![t] = Failed]
  /\ UNCHANGED <<cpu, pinned, lost>>

\* copy_process returns -1 with preemption still off, and its caller returns
\* with the page of its malloc in a local variable.  A clone that returns gets
\* to call_sys_exit (sys.S); the first process has nowhere to return to, and
\* keeps the CPU.
CloneFails(t) ==
  /\ NoneLeft(t, "clone", IF t = root THEN "stopped" ELSE "user")
  /\ pinned' = pinned \union {t}
  /\ lost' = lost \union ({got[t]} \intersect Pages)
  /\ got' = [got EXCEPT ![t] = NoPage]
  /\ cpu' = t

\* exit_process, with preemption off, up to schedule().  free_page of the stack
\* -1 writes far outside mem_map and of any memory: an exception that ends in
\* err_hang, if the task has not had one from its stack before.
Exit(t) ==
  /\ Runs(t) /\ pc[t] = "user"
  /\ IF stack[t] = Failed
     THEN /\ pc' = [pc EXCEPT ![t] = "stopped"] /\ cpu' = t
          /\ UNCHANGED mem_map
     ELSE /\ pc' = [pc EXCEPT ![t] = "zombie"] /\ cpu' = Nobody
          /\ mem_map' = [p \in Pages |-> IF p = stack[t] THEN 0 ELSE mem_map[p]]
  /\ UNCHANGED <<purpose, i, pinned, page, stack, got, callers, lost, doubled>>

\* sys_sleep gives the CPU away, whatever preempt_count is.
Sleep(t) ==
  /\ cpu = t /\ pc[t] = "user"
  /\ cpu' = Nobody
  /\ UNCHANGED <<mem_map, pc, purpose, i, pinned, page, stack, got, callers, lost, doubled>>

Next == \E t \in Tasks :
  \/ MoveToUserMode(t) \/ Malloc(t)
  \/ (\E u \in Tasks : pc[u] = "none") /\ Clone(t)
  \/ NextPage(t) \/ FreePage(t) \/ Allocated(t)
  \/ MallocFails(t) \/ CloneFails(t)
  \/ Exit(t) \/ Sleep(t)

Spec == Init /\ [][Next]_vars
-----------------------------------------------------------------------------
\* Who holds a page: a task its task_struct, for ever, and its stack until it
\* exits; a process the page it has not passed on yet.
Holders(p) == {<<"task", t>> : t \in {u \in Tasks : page[u] = p}}
       \cup {<<"stack", t>> : t \in {u \in Tasks : stack[u] = p /\ pc[u] # "zombie"}}
       \cup {<<"malloc", t>> : t \in {u \in Tasks : got[u] = p}}

Times(b) == IF b THEN 1 ELSE 0

\* No page is marked twice as long as the first process alone allocates, wherever
\* an exit falls into its scan; copy_process, with preemption off, never marks
\* a page that somebody else has taken, whoever allocates.  What has not been
\* marked twice is marked when it has a holder, never more than one, or was
\* lost by a failed clone, and at no other time.
PagesAccounted ==
  /\ callers = {root} => doubled = {}
  /\ \A t \in Tasks : pc[t] = "mark" /\ purpose[t] = "clone" => mem_map[i[t]] = 0
  /\ \A p \in Pages \ doubled :
       mem_map[p] = Cardinality(Holders(p)) + Times(p \in lost)
=============================================================================
