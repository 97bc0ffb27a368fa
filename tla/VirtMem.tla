------------------------------ MODULE VirtMem ------------------------------
(***************************************************************************)
(* p1_6/src: the address spaces of user tasks.  A page comes from          *)
(* get_free_page, whose test and mark of mem_map a timer interrupt may     *)
(* separate; map_page walks and extends the four levels of a task's page   *)
(* tables; move_to_user_mode loads the program, do_mem_abort adds a page   *)
(* at a fault, and a fork copies the pages one by one.  Nothing is ever    *)
(* freed: exit_process frees no page and nobody calls free_page.           *)
(***************************************************************************)
EXTENDS Integers, Sequences

CONSTANTS PAGING_PAGES,       \* the largest memory considered, in pages
          PTRS_PER_TABLE, MAX_PROCESS_PAGES,
          Tasks, root,        \* the tasks, and the one that is loaded
          UserPages,          \* numbers of the pages a user task touches
          Words,              \* what user tasks write, one word for a page
          Zero, Code, Stale, NoPage, Unborn, Ended

ASSUME MemoryAssumption ==
  /\ PAGING_PAGES \in Nat \ {0} /\ PTRS_PER_TABLE \in Nat \ {0}
  /\ MAX_PROCESS_PAGES \in Nat
  /\ root \in Tasks /\ "nobody" \notin Tasks
  /\ 0 \in UserPages
  /\ UserPages \subseteq 0 .. PTRS_PER_TABLE * PTRS_PER_TABLE * PTRS_PER_TABLE * PTRS_PER_TABLE - 1
  /\ NoPage \notin Words \cup {Zero, Code, Stale}
  /\ Unborn # Ended
  /\ {Unborn, Ended} \cap [UserPages -> Words \cup {Zero, Code, Stale, NoPage}] = {}

VARIABLES mem_map,            \* a sequence with 0 or 1 for each page there is
          table, data,        \* page -> its words as a table, as user memory
          task, pgd,          \* task -> the page of its task_struct, its pgd
          user_pages,         \* task -> the virtual pages mapped, in order
          ind,                \* do_mem_abort's count of faults
          pc,                 \* task -> what it is doing
          at,                 \* task -> the variables of the kernel's work for it
          cpu,                \* the task that runs with preemption off, or Nobody
          page0,              \* the page entered in physical page 0, or 0
          halted              \* an exception in the kernel has stopped it

vars == <<mem_map, table, data, task, pgd, user_pages, ind, pc, at, cpu,
          page0, halted>>

Pages   == 1 .. PAGING_PAGES
NoEntry == 0                     \* an empty word of a table, a pgd not there
Junk    == PAGING_PAGES + 1      \* a word that memzero has not cleared
Nobody  == "nobody"

\* What a call needs pages for, in its order: the task_struct of a fork, the
\* user page itself, the pgd, and the tables below it up to the last level,
\* which get_free_page has no part in.
TaskStruct == 0
UserPage   == 1
Pgd        == 2
Pud        == 3
Pte        == 5
Leaf       == 6

Idle == [job |-> "none", dst |-> root, rest |-> <<>>, level |-> TaskStruct,
         page |-> 0, table |-> 0, user |-> 0]

\* The index of a virtual page in a table, whose level says what it selects.
Span(level) == IF level = Leaf THEN 1
               ELSE IF level = Pte THEN PTRS_PER_TABLE
               ELSE IF level = Pud THEN PTRS_PER_TABLE * PTRS_PER_TABLE * PTRS_PER_TABLE
               ELSE PTRS_PER_TABLE * PTRS_PER_TABLE
Index(va, level) == (va \div Span(level)) % PTRS_PER_TABLE

\* The translation of a virtual page by the MMU: the page it leads to.
Below(page, va, level) ==
  IF page \in Pages THEN table[page][Index(va, level)] ELSE NoEntry
Translated(t, va) ==
  Below(Below(Below(Below(pgd[t], va, Pud), va, Pud + 1), va, Pte), va, Leaf)
Content(t, va) ==
  LET page == Translated(t, va) IN IF page \in Pages THEN data[page] ELSE NoPage

-----------------------------------------------------------------------------
\* kernel_main has started kernel_process, on a machine with some memory.
Init ==
  /\ \E size \in Pages : mem_map = [p \in 1 .. size |-> IF p = 1 THEN 1 ELSE 0]
  /\ table = [p \in Pages |-> [i \in 0 .. PTRS_PER_TABLE - 1 |->
                                 IF p = 1 THEN NoEntry ELSE Junk]]
  /\ data = [p \in Pages |-> IF p = 1 THEN Zero ELSE Stale]
  /\ task = [t \in Tasks |-> IF t = root THEN 1 ELSE 0]
  /\ pgd = [t \in Tasks |-> NoEntry]
  /\ user_pages = [t \in Tasks |-> <<>>]
  /\ ind = 1
  /\ pc = [t \in Tasks |-> IF t = root THEN "kernel" ELSE "none"]
  /\ at = [t \in Tasks |-> Idle]
  /\ cpu = Nobody
  /\ page0 = 0
  /\ halted = FALSE

Runs(t) == ~halted /\ cpu \in {t, Nobody}

\* A task that can still run user code, now or later
Live(t) == pc[t] \in {"kernel", "user", "see", "mark", "walk", "failed"}
Alone(t) == \A u \in Tasks \ {t} : ~Live(u)

-----------------------------------------------------------------------------
Begin(t, job, dst, rest, level) ==
  /\ pc' = [pc EXCEPT ![t] = "see"]
  /\ at' = [at EXCEPT ![t] = [Idle EXCEPT !.job = job, !.dst = dst,
                                          !.rest = rest, !.level = level]]
  /\ UNCHANGED <<mem_map, table, data, task, pgd, user_pages, ind, page0, halted>>

\* move_to_user_mode: a page for the program at address 0
MoveToUserMode ==
  /\ Runs(root) /\ pc[root] = "kernel"
  /\ Begin(root, "load", root, <<0>>, UserPage)
  /\ UNCHANGED cpu

\* el0_da: the task touches a page it has not got.  The user program does so
\* before its fork, when no other user task is left to run: its stack is the
\* only page it ever touches first.
Fault(t, va) ==
  /\ Runs(t) /\ pc[t] = "user" /\ Alone(t)
  /\ Translated(t, va) = NoEntry
  /\ Begin(t, "fault", t, <<va>>, UserPage)
  /\ UNCHANGED cpu

\* Mutant: copy_process does not disable preemption.
Preempt_disable_not(t) == UNCHANGED cpu

Preempt_disable(t) == cpu' = t

\* call_sys_fork
Fork(t, child) ==
  /\ Runs(t) /\ pc[t] = "user" /\ task[child] = 0
  /\ \A u \in Tasks : at[u].job = "fork" => at[u].dst # child
  /\ Begin(t, "fork", child, user_pages[t], TaskStruct)
  /\ Preempt_disable(t)

\* The user program writes to a page it has.
Write(t, va, value) ==
  /\ Runs(t) /\ pc[t] = "user"
  /\ Translated(t, va) \in Pages
  /\ data' = [data EXCEPT ![Translated(t, va)] = value]
  /\ UNCHANGED <<mem_map, table, task, pgd, user_pages, ind, pc, at, cpu,
                 page0, halted>>

\* exit_process.  The call of schedule gives the CPU away whatever the count.
Exit(t) ==
  /\ Runs(t) /\ pc[t] \in {"user", "failed"}
  /\ pc' = [pc EXCEPT ![t] = "zombie"]
  /\ cpu' = Nobody
  /\ UNCHANGED <<mem_map, table, data, task, pgd, user_pages, ind, at, page0, halted>>

-----------------------------------------------------------------------------
\* Mutant: get_free_page tests i <= PAGING_PAGES.
Unmarked_beyond == {p \in 1 .. Len(mem_map) + 1 : p \in DOMAIN mem_map => mem_map[p] = 0}

Unmarked == {p \in DOMAIN mem_map : mem_map[p] = 0}

\* get_free_page: the scan ends at the first page that is not marked.
See(t) ==
  /\ Runs(t) /\ pc[t] = "see"
  /\ \E p \in Unmarked :
       /\ \A q \in Unmarked : p <= q
       /\ at' = [at EXCEPT ![t].page = p]
  /\ pc' = [pc EXCEPT ![t] = "mark"]
  /\ UNCHANGED <<mem_map, table, data, task, pgd, user_pages, ind, cpu, page0, halted>>

\* The page is marked and cleared, and the caller puts it to its use.
Mark(t) ==
  LET a == at[t]
      cleared == [table EXCEPT ![a.page] = [i \in 0 .. PTRS_PER_TABLE - 1 |-> NoEntry]]
  IN
  /\ Runs(t) /\ pc[t] = "mark"
  /\ mem_map' = [mem_map EXCEPT ![a.page] = 1]
  /\ data' = [data EXCEPT ![a.page] = Zero]
  /\ task' = IF a.level = TaskStruct THEN [task EXCEPT ![a.dst] = a.page] ELSE task
  /\ pgd' = IF a.level = Pgd THEN [pgd EXCEPT ![a.dst] = a.page] ELSE pgd
  /\ table' = IF a.level \in Pud .. Pte
              THEN [cleared EXCEPT ![a.table][Index(Head(a.rest), a.level)] = a.page]
              ELSE cleared
  /\ at' = [at EXCEPT ![t].level = a.level + 1,
                      ![t].page = 0,
                      ![t].user = IF a.level = UserPage THEN a.page ELSE a.user,
                      ![t].table = IF a.level >= Pgd THEN a.page ELSE a.table]
  /\ pc' = [pc EXCEPT ![t] = IF a.level = TaskStruct THEN "see" ELSE "walk"]
  /\ UNCHANGED <<user_pages, ind, cpu, page0, halted>>

\* map_page, map_table: the word that leads to the table wanted next
Entry(t) == IF at[t].level = Pgd THEN pgd[at[t].dst]
            ELSE table[at[t].table][Index(Head(at[t].rest), at[t].level)]

\* Mutant: map_table makes a new last level each time.
Missing_below(t) == Entry(t) = NoEntry \/ at[t].level = Pte

Missing(t) == Entry(t) = NoEntry

\* It is there already.
Descend(t) ==
  /\ Runs(t) /\ pc[t] = "walk" /\ at[t].level < Leaf
  /\ ~Missing(t)
  /\ at' = [at EXCEPT ![t].level = at[t].level + 1, ![t].table = Entry(t)]
  /\ UNCHANGED <<mem_map, table, data, task, pgd, user_pages, ind, pc, cpu, page0, halted>>

\* It is not: get_free_page.
NeedTable(t) ==
  /\ Runs(t) /\ pc[t] = "walk" /\ at[t].level < Leaf
  /\ Missing(t)
  /\ pc' = [pc EXCEPT ![t] = "see"]
  /\ UNCHANGED <<mem_map, table, data, task, pgd, user_pages, ind, at, cpu, page0, halted>>

\* The call is over: t and, after a fork, its child are where given.
Finish(t, where, child) ==
  /\ pc' = [pc EXCEPT ![t] = where, ![at[t].dst] = child]
  /\ at' = [at EXCEPT ![t] = Idle]
  /\ cpu' = IF at[t].job = "fork" THEN Nobody ELSE cpu

\* Mutant: memcpy with its arguments in the order of the C library.
Copied_swapped(t, va) == [data EXCEPT ![Translated(t, va)] = data[at[t].user]]

\* memcpy(src, dst, size), through the address space of the parent
Copied(t, va) == [data EXCEPT ![at[t].user] = Content(t, va)]

\* Mutant: do_mem_abort has no limit.
TooManyFaults_never == FALSE

\* do_mem_abort returns -1 for a page that it has mapped.
TooManyFaults == ind' > 2

\* What map_page and its caller do when the page has been entered: it is on
\* the list of its task and is filled.
Recorded(t) ==
  LET a  == at[t]
      va == Head(a.rest)
  IN
  /\ user_pages' = [user_pages EXCEPT ![a.dst] = Append(@, va)]
  /\ data' = IF a.job = "load" THEN [data EXCEPT ![a.user] = Code]
             ELSE IF a.job = "fork" THEN Copied(t, va) ELSE data
  /\ ind' = IF a.job = "fault" THEN ind + 1 ELSE ind

\* map_table_entry and what follows it; the call ends or goes on to the next
\* page.
Enter(t) ==
  LET a == at[t] IN
  /\ Runs(t) /\ pc[t] = "walk" /\ a.level = Leaf
  /\ table' = [table EXCEPT ![a.table][Index(Head(a.rest), Leaf)] = a.user]
  /\ Recorded(t)
  /\ IF Len(a.rest) > 1
     THEN /\ at' = [at EXCEPT ![t].rest = Tail(a.rest), ![t].level = UserPage,
                              ![t].user = 0, ![t].table = 0]
          /\ pc' = [pc EXCEPT ![t] = "see"]
          /\ UNCHANGED cpu
     ELSE IF a.job = "fault" /\ TooManyFaults
     THEN Finish(t, "hung", "hung")
     ELSE Finish(t, "user", "user")
  /\ UNCHANGED <<mem_map, task, pgd, page0, halted>>

\* get_free_page returns 0.  A load or a fault without a user page hangs the
\* task; copy_process returns -1 with preemption off and the program exits;
\* a fork whose copies fail goes on as if they had not, and a child without
\* its first page hangs when it fetches an instruction.
NoneLeft(t) ==
  /\ Runs(t) /\ pc[t] = "see" /\ Unmarked = {}
  /\ \/ /\ at[t].level = TaskStruct
        /\ pc' = [pc EXCEPT ![t] = "failed"]
        /\ at' = [at EXCEPT ![t] = Idle]
        /\ UNCHANGED cpu
     \/ /\ at[t].level = UserPage /\ at[t].job # "fork"
        /\ Finish(t, "hung", "hung")
     \/ /\ at[t].level = UserPage /\ at[t].job = "fork"
        /\ Finish(t, "user", IF user_pages[at[t].dst] = <<>> THEN "hung" ELSE "user")
  /\ UNCHANGED <<mem_map, table, data, task, pgd, user_pages, ind, page0, halted>>

\* Nobody tests the 0 that get_free_page returns for a table: map_page takes
\* physical page 0, which is the firmware's, for it.  A word found there may
\* lead out of memory, and the kernel stops with an exception; or its words
\* lead back to page 0, and the user page is entered in it.  (One that leads
\* into the memory of others is not followed.)  A fork can copy no further
\* page then.  What a task sees through page 0 is not followed: it is astray.
WithoutTable(t) ==
  /\ Runs(t) /\ pc[t] = "see" /\ at[t].level >= Pgd /\ Unmarked = {}
  /\ \/ /\ at[t].level < Pte
        /\ halted' = TRUE
        /\ UNCHANGED <<data, user_pages, ind, pc, at, cpu, page0>>
     \/ /\ page0' = at[t].user
        /\ Recorded(t)
        /\ IF at[t].job = "fork" THEN Finish(t, "user", "astray")
           ELSE IF at[t].job = "fault" /\ TooManyFaults THEN Finish(t, "hung", "hung")
           ELSE Finish(t, "astray", "astray")
        /\ UNCHANGED halted
  /\ UNCHANGED <<mem_map, table, task, pgd>>

-----------------------------------------------------------------------------
Next ==
  \/ MoveToUserMode
  \/ \E t \in Tasks :
       \/ \E va \in UserPages : Fault(t, va) \/ \E value \in Words : Write(t, va, value)
       \/ \E child \in Tasks : Fork(t, child)
       \/ Exit(t)
       \/ See(t) \/ Mark(t) \/ Descend(t) \/ NeedTable(t) \/ Enter(t)
       \/ NoneLeft(t) \/ WithoutTable(t)

Spec == Init /\ [][Next]_vars

-----------------------------------------------------------------------------
\* The state is of the shapes the code gives it.
TypeOK ==
  /\ mem_map \in Seq({0, 1}) /\ Len(mem_map) \in Pages
  /\ table \in [Pages -> [0 .. PTRS_PER_TABLE - 1 -> 0 .. Junk]]
  /\ data \in [Pages -> Words \cup {Zero, Code, Stale, NoPage}]
  /\ task \in [Tasks -> 0 .. Len(mem_map)]
  /\ pgd \in [Tasks -> 0 .. Len(mem_map)]
  /\ user_pages \in [Tasks -> Seq(UserPages)]
  /\ ind \in Nat
  /\ pc \in [Tasks -> {"none", "kernel", "user", "see", "mark", "walk",
                       "failed", "hung", "zombie", "astray"}]
  /\ at \in [Tasks -> [job : {"none", "load", "fault", "fork"}, dst : Tasks,
                       rest : Seq(UserPages), level : TaskStruct .. Leaf,
                       page : 0 .. Len(mem_map), table : 0 .. Len(mem_map),
                       user : 0 .. Len(mem_map)]]
  /\ cpu \in Tasks \cup {Nobody}
  /\ page0 \in 0 .. Len(mem_map)
  /\ halted \in BOOLEAN

\* What can hold a page: a task_struct, a pgd, a call that has yet to enter
\* the page it has got, a word of a table, the word of page 0 that a user
\* page was entered in.
Slots == ({"task_struct", "pgd", "new"} \X Tasks) \cup {<<"page", 0>>}
   \cup ({"entry"} \X Pages \X (0 .. PTRS_PER_TABLE - 1))

Held(s) == IF s[1] = "task_struct" THEN task[s[2]]
           ELSE IF s[1] = "pgd"    THEN pgd[s[2]]
           ELSE IF s[1] = "new"    THEN at[s[2]].user
           ELSE IF s[1] = "page" THEN page0
           ELSE table[s[2]][s[3]]

\* A page that is held is marked and held once: the tables are trees, no two
\* tasks share a page of any kind, and get_free_page never hands out what is
\* in use, although its test and its mark are apart (mm.c, fork.c).
PagesOwned ==
  \A s \in Slots :
    Held(s) \in DOMAIN mem_map =>
      /\ mem_map[Held(s)] = 1
      /\ \A r \in Slots : Held(r) = Held(s) => r = s

\* Whichever page is refused, for a task, for memory or for a table, a page
\* that is marked can be found again: map_page never enters one over another,
\* in a table or in the page 0 that it takes for one (mm.c).
NoPageLost ==
  \A p \in DOMAIN mem_map : mem_map[p] = 1 => \E s \in Slots : Held(s) = p

\* mm.user_pages stays within its array, which map_page never tests: the odd
\* limit of do_mem_abort sees to it.
UserPagesFit == \A t \in Tasks : Len(user_pages[t]) <= MAX_PROCESS_PAGES

\* What a task sees through its page tables
Space(t) == CASE pc[t] = "none"             -> Unborn
              [] pc[t] \in {"hung", "zombie", "astray"} -> Ended
              [] OTHER -> [va \in UserPages |-> Content(t, va)]

Spaces == INSTANCE AddressSpaces
            WITH space <- [t \in Tasks |-> Space(t)], full <- Unmarked = {}

\* Seen through the page tables, each task has memory of its own, copied at a
\* fork and cleared when new (map_page, copy_virt_memory, do_mem_abort).
ImplementsSpaces == Spaces!Spec
=============================================================================
